------------------------------- MODULE MCShrink -------------------------------
(* Instances of Shrink for TLC.                                              *)
EXTENDS Shrink

Act(k, d, a) == [id |-> k, ix_data |-> d, accounts |-> a]

\* Three actions with parameters, and the detectors with one or two reasons to
\* crash: closed under enlarging (monotone), or exactly those candidates.
SomeActions == <<Act(1, 20, 2), Act(2, 8, 1), Act(3, 8, 2)>>

Enlarges(s, t) ==
  \A j \in DOMAIN t : \E k \in DOMAIN s :
    s[k].id = t[j].id /\ s[k].ix_data >= t[j].ix_data /\ s[k].accounts >= t[j].accounts

UpTo2(S) == {{s, t} : s \in S, t \in S}

ReasonDetectors ==
  {{s \in Reductions : \E t \in R : Enlarges(s, t)} : R \in UpTo2(Reductions)}
  \cup UpTo2(Reductions)
  \cup {Reductions \ R : R \in UpTo2(Reductions)}
================================================================================
