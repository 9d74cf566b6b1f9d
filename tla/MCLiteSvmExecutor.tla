--------------------------- MODULE MCLiteSvmExecutor ---------------------------
(* Instances of LiteSvmExecutor for TLC: two slots over three addresses.     *)
EXTENDS LiteSvmExecutor

Acc(k, o, l, w, s) ==
  [key |-> k, owner |-> o, lamports |-> l, data |-> NoData,
   is_writable |-> w, is_signer |-> s, seeds |-> "None"]

MCConfig == [m \in Mutations |-> {FALSE}]

\* Agreeing slices, a stale one, one with a duplicated key, one whose second
\* owner does not parse and one whose second key does not.
MCSlices ==
  {[i \in Idx |-> IF i = 1 THEN Acc("k1", "sys", 1, TRUE, FALSE) ELSE x] :
     x \in {Acc("k2", "sys", 1, FALSE, FALSE), Acc("k2", "sys", 0, TRUE, FALSE),
            Acc("k1", "sys", 2, TRUE, FALSE),
            Acc("k2", BadStr, 1, TRUE, FALSE), Acc(BadStr, "sys", 1, TRUE, FALSE)}}

\* An account the slices may come to hold when they are read back.
MCRefused == {<<"k2", [owner |-> "sys", lamports |-> 2, data |-> NoData]>>}

MCActions ==
  {[program_id |-> "prog", accounts |-> a] :
     a \in {{Acc("k1", "sys", 1, TRUE, FALSE), Acc("k2", "sys", 1, TRUE, FALSE)},
            {Acc("k1", "sys", 1, TRUE, FALSE), Acc("k3", "sys", 1, FALSE, FALSE)},
            {Acc("k2", "sys", 1, TRUE, FALSE), Acc("k3", "sys", 0, TRUE, FALSE)},
            {Acc("k1", "sys", 1, TRUE, TRUE)}}}
  \cup {[program_id |-> BadStr, accounts |-> {}]}
================================================================================
