-------------------------------- MODULE Shrink --------------------------------
(***************************************************************************)
(* crates/fuzz-core/src/crash.rs, shrink: reduce a crashing sequence by    *)
(* asking a detector, again and again, whether a smaller candidate still   *)
(* crashes.  Three passes: drop a prefix of halving length, drop single    *)
(* actions in one sweep, and cut the instruction data and the account list *)
(* of the actions that remain until nothing gives way.                     *)
(*                                                                         *)
(* An action is identified by its place in the original sequence.  Data is *)
(* only ever truncated and accounts only popped, so both stay prefixes of  *)
(* the original's and their lengths determine them.  The detector is any   *)
(* deterministic predicate: the set of candidates it accepts.  One step is *)
(* one turn of a loop, with every call of the detector the turn makes.     *)
(*                                                                         *)
(* An operator named Mutant... is a faulty version of the definition that  *)
(* follows it, used only to show that a property can fail.                 *)
(***************************************************************************)
EXTENDS Integers, Sequences, SequencesExt

CONSTANTS
  Original,      \* sequence.actions
  DataLengths,   \* the lengths ix_data may have while shrinking
  Detectors      \* the detectors a caller may pass, as sets of candidates

VARIABLES
  crashes,   \* the candidates crash_detector accepts
  phase,     \* the pass that runs
  minimal,   \* the sequence built so far
  step,      \* of the first pass
  i          \* the action the second or the third pass is at

vars == <<crashes, phase, minimal, step, i>>

Actions == [id : 1 .. Len(Original), ix_data : DataLengths, accounts : Nat]

\* The parameter cut of the third pass keeps the 8-byte discriminator.
Halved(len) == IF len \div 2 < 8 THEN 8 ELSE len \div 2

\* What can be made of the action a: its data and accounts or less of them, but
\* for the discriminator and one account.
Cuts(a) ==
  {c \in [id : {a.id}, ix_data : DataLengths, accounts : 0 .. a.accounts] :
     /\ c.ix_data <= a.ix_data /\ (a.ix_data >= 8 => c.ix_data >= 8)
     /\ a.accounts > 0 => c.accounts > 0}

Pieces == UNION {Cuts(Original[k]) : k \in DOMAIN Original}

\* What can be made of the original: some pieces of it in their order.
Reductions ==
  {s \in UNION {[1 .. n -> Pieces] : n \in 0 .. Len(Original)} :
     \A j, k \in DOMAIN s : j < k => s[j].id < s[k].id}

ASSUME ShrinkAssumption ==
  /\ DataLengths \subseteq Nat
  /\ \A len \in DataLengths : len > 8 => Halved(len) \in DataLengths
  /\ Original \in Seq(Actions)
  /\ \A k \in DOMAIN Original : Original[k].id = k
  /\ Detectors \subseteq SUBSET Reductions

LessData(s, j) == [s EXCEPT ![j].ix_data = Halved(s[j].ix_data)]

FewerAccounts(s, j) == [s EXCEPT ![j].accounts = s[j].accounts - 1]

MutantCutsAtEight(s, j) == s[j].ix_data >= 8

CanCutData(s, j) == s[j].ix_data > 8

CanPopAccount(s, j) == s[j].accounts > 1
--------------------------------------------------------------------------------
Init ==
  /\ crashes \in Detectors
  /\ phase = "Halve"
  /\ minimal = Original
  /\ step = Len(Original)
  /\ i = 1

(* Pass 1.  step goes down to 1 whether or not the candidates crash.        *)
HalveStep ==
  /\ phase = "Halve" /\ step > 1
  /\ step' = (step + 1) \div 2
  /\ LET candidate == SubSeq(minimal, step' + 1, Len(minimal))
     IN  minimal' = IF step' < Len(minimal) /\ candidate \in crashes THEN candidate ELSE minimal
  /\ UNCHANGED <<crashes, phase, i>>

HalveEnds ==
  /\ phase = "Halve" /\ step <= 1
  /\ phase' = "Sweep"
  /\ UNCHANGED <<crashes, minimal, step, i>>

(* Pass 2.  The place i is tried again after a removal.                      *)
SweepRemoves ==
  /\ phase = "Sweep" /\ i <= Len(minimal)
  /\ RemoveAt(minimal, i) \in crashes
  /\ minimal' = RemoveAt(minimal, i)
  /\ UNCHANGED <<crashes, phase, step, i>>

SweepKeeps ==
  /\ phase = "Sweep" /\ i <= Len(minimal)
  /\ RemoveAt(minimal, i) \notin crashes
  /\ i' = i + 1
  /\ UNCHANGED <<crashes, phase, minimal, step>>

MutantSkipsLast ==
  /\ phase = "Sweep" /\ i >= Len(minimal)
  /\ phase' = "Params" /\ i' = 1
  /\ UNCHANGED <<crashes, minimal, step>>

SweepEnds ==
  /\ phase = "Sweep" /\ i > Len(minimal)
  /\ phase' = "Params" /\ i' = 1
  /\ UNCHANGED <<crashes, minimal, step>>

(* Pass 3.  Every success starts over with the first action.                 *)
CutsData == CanCutData(minimal, i) /\ LessData(minimal, i) \in crashes

PopsAccount == CanPopAccount(minimal, i) /\ FewerAccounts(minimal, i) \in crashes

ParamsCut ==
  /\ phase = "Params" /\ i <= Len(minimal)
  /\ CutsData
  /\ minimal' = LessData(minimal, i) /\ i' = 1
  /\ UNCHANGED <<crashes, phase, step>>

MutantGoesOn ==
  /\ phase = "Params" /\ i <= Len(minimal)
  /\ ~CutsData /\ PopsAccount
  /\ minimal' = FewerAccounts(minimal, i) /\ i' = i + 1
  /\ UNCHANGED <<crashes, phase, step>>

ParamsPop ==
  /\ phase = "Params" /\ i <= Len(minimal)
  /\ ~CutsData /\ PopsAccount
  /\ minimal' = FewerAccounts(minimal, i) /\ i' = 1
  /\ UNCHANGED <<crashes, phase, step>>

MutantForgetsToRestore ==
  /\ phase = "Params" /\ i <= Len(minimal)
  /\ ~CutsData /\ ~PopsAccount
  /\ minimal' = IF CanCutData(minimal, i) THEN LessData(minimal, i) ELSE minimal
  /\ i' = i + 1
  /\ UNCHANGED <<crashes, phase, step>>

ParamsKeep ==
  /\ phase = "Params" /\ i <= Len(minimal)
  /\ ~CutsData /\ ~PopsAccount
  /\ i' = i + 1
  /\ UNCHANGED <<crashes, phase, minimal, step>>

ParamsEnd ==
  /\ phase = "Params" /\ i > Len(minimal)
  /\ phase' = "Done"
  /\ UNCHANGED <<crashes, minimal, step, i>>

Next ==
  \/ HalveStep \/ HalveEnds
  \/ SweepRemoves \/ SweepKeeps \/ SweepEnds
  \/ ParamsCut \/ ParamsPop \/ ParamsKeep \/ ParamsEnd

Spec == Init /\ [][Next]_vars /\ WF_vars(Next)
--------------------------------------------------------------------------------
(* A smaller candidate that crashes means that the larger one does: what    *)
(* greedy reduction is made for.                                            *)
OneStepReductions(s) ==
  {RemoveAt(s, j) : j \in DOMAIN s}
  \cup {LessData(s, j) : j \in {k \in DOMAIN s : CanCutData(s, k)}}
  \cup {FewerAccounts(s, j) : j \in {k \in DOMAIN s : CanPopAccount(s, k)}}

Monotone == \A s \in Reductions : OneStepReductions(s) \cap crashes # {} => s \in crashes

NoActionToDrop == \A j \in DOMAIN minimal : RemoveAt(minimal, j) \notin crashes

\* minimal is always made of the original: its actions in their order, none of
\* them twice, none with more data or accounts.
TypeOK ==
  /\ crashes \subseteq Reductions
  /\ phase \in {"Halve", "Sweep", "Params", "Done"}
  /\ minimal \in Reductions
  /\ step \in 0 .. Len(Original)
  /\ i \in 1 .. Len(minimal) + 1
  /\ phase = "Halve" => i = 1

\* A crash is never lost: at every moment minimal is the original or a candidate
\* the detector has accepted, also after a try that had to be undone.
StillCrashes == minimal = Original \/ minimal \in crashes

\* When shrink returns, no cut of the data and no pop of an account of any single
\* action would still crash, for any detector whatever.
ParamsMinimal ==
  phase = "Done" =>
    \A j \in DOMAIN minimal :
      /\ CanCutData(minimal, j) => LessData(minimal, j) \notin crashes
      /\ CanPopAccount(minimal, j) => FewerAccounts(minimal, j) \notin crashes

\* For a monotone detector the single sweep is enough: when shrink returns, no
\* action can be dropped, although the sweep came before the parameters were cut.
SweepSuffices == phase = "Done" /\ ~NoActionToDrop => ~Monotone

\* shrink returns, whatever the detector accepts.
Terminates == <>(phase = "Done")
================================================================================
