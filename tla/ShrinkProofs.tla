----------------------------- MODULE ShrinkProofs -----------------------------
(***************************************************************************)
(* Theorems about Shrink, for every sequence and every detector.  The      *)
(* lemmas before them say what one step of reduction does to a sequence.   *)
(***************************************************************************)
EXTENDS Shrink, SequenceTheorems, FiniteSetTheorems, TLAPS

\* A sequence without its j-th element, as a function (Vec::remove).
LEMMA RemoveAtIsFunction ==
  ASSUME NEW S, NEW s \in Seq(S), NEW j \in 1 .. Len(s)
  PROVE  /\ RemoveAt(s, j) = [k \in 1 .. Len(s) - 1 |-> IF k < j THEN s[k] ELSE s[k + 1]]
         /\ RemoveAt(s, j) \in Seq(S)
         /\ Len(RemoveAt(s, j)) = Len(s) - 1
<1> DEFINE front == SubSeq(s, 1, j - 1)
           back == SubSeq(s, j + 1, Len(s))
<1>1. /\ front \in Seq(S) /\ Len(front) = j - 1
      /\ \A k \in 1 .. j - 1 : front[k] = s[k]
  BY SubSeqProperties
<1>2. /\ back \in Seq(S) /\ Len(back) = Len(s) - j
      /\ \A k \in 1 .. Len(s) - j : back[k] = s[j + k]
  <2>1. \A k \in j + 1 .. Len(s) : s[k] \in S
    OBVIOUS
  <2>2. /\ back \in Seq(S)
        /\ Len(back) = IF j + 1 <= Len(s) THEN Len(s) - (j + 1) + 1 ELSE 0
        /\ \A k \in 1 .. Len(s) - (j + 1) + 1 : back[k] = s[j + 1 + k - 1]
    BY <2>1, SubSeqProperties
  <2> QED
    BY <2>2
<1> HIDE DEF front, back
<1>3. /\ front \o back \in Seq(S)
      /\ Len(front \o back) = Len(s) - 1
      /\ \A k \in 1 .. Len(s) - 1 :
           (front \o back)[k] = IF k <= j - 1 THEN front[k] ELSE back[k - (j - 1)]
  <2>1. /\ front \o back \in Seq(S)
        /\ Len(front \o back) = Len(front) + Len(back)
        /\ \A k \in 1 .. Len(front) + Len(back) :
             (front \o back)[k] = IF k <= Len(front) THEN front[k] ELSE back[k - Len(front)]
    BY <1>1, <1>2, ConcatProperties
  <2>2. Len(front) + Len(back) = Len(s) - 1
    BY <1>1, <1>2
  <2> QED
    BY <1>1, <2>1, <2>2
<1>4. \A k \in 1 .. Len(s) - 1 : (front \o back)[k] = IF k < j THEN s[k] ELSE s[k + 1]
  BY <1>1, <1>2, <1>3
<1>5. RemoveAt(s, j) = front \o back
  BY DEF RemoveAt, front, back
<1> DEFINE t == [k \in 1 .. Len(s) - 1 |-> IF k < j THEN s[k] ELSE s[k + 1]]
<1>6. t \in Seq(S) /\ Len(t) = Len(s) - 1
  <2>1. Len(s) - 1 \in Nat /\ \A k \in 1 .. Len(s) - 1 : t[k] \in S
    OBVIOUS
  <2> QED
    BY <2>1
<1>7. front \o back = t
  <2>1. \A k \in 1 .. Len(s) - 1 : t[k] = IF k < j THEN s[k] ELSE s[k + 1]
    OBVIOUS
  <2> HIDE DEF t
  <2> QED
    BY <1>3, <1>4, <1>6, <2>1, SeqEqual
<1> QED
  BY <1>3, <1>5, <1>7

\* What it means to be a reduction of the original.
LEMMA ReductionsAre ==
  \A s : s \in Reductions <=>
           /\ s \in Seq(Pieces) /\ Len(s) <= Len(Original)
           /\ \A j, k \in 1 .. Len(s) : j < k => s[j].id < s[k].id
<1>1. Len(Original) \in Nat
  BY ShrinkAssumption
<1> QED
  BY <1>1 DEF Reductions

LEMMA PiecesAre ==
  \A c \in Pieces : /\ c.id \in 1 .. Len(Original) /\ c.ix_data \in DataLengths /\ c.accounts \in Nat
                    /\ c = [id |-> c.id, ix_data |-> c.ix_data, accounts |-> c.accounts]
<1> SUFFICES ASSUME NEW c \in Pieces
             PROVE  /\ c.id \in 1 .. Len(Original) /\ c.ix_data \in DataLengths
                    /\ c.accounts \in Nat
                    /\ c = [id |-> c.id, ix_data |-> c.ix_data, accounts |-> c.accounts]
  OBVIOUS
<1>1. PICK k \in DOMAIN Original : c \in Cuts(Original[k])
  BY DEF Pieces
<1>2. Original[k] \in Actions /\ Original[k].id = k /\ k \in 1 .. Len(Original)
  BY ShrinkAssumption
<1>3. Original[k].accounts \in Nat
  BY <1>2 DEF Actions
<1>4. c \in [id : {Original[k].id}, ix_data : DataLengths, accounts : 0 .. Original[k].accounts]
  BY <1>1 DEF Cuts
<1> QED
  BY <1>2, <1>3, <1>4

LEMMA OriginalIsReduction == Original \in Reductions
<1>1. \A k \in 1 .. Len(Original) : Original[k] \in Cuts(Original[k])
  <2>1. \A a \in Actions : a.ix_data \in Nat /\ a \in Cuts(a)
    <3> SUFFICES ASSUME NEW a \in Actions PROVE a.ix_data \in Nat /\ a \in Cuts(a)
      OBVIOUS
    <3>1. /\ a = [id |-> a.id, ix_data |-> a.ix_data, accounts |-> a.accounts]
          /\ a.ix_data \in DataLengths /\ a.accounts \in Nat
      BY DEF Actions
    <3>2. a.ix_data \in Nat
      BY <3>1, ShrinkAssumption
    <3>3. a \in [id : {a.id}, ix_data : DataLengths, accounts : 0 .. a.accounts]
      BY <3>1
    <3> QED
      BY <3>1, <3>2, <3>3 DEF Cuts
  <2> QED
    BY <2>1, ShrinkAssumption
<1>2. Original \in Seq(Pieces)
  BY <1>1, ShrinkAssumption DEF Pieces
<1> QED
  BY <1>2, ReductionsAre, ShrinkAssumption

LEMMA RemoveAtReduces ==
  ASSUME NEW s \in Reductions, NEW j \in 1 .. Len(s)
  PROVE  RemoveAt(s, j) \in Reductions
<1>1. /\ s \in Seq(Pieces) /\ Len(s) <= Len(Original)
      /\ \A k, l \in 1 .. Len(s) : k < l => s[k].id < s[l].id
  BY ReductionsAre
<1>2. /\ RemoveAt(s, j) = [k \in 1 .. Len(s) - 1 |-> IF k < j THEN s[k] ELSE s[k + 1]]
      /\ RemoveAt(s, j) \in Seq(Pieces) /\ Len(RemoveAt(s, j)) = Len(s) - 1
  BY <1>1, RemoveAtIsFunction
<1> DEFINE r == RemoveAt(s, j)
<1> HIDE DEF r
<1>3. \A k, l \in 1 .. Len(r) : k < l => r[k].id < r[l].id
  <2>1. /\ Len(r) = Len(s) - 1 /\ Len(s) \in Nat
        /\ \A k \in 1 .. Len(s) - 1 : r[k] = IF k < j THEN s[k] ELSE s[k + 1]
    BY <1>1, <1>2 DEF r
  <2>2. \A k \in 1 .. Len(s) : s[k].id \in Nat
    BY <1>1, PiecesAre, ShrinkAssumption
  <2> SUFFICES ASSUME NEW k \in 1 .. Len(r), NEW l \in 1 .. Len(r), k < l
               PROVE  r[k].id < r[l].id
    OBVIOUS
  <2>3. CASE l < j
    BY <1>1, <2>1, <2>3
  <2>4. CASE k < j /\ ~(l < j)
    BY <1>1, <2>1, <2>4
  <2>5. CASE ~(k < j)
    BY <1>1, <2>1, <2>5
  <2> QED
    BY <2>3, <2>4, <2>5, <2>1
<1>4. Len(r) <= Len(Original)
  BY <1>1, <1>2, ShrinkAssumption DEF r
<1> QED
  BY <1>2, <1>3, <1>4, ReductionsAre DEF r

LEMMA SuffixReduces ==
  ASSUME NEW s \in Reductions, NEW n \in 0 .. Len(s)
  PROVE  /\ SubSeq(s, n + 1, Len(s)) \in Reductions
         /\ Len(SubSeq(s, n + 1, Len(s))) = Len(s) - n
<1>1. /\ s \in Seq(Pieces) /\ Len(s) <= Len(Original)
      /\ \A k, l \in 1 .. Len(s) : k < l => s[k].id < s[l].id
  BY ReductionsAre
<1> DEFINE r == SubSeq(s, n + 1, Len(s))
<1>2. \A k \in n + 1 .. Len(s) : s[k] \in Pieces
  BY <1>1
<1>3. /\ r \in Seq(Pieces)
      /\ Len(r) = IF n + 1 <= Len(s) THEN Len(s) - (n + 1) + 1 ELSE 0
      /\ \A k \in 1 .. Len(s) - (n + 1) + 1 : r[k] = s[n + 1 + k - 1]
  BY <1>1, <1>2, SubSeqProperties
<1>4. Len(r) = Len(s) - n /\ \A k \in 1 .. Len(s) - n : r[k] = s[n + k]
  BY <1>1, <1>3
<1> HIDE DEF r
<1>5. \A k, l \in 1 .. Len(r) : k < l => r[k].id < r[l].id
  BY <1>1, <1>4
<1>6. Len(r) <= Len(Original)
  BY <1>1, <1>4, ShrinkAssumption
<1> QED
  BY <1>3, <1>4, <1>5, <1>6, ReductionsAre DEF r

\* Replacing an element by a cut of it.
LEMMA CutReduces ==
  ASSUME NEW s \in Reductions, NEW j \in 1 .. Len(s), NEW c \in Pieces, c.id = s[j].id
  PROVE  [s EXCEPT ![j] = c] \in Reductions
<1>1. /\ s \in Seq(Pieces) /\ Len(s) <= Len(Original)
      /\ \A k, l \in 1 .. Len(s) : k < l => s[k].id < s[l].id
  BY ReductionsAre
<1> DEFINE r == [s EXCEPT ![j] = c]
<1>2. /\ r \in Seq(Pieces) /\ Len(r) = Len(s)
      /\ \A k \in 1 .. Len(s) : r[k] = IF k = j THEN c ELSE s[k]
  BY <1>1, ExceptSeq
<1> HIDE DEF r
<1>3. \A k, l \in 1 .. Len(r) : k < l => r[k].id < r[l].id
  BY <1>1, <1>2
<1> QED
  BY <1>1, <1>2, <1>3, ReductionsAre DEF r

DataCut(c) == [c EXCEPT !.ix_data = Halved(c.ix_data)]

AccountCut(c) == [c EXCEPT !.accounts = c.accounts - 1]

\* Cutting long data makes it shorter, but not shorter than the discriminator.
LEMMA HalvedBounds ==
  \A len \in Nat : len > 8 => Halved(len) \in 8 .. len - 1
<1>1. \A len \in Nat : len > 8 => len \div 2 \in Nat /\ len \div 2 < len
  OBVIOUS
<1> QED
  BY <1>1 DEF Halved

\* Both cuts of a piece are pieces of the same action.
LEMMA CutsArePieces ==
  ASSUME NEW c \in Pieces
  PROVE  /\ c.ix_data > 8 => DataCut(c) \in Pieces /\ DataCut(c).id = c.id
         /\ c.accounts > 1 => AccountCut(c) \in Pieces /\ AccountCut(c).id = c.id
<1>1. PICK k \in DOMAIN Original : c \in Cuts(Original[k])
  BY DEF Pieces
<1>2. Original[k] \in Actions
  BY ShrinkAssumption
<1>3. DataLengths \subseteq Nat /\ \A len \in DataLengths : len > 8 => Halved(len) \in DataLengths
  BY ShrinkAssumption
<1>4. /\ c \in [id : {Original[k].id}, ix_data : DataLengths, accounts : 0 .. Original[k].accounts]
      /\ c.ix_data <= Original[k].ix_data /\ (Original[k].ix_data >= 8 => c.ix_data >= 8)
      /\ Original[k].accounts > 0 => c.accounts > 0
  BY <1>1 DEF Cuts
<1>5. ASSUME c.ix_data > 8 PROVE DataCut(c) \in Pieces /\ DataCut(c).id = c.id
  <2>1. Halved(c.ix_data) \in DataLengths /\ Halved(c.ix_data) <= c.ix_data /\ Halved(c.ix_data) >= 8
    <3>1. c.ix_data \in DataLengths /\ c.ix_data \in Nat
      BY <1>3, <1>4
    <3>2. Halved(c.ix_data) \in 8 .. c.ix_data - 1
      BY <1>5, <3>1, HalvedBounds
    <3>3. Halved(c.ix_data) \in DataLengths
      BY <1>3, <1>5, <3>1
    <3> QED
      BY <3>1, <3>2, <3>3
  <2>2. DataCut(c) \in Cuts(Original[k])
    BY <1>2, <1>3, <1>4, <2>1 DEF Cuts, DataCut, Actions
  <2> QED
    BY <1>4, <2>2 DEF Pieces, DataCut
<1>6. ASSUME c.accounts > 1 PROVE AccountCut(c) \in Pieces /\ AccountCut(c).id = c.id
  <2>1. AccountCut(c) \in Cuts(Original[k])
    BY <1>2, <1>4, <1>6 DEF Cuts, AccountCut, Actions
  <2> QED
    BY <1>4, <2>1 DEF Pieces, AccountCut
<1> QED
  BY <1>5, <1>6

LEMMA LessDataReduces ==
  ASSUME NEW s \in Reductions, NEW j \in 1 .. Len(s), CanCutData(s, j)
  PROVE  LessData(s, j) \in Reductions /\ Len(LessData(s, j)) = Len(s)
<1>1. s \in Seq(Pieces)
  BY ReductionsAre
<1>2. LessData(s, j) = [s EXCEPT ![j] = DataCut(s[j])]
  BY <1>1 DEF LessData, DataCut
<1>3. DataCut(s[j]) \in Pieces /\ DataCut(s[j]).id = s[j].id
  BY <1>1, CutsArePieces DEF CanCutData
<1>4. [s EXCEPT ![j] = DataCut(s[j])] \in Reductions
  BY <1>3, CutReduces
<1>5. Len([s EXCEPT ![j] = DataCut(s[j])]) = Len(s)
  BY <1>1, <1>3, ExceptSeq
<1> QED
  BY <1>2, <1>4, <1>5

LEMMA FewerAccountsReduces ==
  ASSUME NEW s \in Reductions, NEW j \in 1 .. Len(s), CanPopAccount(s, j)
  PROVE  FewerAccounts(s, j) \in Reductions /\ Len(FewerAccounts(s, j)) = Len(s)
<1>1. s \in Seq(Pieces)
  BY ReductionsAre
<1>2. FewerAccounts(s, j) = [s EXCEPT ![j] = AccountCut(s[j])]
  BY <1>1 DEF FewerAccounts, AccountCut
<1>3. AccountCut(s[j]) \in Pieces /\ AccountCut(s[j]).id = s[j].id
  BY <1>1, CutsArePieces DEF CanPopAccount
<1>4. [s EXCEPT ![j] = AccountCut(s[j])] \in Reductions
  BY <1>3, CutReduces
<1>5. Len([s EXCEPT ![j] = AccountCut(s[j])]) = Len(s)
  BY <1>1, <1>3, ExceptSeq
<1> QED
  BY <1>2, <1>4, <1>5
--------------------------------------------------------------------------------
\* The program counter, the positions and the shape of minimal, in every state of
\* shrink (crash.rs:99-179): no index is ever out of range.
THEOREM TypeCorrect == Spec => []TypeOK
<1>1. Init => TypeOK
  BY ShrinkAssumption, OriginalIsReduction DEF Init, TypeOK
<1>2. TypeOK /\ [Next]_vars => TypeOK'
  <2> SUFFICES ASSUME TypeOK, [Next]_vars PROVE TypeOK'
    OBVIOUS
  <2> USE DEF TypeOK
  <2>0. Len(minimal) \in Nat /\ Len(Original) \in Nat
    BY ReductionsAre, ShrinkAssumption
  <2>1. CASE HalveStep
    <3>1. step' \in 0 .. Len(Original)
      BY <2>0, <2>1 DEF HalveStep
    <3>2. minimal' \in Reductions
      BY <2>0, <2>1, <3>1, SuffixReduces DEF HalveStep
    <3>3. Len(minimal') \in Nat
      BY <3>2, ReductionsAre
    <3> QED
      BY <2>0, <2>1, <3>1, <3>2, <3>3 DEF HalveStep
  <2>2. CASE HalveEnds
    BY <2>0, <2>2 DEF HalveEnds
  <2>3. CASE SweepRemoves
    <3>1. i \in 1 .. Len(minimal)
      BY <2>0, <2>3 DEF SweepRemoves
    <3>2. minimal' \in Reductions
      BY <2>3, <3>1, RemoveAtReduces DEF SweepRemoves
    <3>3. Len(minimal') = Len(minimal) - 1
      BY <2>3, <3>1, ReductionsAre, RemoveAtIsFunction DEF SweepRemoves
    <3> QED
      BY <2>0, <2>3, <3>1, <3>2, <3>3 DEF SweepRemoves
  <2>4. CASE SweepKeeps
    BY <2>0, <2>4 DEF SweepKeeps
  <2>5. CASE SweepEnds
    BY <2>0, <2>5 DEF SweepEnds
  <2>6. CASE ParamsCut
    <3>1. i \in 1 .. Len(minimal) /\ CanCutData(minimal, i)
      BY <2>0, <2>6 DEF ParamsCut, CutsData
    <3> QED
      BY <2>0, <2>6, <3>1, LessDataReduces DEF ParamsCut
  <2>7. CASE ParamsPop
    <3>1. i \in 1 .. Len(minimal) /\ CanPopAccount(minimal, i)
      BY <2>0, <2>7 DEF ParamsPop, PopsAccount
    <3> QED
      BY <2>0, <2>7, <3>1, FewerAccountsReduces DEF ParamsPop
  <2>8. CASE ParamsKeep
    BY <2>0, <2>8 DEF ParamsKeep
  <2>9. CASE ParamsEnd
    BY <2>0, <2>9 DEF ParamsEnd
  <2>10. CASE UNCHANGED vars
    BY <2>10 DEF vars
  <2> QED
    BY <2>1, <2>2, <2>3, <2>4, <2>5, <2>6, <2>7, <2>8, <2>9, <2>10 DEF Next
<1> QED
  BY <1>1, <1>2, PTL DEF Spec

\* A crash is never lost: a candidate replaces minimal only when the detector has
\* accepted it, and a try that fails is undone (crash.rs:111, 129, 150, 166).
THEOREM CrashIsKept == Spec => []StillCrashes
<1>1. Init => StillCrashes
  BY DEF Init, StillCrashes
<1>2. StillCrashes /\ [Next]_vars => StillCrashes'
  <2> SUFFICES ASSUME StillCrashes, [Next]_vars PROVE StillCrashes'
    OBVIOUS
  <2>1. CASE HalveStep
    BY <2>1 DEF HalveStep, StillCrashes
  <2>2. CASE SweepRemoves
    BY <2>2 DEF SweepRemoves, StillCrashes
  <2>3. CASE ParamsCut
    BY <2>3 DEF ParamsCut, CutsData, StillCrashes
  <2>4. CASE ParamsPop
    BY <2>4 DEF ParamsPop, PopsAccount, StillCrashes
  <2>5. CASE HalveEnds \/ SweepKeeps \/ SweepEnds \/ ParamsKeep \/ ParamsEnd \/ UNCHANGED vars
    BY <2>5 DEF HalveEnds, SweepKeeps, SweepEnds, ParamsKeep, ParamsEnd, vars, StillCrashes
  <2> QED
    BY <2>1, <2>2, <2>3, <2>4, <2>5 DEF Next
<1> QED
  BY <1>1, <1>2, PTL DEF Spec
--------------------------------------------------------------------------------
Tight(j) ==
  /\ CanCutData(minimal, j) => LessData(minimal, j) \notin crashes
  /\ CanPopAccount(minimal, j) => FewerAccounts(minimal, j) \notin crashes

\* The third pass has tried everything before the place it is at.
ParamsInv ==
  /\ phase = "Params" => \A j \in 1 .. i - 1 : Tight(j)
  /\ phase = "Done" => \A j \in 1 .. Len(minimal) : Tight(j)

\* The third pass ends in a fixed point for every detector, because it starts over
\* after every success (crash.rs:139-179).
THEOREM ParamsAreMinimal == Spec => []ParamsMinimal
<1>1. Init => ParamsInv
  BY DEF Init, ParamsInv
<1>2. TypeOK /\ ParamsInv /\ [Next]_vars => ParamsInv'
  <2> SUFFICES ASSUME TypeOK, ParamsInv, [Next]_vars PROVE ParamsInv'
    OBVIOUS
  <2>0. Len(minimal) \in Nat /\ i \in 1 .. Len(minimal) + 1
    BY ReductionsAre DEF TypeOK
  <2>1. CASE HalveStep \/ HalveEnds \/ SweepRemoves \/ SweepKeeps
    BY <2>1 DEF ParamsInv, HalveStep, HalveEnds, SweepRemoves, SweepKeeps
  <2>2. CASE SweepEnds \/ ParamsCut \/ ParamsPop
    BY <2>2 DEF ParamsInv, SweepEnds, ParamsCut, ParamsPop
  <2>3. CASE ParamsKeep
    <3>1. Tight(i)
      BY <2>3 DEF ParamsKeep, CutsData, PopsAccount, Tight
    <3>2. \A j \in 1 .. i' - 1 : Tight(j)
      BY <2>0, <2>3, <3>1 DEF ParamsKeep, ParamsInv
    <3> QED
      BY <2>3, <3>2 DEF ParamsKeep, ParamsInv, Tight
  <2>4. CASE ParamsEnd
    <3>1. \A j \in 1 .. Len(minimal) : Tight(j)
      BY <2>0, <2>4 DEF ParamsEnd, ParamsInv
    <3> QED
      BY <2>4, <3>1 DEF ParamsEnd, ParamsInv, Tight
  <2>5. CASE UNCHANGED vars
    BY <2>5 DEF vars, ParamsInv, Tight
  <2> QED
    BY <2>1, <2>2, <2>3, <2>4, <2>5 DEF Next
<1>3. TypeOK /\ ParamsInv => ParamsMinimal
  <2> SUFFICES ASSUME TypeOK, ParamsInv, phase = "Done", NEW j \in DOMAIN minimal PROVE Tight(j)
    BY DEF ParamsMinimal, Tight
  <2>1. DOMAIN minimal = 1 .. Len(minimal)
    BY ReductionsAre DEF TypeOK
  <2> QED
    BY <2>1 DEF ParamsInv
<1> QED
  BY <1>1, <1>2, <1>3, TypeCorrect, PTL DEF Spec
--------------------------------------------------------------------------------
\* Two removals commute, but for the place of the later one.
LEMMA RemoveTwice ==
  ASSUME NEW S, NEW s \in Seq(S), NEW k \in 1 .. Len(s), NEW j \in 1 .. k - 1
  PROVE  RemoveAt(RemoveAt(s, k), j) = RemoveAt(RemoveAt(s, j), k - 1)
<1> DEFINE a == RemoveAt(s, k)
           b == RemoveAt(s, j)
<1>1. /\ a \in Seq(S) /\ Len(a) = Len(s) - 1
      /\ a = [l \in 1 .. Len(s) - 1 |-> IF l < k THEN s[l] ELSE s[l + 1]]
  BY RemoveAtIsFunction
<1>2. /\ b \in Seq(S) /\ Len(b) = Len(s) - 1
      /\ b = [l \in 1 .. Len(s) - 1 |-> IF l < j THEN s[l] ELSE s[l + 1]]
  BY j \in 1 .. Len(s), RemoveAtIsFunction
<1> HIDE DEF a, b
<1>3. RemoveAt(a, j) = [l \in 1 .. Len(a) - 1 |-> IF l < j THEN a[l] ELSE a[l + 1]]
  <2>1. j \in 1 .. Len(a)
    BY <1>1
  <2>2. a \in Seq(S)
    BY <1>1
  <2> QED
    BY <2>1, <2>2, RemoveAtIsFunction
<1>4. RemoveAt(b, k - 1) = [l \in 1 .. Len(b) - 1 |-> IF l < k - 1 THEN b[l] ELSE b[l + 1]]
  <2>1. k - 1 \in 1 .. Len(b)
    BY <1>2
  <2>2. b \in Seq(S)
    BY <1>2
  <2> QED
    BY <2>1, <2>2, RemoveAtIsFunction
<1>5. \A l \in 1 .. Len(s) - 2 :
        (IF l < j THEN a[l] ELSE a[l + 1]) = (IF l < k - 1 THEN b[l] ELSE b[l + 1])
  BY <1>1, <1>2
<1>6. RemoveAt(a, j) = RemoveAt(b, k - 1)
  <2>1. Len(a) - 1 = Len(s) - 2 /\ Len(b) - 1 = Len(s) - 2
    BY <1>1, <1>2
  <2> QED
    BY <1>3, <1>4, <1>5, <2>1
<1> QED
  BY <1>6 DEF a, b

Replaced(s, k, e) == [s EXCEPT ![k] = e]

\* A removal commutes with a replacement, or makes it void.
LEMMA RemoveReplaced ==
  ASSUME NEW S, NEW s \in Seq(S), NEW k \in 1 .. Len(s), NEW e \in S, NEW j \in 1 .. Len(s)
  PROVE  /\ j = k => RemoveAt(Replaced(s, k, e), j) = RemoveAt(s, j)
         /\ j < k => RemoveAt(Replaced(s, k, e), j) = Replaced(RemoveAt(s, j), k - 1, e)
         /\ j > k => RemoveAt(Replaced(s, k, e), j) = Replaced(RemoveAt(s, j), k, e)
<1> DEFINE t == [s EXCEPT ![k] = e]
           b == RemoveAt(s, j)
<1>1. /\ t \in Seq(S) /\ Len(t) = Len(s)
      /\ \A l \in 1 .. Len(s) : t[l] = IF l = k THEN e ELSE s[l]
  BY ExceptSeq
<1>2. /\ b \in Seq(S) /\ Len(b) = Len(s) - 1
      /\ b = [l \in 1 .. Len(s) - 1 |-> IF l < j THEN s[l] ELSE s[l + 1]]
  BY RemoveAtIsFunction
<1> HIDE DEF t, b
<1>3. RemoveAt(t, j) = [l \in 1 .. Len(s) - 1 |-> IF l < j THEN t[l] ELSE t[l + 1]]
  <2>1. j \in 1 .. Len(t)
    BY <1>1
  <2>2. RemoveAt(t, j) = [l \in 1 .. Len(t) - 1 |-> IF l < j THEN t[l] ELSE t[l + 1]]
    BY <1>1, <2>1, RemoveAtIsFunction
  <2> QED
    BY <1>1, <2>2
<1>4. ASSUME j = k PROVE RemoveAt(t, j) = b
  BY <1>1, <1>2, <1>3, <1>4
<1>5. /\ RemoveAt(t, j) \in Seq(S) /\ Len(RemoveAt(t, j)) = Len(s) - 1
      /\ \A l \in 1 .. Len(s) - 1 : RemoveAt(t, j)[l] = IF l < j THEN t[l] ELSE t[l + 1]
  <2>1. j \in 1 .. Len(t)
    BY <1>1
  <2>2. RemoveAt(t, j) \in Seq(S) /\ Len(RemoveAt(t, j)) = Len(s) - 1
    BY <1>1, <2>1, RemoveAtIsFunction
  <2> QED
    BY <1>3, <2>2
<1>6. ASSUME NEW m \in 1 .. Len(s) - 1,
             \A l \in 1 .. Len(s) - 1 :
               (IF l < j THEN t[l] ELSE t[l + 1]) = (IF l = m THEN e ELSE b[l])
      PROVE  RemoveAt(t, j) = [b EXCEPT ![m] = e]
  <2>1. /\ [b EXCEPT ![m] = e] \in Seq(S) /\ Len([b EXCEPT ![m] = e]) = Len(s) - 1
        /\ \A l \in 1 .. Len(s) - 1 : [b EXCEPT ![m] = e][l] = IF l = m THEN e ELSE b[l]
    <3>1. m \in 1 .. Len(b)
      BY <1>2
    <3> QED
      BY <1>2, <3>1, ExceptSeq
  <2> DEFINE r == RemoveAt(t, j)
             c == [b EXCEPT ![m] = e]
  <2>2. /\ r \in Seq(S) /\ c \in Seq(S) /\ Len(r) = Len(s) - 1 /\ Len(c) = Len(s) - 1
        /\ \A l \in 1 .. Len(s) - 1 : r[l] = c[l]
    BY <1>5, <1>6, <2>1
  <2> HIDE DEF r, c
  <2>3. r = c
    BY <2>2, SeqEqual
  <2> QED
    BY <2>3 DEF r, c
<1>7. ASSUME j < k PROVE RemoveAt(t, j) = [b EXCEPT ![k - 1] = e]
  <2>1. \A l \in 1 .. Len(s) - 1 :
          (IF l < j THEN t[l] ELSE t[l + 1]) = (IF l = k - 1 THEN e ELSE b[l])
    BY <1>1, <1>2, <1>7
  <2>2. k - 1 \in 1 .. Len(s) - 1
    BY <1>7
  <2> QED
    BY <1>6, <2>1, <2>2
<1>8. ASSUME j > k PROVE RemoveAt(t, j) = [b EXCEPT ![k] = e]
  <2>1. \A l \in 1 .. Len(s) - 1 :
          (IF l < j THEN t[l] ELSE t[l + 1]) = (IF l = k THEN e ELSE b[l])
    BY <1>1, <1>2, <1>8
  <2>2. k \in 1 .. Len(s) - 1
    BY <1>8
  <2> QED
    BY <1>6, <2>1, <2>2
<1> QED
  BY <1>4, <1>7, <1>8 DEF t, b, Replaced

\* The place of the k-th action once the j-th is gone.
Shifted(j, k) == IF j < k THEN k - 1 ELSE k

\* If an action can be dropped after a step of reduction, it could be dropped before.
LEMMA DropsComeFirst ==
  ASSUME NEW s \in Reductions, Monotone, NEW j \in 1 .. Len(s), RemoveAt(s, j) \notin crashes
  PROVE  /\ \A k \in j + 1 .. Len(s) : RemoveAt(RemoveAt(s, k), j) \notin crashes
         /\ \A k \in 1 .. Len(s) : CanCutData(s, k) => RemoveAt(LessData(s, k), j) \notin crashes
         /\ \A k \in 1 .. Len(s) :
              CanPopAccount(s, k) => RemoveAt(FewerAccounts(s, k), j) \notin crashes
<1> DEFINE b == RemoveAt(s, j)
<1>1. s \in Seq(Pieces)
  BY ReductionsAre
<1>2. /\ b \in Reductions /\ b \in Seq(Pieces) /\ Len(b) = Len(s) - 1
      /\ \A l \in 1 .. Len(s) - 1 : b[l] = IF l < j THEN s[l] ELSE s[l + 1]
  BY <1>1, RemoveAtIsFunction, RemoveAtReduces
<1>3. DOMAIN b = 1 .. Len(s) - 1
  BY <1>2
<1>4. OneStepReductions(b) \cap crashes = {}
  BY <1>2 DEF Monotone
<1> HIDE DEF b
<1>5. ASSUME NEW k \in j + 1 .. Len(s) PROVE RemoveAt(RemoveAt(s, k), j) \notin crashes
  <2>1. RemoveAt(RemoveAt(s, k), j) = RemoveAt(b, k - 1)
    BY <1>1, RemoveTwice DEF b
  <2>2. k - 1 \in DOMAIN b
    BY <1>3
  <2> QED
    BY <1>4, <2>1, <2>2 DEF OneStepReductions
<1>6. ASSUME NEW k \in 1 .. Len(s), k # j
      PROVE  /\ Shifted(j, k) \in DOMAIN b
             /\ b[Shifted(j, k)] = s[k]
             /\ \A e \in Pieces : RemoveAt(Replaced(s, k, e), j) = Replaced(b, Shifted(j, k), e)
  <2>1. Shifted(j, k) \in DOMAIN b /\ b[Shifted(j, k)] = s[k]
    BY <1>2, <1>3, <1>6 DEF Shifted
  <2>2. ASSUME NEW e \in Pieces
        PROVE  RemoveAt(Replaced(s, k, e), j) = Replaced(b, Shifted(j, k), e)
    <3>1. CASE j < k
      BY <1>1, <3>1, RemoveReplaced DEF Shifted, b
    <3>2. CASE j > k
      <4>1. ~(j < k)
        BY <3>2
      <4> QED
        BY <1>1, <3>2, <4>1, RemoveReplaced DEF Shifted, b
    <3> QED
      BY <1>6, <3>1, <3>2
  <2> QED
    BY <2>1, <2>2
<1>7. ASSUME NEW k \in 1 .. Len(s), CanCutData(s, k)
      PROVE  RemoveAt(LessData(s, k), j) \notin crashes
  <2>1. LessData(s, k) = Replaced(s, k, DataCut(s[k])) /\ DataCut(s[k]) \in Pieces
    <3>1. s[k] \in Pieces /\ s[k].ix_data > 8
      BY <1>1, <1>7 DEF CanCutData
    <3>2. DataCut(s[k]) \in Pieces
      BY <3>1, CutsArePieces
    <3> QED
      BY <3>2 DEF LessData, DataCut, Replaced
  <2>2. CASE k = j
    BY <1>1, <2>1, <2>2, RemoveReplaced
  <2>3. CASE k # j
    <3>1. RemoveAt(LessData(s, k), j) = Replaced(b, Shifted(j, k), DataCut(b[Shifted(j, k)]))
      BY <1>6, <2>1, <2>3
    <3>2. CanCutData(b, Shifted(j, k)) /\ Shifted(j, k) \in DOMAIN b
      BY <1>6, <1>7, <2>3 DEF CanCutData
    <3>3. RemoveAt(LessData(s, k), j) = LessData(b, Shifted(j, k))
      BY <3>1, <3>2 DEF LessData, DataCut, Replaced
    <3> QED
      BY <1>4, <3>2, <3>3 DEF OneStepReductions
  <2> QED
    BY <2>2, <2>3
<1>8. ASSUME NEW k \in 1 .. Len(s), CanPopAccount(s, k)
      PROVE  RemoveAt(FewerAccounts(s, k), j) \notin crashes
  <2>1. FewerAccounts(s, k) = Replaced(s, k, AccountCut(s[k])) /\ AccountCut(s[k]) \in Pieces
    <3>1. s[k] \in Pieces /\ s[k].accounts > 1
      BY <1>1, <1>8 DEF CanPopAccount
    <3>2. AccountCut(s[k]) \in Pieces
      BY <3>1, CutsArePieces
    <3> QED
      BY <3>2 DEF FewerAccounts, AccountCut, Replaced
  <2>2. CASE k = j
    BY <1>1, <2>1, <2>2, RemoveReplaced
  <2>3. CASE k # j
    <3>1. RemoveAt(FewerAccounts(s, k), j) = Replaced(b, Shifted(j, k), AccountCut(b[Shifted(j, k)]))
      BY <1>6, <2>1, <2>3
    <3>2. CanPopAccount(b, Shifted(j, k)) /\ Shifted(j, k) \in DOMAIN b
      BY <1>6, <1>8, <2>3 DEF CanPopAccount
    <3>3. RemoveAt(FewerAccounts(s, k), j) = FewerAccounts(b, Shifted(j, k))
      BY <3>1, <3>2 DEF FewerAccounts, AccountCut, Replaced
    <3> QED
      BY <1>4, <3>2, <3>3 DEF OneStepReductions
  <2> QED
    BY <2>2, <2>3
<1> QED
  BY <1>5, <1>7, <1>8

\* The sweep, and after it the cuts of the third pass, leave nothing to drop.
SweepInv ==
  Monotone =>
    /\ phase = "Sweep" => \A j \in 1 .. i - 1 : RemoveAt(minimal, j) \notin crashes
    /\ phase \in {"Params", "Done"} => \A j \in 1 .. Len(minimal) : RemoveAt(minimal, j) \notin crashes

\* One sweep that never goes back is enough for a monotone detector, and the third
\* pass, which runs after it, does not change that (crash.rs:121-136, 138-179).
THEOREM OneSweepSuffices == Spec => []SweepSuffices
<1>1. Init => SweepInv
  BY DEF Init, SweepInv
<1>2. TypeOK /\ SweepInv /\ [Next]_vars => SweepInv'
  <2> SUFFICES ASSUME TypeOK, SweepInv, [Next]_vars PROVE SweepInv'
    OBVIOUS
  <2>0. /\ minimal \in Reductions /\ minimal \in Seq(Pieces)
        /\ Len(minimal) \in Nat /\ i \in 1 .. Len(minimal) + 1
    BY ReductionsAre DEF TypeOK
  <2>1. crashes' = crashes /\ (Monotone' <=> Monotone)
    <3>1. crashes' = crashes
      BY DEF Next, vars, HalveStep, HalveEnds, SweepRemoves, SweepKeeps, SweepEnds,
             ParamsCut, ParamsPop, ParamsKeep, ParamsEnd
    <3> QED
      BY <3>1 DEF Monotone
  <2> SUFFICES ASSUME Monotone
               PROVE  /\ phase' = "Sweep" => \A j \in 1 .. i' - 1 : RemoveAt(minimal', j) \notin crashes
                      /\ phase' \in {"Params", "Done"} =>
                           \A j \in 1 .. Len(minimal') : RemoveAt(minimal', j) \notin crashes
    BY <2>1 DEF SweepInv
  <2>2. CASE HalveStep
    BY <2>2 DEF HalveStep
  <2>3. CASE HalveEnds
    BY <2>3 DEF HalveEnds, TypeOK
  <2>4. CASE SweepRemoves
    <3>1. i \in 1 .. Len(minimal) /\ minimal' = RemoveAt(minimal, i) /\ phase' = "Sweep" /\ i' = i
      BY <2>0, <2>4 DEF SweepRemoves
    <3>2. \A j \in 1 .. i - 1 : RemoveAt(minimal, j) \notin crashes
      BY <2>4 DEF SweepRemoves, SweepInv
    <3>3. ASSUME NEW j \in 1 .. i - 1 PROVE RemoveAt(RemoveAt(minimal, i), j) \notin crashes
      <4>1. j \in 1 .. Len(minimal) /\ i \in j + 1 .. Len(minimal)
        BY <2>0, <3>1
      <4> QED
        BY <2>0, <3>2, <4>1, DropsComeFirst
    <3> QED
      BY <3>1, <3>3
  <2>5. CASE SweepKeeps
    BY <2>0, <2>5 DEF SweepKeeps, SweepInv
  <2>6. CASE SweepEnds
    BY <2>0, <2>6 DEF SweepEnds, SweepInv
  <2>7. CASE ParamsCut
    <3>1. /\ i \in 1 .. Len(minimal) /\ CanCutData(minimal, i)
          /\ minimal' = LessData(minimal, i) /\ phase' = "Params"
      BY <2>0, <2>7 DEF ParamsCut, CutsData
    <3>2. \A j \in 1 .. Len(minimal) : RemoveAt(minimal, j) \notin crashes
      BY <2>7 DEF ParamsCut, SweepInv
    <3>3. \A j \in 1 .. Len(minimal) : RemoveAt(LessData(minimal, i), j) \notin crashes
      BY <2>0, <3>1, <3>2, DropsComeFirst
    <3> QED
      BY <2>0, <3>1, <3>3, LessDataReduces
  <2>8. CASE ParamsPop
    <3>1. /\ i \in 1 .. Len(minimal) /\ CanPopAccount(minimal, i)
          /\ minimal' = FewerAccounts(minimal, i) /\ phase' = "Params"
      BY <2>0, <2>8 DEF ParamsPop, PopsAccount
    <3>2. \A j \in 1 .. Len(minimal) : RemoveAt(minimal, j) \notin crashes
      BY <2>8 DEF ParamsPop, SweepInv
    <3>3. \A j \in 1 .. Len(minimal) : RemoveAt(FewerAccounts(minimal, i), j) \notin crashes
      BY <2>0, <3>1, <3>2, DropsComeFirst
    <3> QED
      BY <2>0, <3>1, <3>3, FewerAccountsReduces
  <2>9. CASE ParamsKeep \/ ParamsEnd \/ UNCHANGED vars
    BY <2>9 DEF ParamsKeep, ParamsEnd, vars, SweepInv
  <2> QED
    BY <2>2, <2>3, <2>4, <2>5, <2>6, <2>7, <2>8, <2>9 DEF Next
<1>3. TypeOK /\ SweepInv => SweepSuffices
  <2> SUFFICES ASSUME TypeOK, SweepInv, phase = "Done", Monotone PROVE NoActionToDrop
    BY DEF SweepSuffices
  <2>1. DOMAIN minimal = 1 .. Len(minimal)
    BY ReductionsAre DEF TypeOK
  <2> QED
    BY <2>1 DEF SweepInv, NoActionToDrop
<1> QED
  BY <1>1, <1>2, <1>3, TypeCorrect, PTL DEF Spec

--------------------------------------------------------------------------------
(* Why shrink ends: what goes down at every turn of its loops.              *)
PassesLeft ==
  CASE phase = "Halve" -> 3 [] phase = "Sweep" -> 2 [] phase = "Params" -> 1 [] OTHER -> 0

\* One element per byte and per account of each action.
UnitsAt(s, j) == {j} \X (1 .. s[j].ix_data + s[j].accounts)

Units(s) == UNION {UnitsAt(s, j) : j \in 1 .. Len(s)}

Rank == <<PassesLeft, step, Len(minimal), Cardinality(Units(minimal)), Len(minimal) + 1 - i>>

\* The lexicographic order.
Below(r, q) == \E k \in 1 .. 5 : r[k] < q[k] /\ \A j \in 1 .. k - 1 : r[j] = q[j]

RankIsNatural == Rank \in [1 .. 5 -> Nat]

LEMMA SizesAreNatural ==
  ASSUME NEW s \in Reductions, NEW j \in 1 .. Len(s)
  PROVE  s[j].ix_data \in Nat /\ s[j].accounts \in Nat
<1>1. s[j] \in Pieces
  BY ReductionsAre
<1> QED
  BY <1>1, PiecesAre, ShrinkAssumption

LEMMA UnitsAreFinite ==
  ASSUME NEW s \in Reductions
  PROVE  IsFiniteSet(Units(s)) /\ Cardinality(Units(s)) \in Nat
<1> DEFINE J == 1 .. Len(s)
           All == {UnitsAt(s, j) : j \in J}
           f == [j \in J |-> UnitsAt(s, j)]
<1>1. IsFiniteSet(J)
  BY FS_Interval, ReductionsAre
<1>2. f \in Surjection(J, All)
  BY DEF Surjection
<1>3. IsFiniteSet(All)
  <2> HIDE DEF f, J, All
  <2> QED
    BY <1>1, <1>2, FS_Surjection
<1>4. ASSUME NEW j \in J PROVE IsFiniteSet(UnitsAt(s, j))
  <2>1. IsFiniteSet({j})
    BY FS_Singleton
  <2>2. s[j].ix_data + s[j].accounts \in Int
    BY SizesAreNatural
  <2>3. IsFiniteSet(1 .. s[j].ix_data + s[j].accounts)
    BY <2>2, FS_Interval
  <2> QED
    BY <2>1, <2>3, FS_Product, Zenon DEF UnitsAt
<1>5. \A T \in All : IsFiniteSet(T)
  BY <1>4
<1>6. IsFiniteSet(UNION All)
  <2> HIDE DEF All
  <2> QED
    BY <1>3, <1>5, FS_UNION
<1> QED
  BY <1>6, FS_CardinalityType DEF Units

\* Making one action smaller takes units away.
LEMMA SmallerHasFewerUnits ==
  ASSUME NEW s \in Reductions, NEW t \in Reductions, Len(t) = Len(s), NEW j \in 1 .. Len(s),
         \A k \in (1 .. Len(s)) \ {j} : t[k] = s[k],
         t[j].ix_data + t[j].accounts < s[j].ix_data + s[j].accounts
  PROVE  Cardinality(Units(t)) < Cardinality(Units(s))
<1> DEFINE n == s[j].ix_data + s[j].accounts
           m == t[j].ix_data + t[j].accounts
<1>1. n \in Nat /\ m \in Nat /\ m < n
  BY SizesAreNatural
<1>2. UnitsAt(t, j) \subseteq UnitsAt(s, j)
  BY <1>1 DEF UnitsAt
<1>3. Units(t) \subseteq Units(s)
  <2>1. ASSUME NEW k \in 1 .. Len(t) PROVE UnitsAt(t, k) \subseteq UnitsAt(s, k) /\ k \in 1 .. Len(s)
    BY <1>2 DEF UnitsAt
  <2> QED
    BY <2>1 DEF Units
<1>4. <<j, n>> \in Units(s)
  <2>1. n \in 1 .. n
    BY <1>1
  <2>2. <<j, n>> \in UnitsAt(s, j)
    BY <2>1 DEF UnitsAt
  <2> QED
    BY <2>2 DEF Units
<1>5. <<j, n>> \notin Units(t)
  <2>1. SUFFICES ASSUME NEW k \in 1 .. Len(t), <<j, n>> \in UnitsAt(t, k) PROVE FALSE
    BY DEF Units
  <2>2. k = j /\ n \in 1 .. m
    BY <2>1 DEF UnitsAt
  <2> QED
    BY <1>1, <2>2
<1>6. /\ Cardinality(Units(t)) <= Cardinality(Units(s))
      /\ Cardinality(Units(s)) = Cardinality(Units(t)) => Units(s) = Units(t)
  BY <1>3, UnitsAreFinite, FS_Subset
<1> QED
  BY <1>4, <1>5, <1>6, UnitsAreFinite

LEMMA LessDataHasFewerUnits ==
  ASSUME NEW s \in Reductions, NEW j \in 1 .. Len(s), CanCutData(s, j)
  PROVE  Cardinality(Units(LessData(s, j))) < Cardinality(Units(s))
<1>1. s \in Seq(Pieces) /\ s[j] \in Pieces
  BY ReductionsAre
<1>2. s[j] = [id |-> s[j].id, ix_data |-> s[j].ix_data, accounts |-> s[j].accounts]
  BY <1>1, PiecesAre
<1>3. s[j].ix_data \in Nat /\ s[j].accounts \in Nat
  BY SizesAreNatural
<1>4. Halved(s[j].ix_data) \in 8 .. s[j].ix_data - 1
  BY <1>3, HalvedBounds DEF CanCutData
<1>5. LessData(s, j) = [s EXCEPT ![j] = DataCut(s[j])]
  BY <1>1 DEF LessData, DataCut
<1>6. DataCut(s[j]).ix_data = Halved(s[j].ix_data) /\ DataCut(s[j]).accounts = s[j].accounts
  BY <1>2 DEF DataCut
<1>7. /\ \A k \in (1 .. Len(s)) \ {j} : LessData(s, j)[k] = s[k]
      /\ LessData(s, j)[j] = DataCut(s[j])
  BY <1>1, <1>5
<1>8. LessData(s, j)[j].ix_data + LessData(s, j)[j].accounts < s[j].ix_data + s[j].accounts
  BY <1>3, <1>4, <1>6, <1>7
<1> QED
  BY <1>7, <1>8, LessDataReduces, SmallerHasFewerUnits

LEMMA FewerAccountsHasFewerUnits ==
  ASSUME NEW s \in Reductions, NEW j \in 1 .. Len(s), CanPopAccount(s, j)
  PROVE  Cardinality(Units(FewerAccounts(s, j))) < Cardinality(Units(s))
<1>1. s \in Seq(Pieces) /\ s[j] \in Pieces
  BY ReductionsAre
<1>2. s[j] = [id |-> s[j].id, ix_data |-> s[j].ix_data, accounts |-> s[j].accounts]
  BY <1>1, PiecesAre
<1>3. s[j].ix_data \in Nat /\ s[j].accounts \in Nat
  BY SizesAreNatural
<1>4. FewerAccounts(s, j) = [s EXCEPT ![j] = AccountCut(s[j])]
  BY <1>1 DEF FewerAccounts, AccountCut
<1>5. AccountCut(s[j]).ix_data = s[j].ix_data /\ AccountCut(s[j]).accounts = s[j].accounts - 1
  BY <1>2 DEF AccountCut
<1>6. /\ \A k \in (1 .. Len(s)) \ {j} : FewerAccounts(s, j)[k] = s[k]
      /\ FewerAccounts(s, j)[j] = AccountCut(s[j])
  BY <1>1, <1>4
<1>7. FewerAccounts(s, j)[j].ix_data + FewerAccounts(s, j)[j].accounts < s[j].ix_data + s[j].accounts
  BY <1>3, <1>5, <1>6
<1> QED
  BY <1>6, <1>7, FewerAccountsReduces, SmallerHasFewerUnits

\* The order of the places of Rank, one case per place.
LEMMA BelowAt ==
  ASSUME NEW r, NEW q,
         \/ r[1] < q[1]
         \/ r[1] = q[1] /\ r[2] < q[2]
         \/ r[1] = q[1] /\ r[2] = q[2] /\ r[3] < q[3]
         \/ r[1] = q[1] /\ r[2] = q[2] /\ r[3] = q[3] /\ r[4] < q[4]
         \/ r[1] = q[1] /\ r[2] = q[2] /\ r[3] = q[3] /\ r[4] = q[4] /\ r[5] < q[5]
  PROVE  Below(r, q)
<1>1. 1 .. 0 = {} /\ 1 .. 1 = {1} /\ 1 .. 2 = {1, 2} /\ 1 .. 3 = {1, 2, 3} /\ 1 .. 4 = {1, 2, 3, 4}
  OBVIOUS
<1>2. ASSUME NEW k \in 1 .. 5, r[k] < q[k], \A j \in 1 .. k - 1 : r[j] = q[j]
      PROVE  Below(r, q)
  BY <1>2 DEF Below
<1>3. CASE r[1] < q[1]
  BY <1>1, <1>2, <1>3
<1>4. CASE r[1] = q[1] /\ r[2] < q[2]
  BY <1>1, <1>2, <1>4
<1>5. CASE r[1] = q[1] /\ r[2] = q[2] /\ r[3] < q[3]
  BY <1>1, <1>2, <1>5
<1>6. CASE r[1] = q[1] /\ r[2] = q[2] /\ r[3] = q[3] /\ r[4] < q[4]
  BY <1>1, <1>2, <1>6
<1>7. CASE r[1] = q[1] /\ r[2] = q[2] /\ r[3] = q[3] /\ r[4] = q[4] /\ r[5] < q[5]
  BY <1>1, <1>2, <1>7
<1> QED
  BY <1>3, <1>4, <1>5, <1>6, <1>7

LEMMA RankTyped == TypeOK => RankIsNatural
<1> SUFFICES ASSUME TypeOK PROVE RankIsNatural
  OBVIOUS
<1>1. PassesLeft \in Nat
  BY DEF PassesLeft
<1>2. step \in Nat /\ Len(minimal) \in Nat /\ Len(minimal) + 1 - i \in Nat
  BY ReductionsAre, ShrinkAssumption DEF TypeOK
<1>3. Cardinality(Units(minimal)) \in Nat
  BY UnitsAreFinite DEF TypeOK
<1> QED
  BY <1>1, <1>2, <1>3 DEF RankIsNatural, Rank

LEMMA StepLowersRank ==
  ASSUME TypeOK, Next
  PROVE  Below(Rank', Rank)
<1>0. /\ minimal \in Reductions /\ Len(minimal) \in Nat /\ i \in 1 .. Len(minimal) + 1
      /\ step \in Nat
  BY ReductionsAre, ShrinkAssumption DEF TypeOK
<1>1. /\ Rank[1] = PassesLeft /\ Rank[2] = step /\ Rank[3] = Len(minimal)
      /\ Rank[4] = Cardinality(Units(minimal)) /\ Rank[5] = Len(minimal) + 1 - i
      /\ Rank'[1] = PassesLeft' /\ Rank'[2] = step' /\ Rank'[3] = Len(minimal')
      /\ Rank'[4] = Cardinality(Units(minimal')) /\ Rank'[5] = Len(minimal') + 1 - i'
  BY DEF Rank
<1>2. CASE HalveEnds \/ SweepEnds \/ ParamsEnd
  <2>1. PassesLeft' < PassesLeft
    BY <1>2 DEF HalveEnds, SweepEnds, ParamsEnd, PassesLeft
  <2> QED
    BY <1>1, <2>1, BelowAt
<1>3. CASE HalveStep
  <2>1. PassesLeft' = PassesLeft /\ step' < step
    BY <1>0, <1>3 DEF HalveStep, PassesLeft
  <2> QED
    BY <1>1, <2>1, BelowAt
<1>4. CASE SweepRemoves
  <2>1. PassesLeft' = PassesLeft /\ step' = step
    BY <1>4 DEF SweepRemoves, PassesLeft
  <2>2. Len(minimal') < Len(minimal)
    BY <1>0, <1>4, ReductionsAre, RemoveAtIsFunction DEF SweepRemoves
  <2> QED
    BY <1>1, <2>1, <2>2, BelowAt
<1>5. CASE SweepKeeps \/ ParamsKeep
  <2>1. PassesLeft' = PassesLeft /\ step' = step /\ minimal' = minimal /\ i' = i + 1
    BY <1>5 DEF SweepKeeps, ParamsKeep, PassesLeft
  <2>2. Len(minimal') + 1 - i' < Len(minimal) + 1 - i
    BY <1>0, <2>1
  <2> QED
    BY <1>1, <2>1, <2>2, BelowAt
<1>6. CASE ParamsCut
  <2>1. PassesLeft' = PassesLeft /\ step' = step /\ minimal' = LessData(minimal, i)
    BY <1>6 DEF ParamsCut, PassesLeft
  <2>2. i \in 1 .. Len(minimal) /\ CanCutData(minimal, i)
    BY <1>0, <1>6 DEF ParamsCut, CutsData
  <2>3. Len(minimal') = Len(minimal) /\ Cardinality(Units(minimal')) < Cardinality(Units(minimal))
    BY <1>0, <2>1, <2>2, LessDataReduces, LessDataHasFewerUnits
  <2> QED
    BY <1>1, <2>1, <2>3, BelowAt
<1>7. CASE ParamsPop
  <2>1. PassesLeft' = PassesLeft /\ step' = step /\ minimal' = FewerAccounts(minimal, i)
    BY <1>7 DEF ParamsPop, PassesLeft
  <2>2. i \in 1 .. Len(minimal) /\ CanPopAccount(minimal, i)
    BY <1>0, <1>7 DEF ParamsPop, PopsAccount
  <2>3. Len(minimal') = Len(minimal) /\ Cardinality(Units(minimal')) < Cardinality(Units(minimal))
    BY <1>0, <2>1, <2>2, FewerAccountsReduces, FewerAccountsHasFewerUnits
  <2> QED
    BY <1>1, <2>1, <2>3, BelowAt
<1> QED
  BY <1>2, <1>3, <1>4, <1>5, <1>6, <1>7 DEF Next

\* Every turn of a loop of shrink brings it nearer to its end, although the third pass
\* starts over after each success (crash.rs:139-140, 152, 168): the natural numbers of
\* Rank fall in lexicographic order.  No detector, however odd, can make it run for ever.
THEOREM EveryTurnDescends == Spec => []RankIsNatural /\ [][Below(Rank', Rank)]_vars
<1>1. TypeOK => RankIsNatural
  BY RankTyped
<1>2. TypeOK /\ [Next]_vars => [Below(Rank', Rank)]_vars
  BY StepLowersRank
<1> QED
  BY <1>1, <1>2, TypeCorrect, PTL DEF Spec
================================================================================
