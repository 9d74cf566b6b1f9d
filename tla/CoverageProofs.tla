---------------------------- MODULE CoverageProofs ----------------------------
(***************************************************************************)
(* Proofs about Coverage, for any set of bitmaps and of transitions, any   *)
(* size of the bitmap and any width of its counters.                       *)
(***************************************************************************)
EXTENDS Coverage, FiniteSetTheorems, TLAPS

(* TypeOK without the bound on the counts, which needs the other conjuncts.  *)
TypeInv ==
  /\ edges \in [Bitmaps -> [Cells -> 0 .. MaxHits]]
  /\ covered_edges \in [Bitmaps -> Nat]
  /\ seen \in [Bitmaps -> SUBSET Transitions]
  /\ merged \in [Bitmaps -> BOOLEAN]

Counted(b) ==
  /\ covered_edges[b] <= Cardinality(Nonzero(b))
  /\ ~merged[b] => covered_edges[b] = Cardinality(Nonzero(b))

CoverageInv ==
  /\ TypeInv
  /\ RemembersWhatItSaw
  /\ \A b \in Bitmaps : Counted(b)
--------------------------------------------------------------------------------
(* Every transition has a counter, whatever its blocks.                      *)
LEMMA CellType == \A e \in Transitions : Cell(e) \in Cells
  BY CoverageAssumption DEF Cell, Cells

(* A saturated sum is zero only if both terms are, and never below one.      *)
LEMMA SaturatingFacts ==
  \A x, y \in 0 .. MaxHits :
    /\ SaturatingAdd(x, y) \in 0 .. MaxHits
    /\ SaturatingAdd(x, y) >= x
    /\ SaturatingAdd(x, y) >= y
    /\ SaturatingAdd(x, y) > 0 <=> (x > 0 \/ y > 0)
  BY CoverageAssumption DEF SaturatingAdd

(* At most Size counters are not zero.                                       *)
LEMMA NonzeroFinite ==
  \A b : /\ IsFiniteSet(Nonzero(b))
         /\ Cardinality(Nonzero(b)) \in 0 .. Size
<1> TAKE b
<1>1. IsFiniteSet(Cells) /\ Cardinality(Cells) = Size
  <2>1. 0 \in Int /\ Size - 1 \in Int
    BY CoverageAssumption
  <2>2. IsFiniteSet(0 .. Size - 1)
        /\ Cardinality(0 .. Size - 1) = IF 0 > Size - 1 THEN 0 ELSE Size - 1 - 0 + 1
    BY <2>1, FS_Interval
  <2> QED  BY <2>2, CoverageAssumption DEF Cells
<1>2. Nonzero(b) \subseteq Cells
  BY DEF Nonzero
<1>3. IsFiniteSet(Nonzero(b)) /\ Cardinality(Nonzero(b)) <= Cardinality(Cells)
  BY <1>1, <1>2, FS_Subset
<1>4. Cardinality(Nonzero(b)) \in Nat
  BY <1>3, FS_CardinalityType
<1> QED  BY <1>1, <1>3, <1>4, CoverageAssumption
--------------------------------------------------------------------------------
LEMMA InitInv == Init => CoverageInv
<1> SUFFICES ASSUME Init PROVE CoverageInv
  OBVIOUS
<1>1. TypeInv
  BY CoverageAssumption DEF Init, TypeInv
<1>2. \A b \in Bitmaps : Nonzero(b) = {}
  BY CoverageAssumption DEF Init, Nonzero
<1>3. RemembersWhatItSaw
  BY <1>2 DEF Init, RemembersWhatItSaw
<1>4. \A b \in Bitmaps : Counted(b)
  BY <1>2, FS_EmptySet DEF Init, Counted
<1> QED  BY <1>1, <1>3, <1>4 DEF CoverageInv

(* A bitmap that a step leaves alone keeps what the invariant says of it.    *)
LEMMA OthersKeep ==
  ASSUME NEW b \in Bitmaps, Counted(b),
         edges'[b] = edges[b], covered_edges'[b] = covered_edges[b], merged'[b] = merged[b]
  PROVE  Nonzero(b)' = Nonzero(b) /\ Counted(b)'
<1>1. Nonzero(b)' = Nonzero(b)
  BY DEF Nonzero
<1> QED  BY <1>1 DEF Counted

(* new empties one bitmap.                                                   *)
LEMMA NewInv == ASSUME CoverageInv, NEW b \in Bitmaps, new(b) PROVE CoverageInv'
<1>1. TypeInv'
  BY CoverageAssumption DEF CoverageInv, TypeInv, new
<1>2. Nonzero(b)' = {}
  BY CoverageAssumption DEF CoverageInv, TypeInv, new, Nonzero
<1>3. ASSUME NEW d \in Bitmaps
      PROVE  Nonzero(d)' = {Cell(e) : e \in seen'[d]} /\ Counted(d)'
  <2>1. CASE d = b
    BY <2>1, <1>2, FS_EmptySet DEF CoverageInv, TypeInv, new, Counted
  <2>2. CASE d # b
    <3>1. Nonzero(d)' = Nonzero(d) /\ Counted(d)'
      BY <2>2, OthersKeep DEF CoverageInv, TypeInv, new
    <3>2. seen'[d] = seen[d]
      BY <2>2 DEF CoverageInv, TypeInv, new
    <3> QED  BY <3>1, <3>2 DEF CoverageInv, RemembersWhatItSaw
  <2> QED  BY <2>1, <2>2
<1> QED  BY <1>1, <1>3 DEF CoverageInv, RemembersWhatItSaw

(* record_edge makes one counter nonzero; the count follows if it was zero.  *)
LEMMA RecordInv ==
  ASSUME CoverageInv, NEW b \in Bitmaps, NEW e \in Transitions, record_edge(b, e)
  PROVE  CoverageInv'
<1> DEFINE idx == Cell(e)
<1>0. idx \in Cells
  BY CellType
<1> HIDE DEF idx
<1>a. /\ edges' = [edges EXCEPT ![b][idx] = SaturatingAdd(edges[b][idx], 1)]
      /\ covered_edges' = [covered_edges EXCEPT ![b] = IF edges[b][idx] = 0
                             THEN covered_edges[b] + 1 ELSE covered_edges[b]]
      /\ seen' = [seen EXCEPT ![b] = seen[b] \cup {e}]
      /\ merged' = merged
  BY DEF record_edge, idx
<1>b. edges[b][idx] \in 0 .. MaxHits /\ 1 \in 0 .. MaxHits
  BY <1>0, CoverageAssumption DEF CoverageInv, TypeInv
<1>c. SaturatingAdd(edges[b][idx], 1) \in 0 .. MaxHits /\ SaturatingAdd(edges[b][idx], 1) > 0
  BY <1>b, SaturatingFacts, 1 > 0
<1>1. TypeInv'
  <2> DEFINE sum == SaturatingAdd(edges[b][idx], 1)
  <2>1. sum \in 0 .. MaxHits
    BY <1>c
  <2> HIDE DEF sum
  <2>2. edges' = [edges EXCEPT ![b][idx] = sum]
    BY <1>a DEF sum
  <2>3. edges' \in [Bitmaps -> [Cells -> 0 .. MaxHits]]
    BY <2>1, <2>2 DEF CoverageInv, TypeInv
  <2>4. covered_edges' \in [Bitmaps -> Nat]
    BY <1>a DEF CoverageInv, TypeInv
  <2> QED  BY <1>a, <2>3, <2>4 DEF CoverageInv, TypeInv
<1>2. Nonzero(b)' = Nonzero(b) \cup {idx}
  <2>1. \A c \in Cells : edges'[b][c] = IF c = idx THEN SaturatingAdd(edges[b][idx], 1)
                                         ELSE edges[b][c]
    BY <1>a DEF CoverageInv, TypeInv
  <2> QED  BY <2>1, <1>0, <1>c DEF Nonzero
<1>3. Counted(b)'
  <2>1. IsFiniteSet(Nonzero(b)) /\ Cardinality(Nonzero(b)) \in Nat
    BY NonzeroFinite
  <2>2. Cardinality(Nonzero(b)') = IF idx \in Nonzero(b) THEN Cardinality(Nonzero(b))
                                    ELSE Cardinality(Nonzero(b)) + 1
    BY <2>1, <1>2, FS_AddElement
  <2>3. idx \in Nonzero(b) <=> edges[b][idx] # 0
    BY <1>0, <1>b DEF Nonzero
  <2>4. covered_edges[b] \in Nat
    BY DEF CoverageInv, TypeInv
  <2>5. covered_edges'[b] = IF edges[b][idx] = 0 THEN covered_edges[b] + 1
                             ELSE covered_edges[b]
    BY <1>a DEF CoverageInv, TypeInv
  <2>6. Counted(b)
    BY DEF CoverageInv
  <2> QED  BY <2>1, <2>2, <2>3, <2>4, <2>5, <2>6, <1>a DEF Counted
<1>4. ASSUME NEW d \in Bitmaps
      PROVE  Nonzero(d)' = {Cell(f) : f \in seen'[d]} /\ Counted(d)'
  <2>1. CASE d = b
    <3>1. Nonzero(b) = {Cell(f) : f \in seen[b]}
      BY DEF CoverageInv, RemembersWhatItSaw
    <3>2. seen'[b] = seen[b] \cup {e}
      BY <1>a DEF CoverageInv, TypeInv
    <3>3. {Cell(f) : f \in seen[b] \cup {e}} = {Cell(f) : f \in seen[b]} \cup {Cell(e)}
      OBVIOUS
    <3> QED  BY <2>1, <3>1, <3>2, <3>3, <1>2, <1>3 DEF idx
  <2>2. CASE d # b
    <3>1. /\ edges'[d] = edges[d] /\ covered_edges'[d] = covered_edges[d]
          /\ merged'[d] = merged[d] /\ seen'[d] = seen[d]
      BY <2>2, <1>a DEF CoverageInv, TypeInv
    <3>2. Nonzero(d)' = Nonzero(d) /\ Counted(d)'
      BY <3>1, OthersKeep DEF CoverageInv
    <3> QED  BY <3>1, <3>2 DEF CoverageInv, RemembersWhatItSaw
  <2> QED  BY <2>1, <2>2
<1> QED  BY <1>1, <1>4 DEF CoverageInv, RemembersWhatItSaw

(* merge joins the nonzero counters of two bitmaps and leaves the count.     *)
LEMMA MergeInv ==
  ASSUME CoverageInv, NEW b \in Bitmaps, NEW other \in Bitmaps, merge(b, other)
  PROVE  CoverageInv'
<1>a. /\ edges[b] \in [Cells -> 0 .. MaxHits] /\ edges[other] \in [Cells -> 0 .. MaxHits]
      /\ edges' = [edges EXCEPT ![b] =
                     [c \in Cells |-> SaturatingAdd(edges[b][c], edges[other][c])]]
  BY DEF CoverageInv, TypeInv, merge
<1>b. \A c \in Cells :
        /\ SaturatingAdd(edges[b][c], edges[other][c]) \in 0 .. MaxHits
        /\ SaturatingAdd(edges[b][c], edges[other][c]) > 0
             <=> (edges[b][c] > 0 \/ edges[other][c] > 0)
  BY <1>a, SaturatingFacts
<1>1. TypeInv'
  <2>1. edges' \in [Bitmaps -> [Cells -> 0 .. MaxHits]]
    BY <1>a, <1>b DEF CoverageInv, TypeInv
  <2> QED  BY <2>1 DEF CoverageInv, TypeInv, merge
<1>2. Nonzero(b)' = Nonzero(b) \cup Nonzero(other)
  <2>1. \A c \in Cells : edges'[b][c] = SaturatingAdd(edges[b][c], edges[other][c])
    BY <1>a DEF CoverageInv, TypeInv
  <2> QED  BY <2>1, <1>b DEF Nonzero
<1>3. Counted(b)'
  <2>1. IsFiniteSet(Nonzero(b)') /\ Cardinality(Nonzero(b)') \in Nat
    <3>1. IsFiniteSet(Nonzero(b) \cup Nonzero(other))
      BY NonzeroFinite, FS_Union
    <3> QED  BY <3>1, <1>2, FS_CardinalityType
  <2>2. Cardinality(Nonzero(b)) <= Cardinality(Nonzero(b)')
    BY <2>1, <1>2, FS_Subset
  <2>3. covered_edges[b] \in Nat /\ Cardinality(Nonzero(b)) \in Nat
    BY NonzeroFinite DEF CoverageInv, TypeInv
  <2>4. covered_edges'[b] = covered_edges[b] /\ merged'[b]
    BY DEF CoverageInv, TypeInv, merge
  <2> QED  BY <2>1, <2>2, <2>3, <2>4 DEF CoverageInv, Counted
<1>4. ASSUME NEW d \in Bitmaps
      PROVE  Nonzero(d)' = {Cell(f) : f \in seen'[d]} /\ Counted(d)'
  <2>1. CASE d = b
    <3>1. /\ Nonzero(b) = {Cell(f) : f \in seen[b]}
          /\ Nonzero(other) = {Cell(f) : f \in seen[other]}
      BY DEF CoverageInv, RemembersWhatItSaw
    <3>2. seen'[b] = seen[b] \cup seen[other]
      BY DEF CoverageInv, TypeInv, merge
    <3>3. {Cell(f) : f \in seen[b] \cup seen[other]}
            = {Cell(f) : f \in seen[b]} \cup {Cell(f) : f \in seen[other]}
      OBVIOUS
    <3> QED  BY <2>1, <3>1, <3>2, <3>3, <1>2, <1>3
  <2>2. CASE d # b
    <3>1. /\ edges'[d] = edges[d] /\ covered_edges'[d] = covered_edges[d]
          /\ merged'[d] = merged[d] /\ seen'[d] = seen[d]
      BY <2>2 DEF CoverageInv, TypeInv, merge
    <3>2. Nonzero(d)' = Nonzero(d) /\ Counted(d)'
      BY <3>1, OthersKeep DEF CoverageInv
    <3> QED  BY <3>1, <3>2 DEF CoverageInv, RemembersWhatItSaw
  <2> QED  BY <2>1, <2>2
<1> QED  BY <1>1, <1>4 DEF CoverageInv, RemembersWhatItSaw

LEMMA StepInv == CoverageInv /\ [Next]_vars => CoverageInv'
<1> SUFFICES ASSUME CoverageInv, [Next]_vars PROVE CoverageInv'
  OBVIOUS
<1>1. CASE UNCHANGED vars
  BY <1>1 DEF vars, CoverageInv, TypeInv, RemembersWhatItSaw, Counted, Nonzero
<1>2. ASSUME NEW b \in Bitmaps, new(b) PROVE CoverageInv'
  BY <1>2, NewInv
<1>3. ASSUME NEW b \in Bitmaps, NEW e \in Transitions, record_edge(b, e) PROVE CoverageInv'
  BY <1>3, RecordInv
<1>4. ASSUME NEW b \in Bitmaps, NEW other \in Bitmaps, merge(b, other) PROVE CoverageInv'
  BY <1>4, MergeInv
<1> QED  BY <1>1, <1>2, <1>3, <1>4 DEF Next

LEMMA CoverageInvHolds == Spec => []CoverageInv
  BY InitInv, StepInv, PTL DEF Spec
--------------------------------------------------------------------------------
(* Every counter keeps its width and no count exceeds the bitmap's size.     *)
THEOREM TypeCorrect == Spec => []TypeOK
<1>1. CoverageInv => TypeOK
  <2> SUFFICES ASSUME CoverageInv PROVE TypeOK
    OBVIOUS
  <2>1. ASSUME NEW b \in Bitmaps PROVE covered_edges[b] \in 0 .. Size
    <3>1. covered_edges[b] \in Nat /\ covered_edges[b] <= Cardinality(Nonzero(b))
      BY DEF CoverageInv, TypeInv, Counted
    <3> QED  BY <3>1, NonzeroFinite, CoverageAssumption
  <2> QED  BY <2>1 DEF CoverageInv, TypeInv, TypeOK
<1> QED  BY <1>1, CoverageInvHolds, PTL

(* A bitmap remembers exactly the cells of what it has seen: record_edge,    *)
(* merge and new, in any order and however often the counters saturate.      *)
THEOREM MemoryIsExact == Spec => []RemembersWhatItSaw
<1>1. CoverageInv => RemembersWhatItSaw
  BY DEF CoverageInv
<1> QED  BY <1>1, CoverageInvHolds, PTL

(* has_new_coverage notices every transition whose cell the other bitmap has *)
(* not seen.                                                                 *)
THEOREM NewIsNoticed == Spec => []NothingNewIsMissed
<1>1. CoverageInv => NothingNewIsMissed
  <2> SUFFICES ASSUME CoverageInv, NEW b \in Bitmaps, NEW global \in Bitmaps,
                      NEW e \in seen[b], \A f \in seen[global] : Cell(e) # Cell(f)
               PROVE  has_new_coverage(b, global)
    BY DEF NothingNewIsMissed
  <2>1. Cell(e) \in Nonzero(b) /\ Cell(e) \notin Nonzero(global)
    BY DEF CoverageInv, RemembersWhatItSaw
  <2>2. Cell(e) \in Cells
    BY <2>1 DEF Nonzero
  <2>3. edges[b][Cell(e)] \in Nat /\ edges[global][Cell(e)] \in Nat
    BY <2>2 DEF CoverageInv, TypeInv
  <2> QED  BY <2>1, <2>2, <2>3 DEF Nonzero, has_new_coverage
<1> QED  BY <1>1, CoverageInvHolds, PTL

(* A quotient of two numbers, the first at most k times the second, is at    *)
(* most k.                                                                   *)
LEMMA QuotientBound ==
  ASSUME NEW n \in Nat, NEW d \in Nat \ {0}, NEW k \in Nat, n <= k * d
  PROVE  n \div d \in 0 .. k
  OBVIOUS

(* The count is exact until a merge, never too high, and the share the       *)
(* report shows is at most 100.                                              *)
THEOREM CountIsSafe == Spec => []CountNeverTooHigh
<1>1. CoverageInv => CountNeverTooHigh
  <2> SUFFICES ASSUME CoverageInv, NEW b \in Bitmaps PROVE Counted(b) /\ coverage_pct(b) \in 0 .. 100
    BY DEF CountNeverTooHigh, Counted
  <2>1. Counted(b) /\ covered_edges[b] \in Nat
    BY DEF CoverageInv, TypeInv
  <2>2. covered_edges[b] <= Size
    BY <2>1, NonzeroFinite, CoverageAssumption DEF Counted
  <2>3. covered_edges[b] * 100 \in Nat /\ covered_edges[b] * 100 <= 100 * Size
    BY <2>1, <2>2, CoverageAssumption
  <2>4. coverage_pct(b) \in 0 .. 100
    BY <2>3, QuotientBound, CoverageAssumption DEF coverage_pct
  <2> QED  BY <2>1, <2>4
<1> QED  BY <1>1, CoverageInvHolds, PTL

(* After a merge the other bitmap has nothing new for the merged one.        *)
THEOREM MergeTakesAll == Spec => MergeAbsorbs
<1>1. CoverageInv /\ [Next]_vars
      => [\A b, other \in Bitmaps : merge(b, other) => ~has_new_coverage(other, b)']_vars
  <2> SUFFICES ASSUME CoverageInv, NEW b \in Bitmaps, NEW other \in Bitmaps, merge(b, other)
               PROVE  ~has_new_coverage(other, b)'
    OBVIOUS
  <2>1. ASSUME NEW c \in Cells PROVE ~(edges'[other][c] > edges'[b][c])
    <3>1. edges[b][c] \in 0 .. MaxHits /\ edges[other][c] \in 0 .. MaxHits
      BY DEF CoverageInv, TypeInv
    <3>2. edges'[b][c] = SaturatingAdd(edges[b][c], edges[other][c])
          /\ edges'[other][c] = edges[other][c]
      BY DEF CoverageInv, TypeInv, merge
    <3> QED  BY <3>1, <3>2, SaturatingFacts
  <2> QED  BY <2>1 DEF has_new_coverage, Cells
<1> QED  BY <1>1, CoverageInvHolds, PTL DEF Spec, MergeAbsorbs
================================================================================
