------------------------------- MODULE Coverage -------------------------------
(***************************************************************************)
(* crates/fuzz-core/src/lib.rs, CoverageBitmap: hit counters of edges,     *)
(* with the share of them that the HTML report shows                       *)
(* (crates/report/src/lib.rs).                                             *)
(*                                                                         *)
(* No caller in the repository records an edge yet, so a client records on *)
(* any of its bitmaps, replaces one by a new one and merges them, in any   *)
(* order: what a campaign with one bitmap per round and a global one does, *)
(* and more.                                                               *)
(*                                                                         *)
(* An operator named Mutant... is a faulty version of the definition that  *)
(* follows it, used only to show that a property can fail.                 *)
(***************************************************************************)
EXTENDS Integers, FiniteSets

CONSTANTS
  Bitmaps,     \* the bitmaps of the client
  Transitions, \* the transitions <<prev, cur>> it records
  Size,        \* edges.len(): 65536
  MaxHits,     \* u8::MAX
  BitXor(_, _) \* `^' on usize

ASSUME CoverageAssumption ==
  /\ Size \in Nat \ {0}
  /\ MaxHits \in Nat \ {0}
  /\ \A e \in Transitions : BitXor(e[1], e[2]) \in Nat

VARIABLES
  edges,          \* of each bitmap, the counters
  covered_edges,  \* of each bitmap, the count it keeps of its nonzero counters
  seen,           \* history: the transitions recorded in it, or merged into it
  merged          \* history: has anything been merged into it?

vars == <<edges, covered_edges, seen, merged>>

Cells == 0 .. Size - 1

\* The counter of a transition; several may share one.
Cell(e) == BitXor(e[1], e[2]) % Size

MutantWrapsAround(a, b) == (a + b) % (MaxHits + 1)

\* u8::saturating_add
SaturatingAdd(a, b) == IF a + b > MaxHits THEN MaxHits ELSE a + b

Nonzero(b) == {c \in Cells : edges[b][c] > 0}

\* The share of the bitmap the report shows.
coverage_pct(b) == (covered_edges[b] * 100) \div Size
--------------------------------------------------------------------------------
Init ==
  /\ edges = [b \in Bitmaps |-> [c \in Cells |-> 0]]
  /\ covered_edges = [b \in Bitmaps |-> 0]
  /\ seen = [b \in Bitmaps |-> {}]
  /\ merged = [b \in Bitmaps |-> FALSE]

new(b) ==
  /\ edges' = [edges EXCEPT ![b] = [c \in Cells |-> 0]]
  /\ covered_edges' = [covered_edges EXCEPT ![b] = 0]
  /\ seen' = [seen EXCEPT ![b] = {}]
  /\ merged' = [merged EXCEPT ![b] = FALSE]

record_edge(b, e) ==
  LET idx == Cell(e)
      was_zero == edges[b][idx] = 0
  IN
  /\ edges' = [edges EXCEPT ![b][idx] = SaturatingAdd(edges[b][idx], 1)]
  /\ covered_edges' = [covered_edges EXCEPT ![b] = IF was_zero THEN covered_edges[b] + 1
                                                  ELSE covered_edges[b]]
  /\ seen' = [seen EXCEPT ![b] = seen[b] \cup {e}]
  /\ UNCHANGED merged

MutantSumsCounts(b, other) ==
  /\ b # other
  /\ edges' = [edges EXCEPT ![b] = [c \in Cells |-> SaturatingAdd(edges[b][c], edges[other][c])]]
  /\ covered_edges' = [covered_edges EXCEPT ![b] = covered_edges[b] + covered_edges[other]]
  /\ seen' = [seen EXCEPT ![b] = seen[b] \cup seen[other]]
  /\ merged' = [merged EXCEPT ![b] = TRUE]

\* b.merge(other): the counters are added, the count is left alone.
merge(b, other) ==
  /\ b # other
  /\ edges' = [edges EXCEPT ![b] = [c \in Cells |-> SaturatingAdd(edges[b][c], edges[other][c])]]
  /\ seen' = [seen EXCEPT ![b] = seen[b] \cup seen[other]]
  /\ merged' = [merged EXCEPT ![b] = TRUE]
  /\ UNCHANGED covered_edges

MutantSetsOnly(b, global) ==
  \E c \in Cells : edges[b][c] = MaxHits /\ edges[global][c] < MaxHits

\* b.has_new_coverage(global): some counter of b is above that of the other.
has_new_coverage(b, global) == \E c \in Cells : edges[b][c] > edges[global][c]

Next ==
  \E b \in Bitmaps :
    \/ new(b)
    \/ \E e \in Transitions : record_edge(b, e)
    \/ \E other \in Bitmaps : merge(b, other)

Spec == Init /\ [][Next]_vars
--------------------------------------------------------------------------------
TypeOK ==
  /\ edges \in [Bitmaps -> [Cells -> 0 .. MaxHits]]
  /\ covered_edges \in [Bitmaps -> 0 .. Size]
  /\ seen \in [Bitmaps -> SUBSET Transitions]
  /\ merged \in [Bitmaps -> BOOLEAN]

\* However often its counters saturate and it is merged, a bitmap remembers the
\* cell of every transition it has seen, and of no other.
RemembersWhatItSaw ==
  \A b \in Bitmaps : Nonzero(b) = {Cell(e) : e \in seen[b]}

\* The count is exact until something is merged in, and never too high: the report
\* shows at most 100 %.
CountNeverTooHigh ==
  \A b \in Bitmaps :
    /\ covered_edges[b] <= Cardinality(Nonzero(b))
    /\ ~merged[b] => covered_edges[b] = Cardinality(Nonzero(b))
    /\ coverage_pct(b) \in 0 .. 100

\* A bitmap that has seen a transition whose cell the global one has not seen is
\* noticed, whatever the counters say of the transitions both have seen.
NothingNewIsMissed ==
  \A b, global \in Bitmaps :
    (\E e \in seen[b] : \A f \in seen[global] : Cell(e) # Cell(f))
    => has_new_coverage(b, global)

\* Once merged into the global bitmap, a bitmap brings nothing new.
MergeAbsorbs ==
  [][\A b, other \in Bitmaps : merge(b, other) => ~has_new_coverage(other, b)']_vars
================================================================================
