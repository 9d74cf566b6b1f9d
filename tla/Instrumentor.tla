----------------------------- MODULE Instrumentor -----------------------------
(***************************************************************************)
(* crates/instrumentor/src/lib.rs: the probes that                         *)
(* instrument_text_section puts over the branch targets of a .text         *)
(* section, and the InstrumentedCoverageMap fed by the probes.             *)
(*                                                                         *)
(* The unit is the word of 8 bytes.  Section addresses are aligned, so     *)
(* every address and offset of the code is a multiple of 8, and arithmetic *)
(* on bytes modulo 2^64 is arithmetic on words modulo AddressSpace; up to  *)
(* 7 bytes after the last whole word are decoded and changed by nothing.   *)
(*                                                                         *)
(* An operator named Mutant... is a faulty version of the definition that  *)
(* follows it, used only to show that a property can fail.                 *)
(***************************************************************************)
EXTENDS Integers, Sequences, FiniteSets

CONSTANTS
  Texts,          \* the sections instrumented: functions from 0 .. n - 1 to words
  text_base,      \* the section's address, in words
  AddressSpace,   \* 2^61 words
  bitmap_size,    \* the size of the coverage map
  MaxHits         \* u8::MAX

\* A word: is it a branch, and its offset field.  The rest of it is never read.
Word == [branch : {"none", "jump", "exit"}, offset : Int]

\* A word of the stub generate_probe_stub returns: zeros.
StubWord == [branch |-> "none", offset |-> 0]

ASSUME InstrumentorAssumption ==
  /\ \A t \in Texts : /\ IsFiniteSet(DOMAIN t)
                      /\ DOMAIN t = 0 .. Cardinality(DOMAIN t) - 1
                      /\ t \in [DOMAIN t -> Word]
  /\ AddressSpace \in Nat \ 0 .. 2 /\ text_base \in 0 .. AddressSpace - 1
  /\ bitmap_size \in Nat
  /\ MaxHits \in Nat \ {0}

\* An offset is 16 bits wide and a section lies in memory: neither leads more than once
\* around the address space.
ASSUME SectionAssumption ==
  \A t \in Texts : \A k \in DOMAIN t :
    /\ -AddressSpace < k + 1 + t[k].offset
    /\ text_base + k + 1 + t[k].offset + 2 < AddressSpace
    /\ text_base + k + 2 < AddressSpace

VARIABLES
  overflow_checks, \* the build: does overflow panic (debug) or wrap (release)?
  text,         \* text_data
  todo,         \* what is left of branch_targets
  instrumented, \* the copy the probes are written to
  probes,
  pc,           \* "collecting", "probing", "panicked" or, with a map made of the probes, "done"
  edges,        \* the map's counters
  hit           \* history: the edge ids recorded

vars == <<overflow_checks, text, todo, instrumented, probes, pc, edges, hit>>

Place == DOMAIN text
Length == Cardinality(Place)

IsJump(k) == text[k].branch = "jump"

\* The word a branch at k jumps to, counted from the start of the section.
Jump(k) == k + 1 + text[k].offset

\* (offset as i64 + 1) as u64 * 8: a number below zero is a huge u64, and the plain
\* product overflows.  One that wraps is added by wrapping_add, which undoes it.
ProductOverflows(k) == overflow_checks /\ text[k].offset + 1 < 0

branch_target(k) == (text_base + Jump(k)) % AddressSpace

\* The targets of all branches but exits, and the entry.
collect_branch_targets ==
  {branch_target(k) : k \in {i \in Place : IsJump(i)}}
    \cup {text_base : k \in Place \cap {0}}

\* (target_addr - text_base) as usize
Offset(t) == (t - text_base) % AddressSpace

OffsetOverflows(t) == t < text_base \/ Offset(t) + 2 >= AddressSpace

MutantFitsOneWord(t) == (Offset(t) + 1) % AddressSpace <= Length

MutantAvoidsStubs(t) ==
  /\ Offset(t) + 2 <= Length
  /\ instrumented[Offset(t)] # StubWord

\* offset + 16 <= instrumented.len()
Fits(t) == (Offset(t) + 2) % AddressSpace <= Length

\* offset..offset + 16 is a range of the section.
InRange(t) == Offset(t) + 2 <= Length

Panics(t) == (overflow_checks /\ OffsetOverflows(t)) \/ (Fits(t) /\ ~InRange(t))
--------------------------------------------------------------------------------
Init ==
  /\ overflow_checks \in BOOLEAN
  /\ text \in Texts
  /\ todo = {}
  /\ instrumented = text
  /\ probes = <<>>
  /\ pc = "collecting"
  /\ edges = [e \in 0 .. bitmap_size - 1 |-> 0]
  /\ hit = {}

CollectTargets ==
  /\ \A k \in Place : IsJump(k) => ~ProductOverflows(k)
  /\ todo' = collect_branch_targets
  /\ pc' = "probing"
  /\ UNCHANGED <<overflow_checks, text, instrumented, probes, edges, hit>>

PanicAtBranch(k) ==
  /\ IsJump(k) /\ ProductOverflows(k)
  /\ pc' = "panicked"
  /\ UNCHANGED <<overflow_checks, text, todo, instrumented, probes, edges, hit>>

MutantSavesStub(t) ==
  /\ ~Panics(t) /\ Fits(t)
  /\ instrumented' = [k \in Place |-> IF k \in {Offset(t), Offset(t) + 1} THEN StubWord
                                      ELSE instrumented[k]]
  /\ probes' = Append(probes, [address |-> t, edge_id |-> Len(probes),
                 original_bytes |-> <<instrumented[Offset(t)], instrumented[Offset(t) + 1]>>])
  /\ todo' = todo \ {t}
  /\ UNCHANGED <<overflow_checks, text, pc, edges, hit>>

\* The stub is written over two words, the words are kept in the probe.
ProbeTarget(t) ==
  /\ ~Panics(t) /\ Fits(t)
  /\ instrumented' = [k \in Place |-> IF k \in {Offset(t), Offset(t) + 1} THEN StubWord
                                      ELSE instrumented[k]]
  /\ probes' = Append(probes, [address |-> t, edge_id |-> Len(probes),
                               original_bytes |-> <<text[Offset(t)], text[Offset(t) + 1]>>])
  /\ todo' = todo \ {t}
  /\ UNCHANGED <<overflow_checks, text, pc, edges, hit>>

SkipTarget(t) ==
  /\ ~Panics(t) /\ ~Fits(t)
  /\ todo' = todo \ {t}
  /\ UNCHANGED <<overflow_checks, text, instrumented, probes, pc, edges, hit>>

PanicAtTarget(t) ==
  /\ Panics(t)
  /\ pc' = "panicked"
  /\ UNCHANGED <<overflow_checks, text, todo, instrumented, probes, edges, hit>>

\* The section is done and the caller makes a map of its probes.
MapProbes ==
  /\ pc = "probing" /\ todo = {}
  /\ pc' = "done"
  /\ UNCHANGED <<overflow_checks, text, todo, instrumented, probes, edges, hit>>

MutantWraps(edge_id) ==
  /\ edges' = IF edge_id < bitmap_size
              THEN [edges EXCEPT ![edge_id] = (edges[edge_id] + 1) % (MaxHits + 1)]
              ELSE edges
  /\ hit' = hit \cup {edge_id}
  /\ UNCHANGED <<overflow_checks, text, todo, instrumented, probes, pc>>

record_hit(edge_id) ==
  /\ edges' = IF edge_id < bitmap_size /\ edges[edge_id] < MaxHits
              THEN [edges EXCEPT ![edge_id] = edges[edge_id] + 1]
              ELSE edges
  /\ hit' = hit \cup {edge_id}
  /\ UNCHANGED <<overflow_checks, text, todo, instrumented, probes, pc>>

\* The loop over the HashSet takes the targets in any order.
Next ==
  \/ /\ pc = "collecting"
     /\ CollectTargets \/ \E k \in Place : PanicAtBranch(k)
  \/ /\ pc = "probing"
     /\ \E t \in todo : ProbeTarget(t) \/ SkipTarget(t) \/ PanicAtTarget(t)
  \/ MapProbes
  \/ /\ pc = "done"
     /\ \E i \in DOMAIN probes : record_hit(probes[i].edge_id)

Spec == Init /\ [][Next]_vars
--------------------------------------------------------------------------------
CoveredEdges == {e \in 0 .. bitmap_size - 1 : edges[e] > 0}

covered_edges == Cardinality(CoveredEdges)

coverage_pct == IF probes = <<>> THEN 0 ELSE (covered_edges * 100) \div Len(probes)

Covers(p, k) == k \in {Offset(p.address), Offset(p.address) + 1}

TypeOK ==
  /\ overflow_checks \in BOOLEAN
  /\ text \in Texts
  /\ todo \subseteq 0 .. AddressSpace - 1
  /\ instrumented \in [Place -> Word]
  /\ probes \in Seq([address : 0 .. AddressSpace - 1, edge_id : Nat,
                     original_bytes : Word \X Word])
  /\ pc \in {"collecting", "probing", "panicked", "done"}
  /\ edges \in [0 .. bitmap_size - 1 -> 0 .. MaxHits]
  /\ hit \subseteq 0 .. Len(probes) - 1

\* Probes may overlap, and then the stub of the one is written over the stub of the
\* other; whatever the order, writing back the bytes the probes kept gives the
\* section back: they are the bytes of the section and nothing else was changed.
Restorable ==
  \A k \in Place :
    LET over == {i \in DOMAIN probes : Covers(probes[i], k)} IN
    /\ over = {} => instrumented[k] = text[k]
    /\ \A i \in over :
         probes[i].original_bytes[k - Offset(probes[i].address) + 1] = text[k]

\* The order of the HashSet decides the edge ids and nothing else: which targets get
\* a probe, and the section that results, depend on the section alone.
OrderDoesNotMatter ==
  pc = "done" =>
    LET probed == {t \in collect_branch_targets : Offset(t) + 2 <= Length} IN
    /\ {probes[i].address : i \in DOMAIN probes} = probed
    /\ Len(probes) = Cardinality(probed)
    /\ instrumented = [k \in Place |->
         IF \E t \in probed : k \in {Offset(t), Offset(t) + 1} THEN StubWord ELSE text[k]]

\* Which sections panic depends on the build.  With overflow checks it is every section
\* with a backward branch of two words or more, one that stays inside it included, as a
\* loop has; when overflow wraps it is a branch to one of the two words before the
\* section, where the end of the stub wraps to its start and the bounds check of the code
\* is passed.  Any other section is instrumented to the end, in any order of the targets.
PanicsDependOnBuild ==
  LET Fatal(k) == IsJump(k) /\ IF overflow_checks THEN text[k].offset < -1
                                                  ELSE Jump(k) \in {-2, -1} IN
  /\ pc = "panicked" => \E k \in Place : Fatal(k)
  /\ pc = "done" => \A k \in Place : ~Fatal(k)

\* The map counts an edge once its probe has been hit, for good, and never counts
\* more edges than there are probes.
CoverageIsHits ==
  /\ CoveredEdges = hit \cap 0 .. bitmap_size - 1
  /\ covered_edges <= Len(probes)
  /\ coverage_pct \in 0 .. 100
================================================================================
