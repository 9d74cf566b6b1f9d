-------------------------- MODULE InstrumentorProofs --------------------------
(***************************************************************************)
(* Proofs about Instrumentor, for any sections, any address and address    *)
(* space, any size of the map and either build.                            *)
(***************************************************************************)
EXTENDS Instrumentor, FiniteSetTheorems, TLAPS

(* The targets have been collected: a panic before that leaves none to do.   *)
Collected == pc \in {"probing", "done"} \/ (pc = "panicked" /\ todo # {})

(* The targets taken so far, and those of them that got a probe.             *)
Visited == {t \in collect_branch_targets \ todo : Collected}

Taken == {t \in Visited : InRange(t)}

AtFault(k) == IsJump(k) /\ ProductOverflows(k)

ProbeTypes == [address : 0 .. AddressSpace - 1, edge_id : Nat, original_bytes : Word \X Word]

SectionInv ==
  /\ overflow_checks \in BOOLEAN
  /\ text \in Texts
  /\ todo \subseteq collect_branch_targets
  /\ instrumented = [k \in Place |->
       IF \E t \in Taken : k \in {Offset(t), Offset(t) + 1} THEN StubWord ELSE text[k]]

ProbesInv ==
  /\ probes \in Seq(ProbeTypes)
  /\ \A i \in 1 .. Len(probes) : /\ probes[i].edge_id = i - 1
                                 /\ InRange(probes[i].address)
                                 /\ probes[i].original_bytes =
                                      <<text[Offset(probes[i].address)],
                                        text[Offset(probes[i].address) + 1]>>
  /\ {probes[i].address : i \in 1 .. Len(probes)} = Taken
  /\ IsFiniteSet(Taken)
  /\ Len(probes) = Cardinality(Taken)

ControlInv ==
  /\ pc \in {"collecting", "probing", "panicked", "done"}
  /\ pc \in {"collecting", "done"} => todo = {}
  /\ pc = "panicked" => (\E k \in Place : AtFault(k)) \/ \E t \in todo : Panics(t)
  /\ Collected => \A k \in Place : ~AtFault(k)
  /\ \A t \in Visited : ~Panics(t)

MapInv ==
  /\ edges \in [0 .. bitmap_size - 1 -> 0 .. MaxHits]
  /\ hit \subseteq 0 .. Len(probes) - 1
  /\ CoveredEdges = hit \cap 0 .. bitmap_size - 1

InstrumentorInv == SectionInv /\ ProbesInv /\ ControlInv /\ MapInv
--------------------------------------------------------------------------------
(* A section is a function from its places, numbered from 0, to words.       *)
LEMMA TextType ==
  ASSUME text \in Texts
  PROVE  /\ Length \in Nat /\ Place = 0 .. Length - 1
         /\ text \in [Place -> Word]
<1>1. IsFiniteSet(Place) /\ Place = 0 .. Length - 1 /\ text \in [Place -> Word]
  BY InstrumentorAssumption DEF Place, Length
<1> QED  BY <1>1, FS_CardinalityType DEF Length

(* Targets and offsets are numbers of the address space.                     *)
LEMMA TargetType ==
  ASSUME text \in Texts
  PROVE  \A t \in collect_branch_targets : t \in 0 .. AddressSpace - 1 /\ Offset(t) \in Nat
<1>1. ASSUME NEW k \in Place PROVE branch_target(k) \in 0 .. AddressSpace - 1
  <2>1. text[k].offset \in Int /\ k \in Int
    BY TextType DEF Word
  <2> QED  BY <2>1, InstrumentorAssumption DEF branch_target, Jump
<1>2. text_base \in 0 .. AddressSpace - 1
  BY InstrumentorAssumption
<1>3. ASSUME NEW t \in 0 .. AddressSpace - 1 PROVE Offset(t) \in Nat
  BY InstrumentorAssumption DEF Offset
<1> QED  BY <1>1, <1>2, <1>3 DEF collect_branch_targets

(* A remainder is at most the number it is taken of, and the number itself   *)
(* when that is less than the modulus; a negative one is moved up once.      *)
LEMMA RemainderIsLess ==
  ASSUME NEW x \in Nat, NEW m \in Nat \ {0}
  PROVE  x % m <= x /\ x % m \in Nat
  OBVIOUS

LEMMA RemainderOnce ==
  ASSUME NEW m \in Nat \ {0}, NEW x \in Int, -m <= x, x < m
  PROVE  x % m = IF x < 0 THEN x + m ELSE x
  OBVIOUS

(* The bounds check of the code, when nothing panics, is exactly that the    *)
(* stub lies in the section.                                                 *)
LEMMA FitsInRange ==
  ASSUME text \in Texts, NEW t \in collect_branch_targets, ~Panics(t)
  PROVE  Fits(t) <=> InRange(t)
<1>1. Offset(t) \in Nat /\ Length \in Nat
  BY TargetType, TextType
<1>2. Offset(t) + 2 \in Nat /\ AddressSpace \in Nat \ {0}
  BY <1>1, InstrumentorAssumption
<1>3. (Offset(t) + 2) % AddressSpace <= Offset(t) + 2
      /\ (Offset(t) + 2) % AddressSpace \in Nat
  BY <1>2, RemainderIsLess
<1>4. InRange(t) => Fits(t)
  BY <1>1, <1>3 DEF InRange, Fits
<1> QED  BY <1>4 DEF Panics

LEMMA InitInv == Init => InstrumentorInv
<1> SUFFICES ASSUME Init PROVE InstrumentorInv
  OBVIOUS
<1>1. text \in Texts /\ text \in [Place -> Word]
  BY TextType DEF Init
<1>2. Taken = {}
  BY DEF Init, Taken, Visited, Collected
<1>3. SectionInv
  <2>1. text = [k \in Place |-> text[k]]
    BY <1>1
  <2> QED  BY <1>1, <1>2, <2>1 DEF Init, SectionInv
<1>4. ProbesInv
  BY <1>2, FS_EmptySet DEF Init, ProbesInv
<1>5. ControlInv
  BY <1>2 DEF Init, ControlInv, Collected, Visited
<1>6. MapInv
  BY InstrumentorAssumption DEF Init, MapInv, CoveredEdges
<1> QED  BY <1>3, <1>4, <1>5, <1>6 DEF InstrumentorInv

(* One more target, taken off what is left, with or without a probe.         *)
LEMMA TakenGrows ==
  ASSUME SectionInv, NEW t \in todo, text' = text, todo' = todo \ {t},
         pc = "probing", pc' = "probing"
  PROVE  /\ Taken' = IF InRange(t) THEN Taken \cup {t} ELSE Taken
         /\ Visited' = Visited \cup {t}
         /\ t \notin Taken
<1>1. collect_branch_targets' = collect_branch_targets
  BY DEF collect_branch_targets, branch_target, Jump, IsJump, Place
<1>2. \A s : InRange(s)' = InRange(s)
  BY DEF InRange, Offset, Length, Place
<1>3. Visited' = Visited \cup {t} /\ t \notin Visited
  BY <1>1 DEF SectionInv, Visited, Collected
<1> QED  BY <1>2, <1>3 DEF Taken

(* What a step that leaves the section alone keeps.                          *)
LEMMA SectionKeeps ==
  ASSUME overflow_checks' = overflow_checks, text' = text
  PROVE  /\ \A t : InRange(t)' = InRange(t) /\ (Panics(t)' <=> Panics(t))
         /\ \A k : AtFault(k)' <=> AtFault(k)
         /\ Place' = Place /\ \A t : Offset(t)' = Offset(t)
         /\ collect_branch_targets' = collect_branch_targets
         /\ todo' = todo /\ (Collected' <=> Collected) => Taken' = Taken /\ Visited' = Visited
<1>1. collect_branch_targets' = collect_branch_targets /\ Place' = Place
      /\ \A k : AtFault(k)' <=> AtFault(k)
  BY DEF collect_branch_targets, branch_target, Jump, IsJump, Place, AtFault, ProductOverflows
<1>2. /\ \A t : InRange(t)' = InRange(t) /\ (Panics(t)' <=> Panics(t))
      /\ \A t : Offset(t)' = Offset(t)
  BY <1>1 DEF InRange, Offset, Length, Panics, Fits, OffsetOverflows
<1>3. ASSUME todo' = todo, Collected' <=> Collected PROVE Taken' = Taken /\ Visited' = Visited
  BY <1>1, <1>2, <1>3 DEF Taken, Visited
<1> QED  BY <1>1, <1>2, <1>3

LEMMA ProbeInv ==
  ASSUME InstrumentorInv, pc = "probing", NEW t \in todo, ProbeTarget(t)
  PROVE  InstrumentorInv'
<1>0. /\ overflow_checks' = overflow_checks /\ text' = text /\ todo' = todo \ {t}
      /\ pc' = pc /\ edges' = edges /\ hit' = hit
  BY DEF ProbeTarget
<1>1. /\ text \in Texts /\ t \in collect_branch_targets
      /\ Length \in Nat /\ Place = 0 .. Length - 1 /\ text \in [Place -> Word]
      /\ t \in 0 .. AddressSpace - 1 /\ Offset(t) \in Nat
  BY TextType, TargetType DEF InstrumentorInv, SectionInv
<1>2. InRange(t)
  BY <1>1, FitsInRange DEF ProbeTarget
<1>3. Taken' = Taken \cup {t} /\ t \notin Taken
  BY <1>0, <1>2, TakenGrows DEF InstrumentorInv
<1>4. /\ collect_branch_targets' = collect_branch_targets /\ Place' = Place
      /\ \A s : Offset(s)' = Offset(s) /\ InRange(s)' = InRange(s)
  BY <1>0, SectionKeeps
<1>5. SectionInv'
  <2>1. instrumented' = [k \in Place |-> IF k \in {Offset(t), Offset(t) + 1} THEN StubWord
                                          ELSE instrumented[k]]
    BY DEF ProbeTarget
  <2>2. \A k \in Place :
          instrumented[k] = IF \E s \in Taken : k \in {Offset(s), Offset(s) + 1}
                            THEN StubWord ELSE text[k]
    BY DEF InstrumentorInv, SectionInv
  <2>3. \A k \in Place :
          (\E s \in Taken \cup {t} : k \in {Offset(s), Offset(s) + 1})
          <=> k \in {Offset(t), Offset(t) + 1}
              \/ \E s \in Taken : k \in {Offset(s), Offset(s) + 1}
    OBVIOUS
  <2>4. instrumented' = [k \in Place |->
          IF \E s \in Taken \cup {t} : k \in {Offset(s), Offset(s) + 1}
          THEN StubWord ELSE text[k]]
    BY <2>1, <2>2, <2>3
  <2> QED  BY <2>4, <1>0, <1>1, <1>3, <1>4 DEF InstrumentorInv, SectionInv
<1>6. ProbesInv'
  <2> DEFINE p == [address |-> t, edge_id |-> Len(probes),
                   original_bytes |-> <<text[Offset(t)], text[Offset(t) + 1]>>]
  <2>1. probes \in Seq(ProbeTypes) /\ Len(probes) \in Nat
    BY DEF InstrumentorInv, ProbesInv
  <2>2. p \in ProbeTypes /\ p.address = t /\ p.edge_id = Len(probes)
        /\ p.original_bytes = <<text[Offset(t)], text[Offset(t) + 1]>>
    <3>1. Offset(t) \in Place /\ Offset(t) + 1 \in Place
      BY <1>1, <1>2 DEF InRange
    <3>2. text[Offset(t)] \in Word /\ text[Offset(t) + 1] \in Word
      BY <3>1, <1>1
    <3> QED  BY <2>1, <3>2, <1>1 DEF ProbeTypes
  <2>3. probes' = Append(probes, p)
    BY DEF ProbeTarget
  <2> HIDE DEF p
  <2>4. /\ probes' \in Seq(ProbeTypes) /\ Len(probes') = Len(probes) + 1
        /\ probes'[Len(probes) + 1] = p
        /\ \A i \in 1 .. Len(probes) : probes'[i] = probes[i]
    BY <2>1, <2>2, <2>3
  <2>5. \A i \in 1 .. Len(probes') :
          /\ probes'[i].edge_id = i - 1
          /\ InRange(probes'[i].address)
          /\ probes'[i].original_bytes = <<text[Offset(probes'[i].address)],
                                           text[Offset(probes'[i].address) + 1]>>
    <3> SUFFICES ASSUME NEW i \in 1 .. Len(probes')
                 PROVE  /\ probes'[i].edge_id = i - 1
                        /\ InRange(probes'[i].address)
                        /\ probes'[i].original_bytes = <<text[Offset(probes'[i].address)],
                                                         text[Offset(probes'[i].address) + 1]>>
      OBVIOUS
    <3>1. CASE i \in 1 .. Len(probes)
      BY <3>1, <2>4 DEF InstrumentorInv, ProbesInv
    <3>2. CASE i = Len(probes) + 1
      BY <3>2, <2>1, <2>2, <2>4, <1>2
    <3> QED  BY <3>1, <3>2, <2>1, <2>4
  <2>6. {probes'[i].address : i \in 1 .. Len(probes')} = Taken \cup {t}
    <3>1. {probes[i].address : i \in 1 .. Len(probes)} = Taken
      BY DEF InstrumentorInv, ProbesInv
    <3>2. 1 .. Len(probes') = 1 .. Len(probes) \cup {Len(probes) + 1}
      BY <2>1, <2>4
    <3> QED  BY <3>1, <3>2, <2>2, <2>4
  <2>7. IsFiniteSet(Taken \cup {t}) /\ Cardinality(Taken \cup {t}) = Cardinality(Taken) + 1
    BY <1>3, FS_AddElement DEF InstrumentorInv, ProbesInv
  <2>8. Len(probes) = Cardinality(Taken)
    BY DEF InstrumentorInv, ProbesInv
  <2>9. Len(probes') = Cardinality(Taken \cup {t})
    BY <2>4, <2>7, <2>8
  <2>10. ProbeTypes' = ProbeTypes
    BY DEF ProbeTypes
  <2> QED  BY <1>0, <1>3, <1>4, <2>4, <2>5, <2>6, <2>7, <2>9, <2>10 DEF ProbesInv
<1>7. ControlInv'
  <2>1. Visited' = Visited \cup {t}
    BY <1>0, TakenGrows DEF InstrumentorInv
  <2>2. Collected /\ Collected'
    BY <1>0 DEF Collected
  <2> QED  BY <1>0, <2>1, <2>2, SectionKeeps DEF InstrumentorInv, ControlInv, ProbeTarget
<1>8. MapInv'
  <2>1. Len(probes') = Len(probes) + 1 /\ Len(probes) \in Nat
    BY DEF InstrumentorInv, ProbesInv, ProbeTarget
  <2> QED  BY <1>0, <2>1 DEF InstrumentorInv, MapInv, CoveredEdges
<1> QED  BY <1>5, <1>6, <1>7, <1>8 DEF InstrumentorInv

LEMMA SkipInv ==
  ASSUME InstrumentorInv, pc = "probing", NEW t \in todo, SkipTarget(t)
  PROVE  InstrumentorInv'
<1>0. /\ overflow_checks' = overflow_checks /\ text' = text /\ todo' = todo \ {t} /\ instrumented' = instrumented
      /\ probes' = probes /\ pc' = pc /\ edges' = edges /\ hit' = hit
  BY DEF SkipTarget
<1>1. text \in Texts /\ t \in collect_branch_targets
  BY DEF InstrumentorInv, SectionInv
<1>2. ~InRange(t)
  BY <1>1, FitsInRange DEF SkipTarget
<1>3. Taken' = Taken
  BY <1>0, <1>2, TakenGrows DEF InstrumentorInv
<1>4. /\ collect_branch_targets' = collect_branch_targets /\ Place' = Place
      /\ \A s : Offset(s)' = Offset(s) /\ InRange(s)' = InRange(s)
  BY <1>0, SectionKeeps
<1>5. SectionInv'
  BY <1>0, <1>3, <1>4 DEF InstrumentorInv, SectionInv
<1>6. ProbesInv'
  BY <1>0, <1>3, <1>4 DEF InstrumentorInv, ProbesInv, ProbeTypes
<1>7. ControlInv'
  <2>1. Visited' = Visited \cup {t}
    BY <1>0, TakenGrows DEF InstrumentorInv
  <2>2. Collected /\ Collected'
    BY <1>0 DEF Collected
  <2> QED  BY <1>0, <2>1, <2>2, SectionKeeps DEF InstrumentorInv, ControlInv, SkipTarget
<1>8. MapInv'
  BY <1>0 DEF InstrumentorInv, MapInv, CoveredEdges
<1> QED  BY <1>5, <1>6, <1>7, <1>8 DEF InstrumentorInv

LEMMA RecordInv ==
  ASSUME InstrumentorInv, pc = "done", NEW i \in DOMAIN probes, record_hit(probes[i].edge_id)
  PROVE  InstrumentorInv'
<1> DEFINE id == probes[i].edge_id
<1>0. /\ overflow_checks' = overflow_checks /\ text' = text /\ todo' = todo /\ instrumented' = instrumented
      /\ probes' = probes /\ pc' = pc /\ hit' = hit \cup {id}
  BY DEF record_hit
<1>1. id \in 0 .. Len(probes) - 1 /\ Len(probes) \in Nat
  <2>1. probes \in Seq(ProbeTypes) /\ i \in 1 .. Len(probes) /\ Len(probes) \in Nat
    BY DEF InstrumentorInv, ProbesInv
  <2>2. id = i - 1
    BY <2>1 DEF InstrumentorInv, ProbesInv
  <2> QED  BY <2>1, <2>2
<1>e. edges' = IF id < bitmap_size /\ edges[id] < MaxHits
               THEN [edges EXCEPT ![id] = edges[id] + 1] ELSE edges
  BY DEF record_hit
<1> HIDE DEF id
<1>2. SectionInv' /\ ProbesInv' /\ ControlInv'
  <2>1. /\ Taken' = Taken /\ Visited' = Visited /\ (Collected' <=> Collected)
        /\ collect_branch_targets' = collect_branch_targets /\ Place' = Place
        /\ \A s : /\ Offset(s)' = Offset(s) /\ InRange(s)' = InRange(s)
                  /\ Panics(s)' <=> Panics(s)
        /\ \A k : AtFault(k)' <=> AtFault(k)
    <3>1. /\ overflow_checks' = overflow_checks /\ text' = text /\ todo' = todo
          /\ (Collected' <=> Collected)
      BY <1>0 DEF Collected
    <3> QED  BY <3>1, SectionKeeps
  <2> QED  BY <1>0, <2>1 DEF InstrumentorInv, SectionInv, ProbesInv, ControlInv, ProbeTypes
<1>3. MapInv'
  <2>1. edges \in [0 .. bitmap_size - 1 -> 0 .. MaxHits] /\ bitmap_size \in Nat /\ MaxHits \in Nat \ {0}
    BY InstrumentorAssumption DEF InstrumentorInv, MapInv
  <2>2. edges' \in [0 .. bitmap_size - 1 -> 0 .. MaxHits]
    BY <2>1, <1>e, <1>1
  <2>3. \A e \in 0 .. bitmap_size - 1 : edges'[e] > 0 <=> (edges[e] > 0 \/ e = id)
    BY <2>1, <1>e, <1>1
  <2>4. CoveredEdges' = CoveredEdges \cup ({id} \cap 0 .. bitmap_size - 1)
    BY <2>3 DEF CoveredEdges
  <2> QED  BY <1>0, <1>1, <2>2, <2>4 DEF InstrumentorInv, MapInv
<1> QED  BY <1>2, <1>3 DEF InstrumentorInv

(* A step that changes neither the section nor what has been done with it.  *)
LEMMA QuietStep ==
  ASSUME InstrumentorInv, overflow_checks' = overflow_checks, text' = text, todo' = todo,
         instrumented' = instrumented, probes' = probes, edges' = edges, hit' = hit,
         Collected' <=> Collected
  PROVE  /\ SectionInv' /\ ProbesInv' /\ MapInv'
         /\ Visited' = Visited
<1>1. /\ Taken' = Taken /\ Visited' = Visited
      /\ collect_branch_targets' = collect_branch_targets /\ Place' = Place
      /\ \A s : Offset(s)' = Offset(s) /\ InRange(s)' = InRange(s)
  BY SectionKeeps
<1> QED  BY <1>1 DEF InstrumentorInv, SectionInv, ProbesInv, MapInv, ProbeTypes, CoveredEdges

(* The targets are known: none has been taken yet.                           *)
LEMMA CollectInv ==
  ASSUME InstrumentorInv, pc = "collecting", CollectTargets
  PROVE  InstrumentorInv'
<1>0. /\ overflow_checks' = overflow_checks /\ text' = text /\ instrumented' = instrumented
      /\ probes' = probes /\ edges' = edges /\ hit' = hit
      /\ todo' = collect_branch_targets /\ pc' = "probing"
      /\ \A k \in Place : ~AtFault(k)
  BY DEF CollectTargets, AtFault
<1>1. Taken = {}
  BY DEF Taken, Visited, Collected
<1>2. /\ collect_branch_targets' = collect_branch_targets /\ Place' = Place
      /\ \A s : Offset(s)' = Offset(s) /\ InRange(s)' = InRange(s)
      /\ \A k : AtFault(k)' <=> AtFault(k)
  BY <1>0, SectionKeeps
<1>3. Visited' = {} /\ Taken' = {}
  BY <1>0, <1>2 DEF Visited, Taken
<1>4. SectionInv' /\ ProbesInv' /\ MapInv'
  BY <1>0, <1>1, <1>2, <1>3 DEF InstrumentorInv, SectionInv, ProbesInv, MapInv, ProbeTypes,
                              CoveredEdges
<1>5. ControlInv'
  BY <1>0, <1>2, <1>3 DEF ControlInv
<1> QED  BY <1>4, <1>5 DEF InstrumentorInv

LEMMA StepInv == InstrumentorInv /\ [Next]_vars => InstrumentorInv'
<1> SUFFICES ASSUME InstrumentorInv, [Next]_vars PROVE InstrumentorInv'
  OBVIOUS
<1>1. CASE UNCHANGED vars
  <2>1. Collected' <=> Collected
    BY <1>1 DEF vars, Collected
  <2>2. ControlInv'
    BY <1>1, <2>1, QuietStep, SectionKeeps DEF vars, InstrumentorInv, ControlInv
  <2> QED  BY <1>1, <2>1, <2>2, QuietStep DEF vars, InstrumentorInv
<1>2. CASE MapProbes
  <2>1. Collected' <=> Collected
    BY <1>2 DEF MapProbes, Collected
  <2>2. ControlInv'
    BY <1>2, <2>1, QuietStep, SectionKeeps DEF MapProbes, InstrumentorInv, ControlInv
  <2> QED  BY <1>2, <2>1, <2>2, QuietStep DEF MapProbes, InstrumentorInv
<1>3. ASSUME pc = "collecting", NEW k \in Place, PanicAtBranch(k) PROVE InstrumentorInv'
  <2>1. ~Collected /\ ~Collected'
    BY <1>3 DEF PanicAtBranch, Collected, InstrumentorInv, ControlInv
  <2>2. AtFault(k)' /\ k \in Place'
    BY <1>3, SectionKeeps DEF PanicAtBranch, AtFault
  <2>3. ControlInv'
    BY <1>3, <2>1, <2>2 DEF PanicAtBranch, ControlInv, Visited
  <2> QED  BY <1>3, <2>1, <2>3, QuietStep DEF PanicAtBranch, InstrumentorInv
<1>4. ASSUME pc = "probing", NEW t \in todo, PanicAtTarget(t) PROVE InstrumentorInv'
  <2>1. Collected /\ Collected'
    BY <1>4 DEF PanicAtTarget, Collected
  <2>2. ControlInv'
    BY <1>4, <2>1, QuietStep, SectionKeeps DEF PanicAtTarget, InstrumentorInv, ControlInv
  <2> QED  BY <1>4, <2>1, <2>2, QuietStep DEF PanicAtTarget, InstrumentorInv
<1>5. ASSUME pc = "probing", NEW t \in todo, ProbeTarget(t) PROVE InstrumentorInv'
  BY <1>5, ProbeInv
<1>6. ASSUME pc = "probing", NEW t \in todo, SkipTarget(t) PROVE InstrumentorInv'
  BY <1>6, SkipInv
<1>7. ASSUME pc = "done", NEW i \in DOMAIN probes, record_hit(probes[i].edge_id)
      PROVE  InstrumentorInv'
  BY <1>7, RecordInv
<1>8. ASSUME pc = "collecting", CollectTargets PROVE InstrumentorInv'
  BY <1>8, CollectInv
<1> QED  BY <1>1, <1>2, <1>3, <1>4, <1>5, <1>6, <1>7, <1>8 DEF Next

LEMMA InvHolds == Spec => []InstrumentorInv
  BY InitInv, StepInv, PTL DEF Spec
--------------------------------------------------------------------------------
(* Probes and counters keep their types.                                     *)
THEOREM TypeCorrect == Spec => []TypeOK
<1>1. InstrumentorInv => TypeOK
  <2> SUFFICES ASSUME InstrumentorInv PROVE TypeOK
    OBVIOUS
  <2>1. text \in Texts /\ text \in [Place -> Word] /\ todo \subseteq 0 .. AddressSpace - 1
    BY TextType, TargetType DEF InstrumentorInv, SectionInv
  <2>2. instrumented \in [Place -> Word]
    BY <2>1 DEF InstrumentorInv, SectionInv, StubWord, Word
  <2>3. overflow_checks \in BOOLEAN
    BY DEF InstrumentorInv, SectionInv
  <2>4. probes \in Seq(ProbeTypes)
    BY DEF InstrumentorInv, ProbesInv
  <2>5. pc \in {"collecting", "probing", "panicked", "done"}
    BY DEF InstrumentorInv, ControlInv
  <2>6. edges \in [0 .. bitmap_size - 1 -> 0 .. MaxHits] /\ hit \subseteq 0 .. Len(probes) - 1
    BY DEF InstrumentorInv, MapInv
  <2> QED  BY <2>1, <2>2, <2>3, <2>4, <2>5, <2>6 DEF TypeOK, ProbeTypes
<1> QED  BY <1>1, InvHolds, PTL

(* Whatever the order of the targets and however the probes overlap, the     *)
(* bytes they keep are the section's.                                        *)
THEOREM ProbesCanBeUndone == Spec => []Restorable
<1>1. InstrumentorInv => Restorable
  <2> SUFFICES ASSUME InstrumentorInv, NEW k \in Place
               PROVE  LET over == {i \in DOMAIN probes : Covers(probes[i], k)} IN
                      /\ over = {} => instrumented[k] = text[k]
                      /\ \A i \in over :
                           probes[i].original_bytes[k - Offset(probes[i].address) + 1] = text[k]
    BY DEF Restorable
  <2>0. DOMAIN probes = 1 .. Len(probes)
    BY DEF InstrumentorInv, ProbesInv
  <2>1. ASSUME NEW i \in 1 .. Len(probes), Covers(probes[i], k)
        PROVE  probes[i].original_bytes[k - Offset(probes[i].address) + 1] = text[k]
    <3>1. probes[i].address \in Taken
      BY DEF InstrumentorInv, ProbesInv
    <3>2. Offset(probes[i].address) \in Nat
      BY <3>1, TargetType DEF Taken, Visited, InstrumentorInv, SectionInv
    <3>3. probes[i].original_bytes = <<text[Offset(probes[i].address)],
                                       text[Offset(probes[i].address) + 1]>>
      BY DEF InstrumentorInv, ProbesInv
    <3> QED  BY <2>1, <3>2, <3>3 DEF Covers
  <2>2. ASSUME \A i \in 1 .. Len(probes) : ~Covers(probes[i], k)
        PROVE  instrumented[k] = text[k]
    <3>1. \A t \in Taken : \E i \in 1 .. Len(probes) : t = probes[i].address
      BY DEF InstrumentorInv, ProbesInv
    <3>2. \A t \in Taken : k \notin {Offset(t), Offset(t) + 1}
      BY <2>2, <3>1 DEF Covers
    <3> QED  BY <3>2 DEF InstrumentorInv, SectionInv
  <2> QED  BY <2>0, <2>1, <2>2
<1> QED  BY <1>1, InvHolds, PTL

(* The probed targets and the resulting section do not depend on the order   *)
(* in which the targets are taken.                                           *)
THEOREM OrderIsIrrelevant == Spec => []OrderDoesNotMatter
<1>1. InstrumentorInv => OrderDoesNotMatter
  <2> SUFFICES ASSUME InstrumentorInv, pc = "done" PROVE OrderDoesNotMatter
    BY DEF OrderDoesNotMatter
  <2>1. Taken = {t \in collect_branch_targets : Offset(t) + 2 <= Length}
    BY DEF InstrumentorInv, ControlInv, Taken, Visited, Collected, InRange
  <2>2. DOMAIN probes = 1 .. Len(probes)
    BY DEF InstrumentorInv, ProbesInv
  <2> QED  BY <2>1, <2>2 DEF OrderDoesNotMatter, InstrumentorInv, ProbesInv, SectionInv
<1> QED  BY <1>1, InvHolds, PTL

(* Where a branch leads, as an address and as an offset: the two wrap-arounds *)
(* of a branch to before the section cancel.                                 *)
LEMMA JumpOffset ==
  ASSUME text \in Texts, NEW k \in Place
  PROVE  /\ Jump(k) \in Int /\ text[k].offset \in Int /\ k \in Nat /\ k < Length
         /\ Jump(k) = k + 1 + text[k].offset
         /\ -AddressSpace < Jump(k) /\ text_base + Jump(k) + 2 < AddressSpace
         /\ text_base + Length + 1 < AddressSpace
         /\ branch_target(k) = IF text_base + Jump(k) < 0 THEN text_base + Jump(k) + AddressSpace
                                                          ELSE text_base + Jump(k)
         /\ Offset(branch_target(k)) = IF Jump(k) < 0 THEN Jump(k) + AddressSpace ELSE Jump(k)
<1> DEFINE J == Jump(k)
<1> DEFINE t == branch_target(k)
<1>1. /\ text \in [Place -> Word] /\ Place = 0 .. Length - 1 /\ Length \in Nat
      /\ AddressSpace \in Nat \ {0} /\ text_base \in 0 .. AddressSpace - 1
  BY TextType, InstrumentorAssumption
<1>2. text[k].offset \in Int /\ k \in Nat /\ k < Length
  BY <1>1 DEF Word
<1>3. J = k + 1 + text[k].offset /\ J \in Int
  BY <1>2 DEF Jump
<1>4. -AddressSpace < J /\ text_base + J + 2 < AddressSpace
  <2>1. -AddressSpace < k + 1 + text[k].offset
        /\ text_base + k + 1 + text[k].offset + 2 < AddressSpace
    BY SectionAssumption DEF Place
  <2> QED  BY <1>1, <1>2, <1>3, <2>1
<1>5. text_base + Length + 1 < AddressSpace
  <2>1. Length - 1 \in Place
    BY <1>1, <1>2
  <2>2. text_base + (Length - 1) + 2 < AddressSpace
    BY <2>1, SectionAssumption DEF Place
  <2> QED  BY <2>2, <1>1
<1>6. t = (text_base + J) % AddressSpace
  BY DEF branch_target
<1> HIDE DEF J, t
<1>7. t = IF text_base + J < 0 THEN text_base + J + AddressSpace ELSE text_base + J
  <2>1. text_base + J \in Int /\ -AddressSpace <= text_base + J /\ text_base + J < AddressSpace
    BY <1>1, <1>3, <1>4
  <2> QED  BY <1>1, <1>6, <2>1, RemainderOnce
<1>8. t - text_base \in Int /\ -AddressSpace <= t - text_base /\ t - text_base < AddressSpace
  BY <1>1, <1>3, <1>4, <1>7
<1>9. Offset(t) = IF t - text_base < 0 THEN t - text_base + AddressSpace ELSE t - text_base
  BY <1>1, <1>8, RemainderOnce DEF Offset
<1>10. Offset(t) = IF J < 0 THEN J + AddressSpace ELSE J
  BY <1>1, <1>3, <1>4, <1>7, <1>9
<1> QED  BY <1>2, <1>3, <1>4, <1>5, <1>7, <1>10 DEF J, t

(* Which targets stop the probing when overflow wraps.                       *)
LEMMA PanicsAt ==
  ASSUME text \in Texts, NEW k \in Place
  PROVE  /\ Jump(k) >= 0 => ~Panics(branch_target(k))
         /\ ~overflow_checks => (Panics(branch_target(k)) <=> Jump(k) \in {-2, -1})
<1> DEFINE J == Jump(k)
<1> DEFINE t == branch_target(k)
<1>1. /\ J \in Int /\ k \in Nat /\ k < Length /\ Length \in Nat
      /\ AddressSpace \in Nat \ {0} /\ text_base \in 0 .. AddressSpace - 1
      /\ -AddressSpace < J /\ text_base + J + 2 < AddressSpace
      /\ text_base + Length + 1 < AddressSpace
      /\ t = IF text_base + J < 0 THEN text_base + J + AddressSpace ELSE text_base + J
      /\ Offset(t) = IF J < 0 THEN J + AddressSpace ELSE J
  BY JumpOffset, TextType, InstrumentorAssumption
<1> HIDE DEF J, t
<1>2. CASE J \in {-2, -1}
  <2>1. Offset(t) + 2 = J + 2 + AddressSpace /\ J + 2 \in 0 .. 1
    BY <1>1, <1>2
  <2>2. 0 .. 1 \subseteq Nat /\ J + 2 < AddressSpace /\ J + 2 <= Length
    BY <1>1, <1>2
  <2>3. (J + 2 + AddressSpace) % AddressSpace = J + 2
    BY <1>1, <2>1, <2>2
  <2>4. Fits(t) /\ ~InRange(t)
    BY <1>1, <2>1, <2>2, <2>3 DEF Fits, InRange
  <2> QED  BY <1>2, <2>4 DEF Panics, J, t
<1>3. CASE J \notin {-2, -1}
  <2>1. Offset(t) + 2 \in Int /\ -AddressSpace <= Offset(t) + 2
        /\ Offset(t) + 2 < AddressSpace /\ ~(Offset(t) + 2 < 0)
    BY <1>1, <1>3
  <2>2. (Offset(t) + 2) % AddressSpace = Offset(t) + 2
    BY <1>1, <2>1, RemainderOnce
  <2>3. Fits(t) => InRange(t)
    BY <2>2 DEF Fits, InRange
  <2>4. J >= 0 => ~OffsetOverflows(t)
    BY <1>1, <2>1 DEF OffsetOverflows
  <2> QED  BY <1>3, <2>3, <2>4 DEF Panics, J, t
<1> QED  BY <1>2, <1>3

(* The entry of a section never stops it.                                    *)
LEMMA EntryIsSafe == ~Panics(text_base)
<1>1. 0 \in Int /\ 2 \in Int /\ AddressSpace \in Nat \ {0} /\ -AddressSpace <= 0
      /\ 0 < AddressSpace /\ -AddressSpace <= 2 /\ 2 < AddressSpace
      /\ text_base \in 0 .. AddressSpace - 1
  BY InstrumentorAssumption
<1>2. 0 % AddressSpace = 0 /\ 2 % AddressSpace = 2
  BY <1>1, RemainderOnce
<1>3. Offset(text_base) = 0
  BY <1>1, <1>2 DEF Offset
<1>4. ~OffsetOverflows(text_base)
  BY <1>1, <1>3 DEF OffsetOverflows
<1>5. Fits(text_base) => InRange(text_base)
  BY <1>2, <1>3 DEF Fits, InRange
<1> QED  BY <1>4, <1>5 DEF Panics

(* With overflow checks a section panics exactly for a backward branch of    *)
(* two words or more, without exactly for one to the two words before it.    *)
THEOREM PanicsAreKnown == Spec => []PanicsDependOnBuild
<1>1. InstrumentorInv => PanicsDependOnBuild
  <2> SUFFICES ASSUME InstrumentorInv PROVE PanicsDependOnBuild
    OBVIOUS
  <2> DEFINE Fatal(k) == IsJump(k) /\ IF overflow_checks THEN text[k].offset < -1
                                                         ELSE Jump(k) \in {-2, -1}
  <2>1. text \in Texts /\ todo \subseteq collect_branch_targets /\ overflow_checks \in BOOLEAN
    BY DEF InstrumentorInv, SectionInv
  <2>2. ASSUME NEW k \in Place
        PROVE  /\ overflow_checks => (AtFault(k) <=> Fatal(k))
               /\ ~overflow_checks => ~AtFault(k)
    <3>1. text[k].offset \in Int
      BY <2>1, JumpOffset
    <3> QED  BY <3>1 DEF AtFault, ProductOverflows
  <2>3. ASSUME pc = "panicked" PROVE \E k \in Place : Fatal(k)
    <3>1. CASE \E k \in Place : AtFault(k)
      BY <3>1, <2>2
    <3>2. CASE \E t \in todo : Panics(t)
      <4>1. PICK t \in todo : Panics(t)
        BY <3>2
      <4>2. PICK k \in Place : IsJump(k) /\ t = branch_target(k)
        BY <2>1, <4>1, EntryIsSafe DEF collect_branch_targets
      <4>3. /\ Jump(k) \in Int /\ text[k].offset \in Int /\ k \in Nat
            /\ Jump(k) = k + 1 + text[k].offset
        BY <2>1, JumpOffset
      <4>4. Jump(k) < 0 /\ (~overflow_checks => Jump(k) \in {-2, -1})
        BY <2>1, <4>1, <4>2, <4>3, PanicsAt
      <4>5. Fatal(k)
        BY <4>2, <4>3, <4>4
      <4> QED  BY <4>5
    <3> QED  BY <2>3, <3>1, <3>2 DEF InstrumentorInv, ControlInv
  <2>4. ASSUME pc = "done", NEW k \in Place PROVE ~Fatal(k)
    <3>1. ~AtFault(k) /\ Visited = collect_branch_targets
      BY <2>4 DEF InstrumentorInv, ControlInv, Collected, Visited
    <3>2. IsJump(k) => ~Panics(branch_target(k))
      BY <3>1 DEF InstrumentorInv, ControlInv, collect_branch_targets
    <3>3. ~overflow_checks /\ IsJump(k) => Jump(k) \notin {-2, -1}
      BY <2>1, <3>2, PanicsAt
    <3> QED  BY <3>1, <3>3, <2>2
  <2> QED  BY <2>3, <2>4 DEF PanicsDependOnBuild
<1> QED  BY <1>1, InvHolds, PTL

(* A quotient of two numbers, the first at most k times the second, is at    *)
(* most k.                                                                   *)
LEMMA QuotientBound ==
  ASSUME NEW n \in Nat, NEW d \in Nat \ {0}, NEW k \in Nat, n <= k * d
  PROVE  n \div d \in 0 .. k
  OBVIOUS

(* The map's count of edges is that of the probes hit, and at most the       *)
(* number of probes.                                                         *)
THEOREM CoverageIsExact == Spec => []CoverageIsHits
<1>1. InstrumentorInv => CoverageIsHits
  <2> SUFFICES ASSUME InstrumentorInv PROVE CoverageIsHits
    OBVIOUS
  <2>1. CoveredEdges = hit \cap 0 .. bitmap_size - 1 /\ hit \subseteq 0 .. Len(probes) - 1
    BY DEF InstrumentorInv, MapInv
  <2>2. Len(probes) \in Nat
    BY DEF InstrumentorInv, ProbesInv
  <2>3. 0 \in Int /\ Len(probes) - 1 \in Int
    BY <2>2
  <2>4. IsFiniteSet(0 .. Len(probes) - 1)
        /\ Cardinality(0 .. Len(probes) - 1)
             = IF 0 > Len(probes) - 1 THEN 0 ELSE Len(probes) - 1 - 0 + 1
    BY <2>3, FS_Interval
  <2>5. CoveredEdges \subseteq 0 .. Len(probes) - 1
    BY <2>1
  <2>6. Cardinality(CoveredEdges) <= Cardinality(0 .. Len(probes) - 1)
    BY <2>4, <2>5, FS_Subset
  <2>7. covered_edges \in Nat /\ covered_edges <= Len(probes)
    <3>1. IsFiniteSet(CoveredEdges)
      BY <2>4, <2>5, FS_Subset
    <3> QED  BY <3>1, <2>2, <2>4, <2>6, FS_CardinalityType DEF covered_edges
  <2>8. coverage_pct \in 0 .. 100
    <3>1. CASE probes = <<>>
      BY <3>1 DEF coverage_pct
    <3>2. CASE probes # <<>>
      <4>1. Len(probes) \in Nat \ {0} /\ 100 \in Nat
        BY <3>2 DEF InstrumentorInv, ProbesInv
      <4>2. covered_edges * 100 \in Nat /\ covered_edges * 100 <= 100 * Len(probes)
        BY <2>2, <2>7
      <4> QED  BY <3>2, <4>1, <4>2, QuotientBound DEF coverage_pct
    <3> QED  BY <3>1, <3>2
  <2> QED  BY <2>1, <2>7, <2>8 DEF CoverageIsHits
<1> QED  BY <1>1, InvHolds, PTL
================================================================================
