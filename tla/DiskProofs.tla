------------------------------- MODULE DiskProofs -------------------------------
(***************************************************************************)
(* Theorems about what is kept on disk: the crash records (CrashStore) and *)
(* the two files of `krastor init` (IdlHarness).  Both convert names one   *)
(* character at a time, so the first part is about FlattenSeq.             *)
(***************************************************************************)
EXTENDS CrashStore, IdlHarness, WellFoundedInduction, SequenceTheorems, TLAPS

LEMMA NoDescent ==
  ASSUME NEW T, T \subseteq Nat, \A n \in T : \E k \in T : k < n
  PROVE  T = {}
<1>1. SUFFICES ASSUME T # {} PROVE FALSE
  OBVIOUS
<1>2. PICK n \in T : \A k \in T : <<k, n>> \notin OpToRel(<, Nat)
  BY <1>1, NatLessThanWellFounded, WFMin, Zenon
<1>3. PICK k \in T : k < n
  OBVIOUS
<1> QED
  BY <1>2, <1>3 DEF OpToRel

--------------------------------------------------------------------------------
(* FlattenSeq, one piece after the other.                                    *)
FlatTo(ss) ==
  CHOOSE g : g = [i \in 1 .. Len(ss) |-> IF i = 1 THEN ss[i] ELSE g[i - 1] \o ss[i]]

FlatAt(ss, i) == IF i = 0 THEN << >> ELSE FlatTo(ss)[i]

LEMMA FlattenByDefinition ==
  ASSUME NEW ss, Len(ss) # 0
  PROVE  FlattenSeq(ss) = FlatTo(ss)[Len(ss)]
  BY DEF FlattenSeq, FlatTo

LEMMA FlatExists ==
  ASSUME NEW C, NEW ss \in Seq(Seq(C))
  PROVE  \E g \in [1 .. Len(ss) -> Seq(C)] :
           \A i \in 1 .. Len(ss) : g[i] = IF i = 1 THEN ss[i] ELSE g[i - 1] \o ss[i]
<1> DEFINE Good(m) == \E g \in [1 .. m -> Seq(C)] :
             \A i \in 1 .. m : g[i] = IF i = 1 THEN ss[i] ELSE g[i - 1] \o ss[i]
           T == {m \in 0 .. Len(ss) : ~Good(m)}
<1>1. Len(ss) \in Nat
  OBVIOUS
<1>2. ASSUME NEW m \in T PROVE \E k \in T : k < m
  <2>1. m # 0
    <3>1. SUFFICES ASSUME m = 0 PROVE Good(m)
      OBVIOUS
    <3> DEFINE z == [i \in 1 .. 0 |-> << >>]
    <3>2. z \in [1 .. 0 -> Seq(C)]
      OBVIOUS
    <3>3. \A i \in 1 .. 0 : z[i] = IF i = 1 THEN ss[i] ELSE z[i - 1] \o ss[i]
      OBVIOUS
    <3> HIDE DEF z
    <3>4. Good(0)
      BY <3>2, <3>3
    <3> QED
      BY <3>1, <3>4
  <2>2. m - 1 \in 0 .. Len(ss) /\ m - 1 < m /\ m \in 1 .. Len(ss)
    BY <1>1, <2>1
  <2>3. SUFFICES ASSUME Good(m - 1) PROVE Good(m)
    BY <2>2
  <2>4. PICK g \in [1 .. m - 1 -> Seq(C)] :
               \A i \in 1 .. m - 1 : g[i] = IF i = 1 THEN ss[i] ELSE g[i - 1] \o ss[i]
    BY <2>3
  <2> DEFINE e == IF m = 1 THEN ss[m] ELSE g[m - 1] \o ss[m]
             h == [i \in 1 .. m |-> IF i = m THEN e ELSE g[i]]
  <2>5. e \in Seq(C)
    <3>1. ss[m] \in Seq(C)
      BY <2>2
    <3>2. m # 1 => g[m - 1] \in Seq(C)
      BY <2>2
    <3> QED
      BY <3>1, <3>2
  <2> HIDE DEF e
  <2>6. h \in [1 .. m -> Seq(C)]
    BY <2>2, <2>5
  <2>7. ASSUME NEW i \in 1 .. m PROVE h[i] = IF i = 1 THEN ss[i] ELSE h[i - 1] \o ss[i]
    <3>1. CASE i = m
      BY <2>2, <3>1 DEF e
    <3>2. CASE i # m
      <4>1. i \in 1 .. m - 1 /\ h[i] = g[i]
        BY <2>2, <3>2
      <4>2. i # 1 => h[i - 1] = g[i - 1]
        BY <2>2, <4>1
      <4> QED
        BY <2>4, <4>1, <4>2
    <3> QED
      BY <3>1, <3>2
  <2> QED
    BY <2>6, <2>7
<1>3. T = {}
  <2>1. T \subseteq Nat
    BY <1>1
  <2> HIDE DEF T
  <2> QED
    BY <1>2, <2>1, NoDescent
<1>4. Good(Len(ss))
  <2>1. Len(ss) \in 0 .. Len(ss)
    BY <1>1
  <2> HIDE DEF Good
  <2> QED
    BY <1>3, <2>1
<1> QED
  BY <1>4

\* What FlattenSeq computes, piece by piece.
LEMMA FlatStep ==
  ASSUME NEW C, NEW ss \in Seq(Seq(C))
  PROVE  /\ FlatAt(ss, 0) = << >>
         /\ \A i \in 1 .. Len(ss) : FlatAt(ss, i) = FlatAt(ss, i - 1) \o ss[i]
         /\ \A i \in 0 .. Len(ss) : FlatAt(ss, i) \in Seq(C)
         /\ FlattenSeq(ss) = FlatAt(ss, Len(ss))
<1> DEFINE n == Len(ss)
           F == FlatTo(ss)
<1>1. n \in Nat
  OBVIOUS
<1>2. PICK g \in [1 .. n -> Seq(C)] :
             \A i \in 1 .. n : g[i] = IF i = 1 THEN ss[i] ELSE g[i - 1] \o ss[i]
  BY FlatExists
<1>3. g = [i \in 1 .. n |-> IF i = 1 THEN ss[i] ELSE g[i - 1] \o ss[i]]
  BY <1>2
<1>4. F = [i \in 1 .. n |-> IF i = 1 THEN ss[i] ELSE F[i - 1] \o ss[i]]
  BY <1>3 DEF FlatTo
<1> HIDE DEF F
<1>5. \A i \in 1 .. n : F[i] = g[i]
  <2> DEFINE T == {i \in 1 .. n : F[i] # g[i]}
  <2>1. ASSUME NEW i \in T PROVE \E k \in T : k < i
    <3>1. F[i] = (IF i = 1 THEN ss[i] ELSE F[i - 1] \o ss[i])
      BY <1>4
    <3>2. g[i] = (IF i = 1 THEN ss[i] ELSE g[i - 1] \o ss[i])
      BY <1>2
    <3>3. i # 1 /\ F[i - 1] # g[i - 1]
      BY <3>1, <3>2
    <3>4. i - 1 \in T /\ i - 1 < i
      BY <1>1, <3>3
    <3> QED
      BY <3>4
  <2>2. T \subseteq Nat
    BY <1>1
  <2>3. T = {}
    <3> HIDE DEF T
    <3> QED
      BY <2>1, <2>2, NoDescent
  <2> QED
    BY <2>3
<1>6. FlatAt(ss, 0) = << >>
  BY DEF FlatAt
<1>7. \A i \in 1 .. n : FlatAt(ss, i) = g[i]
  BY <1>1, <1>5 DEF FlatAt, F
<1>8. ASSUME NEW i \in 0 .. n PROVE FlatAt(ss, i) \in Seq(C)
  <2>1. CASE i = 0
    <3>1. << >> \in Seq(C)
      OBVIOUS
    <3> QED
      BY <1>6, <2>1, <3>1, Zenon
  <2>2. CASE i # 0
    <3>1. i \in 1 .. n
      BY <1>1, <2>2
    <3> QED
      BY <1>2, <1>7, <3>1
  <2> QED
    BY <2>1, <2>2
<1>9. ASSUME NEW i \in 1 .. n PROVE FlatAt(ss, i) = FlatAt(ss, i - 1) \o ss[i]
  <2>1. CASE i = 1
    <3>1. ss[i] \in Seq(C)
      OBVIOUS
    <3>2. FlatAt(ss, i - 1) = << >>
      <4>1. i - 1 = 0
        BY <2>1
      <4> QED
        BY <1>6, <4>1, Zenon
    <3>4. FlatAt(ss, i) = ss[i]
      BY <1>2, <1>7, <2>1
    <3>3. << >> \o ss[i] = ss[i]
      BY <3>1, ConcatEmptySeq
    <3> QED
      BY <3>2, <3>3, <3>4
  <2>2. CASE i # 1
    <3>1. i - 1 \in 1 .. n
      BY <1>1, <2>2
    <3> QED
      BY <1>2, <1>7, <2>2, <3>1
  <2> QED
    BY <2>1, <2>2
<1>10. FlattenSeq(ss) = FlatAt(ss, n)
  <2>1. CASE n = 0
    <3>1. ss = << >>
      BY <2>1
    <3>2. FlattenSeq(ss) = ss
      BY <2>1 DEF FlattenSeq
    <3> QED
      BY <1>6, <2>1, <3>1, <3>2
  <2>2. CASE n # 0
    BY <2>2, FlattenByDefinition DEF FlatAt
  <2> QED
    BY <2>1, <2>2
<1> QED
  BY <1>6, <1>8, <1>9, <1>10

LEMMA FlatNext ==
  ASSUME NEW C, NEW ss \in Seq(Seq(C)), NEW i \in Nat, NEW k \in 1 .. Len(ss), k = i + 1
  PROVE  /\ FlatAt(ss, k) = FlatAt(ss, i) \o ss[k]
         /\ FlatAt(ss, i) \in Seq(C) /\ ss[k] \in Seq(C)
<1>1. FlatAt(ss, k) = FlatAt(ss, k - 1) \o ss[k]
  BY FlatStep
<1>2. k - 1 = i /\ i \in 0 .. Len(ss)
  OBVIOUS
<1>3. FlatAt(ss, i) \in Seq(C)
  BY <1>2, FlatStep
<1> QED
  BY <1>1, <1>2, <1>3

LEMMA FlatWhole ==
  ASSUME NEW C, NEW ss \in Seq(Seq(C))
  PROVE  FlattenSeq(ss) = FlatAt(ss, Len(ss)) /\ FlattenSeq(ss) \in Seq(C)
<1>1. Len(ss) \in 0 .. Len(ss)
  OBVIOUS
<1> QED
  BY <1>1, FlatStep

LEMMA FlatSame ==
  ASSUME NEW C, NEW ss \in Seq(Seq(C)), NEW tt \in Seq(Seq(C)), NEW m \in Nat,
         m <= Len(ss), m <= Len(tt), \A i \in 1 .. m : ss[i] = tt[i]
  PROVE  FlatAt(ss, m) = FlatAt(tt, m)
<1> DEFINE T == {i \in 0 .. m : FlatAt(ss, i) # FlatAt(tt, i)}
<1>1. ASSUME NEW i \in T PROVE \E k \in T : k < i
  <2>1. i # 0
    BY FlatStep
  <2>2. i \in 1 .. Len(ss) /\ i \in 1 .. Len(tt) /\ i - 1 \in 0 .. m /\ i - 1 < i
    BY <2>1
  <2>3. ss[i] = tt[i]
    BY <2>2
  <2>4. FlatAt(ss, i) = FlatAt(ss, i - 1) \o ss[i]
    BY <2>2, FlatStep
  <2>5. FlatAt(tt, i) = FlatAt(tt, i - 1) \o tt[i]
    BY <2>2, FlatStep
  <2>6. i - 1 \in T
    BY <2>2, <2>3, <2>4, <2>5
  <2> QED
    BY <2>2, <2>6
<1>2. T \subseteq Nat
  OBVIOUS
<1>3. T = {}
  <2> HIDE DEF T
  <2> QED
    BY <1>1, <1>2, NoDescent
<1>4. m \in 0 .. m
  OBVIOUS
<1> QED
  BY <1>3, <1>4

\* What the first pieces gave stays in front.
StartsWith(t, s) == Len(s) <= Len(t) /\ \A p \in 1 .. Len(s) : t[p] = s[p]

LEMMA FlatGrows ==
  ASSUME NEW C, NEW ss \in Seq(Seq(C)), NEW i \in 0 .. Len(ss)
  PROVE  StartsWith(FlattenSeq(ss), FlatAt(ss, i))
<1> DEFINE n == Len(ss)
           T == {d \in 0 .. n - i : ~StartsWith(FlatAt(ss, i + d), FlatAt(ss, i))}
<1>1. n \in Nat /\ i \in Nat
  OBVIOUS
<1>2. ASSUME NEW d \in T PROVE \E k \in T : k < d
  <2>1. FlatAt(ss, i) \in Seq(C)
    BY FlatStep
  <2>2. d # 0
    <3>1. StartsWith(FlatAt(ss, i), FlatAt(ss, i))
      BY <2>1 DEF StartsWith
    <3>2. d = 0 => i + d = i
      BY <1>1
    <3> QED
      BY <3>1, <3>2, Zenon
  <2>3. d - 1 \in 0 .. n - i /\ d - 1 < d /\ i + d \in 1 .. n /\ i + d - 1 = i + (d - 1)
    BY <1>1, <2>2
  <2>4. PICK q \in 1 .. n, r \in Nat : q = i + d /\ r = i + (d - 1) /\ q = r + 1
    BY <1>1, <2>3
  <2>5. FlatAt(ss, q) = FlatAt(ss, r) \o ss[q] /\ FlatAt(ss, r) \in Seq(C) /\ ss[q] \in Seq(C)
    BY <2>4, FlatNext
  <2>6. ~StartsWith(FlatAt(ss, i + (d - 1)), FlatAt(ss, i))
    <3>1. SUFFICES ASSUME StartsWith(FlatAt(ss, i + (d - 1)), FlatAt(ss, i)) PROVE FALSE
      OBVIOUS
    <3> DEFINE a == FlatAt(ss, i)
               b == FlatAt(ss, r)
               c == ss[q]
    <3>2. StartsWith(b, a) /\ a \in Seq(C) /\ b \in Seq(C) /\ c \in Seq(C)
      BY <2>1, <2>4, <2>5, <3>1
    <3> HIDE DEF a, b, c
    <3>3. StartsWith(b \o c, a)
      BY <3>2 DEF StartsWith
    <3>4. StartsWith(FlatAt(ss, q), FlatAt(ss, i))
      BY <2>5, <3>3 DEF a, b, c
    <3> QED
      BY <2>4, <3>4
  <2> QED
    BY <2>3, <2>6
<1>3. T = {}
  <2>1. T \subseteq Nat
    BY <1>1
  <2> HIDE DEF T
  <2> QED
    BY <1>2, <2>1, NoDescent
<1>4. StartsWith(FlatAt(ss, i + (n - i)), FlatAt(ss, i))
  <2>1. n - i \in 0 .. n - i
    BY <1>1
  <2> QED
    BY <1>3, <2>1
<1>5. i + (n - i) = n
  BY <1>1
<1>6. FlattenSeq(ss) = FlatAt(ss, n)
  BY FlatWhole
<1> QED
  BY <1>4, <1>5, <1>6, Zenon

\* Two sequences of pieces that agree up to the i-th piece, where one of their
\* characters differs, are not flattened to the same sequence.
LEMMA FlatDiffers ==
  ASSUME NEW C, NEW ss \in Seq(Seq(C)), NEW tt \in Seq(Seq(C)),
         NEW i \in 1 .. Len(ss), i \in 1 .. Len(tt), \A j \in 1 .. i - 1 : ss[j] = tt[j],
         NEW p \in 1 .. Len(ss[i]), p \in 1 .. Len(tt[i]), ss[i][p] # tt[i][p]
  PROVE  FlattenSeq(ss) # FlattenSeq(tt)
<1>1. PICK h \in Nat : i = h + 1 /\ h = i - 1
  OBVIOUS
<1> DEFINE a == FlatAt(ss, h)
           b == ss[i]
           c == tt[i]
<1>2. FlatAt(tt, h) = a
  <2>1. h <= Len(ss) /\ h <= Len(tt) /\ \A j \in 1 .. h : ss[j] = tt[j]
    BY <1>1
  <2> QED
    BY <2>1, FlatSame
<1>3. FlatAt(ss, i) = a \o b /\ a \in Seq(C) /\ b \in Seq(C)
  BY <1>1, FlatNext
<1>4. FlatAt(tt, i) = a \o c /\ c \in Seq(C)
  BY <1>1, <1>2, FlatNext
<1>5. i \in 0 .. Len(ss) /\ i \in 0 .. Len(tt)
  OBVIOUS
<1>6. StartsWith(FlattenSeq(ss), FlatAt(ss, i))
  BY <1>5, FlatGrows
<1>7. StartsWith(FlattenSeq(tt), FlatAt(tt, i))
  BY <1>5, FlatGrows
<1> HIDE DEF a
<1>8. Len(a) + p \in 1 .. Len(a \o b) /\ Len(a) + p \in 1 .. Len(a \o c)
  BY <1>3, <1>4
<1>9. (a \o b)[Len(a) + p] = b[p] /\ (a \o c)[Len(a) + p] = c[p]
  BY <1>3, <1>4
<1> QED
  BY <1>3, <1>4, <1>6, <1>7, <1>8, <1>9 DEF StartsWith

\* Nor are two of which one goes on with a piece that is not empty.
LEMMA FlatLonger ==
  ASSUME NEW C, NEW ss \in Seq(Seq(C)), NEW tt \in Seq(Seq(C)),
         Len(ss) < Len(tt), \A j \in 1 .. Len(ss) : ss[j] = tt[j], tt[Len(ss) + 1] # << >>
  PROVE  FlattenSeq(ss) # FlattenSeq(tt)
<1>1. PICK n \in Nat, k \in 1 .. Len(tt) : n = Len(ss) /\ k = n + 1
  OBVIOUS
<1> DEFINE a == FlatAt(ss, n)
           b == tt[k]
<1>2. FlatAt(tt, n) = a
  <2>1. n <= Len(ss) /\ n <= Len(tt)
    BY <1>1
  <2>2. \A j \in 1 .. n : ss[j] = tt[j]
    BY <1>1
  <2> QED
    BY <2>1, <2>2, FlatSame
<1>3. FlattenSeq(ss) = a
  BY <1>1, FlatWhole
<1>4. FlatAt(tt, k) = a \o b /\ a \in Seq(C) /\ b \in Seq(C)
  BY <1>1, <1>2, FlatNext
<1>5. StartsWith(FlattenSeq(tt), FlatAt(tt, k))
  BY FlatGrows
<1>6. b # << >>
  BY <1>1
<1> HIDE DEF a, b
<1>7. Len(a \o b) = Len(a) + Len(b) /\ Len(b) > 0 /\ Len(a) \in Nat
  BY <1>4, <1>6
<1>8. FlattenSeq(tt) # a
  BY <1>4, <1>5, <1>7 DEF StartsWith
<1> QED
  BY <1>3, <1>8

LEMMA Regroup ==
  ASSUME NEW C, NEW x \in Seq(C), NEW y \in Seq(C), NEW z \in Seq(C)
  PROVE  (x \o y) \o z = x \o (y \o z)
  BY ConcatAssociative

LEMMA FlatConcat ==
  ASSUME NEW C, NEW ss \in Seq(Seq(C)), NEW tt \in Seq(Seq(C))
  PROVE  FlattenSeq(ss \o tt) = FlattenSeq(ss) \o FlattenSeq(tt)
<1>0. \A x, y, z \in Seq(C) : (x \o y) \o z = x \o (y \o z)
  BY Regroup
<1>1. PICK n \in Nat, m \in Nat, uu \in Seq(Seq(C)) :
             n = Len(ss) /\ m = Len(tt) /\ uu = ss \o tt
  <2>1. Len(ss) \in Nat /\ Len(tt) \in Nat
    OBVIOUS
  <2>2. ss \o tt \in Seq(Seq(C))
    BY ConcatProperties
  <2> QED
    BY <2>1, <2>2, Zenon
<1>2. Len(uu) = n + m /\ (\A i \in 1 .. n : uu[i] = ss[i]) /\ \A i \in 1 .. m : uu[n + i] = tt[i]
  BY <1>1
<1> DEFINE a == FlattenSeq(ss)
<1>3. FlatAt(uu, n) = a /\ a \in Seq(C)
  <2>1. FlatAt(uu, n) = FlatAt(ss, n)
    <3>1. n <= Len(uu) /\ n <= Len(ss)
      BY <1>1, <1>2
    <3>2. \A i \in 1 .. n : uu[i] = ss[i]
      BY <1>2
    <3> QED
      BY <3>1, <3>2, FlatSame
  <2> QED
    BY <1>1, <2>1, FlatWhole
<1> HIDE DEF a
<1> DEFINE Joined(d) == FlatAt(uu, n + d) = a \o FlatAt(tt, d)
           T == {d \in 0 .. m : ~Joined(d)}
<1>4. Joined(0)
  <2>1. FlatAt(tt, 0) = << >> /\ n + 0 = n
    BY DEF FlatAt
  <2>2. a \o << >> = a
    BY <1>3, ConcatEmptySeq
  <2> QED
    BY <1>3, <2>1, <2>2
<1>5. ASSUME NEW d \in T PROVE \E k \in T : k < d
  <2>1. d # 0
    <3> HIDE DEF Joined
    <3> QED
      BY <1>4
  <2>2. PICK e \in Nat, k \in 1 .. m : k = d /\ k = e + 1 /\ e \in 0 .. m /\ e < d
    BY <2>1
  <2>3. PICK q \in 1 .. Len(uu), r \in Nat : q = n + k /\ r = n + e /\ q = r + 1
    BY <1>2, <2>2
  <2>4. FlatAt(uu, q) = FlatAt(uu, r) \o uu[q]
    BY <2>3, FlatNext
  <2>5. FlatAt(tt, k) = FlatAt(tt, e) \o tt[k] /\ FlatAt(tt, e) \in Seq(C) /\ tt[k] \in Seq(C)
    BY <1>1, <2>2, FlatNext
  <2>6. uu[q] = tt[k]
    BY <1>2, <2>3
  <2>7. ~Joined(e)
    <3>1. SUFFICES ASSUME Joined(e) PROVE Joined(k)
      BY <2>2
    <3>2. FlatAt(uu, r) = a \o FlatAt(tt, e)
      BY <2>3, <3>1
    <3>3. (a \o FlatAt(tt, e)) \o tt[k] = a \o (FlatAt(tt, e) \o tt[k])
      <4>1. a \in Seq(C)
        BY <1>3
      <4>2. FlatAt(tt, e) \in Seq(C)
        BY <2>5
      <4>3. tt[k] \in Seq(C)
        BY <2>5
      <4> QED
        BY <1>0, <4>1, <4>2, <4>3, Zenon
    <3>4. FlatAt(uu, q) = a \o FlatAt(tt, k)
      BY <2>4, <2>5, <2>6, <3>2, <3>3, Zenon
    <3> QED
      BY <2>3, <3>4
  <2> QED
    BY <2>2, <2>7
<1>6. T = {}
  <2>1. T \subseteq Nat
    OBVIOUS
  <2> HIDE DEF T
  <2> QED
    BY <1>5, <2>1, NoDescent
<1>7. Joined(m)
  <2> HIDE DEF Joined
  <2> QED
    BY <1>6
<1>8. FlattenSeq(uu) = FlatAt(uu, n + m)
  BY <1>2, FlatWhole, Zenon
<1>9. FlattenSeq(tt) = FlatAt(tt, m)
  BY <1>1, FlatWhole
<1> QED
  BY <1>1, <1>7, <1>8, <1>9 DEF a

\* Pieces of one character each.
LEMMA FlatSingletons ==
  ASSUME NEW C, NEW ss \in Seq(Seq(C)), NEW t \in Seq(C), Len(ss) = Len(t),
         \A i \in 1 .. Len(t) : ss[i] = <<t[i]>>
  PROVE  FlattenSeq(ss) = t
<1>1. PICK n \in Nat : n = Len(t)
  OBVIOUS
<1> DEFINE Same(i) == Len(FlatAt(ss, i)) = i /\ \A p \in 1 .. i : FlatAt(ss, i)[p] = t[p]
           T == {i \in 0 .. n : ~Same(i)}
<1>2. ASSUME NEW i \in T PROVE \E k \in T : k < i
  <2>1. i # 0
    <3>1. FlatAt(ss, 0) = << >>
      BY FlatStep
    <3>2. Same(0)
      BY <3>1
    <3> HIDE DEF Same
    <3> QED
      BY <3>2
  <2>2. PICK e \in Nat, k \in 1 .. n : k = i /\ k = e + 1 /\ e \in 0 .. n /\ e < i
    BY <2>1
  <2>3. FlatAt(ss, k) = FlatAt(ss, e) \o ss[k] /\ FlatAt(ss, e) \in Seq(C)
    BY <1>1, <2>2, FlatNext
  <2>4. ss[k] = <<t[k]>> /\ t[k] \in C
    BY <1>1
  <2>5. ~Same(e)
    <3>1. SUFFICES ASSUME Same(e) PROVE Same(k)
      BY <2>2
    <3> DEFINE a == FlatAt(ss, e)
    <3>2. a \in Seq(C) /\ Len(a) = e /\ \A p \in 1 .. e : a[p] = t[p]
      BY <2>3, <3>1
    <3>3. PICK x \in C : x = t[k]
      BY <2>4
    <3> HIDE DEF a
    <3>4. Len(a \o <<x>>) = k
      BY <2>2, <3>2
    <3>5. ASSUME NEW p \in 1 .. k PROVE (a \o <<x>>)[p] = t[p]
      <4>1. CASE p = k
        <5>1. (a \o <<x>>)[Len(a) + 1] = x
          BY <3>2
        <5> QED
          BY <2>2, <3>2, <3>3, <4>1, <5>1
      <4>2. CASE p # k
        <5>1. p \in 1 .. e
          BY <2>2, <4>2
        <5> QED
          BY <3>2, <5>1
      <4> QED
        BY <4>1, <4>2
    <3>6. FlatAt(ss, k) = a \o <<x>>
      BY <2>3, <2>4, <3>3 DEF a
    <3> QED
      BY <3>4, <3>5, <3>6
  <2> QED
    BY <2>2, <2>5
<1>3. T = {}
  <2>1. T \subseteq Nat
    OBVIOUS
  <2> HIDE DEF T
  <2> QED
    BY <1>2, <2>1, NoDescent
<1>4. Same(n)
  <2> HIDE DEF Same
  <2> QED
    BY <1>3
<1>5. FlattenSeq(ss) = FlatAt(ss, n) /\ FlattenSeq(ss) \in Seq(C)
  BY <1>1, FlatWhole
<1> QED
  BY <1>1, <1>4, <1>5, SeqEqual

--------------------------------------------------------------------------------
(* IdlHarness: names in snake case.                                          *)
Piece(s, i) ==
  IF IsUpper(s[i]) /\ i > 1 THEN <<"_", FirstLower(s[i])>> ELSE <<FirstLower(s[i])>>

Pieces(s) == [i \in DOMAIN s |-> Piece(s, i)]

SnakeCharacters == Characters \cup {"_"} \cup {FirstLower(c) : c \in Characters}

LEMMA SnakeOfPieces ==
  ASSUME NEW s
  PROVE  to_snake_case(s) = FlattenSeq(Pieces(s))
  BY DEF to_snake_case, Pieces, Piece

LEMMA ShortSequences ==
  ASSUME NEW x, NEW y
  PROVE  /\ Len(<<x>>) = 1 /\ <<x>>[1] = x /\ <<x>> # << >>
         /\ Len(<<x, y>>) = 2 /\ <<x, y>>[1] = x /\ <<x, y>>[2] = y /\ <<x, y>> # << >>
         /\ 1 \in 1 .. 1 /\ 1 \in 1 .. 2 /\ 2 \in 1 .. 2
         /\ \A S : x \in S => <<x>> \in Seq(S) /\ (y \in S => <<x, y>> \in Seq(S))
  OBVIOUS

LEMMA PiecesType ==
  ASSUME NEW s \in Seq(Characters)
  PROVE  /\ Pieces(s) \in Seq(Seq(SnakeCharacters))
         /\ Len(Pieces(s)) = Len(s)
         /\ \A i \in 1 .. Len(s) : Pieces(s)[i] = Piece(s, i) /\ Piece(s, i) # << >>
<1>1. DOMAIN s = 1 .. Len(s) /\ Len(s) \in Nat
  OBVIOUS
<1>2. ASSUME NEW i \in 1 .. Len(s) PROVE Piece(s, i) \in Seq(SnakeCharacters) /\ Piece(s, i) # << >>
  <2>1. s[i] \in Characters
    OBVIOUS
  <2>2. PICK x \in SnakeCharacters, y \in SnakeCharacters : x = FirstLower(s[i]) /\ y = "_"
    BY <2>1 DEF SnakeCharacters
  <2>3. Piece(s, i) = <<y, x>> \/ Piece(s, i) = <<x>>
    BY <2>2 DEF Piece
  <2>4. <<y, x>> \in Seq(SnakeCharacters) /\ <<y, x>> # << >>
    BY ShortSequences
  <2>5. <<x>> \in Seq(SnakeCharacters) /\ <<x>> # << >>
    BY ShortSequences
  <2> QED
    BY <2>3, <2>4, <2>5, Zenon
<1>3. Pieces(s) = [i \in 1 .. Len(s) |-> Piece(s, i)]
  BY <1>1 DEF Pieces
<1> QED
  BY <1>1, <1>2, <1>3

\* Where two names in camel case differ, so do the pieces made of the characters.
LEMMA CamelPiecesDiffer ==
  ASSUME NEW s \in Seq(Characters), NEW t \in Seq(Characters), Camel(s), Camel(t),
         NEW i \in 1 .. Len(s), i \in 1 .. Len(t), s[i] # t[i]
  PROVE  \E p \in 1 .. Len(Piece(s, i)) : p \in 1 .. Len(Piece(t, i)) /\ Piece(s, i)[p] # Piece(t, i)[p]
<1>1. PICK c \in Characters, d \in Characters : c = s[i] /\ d = t[i] /\ c # d
  OBVIOUS
<1>2. c # "_" /\ d # "_"
  <2>1. i \in DOMAIN s /\ i \in DOMAIN t
    OBVIOUS
  <2> QED
    BY <1>1, <2>1 DEF Camel
<1>3. (IsUpper(c) => i > 1) /\ (IsUpper(d) => i > 1)
  <2>1. i # 1 => i > 1
    OBVIOUS
  <2>2. i = 1 => ~IsUpper(c) /\ ~IsUpper(d)
    BY <1>1 DEF Camel
  <2> QED
    BY <2>1, <2>2
<1>4. CASE IsUpper(c) /\ IsUpper(d)
  <2>1. Piece(s, i) = <<"_", FirstLower(c)>> /\ Piece(t, i) = <<"_", FirstLower(d)>>
    BY <1>1, <1>3, <1>4 DEF Piece, IsUpper
  <2>2. Len(<<"_", FirstLower(c)>>) = 2 /\ <<"_", FirstLower(c)>>[2] = FirstLower(c)
    OBVIOUS
  <2>3. Len(<<"_", FirstLower(d)>>) = 2 /\ <<"_", FirstLower(d)>>[2] = FirstLower(d)
    OBVIOUS
  <2>4. Len(Piece(s, i)) = 2 /\ Piece(s, i)[2] = FirstLower(c)
    BY <2>1, <2>2, Zenon
  <2>5. Len(Piece(t, i)) = 2 /\ Piece(t, i)[2] = FirstLower(d)
    BY <2>1, <2>3, Zenon
  <2>6. FirstLower(c) # FirstLower(d)
    BY <1>1, <1>4, LetterAssumption
  <2> QED
    BY <2>4, <2>5, <2>6
<1>5. CASE IsUpper(c) /\ ~IsUpper(d)
  <2>1. Piece(s, i) = <<"_", FirstLower(c)>> /\ Piece(t, i) = <<d>>
    BY <1>1, <1>3, <1>5 DEF Piece, IsUpper
  <2>2. Len(<<"_", FirstLower(c)>>) = 2 /\ <<"_", FirstLower(c)>>[1] = "_"
    OBVIOUS
  <2>3. Len(<<d>>) = 1 /\ <<d>>[1] = d
    OBVIOUS
  <2>4. Len(Piece(s, i)) = 2 /\ Piece(s, i)[1] = "_"
    BY <2>1, <2>2, Zenon
  <2>5. Len(Piece(t, i)) = 1 /\ Piece(t, i)[1] = d
    BY <2>1, <2>3, Zenon
  <2>6. "_" # d
    BY <1>2
  <2>7. 1 \in 1 .. Len(Piece(s, i)) /\ 1 \in 1 .. Len(Piece(t, i))
    <3>1. 1 \in 1 .. 1 /\ 1 \in 1 .. 2
      OBVIOUS
    <3> QED
      BY <2>4, <2>5, <3>1, Zenon
  <2>8. Piece(s, i)[1] # Piece(t, i)[1]
    BY <2>4, <2>5, <2>6
  <2> QED
    BY <2>7, <2>8
<1>6. CASE ~IsUpper(c) /\ IsUpper(d)
  <2>1. Piece(s, i) = <<c>> /\ Piece(t, i) = <<"_", FirstLower(d)>>
    BY <1>1, <1>3, <1>6 DEF Piece, IsUpper
  <2>2. Len(<<c>>) = 1 /\ <<c>>[1] = c
    OBVIOUS
  <2>3. Len(<<"_", FirstLower(d)>>) = 2 /\ <<"_", FirstLower(d)>>[1] = "_"
    OBVIOUS
  <2>4. Len(Piece(s, i)) = 1 /\ Piece(s, i)[1] = c
    BY <2>1, <2>2, Zenon
  <2>5. Len(Piece(t, i)) = 2 /\ Piece(t, i)[1] = "_"
    BY <2>1, <2>3, Zenon
  <2>6. c # "_"
    BY <1>2
  <2>7. 1 \in 1 .. Len(Piece(s, i)) /\ 1 \in 1 .. Len(Piece(t, i))
    <3>1. 1 \in 1 .. 1 /\ 1 \in 1 .. 2
      OBVIOUS
    <3> QED
      BY <2>4, <2>5, <3>1, Zenon
  <2>8. Piece(s, i)[1] # Piece(t, i)[1]
    BY <2>4, <2>5, <2>6
  <2> QED
    BY <2>7, <2>8
<1>7. CASE ~IsUpper(c) /\ ~IsUpper(d)
  <2>1. Piece(s, i) = <<c>> /\ Piece(t, i) = <<d>>
    BY <1>1, <1>7 DEF Piece, IsUpper
  <2> QED
    BY <1>1, <2>1
<1> QED
  BY <1>4, <1>5, <1>6, <1>7

\* A name that ends where another goes on is converted to something else.
LEMMA SnakeOfLonger ==
  ASSUME NEW s \in Seq(Characters), NEW t \in Seq(Characters), Len(s) < Len(t),
         \A j \in 1 .. Len(s) : s[j] = t[j]
  PROVE  to_snake_case(s) # to_snake_case(t)
<1>1. Pieces(s) \in Seq(Seq(SnakeCharacters)) /\ Pieces(t) \in Seq(Seq(SnakeCharacters))
      /\ Len(Pieces(s)) = Len(s) /\ Len(Pieces(t)) = Len(t)
  BY PiecesType
<1>2. ASSUME NEW j \in 1 .. Len(s) PROVE Pieces(s)[j] = Pieces(t)[j]
  <2>1. j \in 1 .. Len(t) /\ s[j] = t[j]
    OBVIOUS
  <2>2. Pieces(s)[j] = Piece(s, j) /\ Pieces(t)[j] = Piece(t, j)
    BY <2>1, PiecesType
  <2>3. Piece(s, j) = Piece(t, j)
    BY <2>1 DEF Piece
  <2> QED
    BY <2>2, <2>3
<1>3. Pieces(t)[Len(s) + 1] # << >>
  <2>1. Len(s) + 1 \in 1 .. Len(t)
    OBVIOUS
  <2> QED
    BY <2>1, PiecesType
<1>4. FlattenSeq(Pieces(s)) # FlattenSeq(Pieces(t))
  BY <1>1, <1>2, <1>3, FlatLonger
<1> QED
  BY <1>4, SnakeOfPieces

\* Converting names in camel case merges no two of them.
LEMMA CamelInjective ==
  ASSUME NEW s \in Seq(Characters), NEW t \in Seq(Characters), Camel(s), Camel(t), s # t
  PROVE  to_snake_case(s) # to_snake_case(t)
<1> DEFINE T == {i \in 1 .. Len(s) : i \in 1 .. Len(t) /\ s[i] # t[i]}
<1>1. T \subseteq Nat
  OBVIOUS
<1>2. CASE T = {}
  <2>1. \A i \in 1 .. Len(s) : i \in 1 .. Len(t) => s[i] = t[i]
    BY <1>2
  <2>2. Len(s) # Len(t)
    BY <2>1, SeqEqual
  <2>3. CASE Len(s) < Len(t)
    <3>1. \A i \in 1 .. Len(s) : s[i] = t[i]
      BY <2>1, <2>3
    <3> QED
      BY <2>3, <3>1, SnakeOfLonger
  <2>4. CASE Len(t) < Len(s)
    <3>1. \A i \in 1 .. Len(t) : t[i] = s[i]
      BY <2>1, <2>4
    <3> QED
      BY <2>4, <3>1, SnakeOfLonger
  <2> QED
    BY <2>2, <2>3, <2>4
<1>3. CASE T # {}
  <2>1. PICK i \in T : \A k \in T : ~(k < i)
    <3> HIDE DEF T
    <3> QED
      BY <1>1, <1>3, NoDescent
  <2>2. i \in 1 .. Len(s) /\ i \in 1 .. Len(t) /\ s[i] # t[i]
    OBVIOUS
  <2>3. ASSUME NEW j \in 1 .. i - 1 PROVE Pieces(s)[j] = Pieces(t)[j]
    <3>1. j \in 1 .. Len(s) /\ j \in 1 .. Len(t) /\ j < i
      BY <2>2
    <3>2. s[j] = t[j]
      BY <2>1, <3>1
    <3>3. Pieces(s)[j] = Piece(s, j) /\ Pieces(t)[j] = Piece(t, j)
      BY <3>1, PiecesType
    <3> QED
      BY <3>2, <3>3 DEF Piece
  <2>4. PICK p \in 1 .. Len(Piece(s, i)) :
               p \in 1 .. Len(Piece(t, i)) /\ Piece(s, i)[p] # Piece(t, i)[p]
    BY <2>2, CamelPiecesDiffer
  <2>5. Pieces(s)[i] = Piece(s, i) /\ Pieces(t)[i] = Piece(t, i)
    BY <2>2, PiecesType
  <2>6. Pieces(s) \in Seq(Seq(SnakeCharacters)) /\ Pieces(t) \in Seq(Seq(SnakeCharacters))
        /\ Len(Pieces(s)) = Len(s) /\ Len(Pieces(t)) = Len(t)
    BY PiecesType
  <2> HIDE DEF T
  <2>7. FlattenSeq(Pieces(s)) # FlattenSeq(Pieces(t))
    BY <2>2, <2>3, <2>4, <2>5, <2>6, FlatDiffers
  <2> QED
    BY <2>7, SnakeOfPieces
<1> QED
  BY <1>2, <1>3

\* A name in snake case stays what it is.
LEMMA SnakeUnchanged ==
  ASSUME NEW s \in Seq(Characters), Snake(s)
  PROVE  to_snake_case(s) = s
<1>1. s \in Seq(SnakeCharacters)
  BY SeqMonotonic DEF SnakeCharacters
<1>2. Pieces(s) \in Seq(Seq(SnakeCharacters)) /\ Len(Pieces(s)) = Len(s)
  BY PiecesType
<1>3. ASSUME NEW i \in 1 .. Len(s) PROVE Pieces(s)[i] = <<s[i]>>
  <2>1. ~IsUpper(s[i])
    BY DEF Snake
  <2>2. Piece(s, i) = <<s[i]>>
    BY <2>1 DEF Piece, IsUpper
  <2> QED
    BY <2>2, PiecesType
<1>4. FlattenSeq(Pieces(s)) = s
  BY <1>1, <1>2, <1>3, FlatSingletons
<1> QED
  BY <1>4, SnakeOfPieces

--------------------------------------------------------------------------------
(* IdlHarness: the two files of krastor init.                                *)

\* What holds between the steps of cmd_init: an init that has begun to write is not
\* finished, what it wrote comes from the IDL it parsed, and that IDL was one.
HarnessInv ==
  /\ idl_file \in Idls
  /\ phase \in {"idle", "create harness", "write harness", "create toml", "write toml"}
  /\ phase # "idle" => idl \in Idls \ {NoIdl}
  /\ installed \in Idls \cup {NoIdl}
  /\ phase \in {"write harness", "create toml", "write toml"} => unfinished
  /\ phase \in {"create toml", "write toml"} => harness = generate_harness(idl)
  /\ unfinished \in BOOLEAN
  /\ FilesAgree

LEMMA HarnessInvInit ==
  ASSUME HarnessInit
  PROVE  HarnessInv
  BY DEF HarnessInit, HarnessInv, FilesAgree, Idls

LEMMA HarnessInvStep ==
  ASSUME HarnessInv, [HarnessNext]_harnessVars
  PROVE  HarnessInv'
<1> USE DEF HarnessInv, FilesAgree
<1>1. CASE Rebuild
  BY <1>1 DEF Rebuild, Idls
<1>2. CASE InitFindsNoIdl
  BY <1>2 DEF InitFindsNoIdl
<1>3. CASE InitParses
  BY <1>3 DEF InitParses, Parses
<1>4. CASE InitCreatesHarness
  BY <1>4 DEF InitCreatesHarness
<1>5. CASE InitWritesHarness
  BY <1>5 DEF InitWritesHarness
<1>6. CASE InitCreatesToml
  BY <1>6 DEF InitCreatesToml
<1>7. CASE InitWritesToml
  BY <1>7 DEF InitWritesToml
<1>8. CASE InitStops
  BY <1>8 DEF InitStops
<1>9. CASE UNCHANGED harnessVars
  BY <1>9 DEF harnessVars
<1> QED
  BY <1>1, <1>2, <1>3, <1>4, <1>5, <1>6, <1>7, <1>8, <1>9 DEF HarnessNext

THEOREM InitInvariant == HarnessSpec => []HarnessInv
<1>1. HarnessInit => HarnessInv
  BY HarnessInvInit
<1>2. HarnessInv /\ [HarnessNext]_harnessVars => HarnessInv'
  BY HarnessInvStep
<1> QED
  BY <1>1, <1>2, PTL DEF HarnessSpec

\* However often cmd_init runs, stops or loses the race with a build, the two files of
\* an init that returned Ok are complete and come from one IDL.
THEOREM FilesComeFromOneIdl == HarnessSpec => []FilesAgree
<1>1. HarnessInv => FilesAgree
  BY DEF HarnessInv
<1> QED
  BY <1>1, InitInvariant, PTL

LEMMA OneStyleInjective ==
  ASSUME NEW names, names \subseteq Seq(Characters), OneStyle(names),
         NEW s \in names, NEW t \in names, to_snake_case(s) = to_snake_case(t)
  PROVE  s = t
<1>1. s \in Seq(Characters) /\ t \in Seq(Characters)
  OBVIOUS
<1>2. CASE \A n \in names : Camel(n)
  BY <1>1, <1>2, CamelInjective
<1>3. CASE \A n \in names : Snake(n)
  <2>1. to_snake_case(s) = s /\ to_snake_case(t) = t
    BY <1>1, <1>3, SnakeUnchanged
  <2> QED
    BY <2>1
<1> QED
  BY <1>2, <1>3 DEF OneStyle

\* A harness generated from an IDL that keeps one style of names compiles.
LEMMA GeneratedCompiles ==
  ASSUME NEW i \in Idls \ {NoIdl}, WellNamed(i)
  PROVE  Compiles(generate_harness(i))
<1> DEFINE h == generate_harness(i)
<1>1. AccountNames(i) \subseteq Seq(Characters) /\ InstructionNames(i) \subseteq Seq(Characters)
  BY IdlHarnessAssumption DEF AccountNames, InstructionNames, Instructions
<1>2. InjectiveFunction(h.fields)
  <2>1. h.fields = [name \in AccountNames(i) |-> to_snake_case(name)]
    BY DEF generate_harness, generate_fuzz_accounts_struct
  <2>2. OneStyle(AccountNames(i))
    BY DEF WellNamed
  <2>3. \A s, t \in AccountNames(i) : to_snake_case(s) = to_snake_case(t) => s = t
    BY <1>1, <2>2, OneStyleInjective
  <2> QED
    BY <2>1, <2>3 DEF InjectiveFunction
<1>3. h.functions = [j \in Instructions(i) |-> to_snake_case(i.instructions[j].name)]
  BY DEF generate_harness, Functions
<1>4. \A j \in Instructions(i) : i.instructions[j].name \in InstructionNames(i)
  BY DEF InstructionNames
<1>5. InjectiveFunction(h.functions)
  <2>1. OneStyle(InstructionNames(i))
    BY DEF WellNamed
  <2>2. ASSUME NEW j \in Instructions(i), NEW k \in Instructions(i),
               to_snake_case(i.instructions[j].name) = to_snake_case(i.instructions[k].name)
        PROVE  j = k
    <3>1. i.instructions[j].name = i.instructions[k].name
      BY <1>1, <1>4, <2>1, <2>2, OneStyleInjective
    <3> QED
      BY <3>1 DEF WellNamed
  <2> QED
    BY <1>3, <2>2 DEF InjectiveFunction
<1>6. \A j \in DOMAIN h.functions : h.functions[j] \notin Reserved
  BY <1>3, <1>4 DEF WellNamed
<1>7. \A j \in DOMAIN h.registered : h.registered[j].discriminator = 8
  <2>1. h.registered = [j \in Instructions(i) |->
                          [name |-> i.instructions[j].name,
                           discriminator |-> i.instructions[j].discriminator]]
    BY DEF generate_harness, generate_invariant_templates
  <2> QED
    BY <2>1 DEF WellNamed
<1> QED
  BY <1>2, <1>5, <1>6, <1>7 DEF Compiles

\* In every reachable state the installed harness of a well-named IDL compiles:
\* the conversion to snake case merges no two names of one style, however long.
THEOREM NamesStayApart == HarnessSpec => []WellNamedCompiles
<1>1. HarnessInv => WellNamedCompiles
  <2> SUFFICES ASSUME HarnessInv, Installed, WellNamed(installed) PROVE Compiles(harness)
    BY DEF WellNamedCompiles
  <2>1. installed \in Idls \ {NoIdl}
    BY DEF HarnessInv, Installed
  <2>2. harness = generate_harness(installed)
    BY <2>1 DEF HarnessInv, FilesAgree, Installed
  <2>3. Compiles(generate_harness(installed))
    BY <2>1, GeneratedCompiles
  <2> QED
    BY <2>2, <2>3
<1> QED
  BY <1>1, InitInvariant, PTL

--------------------------------------------------------------------------------
(* CrashStore: the names of the files.                                       *)
FoldedPieces(x) == [i \in DOMAIN x |-> FoldedChar(x[i])]

LowerCases(D) == {"_"} \cup {Lower(c) : c \in D}

LEMMA FoldedByPieces ==
  ASSUME NEW x
  PROVE  Folded(x) = FlattenSeq(FoldedPieces(x))
  BY DEF Folded, FoldedPieces

LEMMA FoldedCharType ==
  ASSUME NEW D, NEW c \in D
  PROVE  FoldedChar(c) \in Seq(LowerCases(D))
<1>1. PICK x \in LowerCases(D), y \in LowerCases(D) : x = "_" /\ y = Lower(c)
  BY DEF LowerCases
<1>2. <<x>> \in Seq(LowerCases(D)) /\ <<y>> \in Seq(LowerCases(D)) /\ << >> \in Seq(LowerCases(D))
  BY ShortSequences
<1>3. FoldedChar(c) = <<x>> \/ FoldedChar(c) = <<y>> \/ FoldedChar(c) = << >>
  BY <1>1 DEF FoldedChar
<1> QED
  BY <1>2, <1>3, Zenon

LEMMA FoldedType ==
  ASSUME NEW D, NEW x \in Seq(D)
  PROVE  /\ FoldedPieces(x) \in Seq(Seq(LowerCases(D)))
         /\ Len(FoldedPieces(x)) = Len(x)
         /\ \A i \in 1 .. Len(x) : FoldedPieces(x)[i] = FoldedChar(x[i])
         /\ Folded(x) \in Seq(LowerCases(D))
<1>1. FoldedPieces(x) = [i \in 1 .. Len(x) |-> FoldedChar(x[i])]
  BY DEF FoldedPieces
<1>2. \A i \in 1 .. Len(x) : FoldedChar(x[i]) \in Seq(LowerCases(D))
  BY FoldedCharType
<1>3. FoldedPieces(x) \in Seq(Seq(LowerCases(D))) /\ Len(FoldedPieces(x)) = Len(x)
  BY <1>1, <1>2
<1> QED
  BY <1>1, <1>3, FlatWhole, FoldedByPieces

LEMMA FoldedConcat ==
  ASSUME NEW D, NEW x \in Seq(D), NEW y \in Seq(D)
  PROVE  Folded(x \o y) = Folded(x) \o Folded(y)
<1> DEFINE P == FoldedPieces(x)
           Q == FoldedPieces(y)
           R == FoldedPieces(x \o y)
           S == Seq(LowerCases(D))
<1>1. PICK z \in Seq(D) : z = x \o y /\ Len(z) = Len(x) + Len(y)
  <2>1. x \o y \in Seq(D) /\ Len(x \o y) = Len(x) + Len(y)
    OBVIOUS
  <2> QED
    BY <2>1
<1>2. P \in Seq(S) /\ Q \in Seq(S) /\ Len(P) = Len(x) /\ Len(Q) = Len(y)
  BY FoldedType
<1>3. R \in Seq(S) /\ Len(R) = Len(x) + Len(y)
  BY <1>1, FoldedType
<1>4. P \o Q \in Seq(S) /\ Len(P \o Q) = Len(x) + Len(y)
  <2> HIDE DEF P, Q, S
  <2>1. P \in Seq(S) /\ Q \in Seq(S)
    BY <1>2
  <2>2. P \o Q \in Seq(S) /\ Len(P \o Q) = Len(P) + Len(Q)
    BY <2>1, ConcatProperties
  <2> QED
    BY <1>2, <2>2
<1>5. ASSUME NEW i \in 1 .. Len(x) + Len(y) PROVE R[i] = (P \o Q)[i]
  <2>1. R[i] = FoldedChar(z[i])
    BY <1>1, FoldedType
  <2>2. CASE i <= Len(x)
    <3>1. i \in 1 .. Len(x) /\ z[i] = x[i]
      BY <1>1, <2>2
    <3>2. P[i] = FoldedChar(x[i])
      BY <3>1, FoldedType
    <3> HIDE DEF P, Q, R, S
    <3>3. (P \o Q)[i] = P[i]
      BY <1>2, <3>1
    <3> QED
      BY <2>1, <3>1, <3>2, <3>3
  <2>3. CASE ~(i <= Len(x))
    <3>1. PICK j \in 1 .. Len(y) : i = Len(x) + j
      <4>1. i - Len(x) \in 1 .. Len(y) /\ i = Len(x) + (i - Len(x))
        BY <2>3
      <4> QED
        BY <4>1
    <3>2. z[i] = y[j]
      BY <1>1, <3>1
    <3>3. Q[j] = FoldedChar(y[j])
      BY FoldedType
    <3> HIDE DEF P, Q, R, S
    <3>4. (P \o Q)[i] = Q[j]
      BY <1>2, <2>3, <3>1
    <3> QED
      BY <2>1, <3>2, <3>3, <3>4
  <2> QED
    BY <2>2, <2>3
<1>6. R = P \o Q
  <2> HIDE DEF P, Q, R, S
  <2> QED
    BY <1>3, <1>4, <1>5, SeqEqual
<1>7. FlattenSeq(P \o Q) = FlattenSeq(P) \o FlattenSeq(Q)
  <2> HIDE DEF P, Q
  <2> QED
    BY <1>2, FlatConcat
<1> QED
  BY <1>6, <1>7, FoldedByPieces

LEMMA FoldedOne ==
  ASSUME NEW c
  PROVE  Folded(<<c>>) = FoldedChar(c)
<1> DEFINE p == FoldedPieces(<<c>>)
           D == {c}
<1>1. <<c>> \in Seq(D) /\ Len(<<c>>) = 1 /\ <<c>>[1] = c /\ 1 \in 1 .. 1
  OBVIOUS
<1>2. p \in Seq(Seq(LowerCases(D))) /\ Len(p) = 1 /\ p[1] = FoldedChar(c)
  BY <1>1, FoldedType
<1> HIDE DEF p, D
<1>3. FlattenSeq(p) = FlatAt(p, 1) /\ FlatAt(p, 1) = FlatAt(p, 0) \o p[1] /\ p[1] \in Seq(LowerCases(D))
  <2>1. FlattenSeq(p) = FlatAt(p, 1)
    BY <1>2, FlatWhole
  <2>2. PICK i \in Nat, k \in 1 .. Len(p) : i = 0 /\ k = 1 /\ k = i + 1
    BY <1>2
  <2>3. FlatAt(p, k) = FlatAt(p, i) \o p[k] /\ p[k] \in Seq(LowerCases(D))
    BY <1>2, <2>2, FlatNext
  <2> QED
    BY <2>1, <2>2, <2>3
<1>4. FlatAt(p, 0) = << >>
  BY DEF FlatAt
<1>5. << >> \o p[1] = p[1]
  BY <1>3, ConcatEmptySeq
<1>6. Folded(<<c>>) = FlattenSeq(p)
  BY FoldedByPieces DEF p
<1> QED
  BY <1>2, <1>3, <1>4, <1>5, <1>6

LEMMA TwoCharacters ==
  ASSUME NEW x, NEW y
  PROVE  <<x>> \o <<y>> = <<x, y>>
<1> DEFINE S == {x, y}
<1>1. <<x>> \in Seq(S) /\ <<y>> \in Seq(S) /\ <<x, y>> \in Seq(S) /\ <<x>> \o <<y>> \in Seq(S)
  OBVIOUS
<1>2. Len(<<x>> \o <<y>>) = 2 /\ Len(<<x, y>>) = 2
  OBVIOUS
<1>3. (<<x>> \o <<y>>)[1] = x /\ (<<x>> \o <<y>>)[2] = y
  OBVIOUS
<1>4. \A i \in 1 .. 2 : (<<x>> \o <<y>>)[i] = <<x, y>>[i]
  <2>1. \A i \in 1 .. 2 : i = 1 \/ i = 2
    OBVIOUS
  <2>2. <<x, y>>[1] = x /\ <<x, y>>[2] = y
    OBVIOUS
  <2> QED
    BY <1>3, <2>1, <2>2, Zenon
<1> HIDE DEF S
<1> QED
  BY <1>1, <1>2, <1>4, SeqEqual

LEMMA FoldedWord ==
  ASSUME NEW type \in Types \cup {"invariantviolation", "_"}
  PROVE  Folded(<<type>>) = <<type>>
<1>1. FoldedChar(type) = <<type>>
  BY LowerCaseAssumption DEF FoldedChar, Brackets
<1> QED
  BY <1>1, FoldedOne

\* The name of a crash of an invariant: the brackets become one character.
LEMMA FoldedViolation ==
  ASSUME NEW D, NEW x \in Seq(D)
  PROVE  Folded(<<"invariantviolation", "(">> \o x \o <<")">>)
           = <<"invariantviolation", "_">> \o Folded(x)
<1> DEFINE E == D \cup {"invariantviolation", "(", ")"}
           L == LowerCases(E)
           h == <<"invariantviolation", "(">>
           w == <<"invariantviolation", "_">>
<1>1. Folded(h) = w
  <2> DEFINE a == <<"invariantviolation">>
             b == <<"(">>
  <2>1. a \in Seq(E) /\ b \in Seq(E) /\ a \o b = h
    <3>1. a \in Seq(E) /\ b \in Seq(E)
      OBVIOUS
    <3> QED
      BY <3>1, TwoCharacters
  <2>2. Folded(a) = a
    BY FoldedWord
  <2>3. Folded(b) = <<"_">>
    BY FoldedOne DEF FoldedChar
  <2>4. Folded(a \o b) = Folded(a) \o Folded(b)
    BY <2>1, FoldedConcat
  <2>5. a \o <<"_">> = w
    BY TwoCharacters
  <2> QED
    BY <2>1, <2>2, <2>3, <2>4, <2>5
<1>2. Folded(<<")">>) = << >>
  BY FoldedOne DEF FoldedChar
<1>3. x \in Seq(E) /\ h \in Seq(E) /\ <<")">> \in Seq(E)
  <2>1. x \in Seq(E)
    BY SeqMonotonic
  <2> QED
    BY <2>1
<1>4. h \o x \in Seq(E)
  <2> HIDE DEF h, E
  <2> QED
    BY <1>3
<1>5. Folded((h \o x) \o <<")">>) = Folded(h \o x) \o Folded(<<")">>)
  BY <1>3, <1>4, FoldedConcat
<1>6. Folded(h \o x) = Folded(h) \o Folded(x)
  BY <1>3, FoldedConcat
<1>7. Folded(h \o x) \o << >> = Folded(h \o x)
  <2>1. Folded(h \o x) \in Seq(L)
    BY <1>4, FoldedType
  <2> QED
    BY <2>1, ConcatEmptySeq
<1> QED
  BY <1>1, <1>2, <1>5, <1>6, <1>7, Zenon

\* Converting a converted name changes nothing.
LEMMA FoldedTwice ==
  ASSUME NEW x \in Texts
  PROVE  Folded(Folded(x)) = Folded(x)
<1> DEFINE G == {"_"} \cup {Lower(c) : c \in {x[i] : i \in DOMAIN x} \ Brackets}
<1>1. x \in Seq(STRING)
  BY CrashStoreAssumption
<1>2. ASSUME NEW g \in G PROVE FoldedChar(g) = <<g>>
  <2>1. g \notin Brackets /\ Lower(g) = g
    BY LowerCaseAssumption
  <2> QED
    BY <2>1 DEF FoldedChar, Brackets
<1>3. FoldedPieces(x) \in Seq(Seq(G))
  <2>1. ASSUME NEW i \in 1 .. Len(x) PROVE FoldedChar(x[i]) \in Seq(G)
    <3>1. CASE x[i] \in Brackets
      <4>1. <<"_">> \in Seq(G) /\ << >> \in Seq(G)
        OBVIOUS
      <4>2. FoldedChar(x[i]) = <<"_">> \/ FoldedChar(x[i]) = << >>
        BY <3>1 DEF FoldedChar, Brackets
      <4> QED
        BY <4>1, <4>2, Zenon
    <3>2. CASE x[i] \notin Brackets
      <4>1. PICK y \in G : y = Lower(x[i])
        <5>1. i \in DOMAIN x
          BY <1>1
        <5>2. Lower(x[i]) \in G
          BY <3>2, <5>1
        <5> QED
          BY <5>2
      <4>2. FoldedChar(x[i]) = <<y>>
        BY <3>2, <4>1 DEF FoldedChar, Brackets
      <4>3. <<y>> \in Seq(G)
        BY ShortSequences
      <4> QED
        BY <4>2, <4>3
    <3> QED
      BY <3>1, <3>2
  <2>2. FoldedPieces(x) = [i \in 1 .. Len(x) |-> FoldedChar(x[i])]
    BY <1>1 DEF FoldedPieces
  <2> HIDE DEF G
  <2> QED
    BY <1>1, <2>1, <2>2
<1> HIDE DEF G
<1>4. PICK y \in Seq(G) : y = Folded(x)
  BY <1>3, FlatWhole, FoldedByPieces
<1>5. FoldedPieces(y) = [i \in 1 .. Len(y) |-> <<y[i]>>]
  BY <1>2 DEF FoldedPieces
<1>6. FoldedPieces(y) \in Seq(Seq(G)) /\ Len(FoldedPieces(y)) = Len(y)
  <2>1. \A i \in 1 .. Len(y) : <<y[i]>> \in Seq(G)
    BY ShortSequences
  <2> QED
    BY <1>5, <2>1
<1>7. \A i \in 1 .. Len(y) : FoldedPieces(y)[i] = <<y[i]>>
  BY <1>5
<1>8. FlattenSeq(FoldedPieces(y)) = y
  BY <1>6, <1>7, FlatSingletons
<1> QED
  BY <1>4, <1>8, FoldedByPieces

LEMMA DisplayFolded ==
  ASSUME NEW k \in Kinds
  PROVE  \/ /\ k.type \in Types /\ k.text = << >>
            /\ Folded(Display(k)) = <<k.type>>
         \/ /\ k.type = "invariantviolation" /\ k.text \in Texts
            /\ Folded(k.text) \in Seq(LowerCases(STRING))
            /\ Folded(Display(k)) = <<"invariantviolation", "_">> \o Folded(k.text)
<1>1. CASE k \in [type : Types, text : {<< >>}]
  <2>1. k.type \in Types /\ k.text = << >>
    BY <1>1
  <2>2. Display(k) = <<k.type>>
    BY <2>1, CrashStoreAssumption DEF Display
  <2>3. Folded(<<k.type>>) = <<k.type>>
    BY <2>1, FoldedWord
  <2> QED
    BY <2>1, <2>2, <2>3
<1>2. CASE k \in [type : {"invariantviolation"}, text : Texts]
  <2>1. k.type = "invariantviolation" /\ k.text \in Texts /\ k.text \in Seq(STRING)
    BY <1>2, CrashStoreAssumption
  <2>2. Display(k) = <<"invariantviolation", "(">> \o k.text \o <<")">>
    BY <2>1 DEF Display
  <2>3. Folded(<<"invariantviolation", "(">> \o k.text \o <<")">>)
          = <<"invariantviolation", "_">> \o Folded(k.text)
    BY <2>1, FoldedViolation
  <2>4. Folded(k.text) \in Seq(LowerCases(STRING))
    BY <2>1, FoldedType
  <2> QED
    BY <2>1, <2>2, <2>3, <2>4
<1> QED
  BY <1>1, <1>2 DEF Kinds

\* Two crashes share a file exactly when they are of one class.
LEMMA NamesAreClasses ==
  ASSUME NEW r \in CrashRecords, NEW s \in CrashRecords
  PROVE  FileName(r) = FileName(s) <=> ClassOf(r) = ClassOf(s)
<1> DEFINE a == Folded(Display(r.kind))
           b == Folded(Display(s.kind))
           L == LowerCases(STRING)
           M == L \cup {"invariantviolation"}
           w == <<"invariantviolation", "_">>
<1>1. r.kind \in Kinds /\ s.kind \in Kinds
  BY DEF CrashRecords
<1>2. a = b <=> r.kind.type = s.kind.type /\ Folded(r.kind.text) = Folded(s.kind.text)
  <2>1. w \in Seq(M)
    BY DEF LowerCases
  <2>2. ASSUME NEW x \in Seq(L) PROVE x \in Seq(M)
    BY <2>2, SeqMonotonic
  <2>3. ASSUME NEW x \in Seq(L), NEW y \in Seq(L), w \o x = w \o y PROVE x = y
    <3>1. x \in Seq(M) /\ y \in Seq(M)
      BY <2>2
    <3> QED
      BY <2>1, <2>3, <3>1, ConcatSimplifications
  <2>4. ASSUME NEW x \in Seq(L), NEW c PROVE w \o x # <<c>>
    <3>1. x \in Seq(M)
      BY <2>2
    <3>2. Len(w) = 2 /\ Len(x) \in Nat
      OBVIOUS
    <3> HIDE DEF w, M
    <3>3. Len(w \o x) = 2 + Len(x)
      <4>1. Len(w \o x) = Len(w) + Len(x)
        BY <2>1, <3>1, ConcatProperties
      <4> QED
        BY <3>2, <4>1
    <3>4. Len(<<c>>) = 1 /\ 2 + Len(x) # 1
      BY <3>2
    <3> QED
      BY <3>3, <3>4, Zenon
  <2>5. \A c, d : <<c>> = <<d>> => c = d
    OBVIOUS
  <2> DEFINE Plain(k) == /\ k.type \in Types /\ k.text = << >>
                         /\ Folded(Display(k)) = <<k.type>>
             Violation(k) == /\ k.type = "invariantviolation"
                             /\ Folded(k.text) \in Seq(L)
                             /\ Folded(Display(k)) = w \o Folded(k.text)
  <2>6. \A k \in Kinds : Plain(k) \/ Violation(k)
    BY DisplayFolded
  <2>7. "invariantviolation" \notin Types
    BY CrashStoreAssumption
  <2> HIDE DEF w, L, M
  <2>8. CASE Plain(r.kind) /\ Plain(s.kind)
    BY <2>5, <2>8
  <2>9. CASE Plain(r.kind) /\ Violation(s.kind)
    BY <2>4, <2>7, <2>9
  <2>10. CASE Violation(r.kind) /\ Plain(s.kind)
    BY <2>4, <2>7, <2>10
  <2>11. CASE Violation(r.kind) /\ Violation(s.kind)
    BY <2>3, <2>11
  <2> HIDE DEF Plain, Violation
  <2> QED
    BY <1>1, <2>6, <2>8, <2>9, <2>10, <2>11
<1> HIDE DEF a, b
<1>3. FileName(r) = <<a, r.discovered_at_round>> /\ FileName(s) = <<b, s.discovered_at_round>>
  BY DEF FileName, a, b
<1>4. ClassOf(r) = ClassOf(s) <=>
        /\ r.kind.type = s.kind.type /\ Folded(r.kind.text) = Folded(s.kind.text)
        /\ r.discovered_at_round = s.discovered_at_round
  BY DEF ClassOf
<1> QED
  BY <1>2, <1>3, <1>4

LEMMA PlaceOfClass ==
  ASSUME NEW r \in CrashRecords
  PROVE  ClassOf(r) \in Classes /\ PlaceOf[ClassOf(r)] = FileName(r)
<1> DEFINE c == ClassOf(r)
           k == [type |-> c.type, text |-> c.text]
<1>1. c \in Classes
  BY DEF Classes
<1>2. PlaceOf[c] = <<Folded(Display(k)), c.round>>
  BY <1>1 DEF PlaceOf, FileName
<1>3. c.type = r.kind.type /\ c.text = Folded(r.kind.text) /\ c.round = r.discovered_at_round
  BY DEF ClassOf
<1>4. Folded(Display(k)) = Folded(Display(r.kind))
  <2>1. r.kind \in Kinds
    BY DEF CrashRecords
  <2>2. CASE r.kind.type = "invariantviolation"
    <3>1. r.kind.text \in Texts /\ Folded(r.kind.text) \in Seq(LowerCases(STRING))
          /\ Folded(Display(r.kind)) = <<"invariantviolation", "_">> \o Folded(r.kind.text)
      BY <2>1, <2>2, DisplayFolded, CrashStoreAssumption
    <3>2. Display(k) = <<"invariantviolation", "(">> \o Folded(r.kind.text) \o <<")">>
      BY <1>3, <2>2 DEF Display
    <3>3. Folded(Display(k)) = <<"invariantviolation", "_">> \o Folded(Folded(r.kind.text))
      BY <3>1, <3>2, FoldedViolation
    <3>4. Folded(Folded(r.kind.text)) = Folded(r.kind.text)
      BY <3>1, FoldedTwice
    <3> QED
      BY <3>1, <3>3, <3>4
  <2>3. CASE r.kind.type # "invariantviolation"
    BY <1>3, <2>3 DEF Display
  <2> QED
    BY <2>2, <2>3
<1> QED
  BY <1>1, <1>2, <1>3, <1>4 DEF FileName

--------------------------------------------------------------------------------
(* CrashStore: the records.                                                  *)
StoreType ==
  /\ files \in [Names -> CrashRecords \cup {Absent, Empty, Garbled}]
  /\ pc \in [Campaigns -> {"fuzzing", "saving", "writing"}]
  /\ round \in [Campaigns -> 0 .. MaxRound]
  /\ restarts \in 0 .. MaxRestarts
  /\ crash \in [Campaigns -> CrashRecords \cup {Absent}]
  /\ \A w \in Campaigns : pc[w] # "fuzzing" => crash[w] \in CrashRecords
  /\ saved \in [Classes -> CrashRecords \cup {Absent}]
  /\ disturbed \subseteq Classes

\* A class that nothing disturbed has at most one campaign writing a record of it, into
\* a file that is still empty; when none is, the file holds what was acknowledged last.
Settled(c) == (\A w \in Campaigns : ~Writing(w, c)) /\ files[PlaceOf[c]] = saved[c]

Underway(c) ==
  \E w \in Campaigns :
    /\ \A v \in Campaigns : Writing(v, c) <=> v = w
    /\ files[PlaceOf[c]] = Empty

Kept(c) == c \in disturbed \/ Settled(c) \/ Underway(c)

StoreInv == StoreType /\ \A c \in Classes : Kept(c)

LEMMA StoreInvImplies ==
  ASSUME StoreInv
  PROVE  AckedStands
<1> SUFFICES ASSUME NEW c \in Classes \ disturbed, \A w \in Campaigns : ~Writing(w, c)
             PROVE  files[PlaceOf[c]] = saved[c]
  BY DEF AckedStands
<1> QED
  BY DEF StoreInv, Kept, Settled, Underway

LEMMA NameOfRecord ==
  ASSUME NEW r \in CrashRecords
  PROVE  FileName(r) \in Names
  BY DEF Names

LEMMA PlaceTaken ==
  ASSUME NEW c \in Classes
  PROVE  \E r \in CrashRecords : c = ClassOf(r) /\ PlaceOf[c] = FileName(r)
<1>1. PICK r \in CrashRecords : c = ClassOf(r)
  BY DEF Classes
<1> QED
  BY <1>1, PlaceOfClass

LEMMA StoreInvInit ==
  ASSUME Init
  PROVE  StoreInv
<1>1. StoreType
  BY CrashStoreAssumption DEF Init, StoreType
<1>2. ASSUME NEW c \in Classes PROVE Settled(c)
  <2>1. PlaceOf[c] \in Names
    BY PlaceTaken, NameOfRecord
  <2> QED
    BY <2>1 DEF Init, Settled, Writing
<1> QED
  BY <1>1, <1>2 DEF StoreInv, Kept

\* What a step does to a file leaves the files of the other classes alone.
LEMMA OtherFiles ==
  ASSUME StoreType, NEW r \in CrashRecords, NEW x, files' = [files EXCEPT ![FileName(r)] = x],
         NEW c \in Classes \ {ClassOf(r)}
  PROVE  files'[PlaceOf[c]] = files[PlaceOf[c]]
<1>1. PICK s \in CrashRecords : c = ClassOf(s) /\ PlaceOf[c] = FileName(s)
  BY PlaceTaken
<1>2. FileName(s) # FileName(r) /\ FileName(s) \in DOMAIN files
  BY <1>1, NamesAreClasses, NameOfRecord DEF StoreType
<1> QED
  BY <1>1, <1>2

LEMMA OwnFile ==
  ASSUME StoreType, NEW r \in CrashRecords, NEW x, files' = [files EXCEPT ![FileName(r)] = x]
  PROVE  files'[PlaceOf[ClassOf(r)]] = x
<1>1. PlaceOf[ClassOf(r)] = FileName(r) /\ FileName(r) \in DOMAIN files
  BY PlaceOfClass, NameOfRecord DEF StoreType
<1> QED
  BY <1>1

\* A class is kept when neither its file nor those who write it change.
LEMMA StaysKept ==
  ASSUME NEW c, Kept(c), files'[PlaceOf[c]] = files[PlaceOf[c]], saved'[c] = saved[c],
         c \in disturbed => c \in disturbed',
         \A v \in Campaigns : Writing(v, c)' <=> Writing(v, c)
  PROVE  Kept(c)'
<1>1. CASE c \in disturbed
  BY <1>1 DEF Kept
<1>2. CASE Settled(c)
  BY <1>2 DEF Kept, Settled
<1>3. CASE Underway(c)
  BY <1>3 DEF Kept, Underway
<1> QED
  BY <1>1, <1>2, <1>3 DEF Kept

\* A step of w that starts or stops writing, or does neither, concerns no other class.
LEMMA OthersKept ==
  ASSUME StoreInv, NEW w \in Campaigns, crash[w] \in CrashRecords,
         NEW x, files' = [files EXCEPT ![FileName(crash[w])] = x],
         \A v \in Campaigns \ {w} : pc'[v] = pc[v] /\ crash'[v] = crash[v],
         pc'[w] = "writing" => crash'[w] = crash[w],
         NEW c \in Classes \ {ClassOf(crash[w])},
         saved'[c] = saved[c], c \in disturbed => c \in disturbed'
  PROVE  Kept(c)'
<1>1. files'[PlaceOf[c]] = files[PlaceOf[c]]
  BY OtherFiles DEF StoreInv
<1>2. \A v \in Campaigns : Writing(v, c)' <=> Writing(v, c)
  BY DEF Writing
<1>3. Kept(c)
  BY DEF StoreInv
<1> QED
  BY <1>1, <1>2, <1>3, StaysKept

\* A campaign that was not writing and is not afterwards disturbs nothing.
LEMMA IdleKeeps ==
  ASSUME StoreInv, NEW w \in Campaigns, UNCHANGED <<files, saved, disturbed>>,
         \A v \in Campaigns \ {w} : pc'[v] = pc[v] /\ crash'[v] = crash[v],
         pc[w] # "writing", pc'[w] # "writing",
         NEW c \in Classes
  PROVE  Kept(c)'
<1>1. \A v \in Campaigns : Writing(v, c)' <=> Writing(v, c)
  BY DEF Writing
<1>2. Kept(c)
  BY DEF StoreInv
<1> QED
  BY <1>1, <1>2, StaysKept

LEMMA FilesType ==
  ASSUME StoreType,
         \/ files' = files
         \/ \E r \in CrashRecords, x \in CrashRecords \cup {Absent, Empty, Garbled} :
              files' = [files EXCEPT ![FileName(r)] = x]
  PROVE  files' \in [Names -> CrashRecords \cup {Absent, Empty, Garbled}]
  BY NameOfRecord DEF StoreType

\* Fails and Dies: w stops where it is and has nothing to save any more.
LEMMA StopsKeepStore ==
  ASSUME StoreInv, NEW w \in Campaigns, Cut(w),
         pc' = [pc EXCEPT ![w] = "fuzzing"], crash' = [crash EXCEPT ![w] = Absent],
         round' \in [Campaigns -> 0 .. MaxRound], restarts' \in 0 .. MaxRestarts, saved' = saved
  PROVE  StoreInv'
<1>1. StoreType
  BY DEF StoreInv
<1>2. /\ \A v \in Campaigns \ {w} : pc'[v] = pc[v] /\ crash'[v] = crash[v]
      /\ pc'[w] = "fuzzing"
  BY <1>1 DEF StoreType
<1>3. CASE pc[w] # "writing"
  <2>1. UNCHANGED <<files, disturbed>>
    BY <1>3 DEF Cut
  <2>2. StoreType'
    BY <1>1, <2>1 DEF StoreType
  <2>3. \A c \in Classes : Kept(c)'
    BY <1>2, <1>3, <2>1, IdleKeeps
  <2> QED
    BY <2>2, <2>3 DEF StoreInv
<1>4. CASE pc[w] = "writing"
  <2>1. crash[w] \in CrashRecords /\ ClassOf(crash[w]) \in Classes
    BY <1>1, <1>4, PlaceOfClass DEF StoreType
  <2>2. disturbed' = disturbed \cup {ClassOf(crash[w])}
    BY <1>4 DEF Cut
  <2>3. files' = files \/ files' = [files EXCEPT ![FileName(crash[w])] = Garbled]
    BY <1>4 DEF Cut
  <2>4. \E x \in CrashRecords \cup {Absent, Empty, Garbled} :
          files' = [files EXCEPT ![FileName(crash[w])] = x]
    <3>1. files[FileName(crash[w])] \in CrashRecords \cup {Absent, Empty, Garbled}
      BY <1>1, <2>1, NameOfRecord DEF StoreType
    <3>2. files = [files EXCEPT ![FileName(crash[w])] = files[FileName(crash[w])]]
      BY <1>1 DEF StoreType
    <3> QED
      BY <2>3, <3>1, <3>2
  <2>5. files' \in [Names -> CrashRecords \cup {Absent, Empty, Garbled}]
    BY <1>1, <2>1, <2>4, FilesType
  <2>6. StoreType'
    BY <1>1, <2>1, <2>2, <2>5 DEF StoreType
  <2>7. ASSUME NEW c \in Classes PROVE Kept(c)'
    <3>1. CASE c = ClassOf(crash[w])
      BY <2>2, <3>1 DEF Kept
    <3>2. CASE c # ClassOf(crash[w])
      BY <1>2, <2>1, <2>2, <2>4, <3>2, OthersKept
    <3> QED
      BY <3>1, <3>2
  <2> QED
    BY <2>6, <2>7 DEF StoreInv
<1> QED
  BY <1>3, <1>4

LEMMA NewRecordType ==
  ASSUME StoreType, NEW w \in Campaigns, NEW kind \in Kinds, round[w] < MaxRound
  PROVE  NewRecord(w, kind) \in CrashRecords
<1>1. round[w] \in 0 .. MaxRound - 1
  BY CrashStoreAssumption DEF StoreType
<1> QED
  BY <1>1 DEF NewRecord, CrashRecords, StoreType

LEMMA FindsKeepsStore ==
  ASSUME StoreInv, NEW w \in Campaigns, NEW kind \in Kinds, Finds(w, kind)
  PROVE  StoreInv'
<1>1. StoreType
  BY DEF StoreInv
<1>2. NewRecord(w, kind) \in CrashRecords
  BY <1>1, NewRecordType DEF Finds
<1>3. round' \in [Campaigns -> 0 .. MaxRound]
  BY <1>1, CrashStoreAssumption DEF Finds, StoreType
<1>4. StoreType'
  BY <1>1, <1>2, <1>3 DEF Finds, StoreType
<1>5. /\ \A v \in Campaigns \ {w} : pc'[v] = pc[v] /\ crash'[v] = crash[v]
      /\ pc[w] = "fuzzing" /\ pc'[w] = "saving"
      /\ UNCHANGED <<files, saved, disturbed>>
  BY <1>1 DEF Finds, StoreType
<1>6. \A c \in Classes : Kept(c)'
  BY <1>5, IdleKeeps
<1> QED
  BY <1>4, <1>6 DEF StoreInv

LEMMA OpensKeepsStore ==
  ASSUME StoreInv, NEW w \in Campaigns, Opens(w)
  PROVE  StoreInv'
<1>1. StoreType /\ crash[w] \in CrashRecords
  BY DEF StoreInv, StoreType, Opens
<1> PICK e \in Classes : e = ClassOf(crash[w])
  BY <1>1, PlaceOfClass
<1>2. /\ files' = [files EXCEPT ![FileName(crash[w])] = Empty]
      /\ disturbed' = IF \E v \in Campaigns : Writing(v, e)
                      THEN disturbed \cup {e} ELSE disturbed \ {e}
      /\ crash' = crash /\ saved' = saved
  BY DEF Opens
<1>3. /\ \A v \in Campaigns \ {w} : pc'[v] = pc[v]
      /\ pc'[w] = "writing"
  BY <1>1 DEF Opens, StoreType
<1>4. files' \in [Names -> CrashRecords \cup {Absent, Empty, Garbled}]
  BY <1>1, <1>2, FilesType
<1>5. StoreType'
  BY <1>1, <1>2, <1>4 DEF StoreType, Opens
<1>6. Kept(e)'
  <2>1. CASE \E v \in Campaigns : Writing(v, e)
    BY <1>2, <2>1 DEF Kept
  <2>2. CASE \A v \in Campaigns : ~Writing(v, e)
    <3>1. \A v \in Campaigns : Writing(v, e)' <=> v = w
      BY <1>2, <1>3, <2>2 DEF Writing
    <3>2. files'[PlaceOf[e]] = Empty
      BY <1>1, <1>2, OwnFile
    <3> QED
      BY <3>1, <3>2 DEF Kept, Underway
  <2> QED
    BY <2>1, <2>2
<1>7. ASSUME NEW c \in Classes \ {e} PROVE Kept(c)'
  BY <1>1, <1>2, <1>3, OthersKept
<1> QED
  BY <1>5, <1>6, <1>7, <1>2 DEF StoreInv

LEMMA WritesKeepsStore ==
  ASSUME StoreInv, NEW w \in Campaigns, Writes(w)
  PROVE  StoreInv'
<1>1. PICK r \in CrashRecords : r = crash[w]
  BY DEF StoreInv, StoreType, Writes
<1>2. PICK e \in Classes : e = ClassOf(r)
  BY PlaceOfClass
<1>3. StoreType
  BY DEF StoreInv
<1>4. /\ \/ files' = [files EXCEPT ![FileName(r)] = r]
         \/ files[FileName(r)] # Empty /\ files' = [files EXCEPT ![FileName(r)] = Garbled]
      /\ saved' = [saved EXCEPT ![e] = r] /\ disturbed' = disturbed
  BY <1>1, <1>2 DEF Writes
<1>5. /\ \A v \in Campaigns \ {w} : pc'[v] = pc[v] /\ crash'[v] = crash[v]
      /\ pc[w] = "writing" /\ pc'[w] = "fuzzing"
  BY <1>3 DEF Writes, StoreType
<1>6. files' \in [Names -> CrashRecords \cup {Absent, Empty, Garbled}]
  BY <1>3, <1>4, FilesType
<1>7. StoreType'
  BY <1>3, <1>4, <1>6 DEF StoreType, Writes
<1>8. Kept(e)'
  <2>1. Writing(w, e)
    BY <1>1, <1>2, <1>5 DEF Writing
  <2>2. CASE e \in disturbed
    BY <1>4, <2>2 DEF Kept
  <2>3. CASE e \notin disturbed
    <3>1. Underway(e)
      BY <2>1, <2>3 DEF StoreInv, Kept, Settled
    <3>2. files[PlaceOf[e]] = Empty /\ \A v \in Campaigns : Writing(v, e) <=> v = w
      BY <2>1, <3>1 DEF Underway
    <3>3. files' = [files EXCEPT ![FileName(r)] = r]
      BY <1>2, <1>4, <3>2, PlaceOfClass
    <3>4. files'[PlaceOf[e]] = r
      BY <1>2, <1>3, <3>3, OwnFile
    <3>5. saved'[e] = r
      BY <1>3, <1>4 DEF StoreType
    <3>6. \A v \in Campaigns : ~Writing(v, e)'
      BY <1>5, <3>2 DEF Writing
    <3> QED
      BY <3>4, <3>5, <3>6 DEF Kept, Settled
  <2> QED
    BY <2>2, <2>3
<1>9. ASSUME NEW c \in Classes \ {e} PROVE Kept(c)'
  <2>1. saved'[c] = saved[c]
    BY <1>3, <1>4, <1>9 DEF StoreType
  <2> QED
    BY <1>1, <1>2, <1>4, <1>5, <2>1, OthersKept
<1> QED
  BY <1>7, <1>8, <1>9 DEF StoreInv

LEMMA StoreInvStep ==
  ASSUME StoreInv, [Next]_vars
  PROVE  StoreInv'
<1>1. StoreType
  BY DEF StoreInv
<1>2. ASSUME NEW w \in Campaigns, NEW kind \in Kinds, Finds(w, kind) PROVE StoreInv'
  BY <1>2, FindsKeepsStore
<1>3. ASSUME NEW w \in Campaigns, FindsNothing(w) PROVE StoreInv'
  <2>1. round' \in [Campaigns -> 0 .. MaxRound]
    BY <1>1, <1>3, CrashStoreAssumption DEF FindsNothing, StoreType
  <2>2. \A c \in Classes : Kept(c)'
    BY <1>3, IdleKeeps DEF FindsNothing
  <2> QED
    BY <1>1, <1>3, <2>1, <2>2 DEF FindsNothing, StoreInv, StoreType
<1>4. ASSUME NEW w \in Campaigns, Opens(w) PROVE StoreInv'
  BY <1>4, OpensKeepsStore
<1>5. ASSUME NEW w \in Campaigns, Writes(w) PROVE StoreInv'
  BY <1>5, WritesKeepsStore
<1>6. ASSUME NEW w \in Campaigns, Fails(w) PROVE StoreInv'
  BY <1>1, <1>6, StopsKeepStore DEF Fails, StoreType
<1>7. ASSUME NEW w \in Campaigns, Dies(w) PROVE StoreInv'
  <2>1. round' \in [Campaigns -> 0 .. MaxRound] /\ restarts' \in 0 .. MaxRestarts
    BY <1>1, <1>7, CrashStoreAssumption DEF Dies, StoreType
  <2> QED
    BY <1>7, <2>1, StopsKeepStore DEF Dies
<1>8. CASE UNCHANGED vars
  <2>1. ASSUME NEW c \in Classes PROVE Kept(c)'
    BY <1>8, StaysKept DEF vars, Writing, StoreInv
  <2> QED
    BY <1>1, <1>8, <2>1 DEF vars, StoreInv, StoreType
<1> QED
  BY <1>2, <1>3, <1>4, <1>5, <1>6, <1>7, <1>8 DEF Next, Persists

THEOREM StoreInvariant == Spec => []StoreInv
<1>1. Init => StoreInv
  BY StoreInvInit
<1>2. StoreInv /\ [Next]_vars => StoreInv'
  BY StoreInvStep
<1> QED
  BY <1>1, <1>2, PTL DEF Spec

\* The last acknowledged record of a class is whole in its file, however many campaigns
\* share the directory and fail or are killed, unless a save of that very class is under
\* way, or the last one to start was cut short or overlapped another.
THEOREM AckedRecordsStand == Spec => []AckedStands
<1>1. StoreInv => AckedStands
  BY StoreInvImplies
<1> QED
  BY <1>1, StoreInvariant, PTL

--------------------------------------------------------------------------------
(* CrashStore implements CrashShelf.                                         *)
Shelved == [c \in Classes |-> Load(PlaceOf[c])]

LEMMA ShelfUnchanged ==
  ASSUME files' = files
  PROVE  Shelved' = Shelved
  BY DEF Shelved, Load

\* Whatever is put in the file of a record changes the place of its class only.
LEMMA OnePlace ==
  ASSUME StoreType, NEW w, crash[w] \in CrashRecords,
         NEW x \in {crash[w], Empty, Garbled}, files' = [files EXCEPT ![FileName(crash[w])] = x]
  PROVE  Shelf!ShelfNext
<1> DEFINE e == ClassOf(crash[w])
           n == FileName(crash[w])
<1>1. e \in Classes /\ PlaceOf[e] = n
  BY PlaceOfClass
<1>2. ASSUME NEW d \in Classes \ {e} PROVE Shelved'[d] = Shelved[d]
  <2>1. files'[PlaceOf[d]] = files[PlaceOf[d]]
    BY OtherFiles
  <2> QED
    BY <2>1 DEF Shelved, Load
<1>3. Shelved'[e] # Absent => ClassOf(Shelved'[e]) = e
  <2>1. files'[PlaceOf[e]] = x
    BY OwnFile
  <2>2. Shelved'[e] = IF x \in {Empty, Garbled} THEN Absent ELSE x
    BY <1>1, <2>1 DEF Shelved, Load
  <2> QED
    BY <2>2
<1>4. Shelf!Change(e)
  BY <1>2, <1>3 DEF Shelf!Change, Shelved
<1> QED
  BY <1>1, <1>4 DEF Shelf!ShelfNext

LEMMA ShelfStep ==
  ASSUME StoreType, [Next]_vars
  PROVE  Shelf!ShelfNext \/ Shelved' = Shelved
<1>1. ASSUME NEW w \in Campaigns, NEW kind \in Kinds, Finds(w, kind) PROVE Shelved' = Shelved
  BY <1>1, ShelfUnchanged DEF Finds
<1>2. ASSUME NEW w \in Campaigns, Opens(w) PROVE Shelf!ShelfNext
  <2>1. crash[w] \in CrashRecords /\ files' = [files EXCEPT ![FileName(crash[w])] = Empty]
    BY <1>2 DEF Opens, StoreType
  <2> QED
    BY <2>1, OnePlace
<1>3. ASSUME NEW w \in Campaigns, Writes(w) PROVE Shelf!ShelfNext
  <2>1. crash[w] \in CrashRecords
    BY <1>3 DEF Writes, StoreType
  <2>2. \E x \in {crash[w], Empty, Garbled} : files' = [files EXCEPT ![FileName(crash[w])] = x]
    BY <1>3 DEF Writes
  <2> QED
    BY <2>1, <2>2, OnePlace
<1>4. ASSUME NEW w \in Campaigns, Cut(w) PROVE Shelf!ShelfNext \/ Shelved' = Shelved
  <2>1. CASE files' = files
    BY <2>1, ShelfUnchanged
  <2>2. CASE /\ pc[w] = "writing"
             /\ files' = [files EXCEPT ![FileName(crash[w])] = Garbled]
    <3>1. crash[w] \in CrashRecords
      BY <2>2 DEF StoreType
    <3> QED
      BY <2>2, <3>1, OnePlace
  <2> QED
    BY <1>4, <2>1, <2>2 DEF Cut
<1>5. ASSUME NEW w \in Campaigns, FindsNothing(w) PROVE Shelved' = Shelved
  BY <1>5, ShelfUnchanged DEF FindsNothing
<1>6. CASE UNCHANGED vars
  BY <1>6, ShelfUnchanged DEF vars
<1> QED
  BY <1>1, <1>2, <1>3, <1>4, <1>5, <1>6 DEF Next, Persists, Fails, Dies

\* Every step of the campaigns puts a whole record in the place of its class, makes one
\* place unreadable, or leaves the shelf alone.
THEOREM StoreImplementsShelf == Spec => SavesAreAtomic
<1>1. Init => Shelf!ShelfInit
  <2> SUFFICES ASSUME Init, NEW c \in Classes PROVE Load(PlaceOf[c]) = Absent
    BY DEF Shelf!ShelfInit
  <2>1. PICK r \in CrashRecords : PlaceOf[c] = FileName(r)
    BY PlaceTaken
  <2> QED
    BY <2>1, NameOfRecord DEF Init, Load
<1>2. StoreInv /\ [Next]_vars => [Shelf!ShelfNext]_Shelved
  BY ShelfStep DEF StoreInv
<1>3. [][Next]_vars /\ []StoreInv => [][Shelf!ShelfNext]_Shelved
  BY <1>2, PTL
<1> QED
  BY <1>1, <1>3, StoreInvariant, PTL DEF Spec, SavesAreAtomic, Shelf!ShelfSpec, Shelved
================================================================================
