---------------------------- MODULE MemeCoinProofs ----------------------------
(* Theorems about MemeCoin.                                                 *)
EXTENDS MemeCoin, FiniteSetTheorems, WellFoundedInduction, TLAPS

(* Quotients, remainders and products.                                      *)
LEMMA QuotientFacts ==
  ASSUME NEW x \in Nat, NEW d \in Nat \ {0}
  PROVE  x \div d \in Nat /\ (x \div d) * d <= x
  OBVIOUS

LEMMA QuotientBound ==
  ASSUME NEW x \in Nat, NEW d \in Nat \ {0}, NEW k \in Nat, x <= k * d
  PROVE  x \div d <= k
  OBVIOUS

LEMMA WordFacts ==
  ASSUME NEW x \in Int
  PROVE  /\ Word(x) \in Words
         /\ x \in Words => Word(x) = x
         /\ x >= 0 => Word(x) <= x
  BY MemeCoinAssumption DEF Word, Words

LEMMA WordSame ==
  ASSUME NEW x \in Words
  PROVE  Word(x) = x
<1>1. x \in Int
  BY MemeCoinAssumption DEF Words
<1> QED
  BY <1>1, WordFacts

LEMMA WordOfNat ==
  ASSUME NEW x \in Nat
  PROVE  Word(x) \in Nat /\ Word(x) <= x
<1>1. x \in Int /\ x >= 0
  OBVIOUS
<1>2. Word(x) \in Words /\ Word(x) <= x
  BY <1>1, WordFacts
<1>3. Words \subseteq Nat
  BY MemeCoinAssumption DEF Words
<1> QED
  BY <1>2, <1>3

LEMMA FeeFacts ==
  ASSUME NEW x \in Nat
  PROVE  Fee(x) \in Nat /\ Fee(x) <= x
<1>1. /\ FeeBps \in Nat /\ FeeDenominator \in Nat \ {0} /\ FeeBps <= FeeDenominator
  BY MemeCoinAssumption
<1>2. x * FeeBps \in Nat /\ x * FeeBps <= x * FeeDenominator
  BY <1>1
<1> QED
  BY <1>1, <1>2, QuotientFacts, QuotientBound DEF Fee

\* A trade never asks for more than the exact curve gives, if the sum fits a word.
LEMMA QuoteFacts ==
  ASSUME NEW out \in Nat, NEW in \in Nat, NEW x \in Nat
  PROVE  /\ Quote(out, in, x) \in Nat
         /\ Quote(out, in, x) > 0 /\ in + x \in Words =>
              /\ Quote(out, in, x) * (in + x) <= out * x
              /\ Quote(out, in, x) <= out
<1> DEFINE d == Word(in + x)
           n == Word(out * x)
<1>1. d \in Nat /\ out * x \in Nat /\ n \in Nat /\ n <= out * x
  BY WordFacts DEF Words
<1>2. CASE d = 0
  BY <1>2 DEF Quote
<1>3. CASE d > 0
  <2>1. Quote(out, in, x) = n \div d
    BY <1>1, <1>3 DEF Quote
  <2>2. Quote(out, in, x) \in Nat /\ Quote(out, in, x) * d <= n
    BY <1>1, <1>3, <2>1, QuotientFacts
  <2>3. ASSUME in + x \in Words
        PROVE  Quote(out, in, x) * (in + x) <= out * x /\ Quote(out, in, x) <= out
    <3>1. d = in + x
      BY <2>3, WordFacts
    <3>2. Quote(out, in, x) * (in + x) <= out * x
      BY <1>1, <2>2, <3>1
    <3>3. n <= out * d
      <4>1. out * x <= out * (in + x)
        OBVIOUS
      <4> QED
        BY <1>1, <3>1, <4>1
    <3> QED
      BY <1>1, <1>3, <2>1, <3>2, <3>3, QuotientBound
  <2> QED
    BY <2>2, <2>3
<1> QED
  BY <1>1, <1>2, <1>3

--------------------------------------------------------------------------------
(* Sums of balances, as numbers of units.                                   *)
UnitsAbove(h, a, x) == {<<h, i>> : i \in a + 1 .. a + x}

LEMMA UnitsOf ==
  ASSUME NEW h, NEW a \in Nat, NEW x \in Nat
  PROVE  IsFiniteSet(UnitsAbove(h, a, x)) /\ Cardinality(UnitsAbove(h, a, x)) = x
<1>1. IsFiniteSet(a + 1 .. a + x) /\ Cardinality(a + 1 .. a + x) = x
  <2>1. a + 1 \in Int /\ a + x \in Int
    OBVIOUS
  <2>2. /\ IsFiniteSet(a + 1 .. a + x)
        /\ Cardinality(a + 1 .. a + x) = IF a + 1 > a + x THEN 0 ELSE (a + x) - (a + 1) + 1
    BY <2>1, FS_Interval
  <2> QED
    BY <2>2
<1>2. IsFiniteSet({h}) /\ Cardinality({h}) = 1
  BY FS_Singleton
<1>3. /\ IsFiniteSet({h} \X (a + 1 .. a + x))
      /\ Cardinality({h} \X (a + 1 .. a + x)) = 1 * x
  BY <1>1, <1>2, FS_Product
<1>4. {h} \X (a + 1 .. a + x) = UnitsAbove(h, a, x)
  BY DEF UnitsAbove
<1>5. 1 * x = x
  OBVIOUS
<1> QED
  BY <1>3, <1>4, <1>5, Zenon

LEMMA UnitsIn ==
  ASSUME NEW H, NEW b \in [H -> Nat], NEW h \in H, NEW i \in 1 .. b[h]
  PROVE  <<h, i>> \in Units(b)
<1>1. h \in DOMAIN b
  OBVIOUS
<1> QED
  BY <1>1 DEF Units

LEMMA UnitsOnly ==
  ASSUME NEW H, NEW b \in [H -> Nat], NEW u \in Units(b)
  PROVE  \E h \in H : \E i \in 1 .. b[h] : u = <<h, i>>
<1>1. PICK h \in DOMAIN b : u \in {<<h, i>> : i \in 1 .. b[h]}
  BY Zenon DEF Units
<1>2. h \in H
  OBVIOUS
<1> QED
  BY <1>1, <1>2

LEMMA UnitsAdd ==
  ASSUME NEW H, NEW b \in [H -> Nat], IsFiniteSet(Units(b)), NEW h \in H, NEW x \in Nat,
         NEW c \in [H -> Nat], c[h] = b[h] + x, \A k \in H \ {h} : c[k] = b[k]
  PROVE  /\ IsFiniteSet(Units(c))
         /\ Cardinality(Units(c)) = Cardinality(Units(b)) + x
<1> DEFINE More == UnitsAbove(h, b[h], x)
<1>1. b[h] \in Nat
  OBVIOUS
<1>2. IsFiniteSet(More) /\ Cardinality(More) = x
  BY <1>1, UnitsOf
<1>3. \A u : u \in More <=> \E i \in b[h] + 1 .. b[h] + x : u = <<h, i>>
  BY Zenon DEF UnitsAbove
<1>4. \A u : u \in Units(c) <=> u \in Units(b) \/ u \in More
  <2> SUFFICES ASSUME NEW u PROVE u \in Units(c) <=> u \in Units(b) \/ u \in More
    OBVIOUS
  <2>1. ASSUME NEW k \in H, NEW i \in 1 .. c[k], u = <<k, i>>
        PROVE  u \in Units(b) \/ u \in More
    <3>1. CASE k = h
      <4>1. i \in 1 .. b[h] \/ i \in b[h] + 1 .. b[h] + x
        BY <1>1, <2>1, <3>1
      <4> QED
        BY <1>3, <2>1, <3>1, <4>1, UnitsIn
    <3>2. CASE k # h
      <4>1. i \in 1 .. b[k]
        BY <2>1, <3>2
      <4> QED
        BY <2>1, <4>1, UnitsIn
    <3> QED
      BY <3>1, <3>2
  <2>2. ASSUME NEW k \in H, NEW i \in 1 .. b[k], u = <<k, i>>
        PROVE  u \in Units(c)
    <3>1. i \in 1 .. c[k]
      BY <1>1, <2>2
    <3> QED
      BY <2>2, <3>1, UnitsIn
  <2>3. ASSUME NEW i \in b[h] + 1 .. b[h] + x, u = <<h, i>>
        PROVE  u \in Units(c)
    <3>1. i \in 1 .. c[h]
      BY <1>1, <2>3
    <3> QED
      BY <2>3, <3>1, UnitsIn
  <2>4. u \in Units(c) => u \in Units(b) \/ u \in More
    BY <2>1, UnitsOnly
  <2>5. u \in Units(b) => u \in Units(c)
    BY <2>2, UnitsOnly
  <2>6. u \in More => u \in Units(c)
    BY <1>3, <2>3
  <2> QED
    BY <2>4, <2>5, <2>6
<1>5. Units(c) = Units(b) \cup More
  BY <1>4, Zenon
<1>6. Units(b) \cap More = {}
  <2>1. ASSUME NEW u, u \in Units(b), u \in More PROVE FALSE
    <3>0. PICK k \in H : \E i \in 1 .. b[k] : u = <<k, i>>
      BY <2>1, UnitsOnly
    <3>1. PICK i \in 1 .. b[k] : u = <<k, i>>
      BY <3>0
    <3>2. PICK j \in b[h] + 1 .. b[h] + x : u = <<h, j>>
      BY <1>3, <2>1, Zenon
    <3>3. k = h /\ i = j
      BY <3>1, <3>2
    <3> QED
      BY <1>1, <3>3
  <2> QED
    BY <2>1, Zenon
<1>7. Cardinality(Units(b)) \in Nat /\ Cardinality({}) = 0
  BY FS_CardinalityType, FS_EmptySet
<1>8. /\ IsFiniteSet(Units(b) \cup More)
      /\ Cardinality(Units(b) \cup More)
           = Cardinality(Units(b)) + Cardinality(More) - Cardinality(Units(b) \cap More)
  BY <1>2, FS_Union, Zenon
<1>9. Cardinality(Units(c)) = Cardinality(Units(b)) + x - 0
  BY <1>2, <1>5, <1>6, <1>7, <1>8, Zenon
<1> QED
  BY <1>5, <1>7, <1>8, <1>9

LEMMA UnitsRemove ==
  ASSUME NEW H, NEW b \in [H -> Nat], IsFiniteSet(Units(b)), NEW h \in H,
         NEW x \in Nat, x <= b[h],
         NEW c \in [H -> Nat], c[h] = b[h] - x, \A k \in H \ {h} : c[k] = b[k]
  PROVE  /\ IsFiniteSet(Units(c))
         /\ Cardinality(Units(c)) = Cardinality(Units(b)) - x
<1>1. b[h] = c[h] + x /\ \A k \in H \ {h} : b[k] = c[k]
  OBVIOUS
<1>2. IsFiniteSet(Units(c))
  <2>1. ASSUME NEW u, u \in Units(c) PROVE u \in Units(b)
    <3>0. PICK k \in H : \E i \in 1 .. c[k] : u = <<k, i>>
      BY <2>1, UnitsOnly
    <3>1. PICK i \in 1 .. c[k] : u = <<k, i>>
      BY <3>0
    <3>2. b[k] \in Nat /\ c[k] \in Nat /\ c[k] <= b[k]
      <4>1. CASE k = h
        BY <4>1
      <4>2. CASE k # h
        BY <4>2
      <4> QED
        BY <4>1, <4>2
    <3>3. i \in 1 .. b[k]
      BY <3>2
    <3> QED
      BY <3>1, <3>3, UnitsIn
  <2>2. Units(c) \in SUBSET Units(b)
    BY <2>1, Zenon
  <2> QED
    BY <2>2, FS_Subset, Zenon
<1>3. Cardinality(Units(b)) = Cardinality(Units(c)) + x
  BY <1>1, <1>2, UnitsAdd
<1>4. Cardinality(Units(c)) \in Nat
  BY <1>2, FS_CardinalityType
<1> QED
  BY <1>2, <1>3, <1>4

\* A move to the same place changes nothing; no other place loses.
LEMMA MoveFacts ==
  ASSUME NEW H, NEW b \in [H -> Nat], NEW from \in H, NEW to \in H, NEW x \in Nat, x <= b[from]
  PROVE  /\ Move(b, from, to, x) \in [H -> Nat]
         /\ \A k \in H : /\ Move(b, from, to, x)[k] >= b[k] - x
                        /\ k # from => Move(b, from, to, x)[k] >= b[k]
         /\ from # to => /\ Move(b, from, to, x)[from] = b[from] - x
                         /\ Move(b, from, to, x)[to] = b[to] + x
                         /\ \A k \in H \ {from, to} : Move(b, from, to, x)[k] = b[k]
         /\ from = to => Move(b, from, to, x) = b
<1> DEFINE d == Move(b, from, to, x)
<1>0. b[from] - x \in Nat /\ b[to] + x \in Nat /\ \A k \in H : b[k] \in Nat
  OBVIOUS
<1>1. CASE from # to
  <2>1. /\ d \in [H -> Nat] /\ d[from] = b[from] - x /\ d[to] = b[to] + x
        /\ \A k \in H \ {from, to} : d[k] = b[k]
    BY <1>0, <1>1 DEF Move
  <2> HIDE DEF d
  <2>2. \A k \in H : d[k] >= b[k] - x /\ (k # from => d[k] >= b[k])
    BY <1>0, <1>1, <2>1
  <2> QED
    BY <1>1, <2>1, <2>2 DEF d
<1>2. CASE from = to
  <2>1. d = b
    <3> DEFINE c == [b EXCEPT ![from] = @ - x]
    <3>1. c \in [H -> Nat] /\ c[from] = b[from] - x /\ \A k \in H \ {from} : c[k] = b[k]
      BY <1>0
    <3>2. d = [c EXCEPT ![from] = @ + x]
      BY <1>2 DEF Move
    <3> HIDE DEF c, d
    <3>3. d \in [H -> Int] /\ d[from] = b[from] /\ \A k \in H \ {from} : d[k] = b[k]
      BY <1>0, <3>1, <3>2
    <3> QED
      BY <3>3
  <2>2. \A k \in H : b[k] >= b[k] - x /\ b[k] >= b[k]
    BY <1>0
  <2> HIDE DEF d
  <2> QED
    BY <1>2, <2>1, <2>2 DEF d
<1> QED
  BY <1>1, <1>2

LEMMA UnitsMove ==
  ASSUME NEW H, NEW b \in [H -> Nat], IsFiniteSet(Units(b)),
         NEW from \in H, NEW to \in H, NEW x \in Nat, x <= b[from]
  PROVE  /\ IsFiniteSet(Units(Move(b, from, to, x)))
         /\ Cardinality(Units(Move(b, from, to, x))) = Cardinality(Units(b))
<1> DEFINE c == [b EXCEPT ![from] = @ - x]
           d == Move(b, from, to, x)
<1>1. CASE from # to
  <2>1. b[from] - x \in Nat
    OBVIOUS
  <2>2. c \in [H -> Nat] /\ c[from] = b[from] - x /\ \A k \in H \ {from} : c[k] = b[k]
    BY <2>1
  <2>3. /\ d \in [H -> Nat] /\ d[from] = b[from] - x /\ d[to] = b[to] + x
        /\ \A k \in H \ {from, to} : d[k] = b[k]
    BY <1>1, MoveFacts
  <2>4. d[to] = c[to] + x /\ \A k \in H \ {to} : d[k] = c[k]
    BY <1>1, <2>2, <2>3
  <2> HIDE DEF c, d
  <2>5. IsFiniteSet(Units(c)) /\ Cardinality(Units(c)) = Cardinality(Units(b)) - x
    BY <2>2, UnitsRemove
  <2>6. Cardinality(Units(b)) \in Nat
    BY FS_CardinalityType
  <2>7. IsFiniteSet(Units(d)) /\ Cardinality(Units(d)) = Cardinality(Units(c)) + x
    BY <2>2, <2>3, <2>4, <2>5, UnitsAdd
  <2>8. Cardinality(Units(d)) = Cardinality(Units(b))
    BY <2>5, <2>6, <2>7
  <2> QED
    BY <2>7, <2>8 DEF d
<1>2. CASE from = to
  BY <1>2, MoveFacts
<1> QED
  BY <1>1, <1>2

\* A balance is part of the sum.
LEMMA UnitsSingle ==
  ASSUME NEW H, NEW b \in [H -> Nat], IsFiniteSet(Units(b)), NEW h \in H
  PROVE  b[h] <= Cardinality(Units(b))
<1> DEFINE c == [b EXCEPT ![h] = 0]
<1>1. b[h] \in Nat /\ c \in [H -> Nat] /\ c[h] = b[h] - b[h] /\ \A k \in H \ {h} : c[k] = b[k]
  OBVIOUS
<1> HIDE DEF c
<1>2. IsFiniteSet(Units(c)) /\ Cardinality(Units(c)) = Cardinality(Units(b)) - b[h]
  BY <1>1, UnitsRemove
<1>3. Cardinality(Units(c)) \in Nat /\ Cardinality(Units(b)) \in Nat
  BY <1>2, FS_CardinalityType
<1> QED
  BY <1>1, <1>2, <1>3

\* So are two.
LEMMA UnitsPair ==
  ASSUME NEW H, NEW b \in [H -> Nat], IsFiniteSet(Units(b)), NEW h \in H, NEW k \in H, h # k
  PROVE  b[h] + b[k] <= Cardinality(Units(b))
<1> DEFINE c == [b EXCEPT ![h] = 0]
<1>1. /\ b[h] \in Nat /\ b[k] \in Nat
      /\ c \in [H -> Nat] /\ c[h] = b[h] - b[h] /\ (\A g \in H \ {h} : c[g] = b[g])
      /\ c[k] = b[k]
  OBVIOUS
<1> HIDE DEF c
<1>2. IsFiniteSet(Units(c)) /\ Cardinality(Units(c)) = Cardinality(Units(b)) - b[h]
  BY <1>1, UnitsRemove
<1>3. c[k] <= Cardinality(Units(c))
  BY <1>1, <1>2, UnitsSingle
<1>4. Cardinality(Units(c)) \in Nat /\ Cardinality(Units(b)) \in Nat
  BY <1>2, FS_CardinalityType
<1> QED
  BY <1>1, <1>2, <1>3, <1>4

--------------------------------------------------------------------------------
(* What deposits mint and withdrawals return.                               *)
LEMMA LeastElement ==
  ASSUME NEW T, T \subseteq Nat, T # {}
  PROVE  \E x \in T : \A y \in T : x <= y
<1>1. \E x \in T : \A y \in T : <<y, x>> \notin OpToRel(<, Nat)
  BY NatLessThanWellFounded, WFMin, Zenon
<1>2. \A x, y \in Nat : <<y, x>> \notin OpToRel(<, Nat) => x <= y
  BY DEF OpToRel
<1> QED
  BY <1>1, <1>2

LEMMA SqrtType ==
  ASSUME NEW x \in Nat
  PROVE  Sqrt(x) \in Nat
<1> DEFINE T == {r \in Nat : (r + 1) * (r + 1) > x}
<1>1. x \in T
  <2>1. (x + 1) * (x + 1) = x * x + 2 * x + 1 /\ x * x \in Nat
    OBVIOUS
  <2> QED
    BY <2>1
<1>2. PICK r \in T : \A y \in T : r <= y
  <2>1. T \subseteq Nat /\ T # {}
    BY <1>1
  <2> QED
    BY <2>1, LeastElement
<1>3. r \in 0 .. x
  BY <1>1, <1>2
<1>4. r * r <= x
  <2>1. CASE r = 0
    BY <2>1
  <2>2. CASE r # 0
    <3>1. r - 1 \in Nat /\ r - 1 \notin T
      BY <1>2, <2>2
    <3>2. ~ ((r - 1) + 1) * ((r - 1) + 1) > x
      BY <3>1
    <3>3. (r - 1) + 1 = r /\ r * r \in Nat
      BY <1>3
    <3> QED
      BY <3>2, <3>3
  <2> QED
    BY <2>1, <2>2
<1>5. \E q \in 0 .. x : q * q <= x /\ (q + 1) * (q + 1) > x
  BY <1>2, <1>3, <1>4
<1>6. Sqrt(x) \in 0 .. x
  BY <1>5 DEF Sqrt
<1> QED
  BY <1>6

\* A deposit mints LP tokens for at most its share of either reserve.
LEMMA LpToMintFacts ==
  ASSUME NEW p \in Pools, NEW s \in Nat, NEW t \in Nat, LpComputes(p, s, t)
  PROVE  /\ LpToMint(p, s, t) \in Int
         /\ p.lp_supply > 0 => /\ LpToMint(p, s, t) * p.sol_reserve <= s * p.lp_supply
                               /\ LpToMint(p, s, t) * p.token_reserve <= t * p.lp_supply
<1>1. p.sol_reserve \in Nat /\ p.token_reserve \in Nat /\ p.lp_supply \in Nat
  BY DEF Pools, Words
<1>2. CASE p.lp_supply = 0
  <2>1. s * t \in Nat /\ MinimumLiquidity \in Nat
    BY MemeCoinAssumption
  <2>2. Sqrt(s * t) \in Nat
    BY <2>1, SqrtType
  <2> QED
    BY <1>2, <2>1, <2>2 DEF LpToMint
<1>3. CASE p.lp_supply > 0
  <2> DEFINE a == Word(s * p.lp_supply) \div p.sol_reserve
             b == Word(t * p.lp_supply) \div p.token_reserve
  <2>1. p.sol_reserve > 0 /\ p.token_reserve > 0
    BY <1>3 DEF LpComputes
  <2>2. s * p.lp_supply \in Nat /\ t * p.lp_supply \in Nat
    BY <1>1
  <2>3. /\ Word(s * p.lp_supply) \in Nat /\ Word(s * p.lp_supply) <= s * p.lp_supply
        /\ Word(t * p.lp_supply) \in Nat /\ Word(t * p.lp_supply) <= t * p.lp_supply
    BY <2>2, WordFacts DEF Words
  <2>4. /\ a \in Nat /\ a * p.sol_reserve <= Word(s * p.lp_supply)
        /\ b \in Nat /\ b * p.token_reserve <= Word(t * p.lp_supply)
    <3>1. p.sol_reserve \in Nat \ {0} /\ p.token_reserve \in Nat \ {0}
      BY <1>1, <2>1
    <3> QED
      BY <2>3, <3>1, QuotientFacts, Zenon
  <2>5. LpToMint(p, s, t) \in Nat /\ LpToMint(p, s, t) <= a /\ LpToMint(p, s, t) <= b
    <3>1. LpToMint(p, s, t) = Least(a, b)
      BY <1>1, <1>3 DEF LpToMint
    <3> QED
      BY <2>4, <3>1 DEF Least
  <2> HIDE DEF a, b
  <2>6. LpToMint(p, s, t) * p.sol_reserve <= a * p.sol_reserve
    BY <1>1, <2>4, <2>5
  <2>7. LpToMint(p, s, t) * p.token_reserve <= b * p.token_reserve
    BY <1>1, <2>4, <2>5
  <2>8. /\ LpToMint(p, s, t) * p.sol_reserve \in Nat /\ a * p.sol_reserve \in Nat
        /\ LpToMint(p, s, t) * p.token_reserve \in Nat /\ b * p.token_reserve \in Nat
    BY <1>1, <2>4, <2>5
  <2> QED
    BY <2>2, <2>3, <2>4, <2>5, <2>6, <2>7, <2>8
<1> QED
  BY <1>1, <1>2, <1>3

LEMMA ShareFacts ==
  ASSUME NEW r \in Nat, NEW l \in Nat \ {0}, NEW x \in Nat, x <= l
  PROVE  Share(r, x, l) \in Nat /\ Share(r, x, l) <= r /\ Share(r, x, l) * l <= r * x
<1>1. r * x \in Nat /\ r * x <= r * l
  OBVIOUS
<1> QED
  BY <1>1, QuotientFacts, QuotientBound DEF Share

--------------------------------------------------------------------------------
(* The inductive invariant.                                                 *)
LamportsInv == IsFiniteSet(Units(lamports)) /\ LamportsKept

NothingBeforePool == pool = NoPool => past.sol_fees = 0

ReserveInv ==
  pool # NoPool /\ ~past.wrapped =>
    /\ lamports[PoolKey] >= pool.sol_reserve + past.sol_fees
    /\ pool.token_reserve <= tokens[PoolAccount] + past.initial + past.diverted

MemeInv == TypeOK /\ LamportsInv /\ NothingBeforePool /\ ReserveInv

Pasts ==
  [initial : Words, sol_fees : Nat, diverted : Nat, wrapped : BOOLEAN,
   instructions : 0 .. MaxInstructions]

LEMMA ConstantFacts ==
  /\ PoolKey \in Holders /\ PoolKey \notin Users /\ Users \subseteq Holders
  /\ \A u \in Users : u # PoolKey /\ u \in Holders
  /\ WordSize \in Nat \ {0} /\ Words \subseteq Nat /\ Amounts \subseteq Words
  /\ \A x \in Amounts : x \in Nat /\ x < WordSize
  /\ MaxInstructions \in Nat
  /\ Wealth * Cardinality(Users) \in Nat /\ Wealth * Cardinality(Users) < WordSize
  /\ PoolMint \in Mints /\ PoolAccount \in Accounts /\ PoolAccount.owner = PoolKey
  /\ \A a \in Accounts : a.mint \in Mints /\ a.owner \in Holders
<1>1. Wealth \in Nat /\ Cardinality(Users) \in Nat
  BY MemeCoinAssumption, FS_CardinalityType
<1>2. Wealth * Cardinality(Users) \in Nat
  BY <1>1
<1>3. /\ PoolKey \in Holders /\ PoolMint \in Mints /\ PoolAccount \in Accounts
      /\ PoolAccount.owner = PoolKey
      /\ \A a \in Accounts : a.mint \in Mints /\ a.owner \in Holders
  BY DEF PoolAccount, Accounts, Holders, Mints
<1> QED
  BY <1>2, <1>3, MemeCoinAssumption DEF Holders, Words

LEMMA StateFacts ==
  ASSUME TypeOK
  PROVE  /\ lamports \in [Holders -> Nat] /\ tokens \in [Accounts -> Nat]
         /\ supply \in [Mints -> Words]
         /\ \A h \in Holders : lamports[h] \in Nat
         /\ \A a \in Accounts : tokens[a] \in Nat
         /\ past \in Pasts /\ past.initial \in Nat /\ past.sol_fees \in Nat
         /\ past.diverted \in Nat /\ past.wrapped \in BOOLEAN
         /\ past.instructions \in 0 .. MaxInstructions
         /\ pool # NoPool => pool \in Pools
         /\ arithmetic \in {"panics", "wraps"}
<1>1. past \in Pasts
  BY DEF TypeOK, Pasts
<1>2. /\ past.initial \in Words /\ past.sol_fees \in Nat /\ past.diverted \in Nat
      /\ past.wrapped \in BOOLEAN /\ past.instructions \in 0 .. MaxInstructions
  BY <1>1 DEF Pasts
<1> QED
  BY <1>1, <1>2, ConstantFacts DEF TypeOK

\* What an instruction does to the history.
LEMMA PastFacts ==
  ASSUME NEW p \in Pasts, p.instructions = past.instructions,
         past.instructions < MaxInstructions, Past(p)
  PROVE  /\ past' \in Pasts
         /\ past'.initial = p.initial /\ past'.sol_fees = p.sol_fees
         /\ past'.diverted = p.diverted /\ past'.wrapped = p.wrapped
<1>1. p.instructions + 1 \in 0 .. MaxInstructions
  BY ConstantFacts DEF Pasts
<1>2. past' = [p EXCEPT !.instructions = @ + 1]
  BY DEF Past
<1> QED
  BY <1>1, <1>2 DEF Pasts

LEMMA PoolFields ==
  ASSUME NEW p \in Pools
  PROVE  /\ p.sol_reserve \in Nat /\ p.sol_reserve < WordSize
         /\ p.token_reserve \in Nat /\ p.token_reserve < WordSize
         /\ p.lp_supply \in Nat /\ p.lp_supply < WordSize
         /\ p # NoPool
  BY MemeCoinAssumption DEF Pools, Words

LEMMA ReceivedFacts ==
  ASSUME TypeOK, pool \in Pools, NEW to, NEW x \in Nat
  PROVE  /\ Received(to, x) \in Pasts
         /\ Received(to, x).instructions = past.instructions
         /\ Received(to, x).initial = past.initial
         /\ Received(to, x).sol_fees = past.sol_fees
         /\ Received(to, x).diverted \in Nat /\ Received(to, x).diverted >= past.diverted
         /\ to # PoolAccount => Received(to, x).diverted = past.diverted + x
         /\ ~Received(to, x).wrapped => ~past.wrapped /\ pool.token_reserve + x \in Words
<1> DEFINE d == IF to = PoolAccount THEN past.diverted ELSE past.diverted + x
           w == past.wrapped \/ pool.token_reserve + x \notin Words
<1>1. past \in Pasts /\ past.diverted \in Nat /\ past.wrapped \in BOOLEAN
  BY StateFacts
<1>2. d \in Nat /\ d >= past.diverted /\ (to # PoolAccount => d = past.diverted + x)
  BY <1>1
<1>3. w \in BOOLEAN
  OBVIOUS
<1>4. Received(to, x) = [past EXCEPT !.diverted = d, !.wrapped = w]
  BY DEF Received
<1>5. ~w => ~past.wrapped /\ pool.token_reserve + x \in Words
  OBVIOUS
<1> HIDE DEF d, w
<1>6. /\ Received(to, x) \in Pasts
      /\ Received(to, x).instructions = past.instructions
      /\ Received(to, x).initial = past.initial
      /\ Received(to, x).sol_fees = past.sol_fees
      /\ Received(to, x).diverted = d
  BY <1>1, <1>2, <1>3, <1>4 DEF Pasts
<1>7. Received(to, x).wrapped = w
  BY <1>1, <1>4, Zenon DEF Pasts
<1> QED
  BY <1>2, <1>5, <1>6, <1>7

LEMMA BoughtFields ==
  ASSUME NEW p \in Pools, NEW n \in Nat, NEW f \in Nat, NEW o \in Nat
  PROVE  /\ Bought(p, n, f, o) \in Pools
         /\ Bought(p, n, f, o).sol_reserve = Word(p.sol_reserve + n)
         /\ Bought(p, n, f, o).token_reserve = Word(p.token_reserve - o)
         /\ Bought(p, n, f, o).lp_supply = p.lp_supply
<1>1. /\ p.sol_reserve + n \in Int /\ p.token_reserve - o \in Int
      /\ p.total_fees_collected + f \in Int
  BY DEF Pools, Words
<1>2. /\ Word(p.sol_reserve + n) \in Words /\ Word(p.token_reserve - o) \in Words
      /\ Word(p.total_fees_collected + f) \in Words
  BY <1>1, WordFacts
<1> QED
  BY <1>2 DEF Bought, Pools

LEMMA SoldFields ==
  ASSUME NEW p \in Pools, NEW n \in Nat, NEW f \in Nat, NEW o \in Nat
  PROVE  /\ Sold(p, n, f, o) \in Pools
         /\ Sold(p, n, f, o).sol_reserve = Word(p.sol_reserve - o)
         /\ Sold(p, n, f, o).token_reserve = Word(p.token_reserve + n)
         /\ Sold(p, n, f, o).lp_supply = p.lp_supply
<1>1. /\ p.sol_reserve - o \in Int /\ p.token_reserve + n \in Int
      /\ p.total_fees_collected + f \in Int
  BY DEF Pools, Words
<1>2. /\ Word(p.sol_reserve - o) \in Words /\ Word(p.token_reserve + n) \in Words
      /\ Word(p.total_fees_collected + f) \in Words
  BY <1>1, WordFacts
<1> QED
  BY <1>2 DEF Sold, Pools

LEMMA DepositedFields ==
  ASSUME NEW p \in Pools, NEW s \in Nat, NEW t \in Nat, NEW x \in Nat
  PROVE  /\ Deposited(p, s, t, x) \in Pools
         /\ Deposited(p, s, t, x).sol_reserve = Word(p.sol_reserve + s)
         /\ Deposited(p, s, t, x).token_reserve = Word(p.token_reserve + t)
         /\ Deposited(p, s, t, x).lp_supply = Word(p.lp_supply + x)
<1>1. p.sol_reserve + s \in Int /\ p.token_reserve + t \in Int /\ p.lp_supply + x \in Int
  BY DEF Pools, Words
<1>2. /\ Word(p.sol_reserve + s) \in Words /\ Word(p.token_reserve + t) \in Words
      /\ Word(p.lp_supply + x) \in Words
  BY <1>1, WordFacts
<1> QED
  BY <1>2 DEF Deposited, Pools

\* Nothing wraps here: no share exceeds its reserve.
LEMMA RedeemedFields ==
  ASSUME NEW p \in Pools, NEW s \in Nat, NEW t \in Nat, NEW x \in Nat,
         s <= p.sol_reserve, t <= p.token_reserve, x <= p.lp_supply
  PROVE  /\ Redeemed(p, s, t, x) \in Pools
         /\ Redeemed(p, s, t, x).sol_reserve = p.sol_reserve - s
         /\ Redeemed(p, s, t, x).token_reserve = p.token_reserve - t
         /\ Redeemed(p, s, t, x).lp_supply = p.lp_supply - x
<1>1. p.sol_reserve - s \in Words /\ p.token_reserve - t \in Words /\ p.lp_supply - x \in Words
  BY ConstantFacts DEF Pools, Words
<1>2. /\ Word(p.sol_reserve - s) = p.sol_reserve - s
      /\ Word(p.token_reserve - t) = p.token_reserve - t
      /\ Word(p.lp_supply - x) = p.lp_supply - x
  <2>1. \A y \in Words : y \in Int /\ Word(y) = y
    BY WordFacts, ConstantFacts
  <2> QED
    BY <1>1, <2>1
<1> QED
  BY <1>1, <1>2 DEF Redeemed, Pools

\* A sum with what a user has does not wrap the SOL reserve.
LEMMA SolFits ==
  ASSUME MemeInv, pool # NoPool, ~past.wrapped, NEW u \in Users, NEW n \in Nat, n <= lamports[u]
  PROVE  pool.sol_reserve + n \in Words
<1>1. /\ pool \in Pools /\ lamports \in [Holders -> Nat] /\ past.sol_fees \in Nat
      /\ lamports[PoolKey] \in Nat /\ lamports[u] \in Nat
  BY StateFacts, ConstantFacts DEF MemeInv
<1>2. lamports[PoolKey] + lamports[u] <= Wealth * Cardinality(Users)
  BY <1>1, ConstantFacts, UnitsPair DEF MemeInv, LamportsInv, LamportsKept
<1>3. lamports[PoolKey] >= pool.sol_reserve + past.sol_fees
  BY DEF MemeInv, ReserveInv
<1>4. pool.sol_reserve + n < WordSize /\ pool.sol_reserve + n \in Nat
  BY <1>1, <1>2, <1>3, ConstantFacts, PoolFields
<1> QED
  BY <1>4, ConstantFacts DEF Words

--------------------------------------------------------------------------------
(* What instructions do to the reserves.                                    *)
LEMMA BuyReserves ==
  ASSUME MemeInv, ~past.wrapped, NEW u \in Users, NEW from \in Accounts, NEW to \in Accounts,
         NEW x \in Amounts, buy(u, from, to, x)
  PROVE  \E n, f, o \in Nat :
           /\ n + f = x /\ f = Fee(x)
           /\ o = Quote(pool.token_reserve, pool.sol_reserve, x - Fee(x))
           /\ pool'.sol_reserve = pool.sol_reserve + n
           /\ pool'.token_reserve = pool.token_reserve - o
           /\ o * (pool.sol_reserve + n) <= pool.token_reserve * n
           /\ pool'.lp_supply = pool.lp_supply
<1> DEFINE fee == Fee(x)
           net == x - fee
           out == Quote(pool.token_reserve, pool.sol_reserve, net)
<1>0. /\ pool # NoPool /\ x \in Nat /\ lamports[u] >= x /\ out > 0
      /\ pool' = Bought(pool, net, fee, out)
  BY ConstantFacts DEF buy, Trading
<1>p. pool \in Pools /\ pool.sol_reserve \in Nat /\ pool.token_reserve \in Nat /\ lamports[u] \in Nat
  BY <1>0, StateFacts, PoolFields, ConstantFacts DEF MemeInv
<1>1. fee \in Nat /\ net \in Nat /\ net <= lamports[u] /\ net + fee = x
  BY <1>0, <1>p, FeeFacts
<1>2. out \in Nat
  BY <1>p, <1>1, QuoteFacts
<1>3. pool.sol_reserve + net \in Words
  BY <1>0, <1>1, SolFits
<1>4. out <= pool.token_reserve /\ out * (pool.sol_reserve + net) <= pool.token_reserve * net
  BY <1>0, <1>p, <1>1, <1>3, QuoteFacts
<1>8. fee = Fee(x) /\ out = Quote(pool.token_reserve, pool.sol_reserve, x - Fee(x))
  OBVIOUS
<1> HIDE DEF fee, net, out
<1>5. pool.token_reserve - out \in Words
  BY <1>p, <1>2, <1>4, ConstantFacts, PoolFields DEF Words
<1>6. /\ Bought(pool, net, fee, out).sol_reserve = Word(pool.sol_reserve + net)
      /\ Bought(pool, net, fee, out).token_reserve = Word(pool.token_reserve - out)
      /\ Bought(pool, net, fee, out).lp_supply = pool.lp_supply
  <2>1. pool \in Pools
    BY <1>p
  <2>2. net \in Nat /\ fee \in Nat
    BY <1>1
  <2> QED
    BY <1>2, <2>1, <2>2, BoughtFields
<1>7. /\ pool'.sol_reserve = pool.sol_reserve + net
      /\ pool'.token_reserve = pool.token_reserve - out
      /\ pool'.lp_supply = pool.lp_supply
  BY <1>0, <1>3, <1>5, <1>6, WordSame
<1> QED
  BY <1>1, <1>2, <1>4, <1>7, <1>8

LEMMA SellReserves ==
  ASSUME MemeInv, past.instructions < MaxInstructions, ~past'.wrapped,
         NEW u \in Users, NEW from \in Accounts, NEW to \in Accounts,
         NEW x \in Amounts, sell(u, from, to, x)
  PROVE  /\ ~past.wrapped
         /\ \E n, o \in Nat :
              /\ n <= x /\ n = x - Fee(x)
              /\ o = Quote(pool.sol_reserve, pool.token_reserve, x - Fee(x))
              /\ pool'.sol_reserve = pool.sol_reserve - o
              /\ pool'.token_reserve = pool.token_reserve + n
              /\ o * (pool.token_reserve + n) <= pool.sol_reserve * n
              /\ pool'.lp_supply = pool.lp_supply
<1> DEFINE fee == Fee(x)
           net == x - fee
           out == Quote(pool.sol_reserve, pool.token_reserve, net)
<1>0. /\ pool # NoPool /\ x \in Nat /\ out > 0
      /\ pool' = Sold(pool, net, fee, out) /\ Past(Received(to, net))
  BY ConstantFacts DEF sell, Trading
<1>p. TypeOK /\ pool \in Pools /\ pool.sol_reserve \in Nat /\ pool.token_reserve \in Nat
  BY <1>0, StateFacts, PoolFields DEF MemeInv
<1>1. fee \in Nat /\ net \in Nat /\ net <= x
  BY <1>0, FeeFacts
<1>2. out \in Nat
  BY <1>p, <1>1, QuoteFacts
<1>8. net = x - Fee(x) /\ out = Quote(pool.sol_reserve, pool.token_reserve, x - Fee(x))
  OBVIOUS
<1>3. ~past.wrapped /\ pool.token_reserve + net \in Words
  <2> HIDE DEF net
  <2>1. /\ Received(to, net) \in Pasts /\ Received(to, net).instructions = past.instructions
        /\ ~Received(to, net).wrapped => ~past.wrapped /\ pool.token_reserve + net \in Words
    BY <1>p, <1>1, ReceivedFacts
  <2>2. past'.wrapped = Received(to, net).wrapped
    BY <1>0, <2>1, PastFacts
  <2> QED
    BY <2>1, <2>2
<1>4. out <= pool.sol_reserve /\ out * (pool.token_reserve + net) <= pool.sol_reserve * net
  BY <1>0, <1>p, <1>1, <1>3, QuoteFacts
<1> HIDE DEF fee, net, out
<1>5. pool.sol_reserve - out \in Words
  BY <1>p, <1>2, <1>4, ConstantFacts, PoolFields DEF Words
<1>6. /\ Sold(pool, net, fee, out).sol_reserve = Word(pool.sol_reserve - out)
      /\ Sold(pool, net, fee, out).token_reserve = Word(pool.token_reserve + net)
      /\ Sold(pool, net, fee, out).lp_supply = pool.lp_supply
  <2>1. pool \in Pools
    BY <1>p
  <2>2. net \in Nat /\ fee \in Nat
    BY <1>1
  <2> QED
    BY <1>2, <2>1, <2>2, SoldFields
<1>7. /\ pool'.sol_reserve = pool.sol_reserve - out
      /\ pool'.token_reserve = pool.token_reserve + net
      /\ pool'.lp_supply = pool.lp_supply
  BY <1>0, <1>3, <1>5, <1>6, WordSame
<1> QED
  BY <1>1, <1>2, <1>3, <1>4, <1>7, <1>8

LEMMA AddReserves ==
  ASSUME MemeInv, past.instructions < MaxInstructions, ~past'.wrapped,
         NEW u \in Users, NEW from \in Accounts, NEW to \in Accounts, NEW lp_to \in Accounts,
         NEW s \in Amounts, NEW t \in Amounts, add_liquidity(u, from, to, lp_to, s, t)
  PROVE  /\ ~past.wrapped
         /\ pool'.sol_reserve = pool.sol_reserve + s
         /\ pool'.token_reserve = pool.token_reserve + t
         /\ \E x \in Nat : /\ pool'.lp_supply \in Nat /\ pool'.lp_supply <= pool.lp_supply + x
                           /\ pool.lp_supply > 0 => /\ x * pool.sol_reserve <= s * pool.lp_supply
                                                    /\ x * pool.token_reserve <= t * pool.lp_supply
<1> DEFINE x == LpToMint(pool, s, t)
<1>0. /\ pool # NoPool /\ s \in Nat /\ t \in Nat /\ LpComputes(pool, s, t) /\ x > 0
      /\ lamports[u] >= s
      /\ pool' = Deposited(pool, s, t, x) /\ Past(Received(to, t))
  BY ConstantFacts DEF add_liquidity, Trading
<1>p. /\ TypeOK /\ pool \in Pools /\ pool.sol_reserve \in Nat /\ pool.token_reserve \in Nat
      /\ pool.lp_supply \in Nat /\ lamports[u] \in Nat
  BY <1>0, StateFacts, PoolFields, ConstantFacts DEF MemeInv
<1>1. /\ x \in Int
      /\ pool.lp_supply > 0 => /\ x * pool.sol_reserve <= s * pool.lp_supply
                               /\ x * pool.token_reserve <= t * pool.lp_supply
  BY <1>0, <1>p, LpToMintFacts
<1>2. x \in Nat
  BY <1>0, <1>1
<1> HIDE DEF x
<1>4. ~past.wrapped /\ pool.token_reserve + t \in Words
  <2>1. /\ Received(to, t) \in Pasts /\ Received(to, t).instructions = past.instructions
        /\ ~Received(to, t).wrapped => ~past.wrapped /\ pool.token_reserve + t \in Words
    BY <1>0, <1>p, ReceivedFacts
  <2>2. past'.wrapped = Received(to, t).wrapped
    BY <1>0, <2>1, PastFacts
  <2> QED
    BY <2>1, <2>2
<1>3. pool.sol_reserve + s \in Words
  <2>1. s <= lamports[u]
    BY <1>0, <1>p
  <2> QED
    BY <1>0, <1>4, <2>1, SolFits
<1>5. /\ Deposited(pool, s, t, x).sol_reserve = Word(pool.sol_reserve + s)
      /\ Deposited(pool, s, t, x).token_reserve = Word(pool.token_reserve + t)
      /\ Deposited(pool, s, t, x).lp_supply = Word(pool.lp_supply + x)
  <2>1. pool \in Pools
    BY <1>p
  <2>2. s \in Nat /\ t \in Nat
    BY <1>0
  <2> QED
    BY <1>2, <2>1, <2>2, DepositedFields
<1>6. pool'.sol_reserve = pool.sol_reserve + s /\ pool'.token_reserve = pool.token_reserve + t
  BY <1>0, <1>3, <1>4, <1>5, WordSame
<1>7. pool'.lp_supply \in Nat /\ pool'.lp_supply <= pool.lp_supply + x
  <2>1. pool.lp_supply + x \in Nat
    BY <1>2, <1>p
  <2> QED
    BY <1>0, <1>5, <2>1, WordOfNat
<1> QED
  BY <1>1, <1>2, <1>4, <1>6, <1>7

LEMMA RemoveReserves ==
  ASSUME MemeInv, NEW u \in Users, NEW lp_from \in Accounts, NEW from \in Accounts,
         NEW to \in Accounts, NEW x \in Amounts, remove_liquidity(u, lp_from, from, to, x)
  PROVE  /\ pool' \in Pools
         /\ \E s, t \in Nat :
              /\ x \in Nat /\ x > 0
              /\ s = Share(pool.sol_reserve, x, pool.lp_supply)
              /\ t = Share(pool.token_reserve, x, pool.lp_supply)
              /\ pool'.sol_reserve = pool.sol_reserve - s
              /\ pool'.token_reserve = pool.token_reserve - t
              /\ pool'.lp_supply = pool.lp_supply - x
              /\ s * pool.lp_supply <= pool.sol_reserve * x
              /\ t * pool.lp_supply <= pool.token_reserve * x
<1> DEFINE s == Share(pool.sol_reserve, x, pool.lp_supply)
           t == Share(pool.token_reserve, x, pool.lp_supply)
<1>0. /\ pool # NoPool /\ x \in Nat /\ x > 0 /\ x <= pool.lp_supply
      /\ pool' = Redeemed(pool, s, t, x)
  BY ConstantFacts DEF remove_liquidity, Trading
<1>p. /\ pool \in Pools /\ pool.sol_reserve \in Nat /\ pool.token_reserve \in Nat
      /\ pool.lp_supply \in Nat
  BY <1>0, StateFacts, PoolFields DEF MemeInv
<1>1. /\ s \in Nat /\ s <= pool.sol_reserve /\ s * pool.lp_supply <= pool.sol_reserve * x
      /\ t \in Nat /\ t <= pool.token_reserve /\ t * pool.lp_supply <= pool.token_reserve * x
  <2>1. pool.lp_supply \in Nat \ {0}
    BY <1>0, <1>p
  <2> QED
    BY <1>0, <1>p, <2>1, ShareFacts
<1>3. /\ s = Share(pool.sol_reserve, x, pool.lp_supply)
      /\ t = Share(pool.token_reserve, x, pool.lp_supply)
  OBVIOUS
<1> HIDE DEF s, t
<1>2. /\ Redeemed(pool, s, t, x) \in Pools
      /\ Redeemed(pool, s, t, x).sol_reserve = pool.sol_reserve - s
      /\ Redeemed(pool, s, t, x).token_reserve = pool.token_reserve - t
      /\ Redeemed(pool, s, t, x).lp_supply = pool.lp_supply - x
  <2>1. pool \in Pools
    BY <1>p
  <2>2. x \in Nat /\ x <= pool.lp_supply
    BY <1>0
  <2>3. s \in Nat /\ s <= pool.sol_reserve /\ t \in Nat /\ t <= pool.token_reserve
    BY <1>1
  <2> QED
    BY <2>1, <2>2, <2>3, RedeemedFields
<1> QED
  BY <1>0, <1>1, <1>2, <1>3

--------------------------------------------------------------------------------
(* Every instruction keeps the invariant.                                   *)
LEMMA InitKeeps == Init => MemeInv
<1> SUFFICES ASSUME Init PROVE MemeInv
  OBVIOUS
<1>0. Wealth \in Nat /\ Cardinality(Users) \in Nat /\ IsFiniteSet(Users) /\ WordSize \in Nat \ {0}
  BY MemeCoinAssumption, FS_CardinalityType
<1>1. TypeOK
  <2>1. /\ lamports \in [Holders -> Nat] /\ tokens \in [Accounts -> Nat]
        /\ supply \in [Mints -> Words]
    BY <1>0 DEF Init, Words
  <2>2. 0 \in Words /\ 0 \in 0 .. MaxInstructions
    BY MemeCoinAssumption DEF Words
  <2> QED
    BY <2>1, <2>2 DEF Init, TypeOK
<1>2. /\ lamports \in [Holders -> Nat] /\ pool = NoPool
      /\ \A u \in Users : lamports[u] = Wealth
      /\ lamports[PoolKey] = 0
  <2>1. \A h \in Holders : lamports[h] = IF h = PoolKey THEN 0 ELSE Wealth
    BY DEF Init
  <2> QED
    BY <1>1, <2>1, ConstantFacts DEF Init, TypeOK
<1>4. IsFiniteSet(Units(lamports)) /\ Cardinality(Units(lamports)) = Wealth * Cardinality(Users)
  <2>1. ASSUME NEW u \in Units(lamports) PROVE u \in Users \X (1 .. Wealth)
    <3>1. PICK h \in Holders : \E i \in 1 .. lamports[h] : u = <<h, i>>
      BY <1>2, UnitsOnly
    <3>2. h \in Users
      BY <1>2, <3>1 DEF Holders
    <3> QED
      BY <1>2, <3>1, <3>2
  <2>2. ASSUME NEW h \in Users, NEW i \in 1 .. Wealth PROVE <<h, i>> \in Units(lamports)
    <3>1. h \in Holders /\ i \in 1 .. lamports[h]
      BY <1>2, ConstantFacts
    <3> QED
      BY <1>2, <3>1, UnitsIn
  <2>3. Units(lamports) = Users \X (1 .. Wealth)
    BY <2>1, <2>2
  <2>4. IsFiniteSet(1 .. Wealth) /\ Cardinality(1 .. Wealth) = Wealth
    BY <1>0, FS_Interval
  <2>5. /\ IsFiniteSet(Users \X (1 .. Wealth))
        /\ Cardinality(Users \X (1 .. Wealth)) = Cardinality(Users) * Cardinality(1 .. Wealth)
    BY <1>0, <2>4, FS_Product
  <2>6. Cardinality(Users) * Wealth = Wealth * Cardinality(Users)
    BY <1>0
  <2> QED
    BY <2>3, <2>4, <2>5, <2>6
<1>5. NothingBeforePool
  BY DEF Init, NothingBeforePool
<1> QED
  BY <1>1, <1>2, <1>4, <1>5 DEF MemeInv, LamportsInv, LamportsKept, ReserveInv

\* A payment of lamports.
LEMMA LamportsMove ==
  ASSUME MemeInv, NEW from \in Holders, NEW to \in Holders, NEW x \in Nat, x <= lamports[from],
         lamports' = Move(lamports, from, to, x)
  PROVE  /\ lamports' \in [Holders -> Nat] /\ LamportsInv'
         /\ lamports'[PoolKey] \in Nat /\ lamports'[PoolKey] >= lamports[PoolKey] - x
         /\ from # PoolKey => lamports'[PoolKey] >= lamports[PoolKey]
         /\ from # PoolKey /\ to = PoolKey => lamports'[PoolKey] = lamports[PoolKey] + x
<1>1. lamports \in [Holders -> Nat] /\ IsFiniteSet(Units(lamports)) /\ PoolKey \in Holders
  BY StateFacts, ConstantFacts DEF MemeInv, LamportsInv
<1>2. /\ IsFiniteSet(Units(lamports'))
      /\ Cardinality(Units(lamports')) = Cardinality(Units(lamports))
  BY <1>1, UnitsMove
<1>3. LamportsInv'
  BY <1>2 DEF MemeInv, LamportsInv, LamportsKept
<1> QED
  BY <1>1, <1>3, MoveFacts

\* A payment of tokens: only the pool's signature takes them from the pool's account.
LEMMA TokensMove ==
  ASSUME NEW b \in [Accounts -> Nat], NEW from \in Accounts, NEW to \in Accounts, NEW x \in Nat,
         x <= b[from], NEW c, c = Move(b, from, to, x)
  PROVE  /\ c \in [Accounts -> Nat]
         /\ c[PoolAccount] \in Nat /\ c[PoolAccount] >= b[PoolAccount] - x
         /\ from.owner # PoolKey => c[PoolAccount] >= b[PoolAccount]
         /\ from.owner # PoolKey /\ to = PoolAccount => c[PoolAccount] = b[PoolAccount] + x
<1>1. PoolAccount \in Accounts /\ PoolAccount.owner = PoolKey
  BY ConstantFacts
<1> QED
  BY <1>1, MoveFacts

\* What is left to show once the balances are accounted for.
LEMMA KeepsRest ==
  ASSUME MemeInv, pool' \in Pools \/ (pool' = NoPool /\ past'.sol_fees = 0),
         arithmetic' = arithmetic, past' \in Pasts, lamports' \in [Holders -> Nat], LamportsInv',
         tokens' \in [Accounts -> Nat], supply' \in [Mints -> Words], ReserveInv'
  PROVE  MemeInv'
<1>1. TypeOK'
  BY DEF MemeInv, TypeOK, Pasts
<1>2. NothingBeforePool'
  BY PoolFields DEF NothingBeforePool
<1> QED
  BY <1>1, <1>2 DEF MemeInv

\* What the token program does to a supply.
LEMMA SupplyKeeps ==
  ASSUME TypeOK, NEW a \in Accounts, NEW x \in Nat, supply[a.mint] + x \in Words
  PROVE  [supply EXCEPT ![a.mint] = @ + x] \in [Mints -> Words]
  BY StateFacts, ConstantFacts

LEMMA BurnKeeps ==
  ASSUME TypeOK, NEW a \in Accounts, NEW x \in Nat, tokens[a] >= x, supply[a.mint] >= x,
         a.owner # PoolKey
  PROVE  /\ [supply EXCEPT ![a.mint] = @ - x] \in [Mints -> Words]
         /\ [tokens EXCEPT ![a] = @ - x] \in [Accounts -> Nat]
         /\ \A b \in Accounts : b.owner = PoolKey => [tokens EXCEPT ![a] = @ - x][b] = tokens[b]
<1>1. a.mint \in Mints /\ supply \in [Mints -> Words] /\ tokens \in [Accounts -> Nat]
  BY StateFacts, ConstantFacts
<1>2. supply[a.mint] - x \in Words
  BY <1>1, ConstantFacts DEF Words
<1>3. tokens[a] - x \in Nat
  BY <1>1
<1> QED
  BY <1>1, <1>2, <1>3

LEMMA CreateKeeps ==
  ASSUME MemeInv, past.instructions < MaxInstructions, NEW u \in Users, NEW x \in Amounts,
         create_pool(u, x)
  PROVE  MemeInv'
<1> DEFINE a == [mint |-> PoolMint, owner |-> u]
           p == [past EXCEPT !.initial = x]
<1>0. /\ pool = NoPool /\ lamports[u] >= x /\ lamports' = Move(lamports, u, PoolKey, x)
      /\ tokens' = [tokens EXCEPT ![a] = @ + x] /\ supply' = [supply EXCEPT ![PoolMint] = x]
      /\ Past(p) /\ arithmetic' = arithmetic
      /\ pool' = [creator |-> u, sol_reserve |-> x, token_reserve |-> x, lp_supply |-> 0,
                  total_fees_collected |-> 0, paused |-> FALSE]
  BY DEF create_pool
<1>p. /\ x \in Words /\ x \in Nat /\ TypeOK /\ past \in Pasts /\ past.sol_fees = 0
      /\ past.diverted \in Nat /\ a \in Accounts /\ u \in Holders /\ u # PoolKey
      /\ lamports[PoolKey] \in Nat /\ lamports[u] \in Nat
      /\ tokens \in [Accounts -> Nat] /\ supply \in [Mints -> Words] /\ PoolMint \in Mints
  BY <1>0, ConstantFacts, StateFacts DEF MemeInv, NothingBeforePool, Accounts
<1>1. /\ lamports' \in [Holders -> Nat] /\ LamportsInv'
      /\ lamports'[PoolKey] = lamports[PoolKey] + x
  <2>1. PoolKey \in Holders /\ x <= lamports[u]
    BY <1>0, <1>p, ConstantFacts
  <2> QED
    BY <1>0, <1>p, <2>1, LamportsMove
<1>2. tokens' \in [Accounts -> Nat] /\ tokens'[PoolAccount] \in Nat
  <2>1. tokens[a] + x \in Nat
    BY <1>p
  <2>2. tokens' \in [Accounts -> Nat]
    BY <1>0, <1>p, <2>1
  <2> QED
    BY <2>2, ConstantFacts
<1>3. supply' \in [Mints -> Words]
  BY <1>0, <1>p
<1>4. /\ past' \in Pasts /\ past'.initial = x /\ past'.sol_fees = 0
      /\ past'.diverted = past.diverted
  <2>1. /\ p \in Pasts /\ p.instructions = past.instructions /\ p.initial = x
        /\ p.sol_fees = past.sol_fees /\ p.diverted = past.diverted
    BY <1>p DEF Pasts
  <2> HIDE DEF p
  <2> QED
    BY <1>0, <1>p, <2>1, PastFacts
<1>5. pool' \in Pools /\ pool'.sol_reserve = x /\ pool'.token_reserve = x
  BY <1>0, <1>p, MemeCoinAssumption DEF Pools, Words
<1> HIDE DEF a, p
<1>6. ReserveInv'
  BY <1>p, <1>1, <1>2, <1>4, <1>5 DEF ReserveInv
<1> QED
  BY <1>0, <1>1, <1>2, <1>3, <1>4, <1>5, <1>6, KeepsRest

LEMMA BuyKeeps ==
  ASSUME MemeInv, past.instructions < MaxInstructions, NEW u \in Users,
         NEW from \in Accounts, NEW to \in Accounts, NEW x \in Amounts, buy(u, from, to, x)
  PROVE  MemeInv'
<1> DEFINE fee == Fee(x)
           net == x - fee
           out == Quote(pool.token_reserve, pool.sol_reserve, net)
           p == [past EXCEPT !.sol_fees = @ + fee]
<1>0. /\ pool # NoPool /\ x \in Nat /\ lamports[u] >= x /\ CanTransfer(PoolKey, from, to, out)
      /\ pool' = Bought(pool, net, fee, out)
      /\ lamports' = Move(lamports, u, PoolKey, x) /\ tokens' = Move(tokens, from, to, out)
      /\ Past(p) /\ arithmetic' = arithmetic /\ supply' = supply
  BY ConstantFacts DEF buy, Trading
<1>p. /\ TypeOK /\ pool \in Pools /\ pool.sol_reserve \in Nat /\ pool.token_reserve \in Nat
      /\ past \in Pasts /\ past.sol_fees \in Nat /\ past.initial \in Nat /\ past.diverted \in Nat
      /\ u \in Holders /\ u # PoolKey /\ PoolKey \in Holders
      /\ lamports[u] \in Nat /\ lamports[PoolKey] \in Nat /\ tokens[PoolAccount] \in Nat
      /\ tokens \in [Accounts -> Nat] /\ tokens[from] \in Nat /\ supply \in [Mints -> Words]
  BY <1>0, StateFacts, PoolFields, ConstantFacts DEF MemeInv
<1>1. fee \in Nat /\ net \in Nat
  BY <1>0, FeeFacts
<1>2. out \in Nat
  BY <1>p, <1>1, QuoteFacts
<1>3. pool' \in Pools
  <2> HIDE DEF fee, net, out
  <2>1. pool \in Pools
    BY <1>p
  <2> QED
    BY <1>0, <1>1, <1>2, <2>1, BoughtFields
<1>4. /\ lamports' \in [Holders -> Nat] /\ LamportsInv'
      /\ lamports'[PoolKey] = lamports[PoolKey] + x
  <2>1. x <= lamports[u]
    BY <1>0, <1>p
  <2> QED
    BY <1>0, <1>p, <2>1, LamportsMove
<1>5. /\ tokens' \in [Accounts -> Nat] /\ tokens'[PoolAccount] \in Nat
      /\ tokens'[PoolAccount] >= tokens[PoolAccount] - out
  <2> HIDE DEF out
  <2>1. out <= tokens[from]
    BY <1>0, <1>p, <1>2 DEF CanTransfer
  <2> QED
    BY <1>0, <1>2, <1>p, <2>1, TokensMove
<1>6. /\ past' \in Pasts /\ past'.initial = past.initial /\ past'.diverted = past.diverted
      /\ past'.sol_fees = past.sol_fees + fee /\ past'.wrapped = past.wrapped
  <2> HIDE DEF fee
  <2>1. /\ p \in Pasts /\ p.instructions = past.instructions /\ p.initial = past.initial
        /\ p.sol_fees = past.sol_fees + fee /\ p.diverted = past.diverted
    BY <1>p, <1>1 DEF Pasts
  <2>2. p.wrapped = past.wrapped
    BY <1>p, Zenon DEF Pasts
  <2> HIDE DEF p
  <2> QED
    BY <1>0, <2>1, <2>2, PastFacts
<1>7. ReserveInv'
  <2> SUFFICES ASSUME ~past.wrapped
               PROVE  /\ lamports'[PoolKey] >= pool'.sol_reserve + past'.sol_fees
                      /\ pool'.token_reserve
                           <= tokens'[PoolAccount] + past'.initial + past'.diverted
    BY <1>6 DEF ReserveInv
  <2>1. /\ net + fee = x /\ pool'.sol_reserve = pool.sol_reserve + net
        /\ pool'.token_reserve = pool.token_reserve - out
    BY BuyReserves
  <2> HIDE DEF net, fee, out
  <2>2. /\ lamports[PoolKey] >= pool.sol_reserve + past.sol_fees
        /\ pool.token_reserve <= tokens[PoolAccount] + past.initial + past.diverted
    BY <1>0 DEF MemeInv, ReserveInv
  <2> QED
    BY <1>1, <1>2, <1>p, <1>4, <1>5, <1>6, <2>1, <2>2
<1> QED
  BY <1>0, <1>p, <1>3, <1>4, <1>5, <1>6, <1>7, KeepsRest

LEMMA SellKeeps ==
  ASSUME MemeInv, past.instructions < MaxInstructions, NEW u \in Users,
         NEW from \in Accounts, NEW to \in Accounts, NEW x \in Amounts, sell(u, from, to, x)
  PROVE  MemeInv'
<1> DEFINE fee == Fee(x)
           net == x - fee
           out == Quote(pool.sol_reserve, pool.token_reserve, net)
<1>0. /\ pool # NoPool /\ x \in Nat /\ lamports[PoolKey] >= out /\ CanTransfer(u, from, to, x)
      /\ pool' = Sold(pool, net, fee, out)
      /\ lamports' = Move(lamports, PoolKey, u, out) /\ tokens' = Move(tokens, from, to, x)
      /\ Past(Received(to, net)) /\ arithmetic' = arithmetic /\ supply' = supply
  BY ConstantFacts DEF sell, Trading
<1>p. /\ TypeOK /\ pool \in Pools /\ pool.sol_reserve \in Nat /\ pool.token_reserve \in Nat
      /\ past \in Pasts /\ past.sol_fees \in Nat /\ past.initial \in Nat /\ past.diverted \in Nat
      /\ u \in Holders /\ u # PoolKey /\ PoolKey \in Holders
      /\ lamports[u] \in Nat /\ lamports[PoolKey] \in Nat /\ tokens[PoolAccount] \in Nat
      /\ tokens \in [Accounts -> Nat] /\ tokens[from] \in Nat /\ supply \in [Mints -> Words]
  BY <1>0, StateFacts, PoolFields, ConstantFacts DEF MemeInv
<1>1. fee \in Nat /\ net \in Nat /\ net <= x
  BY <1>0, FeeFacts
<1>2. out \in Nat
  BY <1>p, <1>1, QuoteFacts
<1>3. pool' \in Pools
  <2> HIDE DEF fee, net, out
  <2>1. pool \in Pools
    BY <1>p
  <2> QED
    BY <1>0, <1>1, <1>2, <2>1, SoldFields
<1>4. /\ lamports' \in [Holders -> Nat] /\ LamportsInv'
      /\ lamports'[PoolKey] \in Nat /\ lamports'[PoolKey] >= lamports[PoolKey] - out
  <2> HIDE DEF out
  <2>1. out <= lamports[PoolKey]
    BY <1>0, <1>p, <1>2
  <2> QED
    BY <1>0, <1>p, <1>2, <2>1, LamportsMove
<1>5. /\ tokens' \in [Accounts -> Nat] /\ tokens'[PoolAccount] \in Nat
      /\ tokens'[PoolAccount] >= tokens[PoolAccount]
      /\ to = PoolAccount => tokens'[PoolAccount] = tokens[PoolAccount] + x
  <2>1. x <= tokens[from] /\ from.owner # PoolKey
    BY <1>0, <1>p DEF CanTransfer
  <2> QED
    BY <1>0, <1>p, <2>1, TokensMove
<1>6. /\ past' \in Pasts /\ past'.initial = past.initial /\ past'.sol_fees = past.sol_fees
      /\ past'.diverted \in Nat /\ past'.diverted >= past.diverted
      /\ to # PoolAccount => past'.diverted = past.diverted + net
  <2> HIDE DEF net
  <2>1. /\ Received(to, net) \in Pasts
        /\ Received(to, net).instructions = past.instructions
        /\ Received(to, net).initial = past.initial
        /\ Received(to, net).sol_fees = past.sol_fees
        /\ Received(to, net).diverted \in Nat /\ Received(to, net).diverted >= past.diverted
        /\ to # PoolAccount => Received(to, net).diverted = past.diverted + net
    BY <1>p, <1>1, ReceivedFacts
  <2> QED
    BY <1>0, <2>1, PastFacts
<1>7. ReserveInv'
  <2> SUFFICES ASSUME ~past'.wrapped
               PROVE  /\ lamports'[PoolKey] >= pool'.sol_reserve + past'.sol_fees
                      /\ pool'.token_reserve
                           <= tokens'[PoolAccount] + past'.initial + past'.diverted
    BY DEF ReserveInv
  <2>1. /\ ~past.wrapped /\ pool'.sol_reserve = pool.sol_reserve - out
        /\ pool'.token_reserve = pool.token_reserve + net
    BY SellReserves
  <2> HIDE DEF net, fee, out
  <2>2. /\ lamports[PoolKey] >= pool.sol_reserve + past.sol_fees
        /\ pool.token_reserve <= tokens[PoolAccount] + past.initial + past.diverted
    BY <1>0, <2>1 DEF MemeInv, ReserveInv
  <2>3. lamports'[PoolKey] >= pool'.sol_reserve + past'.sol_fees
    BY <1>2, <1>p, <1>4, <1>6, <2>1, <2>2
  <2>4. CASE to = PoolAccount
    BY <1>0, <1>1, <1>p, <1>5, <1>6, <2>1, <2>2, <2>3, <2>4
  <2>5. CASE to # PoolAccount
    BY <1>0, <1>1, <1>p, <1>5, <1>6, <2>1, <2>2, <2>3, <2>5
  <2> QED
    BY <2>4, <2>5
<1> QED
  BY <1>0, <1>p, <1>3, <1>4, <1>5, <1>6, <1>7, KeepsRest

LEMMA AddKeeps ==
  ASSUME MemeInv, past.instructions < MaxInstructions, NEW u \in Users,
         NEW from \in Accounts, NEW to \in Accounts, NEW lp_to \in Accounts,
         NEW s \in Amounts, NEW t \in Amounts, add_liquidity(u, from, to, lp_to, s, t)
  PROVE  MemeInv'
<1> DEFINE x == LpToMint(pool, s, t)
           moved == Move(tokens, from, to, t)
<1>0. /\ pool # NoPool /\ s \in Nat /\ t \in Nat /\ LpComputes(pool, s, t) /\ x > 0
      /\ lamports[u] >= s /\ CanTransfer(u, from, to, t) /\ CanMint(PoolKey, lp_to, x)
      /\ pool' = Deposited(pool, s, t, x)
      /\ lamports' = Move(lamports, u, PoolKey, s)
      /\ tokens' = [moved EXCEPT ![lp_to] = @ + x]
      /\ supply' = [supply EXCEPT ![lp_to.mint] = @ + x]
      /\ Past(Received(to, t)) /\ arithmetic' = arithmetic
  BY ConstantFacts DEF add_liquidity, Trading
<1>p. /\ TypeOK /\ pool \in Pools /\ pool.sol_reserve \in Nat /\ pool.token_reserve \in Nat
      /\ past \in Pasts /\ past.sol_fees \in Nat /\ past.initial \in Nat /\ past.diverted \in Nat
      /\ u \in Holders /\ u # PoolKey /\ PoolKey \in Holders
      /\ lamports[u] \in Nat /\ lamports[PoolKey] \in Nat /\ tokens[PoolAccount] \in Nat
      /\ tokens \in [Accounts -> Nat] /\ tokens[from] \in Nat
  BY <1>0, StateFacts, PoolFields, ConstantFacts DEF MemeInv
<1>1. x \in Nat
  BY <1>0, <1>p, LpToMintFacts
<1> HIDE DEF x
<1>3. pool' \in Pools
  <2>1. pool \in Pools
    BY <1>p
  <2> QED
    BY <1>0, <1>1, <2>1, DepositedFields
<1>4. /\ lamports' \in [Holders -> Nat] /\ LamportsInv'
      /\ lamports'[PoolKey] = lamports[PoolKey] + s
  <2>1. s <= lamports[u]
    BY <1>0, <1>p
  <2> QED
    BY <1>0, <1>p, <2>1, LamportsMove
<1>5. /\ tokens' \in [Accounts -> Nat] /\ tokens'[PoolAccount] \in Nat
      /\ tokens'[PoolAccount] >= tokens[PoolAccount]
      /\ to = PoolAccount => tokens'[PoolAccount] >= tokens[PoolAccount] + t
  <2>1. t <= tokens[from] /\ from.owner # PoolKey
    BY <1>0, <1>p DEF CanTransfer
  <2>2. /\ moved \in [Accounts -> Nat] /\ moved[PoolAccount] \in Nat
        /\ moved[PoolAccount] >= tokens[PoolAccount]
        /\ to = PoolAccount => moved[PoolAccount] = tokens[PoolAccount] + t
    BY <1>0, <1>p, <2>1, TokensMove
  <2> HIDE DEF moved
  <2>3. moved[lp_to] + x \in Nat /\ moved[lp_to] + x >= moved[lp_to]
    BY <1>1, <2>2
  <2>4. /\ tokens' \in [Accounts -> Nat]
        /\ \A a \in Accounts : tokens'[a] \in Nat /\ tokens'[a] >= moved[a]
    <3>1. tokens' \in [Accounts -> Nat]
      BY <1>0, <2>2, <2>3
    <3>2. \A a \in Accounts : moved[a] \in Nat
      BY <2>2
    <3>3. \A a \in Accounts : tokens'[a] = IF a = lp_to THEN moved[a] + x ELSE moved[a]
      BY <1>0, <2>2
    <3> QED
      BY <1>1, <3>1, <3>2, <3>3
  <2>5. PoolAccount \in Accounts
    BY ConstantFacts
  <2>6. tokens'[PoolAccount] \in Nat /\ tokens'[PoolAccount] >= moved[PoolAccount]
    BY <2>4, <2>5
  <2> QED
    BY <1>0, <1>p, <2>2, <2>4, <2>6
<1>6. /\ past' \in Pasts /\ past'.initial = past.initial /\ past'.sol_fees = past.sol_fees
      /\ past'.diverted \in Nat /\ past'.diverted >= past.diverted
      /\ to # PoolAccount => past'.diverted = past.diverted + t
  <2>1. /\ Received(to, t) \in Pasts
        /\ Received(to, t).instructions = past.instructions
        /\ Received(to, t).initial = past.initial
        /\ Received(to, t).sol_fees = past.sol_fees
        /\ Received(to, t).diverted \in Nat /\ Received(to, t).diverted >= past.diverted
        /\ to # PoolAccount => Received(to, t).diverted = past.diverted + t
    BY <1>0, <1>p, ReceivedFacts
  <2> QED
    BY <1>0, <2>1, PastFacts
<1>s. supply' \in [Mints -> Words]
  BY <1>0, <1>1, <1>p, SupplyKeeps DEF CanMint
<1>7. ReserveInv'
  <2> SUFFICES ASSUME ~past'.wrapped
               PROVE  /\ lamports'[PoolKey] >= pool'.sol_reserve + past'.sol_fees
                      /\ pool'.token_reserve
                           <= tokens'[PoolAccount] + past'.initial + past'.diverted
    BY DEF ReserveInv
  <2>1. /\ ~past.wrapped /\ pool'.sol_reserve = pool.sol_reserve + s
        /\ pool'.token_reserve = pool.token_reserve + t
    BY AddReserves
  <2>2. /\ lamports[PoolKey] >= pool.sol_reserve + past.sol_fees
        /\ pool.token_reserve <= tokens[PoolAccount] + past.initial + past.diverted
    BY <1>0, <2>1 DEF MemeInv, ReserveInv
  <2>3. lamports'[PoolKey] >= pool'.sol_reserve + past'.sol_fees
    BY <1>0, <1>p, <1>4, <1>6, <2>1, <2>2
  <2>4. CASE to = PoolAccount
    BY <1>0, <1>p, <1>5, <1>6, <2>1, <2>2, <2>3, <2>4
  <2>5. CASE to # PoolAccount
    BY <1>0, <1>p, <1>5, <1>6, <2>1, <2>2, <2>3, <2>5
  <2> QED
    BY <2>4, <2>5
<1> QED
  BY <1>0, <1>s, <1>3, <1>4, <1>5, <1>6, <1>7, KeepsRest

LEMMA RemoveKeeps ==
  ASSUME MemeInv, past.instructions < MaxInstructions, NEW u \in Users,
         NEW lp_from \in Accounts, NEW from \in Accounts, NEW to \in Accounts,
         NEW x \in Amounts, remove_liquidity(u, lp_from, from, to, x)
  PROVE  MemeInv'
<1> DEFINE s == Share(pool.sol_reserve, x, pool.lp_supply)
           t == Share(pool.token_reserve, x, pool.lp_supply)
           burned == [tokens EXCEPT ![lp_from] = @ - x]
<1>0. /\ pool # NoPool /\ x \in Nat /\ CanBurn(u, lp_from, x)
      /\ lamports[PoolKey] >= s /\ CanTransfer(PoolKey, from, to, t)
      /\ lamports' = Move(lamports, PoolKey, u, s)
      /\ tokens' = Move(burned, from, to, t)
      /\ supply' = [supply EXCEPT ![lp_from.mint] = @ - x]
      /\ Past(past) /\ arithmetic' = arithmetic
  BY ConstantFacts DEF remove_liquidity, Trading
<1>p. /\ TypeOK /\ pool \in Pools /\ pool.sol_reserve \in Nat /\ pool.token_reserve \in Nat
      /\ past \in Pasts /\ past.sol_fees \in Nat /\ past.initial \in Nat /\ past.diverted \in Nat
      /\ u \in Holders /\ u # PoolKey /\ PoolKey \in Holders
      /\ lamports[PoolKey] \in Nat /\ tokens[PoolAccount] \in Nat
      /\ tokens \in [Accounts -> Nat] /\ tokens[from] \in Nat
      /\ PoolAccount \in Accounts /\ PoolAccount.owner = PoolKey
  BY <1>0, StateFacts, PoolFields, ConstantFacts DEF MemeInv
<1>1. /\ s \in Nat /\ t \in Nat /\ pool' \in Pools
      /\ pool'.sol_reserve = pool.sol_reserve - s
      /\ pool'.token_reserve = pool.token_reserve - t
  BY RemoveReserves
<1> HIDE DEF s, t
<1>4. /\ lamports' \in [Holders -> Nat] /\ LamportsInv'
      /\ lamports'[PoolKey] \in Nat /\ lamports'[PoolKey] >= lamports[PoolKey] - s
  <2>1. s <= lamports[PoolKey]
    BY <1>0, <1>p, <1>1
  <2> QED
    BY <1>0, <1>p, <1>1, <2>1, LamportsMove
<1>5. /\ tokens' \in [Accounts -> Nat] /\ supply' \in [Mints -> Words]
      /\ tokens'[PoolAccount] \in Nat /\ tokens'[PoolAccount] >= tokens[PoolAccount] - t
  <2>1. /\ supply' \in [Mints -> Words] /\ burned \in [Accounts -> Nat]
        /\ burned[PoolAccount] = tokens[PoolAccount] /\ burned[from] = tokens[from]
    <3>1. tokens[lp_from] >= x /\ supply[lp_from.mint] >= x /\ lp_from.owner # PoolKey
      BY <1>0, <1>p DEF CanBurn
    <3>2. from.owner = PoolKey
      BY <1>0 DEF CanTransfer
    <3> HIDE DEF burned
    <3>3. /\ [supply EXCEPT ![lp_from.mint] = @ - x] \in [Mints -> Words]
          /\ burned \in [Accounts -> Nat]
          /\ \A b \in Accounts : b.owner = PoolKey => burned[b] = tokens[b]
      BY <1>0, <1>p, <3>1, BurnKeeps DEF burned
    <3> QED
      BY <1>0, <1>p, <3>2, <3>3
  <2> HIDE DEF burned
  <2>2. t <= burned[from]
    BY <1>0, <1>1, <1>p, <2>1 DEF CanTransfer
  <2> QED
    BY <1>0, <1>1, <2>1, <2>2, TokensMove
<1>6. /\ past' \in Pasts /\ past'.initial = past.initial /\ past'.sol_fees = past.sol_fees
      /\ past'.diverted = past.diverted /\ past'.wrapped = past.wrapped
  BY <1>0, <1>p, PastFacts
<1>7. ReserveInv'
  <2> SUFFICES ASSUME ~past.wrapped
               PROVE  /\ lamports'[PoolKey] >= pool'.sol_reserve + past'.sol_fees
                      /\ pool'.token_reserve
                           <= tokens'[PoolAccount] + past'.initial + past'.diverted
    BY <1>6 DEF ReserveInv
  <2>2. /\ lamports[PoolKey] >= pool.sol_reserve + past.sol_fees
        /\ pool.token_reserve <= tokens[PoolAccount] + past.initial + past.diverted
    BY <1>0 DEF MemeInv, ReserveInv
  <2> QED
    BY <1>1, <1>p, <1>4, <1>5, <1>6, <2>2
<1> QED
  BY <1>0, <1>1, <1>4, <1>5, <1>6, <1>7, KeepsRest

LEMMA EvilMintKeeps ==
  ASSUME MemeInv, past.instructions < MaxInstructions, NEW u \in Users, NEW to \in Accounts,
         NEW x \in Amounts, evil_mint(u, to, x)
  PROVE  MemeInv'
<1>0. /\ x \in Nat /\ CanMint(u, to, x)
      /\ supply' = [supply EXCEPT ![to.mint] = @ + x] /\ tokens' = [tokens EXCEPT ![to] = @ + x]
      /\ Past(past) /\ arithmetic' = arithmetic /\ pool' = pool /\ lamports' = lamports
  BY ConstantFacts DEF evil_mint
<1>p. /\ TypeOK /\ past \in Pasts /\ past.initial \in Nat /\ past.diverted \in Nat
      /\ tokens \in [Accounts -> Nat] /\ tokens[to] \in Nat /\ tokens[PoolAccount] \in Nat
      /\ lamports \in [Holders -> Nat] /\ PoolAccount \in Accounts
      /\ (pool # NoPool => pool \in Pools /\ pool.token_reserve \in Nat)
  BY StateFacts, PoolFields, ConstantFacts DEF MemeInv
<1>1. supply' \in [Mints -> Words]
  BY <1>0, <1>p, SupplyKeeps DEF CanMint
<1>2. /\ tokens' \in [Accounts -> Nat] /\ tokens'[PoolAccount] \in Nat
      /\ tokens'[PoolAccount] >= tokens[PoolAccount]
  BY <1>0, <1>p
<1>3. /\ past' \in Pasts /\ past'.initial = past.initial /\ past'.sol_fees = past.sol_fees
      /\ past'.diverted = past.diverted /\ past'.wrapped = past.wrapped
  BY <1>0, <1>p, PastFacts
<1>4. ReserveInv'
  BY <1>0, <1>p, <1>2, <1>3 DEF MemeInv, ReserveInv
<1>5. LamportsInv' /\ (pool = NoPool => past'.sol_fees = 0)
  BY <1>0, <1>3 DEF MemeInv, LamportsInv, LamportsKept, NothingBeforePool
<1> QED
  BY <1>0, <1>p, <1>1, <1>2, <1>3, <1>4, <1>5, KeepsRest

LEMMA SetPausedKeeps ==
  ASSUME MemeInv, past.instructions < MaxInstructions, NEW u \in Users, NEW b \in BOOLEAN,
         set_paused(u, b)
  PROVE  MemeInv'
<1>0. /\ pool # NoPool /\ pool' = [pool EXCEPT !.paused = b]
      /\ Past(past)
      /\ arithmetic' = arithmetic /\ lamports' = lamports /\ tokens' = tokens /\ supply' = supply
  BY DEF set_paused
<1>p. /\ pool \in Pools /\ past \in Pasts /\ lamports \in [Holders -> Nat]
      /\ tokens \in [Accounts -> Nat] /\ supply \in [Mints -> Words]
  BY <1>0, StateFacts DEF MemeInv
<1>1. /\ pool' \in Pools /\ pool'.sol_reserve = pool.sol_reserve
      /\ pool'.token_reserve = pool.token_reserve
  BY <1>0, <1>p DEF Pools
<1>3. /\ past' \in Pasts /\ past'.initial = past.initial /\ past'.sol_fees = past.sol_fees
      /\ past'.diverted = past.diverted /\ past'.wrapped = past.wrapped
  BY <1>0, <1>p, PastFacts
<1>4. ReserveInv' /\ LamportsInv'
  BY <1>0, <1>1, <1>3 DEF MemeInv, ReserveInv, LamportsInv, LamportsKept
<1> QED
  BY <1>0, <1>p, <1>1, <1>3, <1>4, KeepsRest

LEMMA OutsideKeeps ==
  ASSUME MemeInv, past.instructions < MaxInstructions, NEW u \in Users,
         NEW from \in Accounts, NEW to \in Accounts, NEW x \in Amounts, Outside(u, from, to, x)
  PROVE  MemeInv'
<1>0. x \in Nat /\ arithmetic' = arithmetic /\ pool' = pool /\ Past(past)
  BY ConstantFacts DEF Outside
<1>p. /\ TypeOK /\ past \in Pasts /\ past.initial \in Nat /\ past.sol_fees \in Nat
      /\ past.diverted \in Nat
      /\ u \in Holders /\ u # PoolKey /\ to.owner \in Holders
      /\ lamports \in [Holders -> Nat] /\ lamports[u] \in Nat /\ lamports[PoolKey] \in Nat
      /\ tokens \in [Accounts -> Nat] /\ tokens[from] \in Nat /\ tokens[PoolAccount] \in Nat
      /\ supply \in [Mints -> Words] /\ PoolAccount \in Accounts /\ PoolAccount.owner = PoolKey
      /\ (pool # NoPool => /\ pool \in Pools
                           /\ pool.sol_reserve \in Nat /\ pool.token_reserve \in Nat)
  BY StateFacts, PoolFields, ConstantFacts DEF MemeInv
<1>1. /\ past' \in Pasts /\ past'.initial = past.initial /\ past'.sol_fees = past.sol_fees
      /\ past'.diverted = past.diverted /\ past'.wrapped = past.wrapped
  BY <1>0, <1>p, PastFacts
<1>2. /\ lamports' \in [Holders -> Nat] /\ LamportsInv' /\ lamports'[PoolKey] \in Nat
      /\ lamports'[PoolKey] >= lamports[PoolKey]
      /\ tokens' \in [Accounts -> Nat] /\ tokens'[PoolAccount] \in Nat
      /\ tokens'[PoolAccount] >= tokens[PoolAccount]
      /\ supply' \in [Mints -> Words]
  <2>0. UNCHANGED lamports => /\ LamportsInv' /\ lamports'[PoolKey] >= lamports[PoolKey]
                              /\ lamports' \in [Holders -> Nat] /\ lamports'[PoolKey] \in Nat
    BY <1>p DEF MemeInv, LamportsInv, LamportsKept
  <2>1. CASE /\ lamports[u] >= x /\ lamports' = Move(lamports, u, to.owner, x)
             /\ UNCHANGED <<tokens, supply>>
    <3>1. x <= lamports[u]
      BY <1>0, <1>p, <2>1
    <3>2. /\ lamports' \in [Holders -> Nat] /\ LamportsInv' /\ lamports'[PoolKey] \in Nat
          /\ lamports'[PoolKey] >= lamports[PoolKey]
      BY <1>0, <1>p, <2>1, <3>1, LamportsMove
    <3> QED
      BY <1>p, <2>1, <3>2
  <2>2. CASE /\ CanTransfer(u, from, to, x) /\ tokens' = Move(tokens, from, to, x)
             /\ UNCHANGED <<lamports, supply>>
    <3>1. x <= tokens[from] /\ from.owner # PoolKey
      BY <1>0, <1>p, <2>2 DEF CanTransfer
    <3>2. /\ tokens' \in [Accounts -> Nat] /\ tokens'[PoolAccount] \in Nat
          /\ tokens'[PoolAccount] >= tokens[PoolAccount]
      BY <1>0, <1>p, <2>2, <3>1, TokensMove
    <3> QED
      BY <1>p, <2>0, <2>2, <3>2
  <2>3. CASE /\ CanBurn(u, from, x) /\ tokens' = [tokens EXCEPT ![from] = @ - x]
             /\ supply' = [supply EXCEPT ![from.mint] = @ - x]
             /\ UNCHANGED lamports
    <3>1. tokens[from] >= x /\ supply[from.mint] >= x /\ from.owner # PoolKey
      BY <1>p, <2>3 DEF CanBurn
    <3>2. /\ supply' \in [Mints -> Words] /\ tokens' \in [Accounts -> Nat]
          /\ \A b \in Accounts : b.owner = PoolKey => tokens'[b] = tokens[b]
      BY <1>0, <1>p, <2>3, <3>1, BurnKeeps
    <3>3. tokens'[PoolAccount] = tokens[PoolAccount]
      BY <1>p, <3>2
    <3> QED
      BY <1>p, <2>0, <2>3, <3>2, <3>3
  <2> QED
    BY <2>1, <2>2, <2>3 DEF Outside
<1>3. ReserveInv'
  <2> SUFFICES ASSUME pool # NoPool, ~past.wrapped
               PROVE  /\ lamports'[PoolKey] >= pool.sol_reserve + past.sol_fees
                      /\ pool.token_reserve <= tokens'[PoolAccount] + past.initial + past.diverted
    BY <1>0, <1>1 DEF ReserveInv
  <2>1. /\ lamports[PoolKey] >= pool.sol_reserve + past.sol_fees
        /\ pool.token_reserve <= tokens[PoolAccount] + past.initial + past.diverted
    BY DEF MemeInv, ReserveInv
  <2> QED
    BY <1>p, <1>2, <2>1
<1>4. pool = NoPool => past'.sol_fees = 0
  BY <1>1 DEF MemeInv, NothingBeforePool
<1> QED
  BY <1>0, <1>p, <1>1, <1>2, <1>3, <1>4, KeepsRest

\* The instructions, as Next picks them.
Trades(u, x, from, to) ==
  \/ buy(u, from, to, x)
  \/ sell(u, from, to, x)
  \/ \E lp_to \in Accounts, y \in Amounts : add_liquidity(u, from, to, lp_to, x, y)
  \/ \E lp_from \in Accounts : remove_liquidity(u, lp_from, from, to, x)
  \/ Outside(u, from, to, x)

LEMMA NextCases ==
  ASSUME Next
  PROVE  /\ past.instructions < MaxInstructions
         /\ \E u \in Users, x \in Amounts :
              \/ create_pool(u, x)
              \/ set_paused(u, x = 0)
              \/ \E to \in Accounts : evil_mint(u, to, x)
              \/ \E from, to \in Accounts : Trades(u, x, from, to)
  BY Zenon DEF Next, Trades

LEMMA NextKeeps == MemeInv /\ [Next]_vars => MemeInv'
<1> SUFFICES ASSUME MemeInv, [Next]_vars PROVE MemeInv'
  OBVIOUS
<1>1. CASE UNCHANGED vars
  BY <1>1 DEF vars, MemeInv, TypeOK, LamportsInv, LamportsKept, NothingBeforePool, ReserveInv
<1>2. CASE Next
  <2>0. past.instructions < MaxInstructions
    BY <1>2, NextCases
  <2>1. PICK u \in Users, x \in Amounts :
          \/ create_pool(u, x)
          \/ set_paused(u, x = 0)
          \/ \E to \in Accounts : evil_mint(u, to, x)
          \/ \E from, to \in Accounts : Trades(u, x, from, to)
    BY <1>2, NextCases, Zenon
  <2>2. CASE set_paused(u, x = 0)
    <3>1. (x = 0) \in BOOLEAN
      OBVIOUS
    <3> QED
      BY <2>0, <2>2, <3>1, SetPausedKeeps, Zenon
  <2>3. CASE create_pool(u, x)
    BY <2>0, <2>3, CreateKeeps, Zenon
  <2>4. CASE \E to \in Accounts : evil_mint(u, to, x)
    BY <2>0, <2>4, EvilMintKeeps, Zenon
  <2>5. ASSUME NEW from \in Accounts, NEW to \in Accounts, Trades(u, x, from, to) PROVE MemeInv'
    BY <2>0, <2>5, BuyKeeps, SellKeeps, AddKeeps, RemoveKeeps, OutsideKeeps, Zenon DEF Trades
  <2> QED
    BY <2>1, <2>2, <2>3, <2>4, <2>5, Zenon
<1> QED
  BY <1>1, <1>2

LEMMA MemeInvariant == Spec => []MemeInv
  BY InitKeeps, NextKeeps, PTL DEF Spec

--------------------------------------------------------------------------------
\* The accounts and mints keep their types: no balance is ever negative and no count
\* of the pool leaves its word.
THEOREM MemeTypes == Spec => []TypeOK
<1>1. MemeInv => TypeOK
  BY DEF MemeInv
<1> QED
  BY <1>1, MemeInvariant, PTL

\* The pool can pay its SOL reserve and the fees, for every fee and word size, until a
\* sum of the token reserve wraps.
THEOREM PoolIsSolvent == Spec => []Solvent
<1>1. MemeInv => Solvent
  BY DEF MemeInv, ReserveInv, Solvent
<1> QED
  BY <1>1, MemeInvariant, PTL

\* Until then the token reserve is overstated by what create_pool never paid in and by
\* what sells and deposits paid elsewhere, at most.
THEOREM PoolOverstatesDiversions == Spec => []OverstatedByDiversions
<1>1. MemeInv => OverstatedByDiversions
  BY DEF MemeInv, ReserveInv, OverstatedByDiversions
<1> QED
  BY <1>1, MemeInvariant, PTL

LEMMA ProductRises ==
  ASSUME NEW S \in Nat, NEW T \in Nat, NEW n \in Nat, NEW o \in Nat, o * (S + n) <= T * n
  PROVE  (S + n) * (T - o) >= S * T
<1>1. (S + n) * (T - o) = S * T + T * n - o * (S + n)
  OBVIOUS
<1>2. S * T \in Nat /\ T * n \in Nat /\ o * (S + n) \in Nat
  OBVIOUS
<1> QED
  BY <1>1, <1>2

LEMMA ProductGrows ==
  ASSUME NEW S \in Nat, NEW T \in Nat, NEW s \in Nat, NEW t \in Nat
  PROVE  (S + s) * (T + t) >= S * T
<1>1. (S + s) * (T + t) = S * T + (S * t + s * T + s * t)
  OBVIOUS
<1>2. S * T \in Nat /\ S * t \in Nat /\ s * T \in Nat /\ s * t \in Nat
  OBVIOUS
<1> QED
  BY <1>1, <1>2

\* What a deposit leaves behind each LP token.
LEMMA DepositShare ==
  ASSUME NEW S \in Nat, NEW s \in Nat, NEW L \in Nat, NEW M \in Nat, NEW x \in Nat,
         M <= L + x, x * S <= s * L
  PROVE  (S + s) * L >= S * M
<1>1. (S + s) * L = S * L + s * L
  OBVIOUS
<1>2. S * M <= S * (L + x)
  <2> DEFINE d == L + x - M
  <2>1. d \in Nat /\ L + x = M + d
    OBVIOUS
  <2> HIDE DEF d
  <2>2. S * (M + d) = S * M + S * d
    BY <2>1
  <2>3. S * M \in Nat /\ S * d \in Nat
    BY <2>1
  <2> QED
    BY <2>1, <2>2, <2>3
<1>3. S * (L + x) = S * L + x * S
  OBVIOUS
<1>4. S * L \in Nat /\ s * L \in Nat /\ x * S \in Nat /\ S * M \in Nat
  OBVIOUS
<1> QED
  BY <1>1, <1>2, <1>3, <1>4

\* What a withdrawal leaves behind each LP token.
LEMMA WithdrawalShare ==
  ASSUME NEW S \in Nat, NEW s \in Nat, NEW L \in Nat, NEW x \in Nat, s * L <= S * x
  PROVE  (S - s) * L >= S * (L - x)
<1>1. (S - s) * L = S * L - s * L /\ S * (L - x) = S * L - S * x
  OBVIOUS
<1>2. S * L \in Nat /\ s * L \in Nat /\ S * x \in Nat
  OBVIOUS
<1> QED
  BY <1>1, <1>2

LEMMA ReservesAreNat ==
  ASSUME MemeInv, pool # NoPool
  PROVE  pool.sol_reserve \in Nat /\ pool.token_reserve \in Nat /\ pool.lp_supply \in Nat
<1>1. pool \in Pools
  BY DEF MemeInv, TypeOK
<1> QED
  BY <1>1, PoolFields

LEMMA SameReserves ==
  ASSUME MemeInv, pool # NoPool, pool'.sol_reserve = pool.sol_reserve,
         pool'.token_reserve = pool.token_reserve, pool'.lp_supply = pool.lp_supply
  PROVE  /\ pool'.sol_reserve * pool'.token_reserve >= pool.sol_reserve * pool.token_reserve
         /\ pool'.sol_reserve * pool.lp_supply >= pool.sol_reserve * pool'.lp_supply
         /\ pool'.token_reserve * pool.lp_supply >= pool.token_reserve * pool'.lp_supply
<1>1. pool.sol_reserve \in Nat /\ pool.token_reserve \in Nat /\ pool.lp_supply \in Nat
  BY ReservesAreNat
<1>2. \A a, b \in Nat : a * b >= a * b
  OBVIOUS
<1> QED
  BY <1>1, <1>2

\* The remaining instructions leave the reserves and the LP supply of a pool alone.
LEMMA OthersReserves ==
  ASSUME MemeInv, pool # NoPool, NEW u \in Users, NEW x \in Amounts,
         \/ create_pool(u, x) \/ set_paused(u, x = 0)
         \/ \E to \in Accounts : evil_mint(u, to, x)
         \/ \E from, to \in Accounts : Outside(u, from, to, x)
  PROVE  /\ pool'.sol_reserve = pool.sol_reserve
         /\ pool'.token_reserve = pool.token_reserve
         /\ pool'.lp_supply = pool.lp_supply
<1>1. ~create_pool(u, x)
  BY DEF create_pool
<1>2. CASE \E to \in Accounts : evil_mint(u, to, x)
  BY <1>2 DEF evil_mint
<1>3. CASE set_paused(u, x = 0)
  <2>1. pool \in Pools
    BY StateFacts DEF MemeInv
  <2>2. pool' = [pool EXCEPT !.paused = (x = 0)]
    BY <1>3 DEF set_paused
  <2> QED
    BY <2>1, <2>2 DEF Pools
<1>4. CASE \E from, to \in Accounts : Outside(u, from, to, x)
  BY <1>4 DEF Outside
<1> QED
  BY <1>1, <1>2, <1>3, <1>4

\* A step of a pool trades, deposits, withdraws or leaves its account's counts alone.
LEMMA PoolStep ==
  ASSUME MemeInv, pool # NoPool, Next
  PROVE  /\ past.instructions < MaxInstructions
         /\ \/ \E u \in Users, x \in Amounts, from, to \in Accounts :
                 \/ buy(u, from, to, x)
                 \/ sell(u, from, to, x)
                 \/ \E lp_to \in Accounts, y \in Amounts : add_liquidity(u, from, to, lp_to, x, y)
                 \/ \E lp_from \in Accounts : remove_liquidity(u, lp_from, from, to, x)
            \/ /\ pool'.sol_reserve = pool.sol_reserve
               /\ pool'.token_reserve = pool.token_reserve
               /\ pool'.lp_supply = pool.lp_supply
<1>1. PICK u \in Users, x \in Amounts :
        \/ create_pool(u, x)
        \/ set_paused(u, x = 0)
        \/ \E to \in Accounts : evil_mint(u, to, x)
        \/ \E from, to \in Accounts : Trades(u, x, from, to)
  BY NextCases, Zenon
<1>2. CASE \/ create_pool(u, x) \/ set_paused(u, x = 0)
           \/ \E to \in Accounts : evil_mint(u, to, x)
  BY <1>2, OthersReserves, NextCases, Zenon
<1>3. ASSUME NEW from \in Accounts, NEW to \in Accounts, Outside(u, from, to, x)
      PROVE  /\ pool'.sol_reserve = pool.sol_reserve
             /\ pool'.token_reserve = pool.token_reserve
             /\ pool'.lp_supply = pool.lp_supply
  BY <1>3, OthersReserves, Zenon
<1> QED
  BY <1>1, <1>2, <1>3, NextCases, Zenon DEF Trades

\* A step never undoes the wrap of a sum.
LEMMA WrappedStays ==
  ASSUME MemeInv, Next, ~past'.wrapped, NEW u \in Users, NEW x \in Amounts,
         NEW from \in Accounts, NEW to \in Accounts, buy(u, from, to, x)
  PROVE  ~past.wrapped
<1> DEFINE p == [past EXCEPT !.sol_fees = @ + Fee(x)]
<1>1. past \in Pasts /\ past.sol_fees \in Nat /\ x \in Nat /\ past.instructions < MaxInstructions
  BY StateFacts, ConstantFacts, NextCases DEF MemeInv
<1>2. Fee(x) \in Nat
  BY <1>1, FeeFacts
<1>3. p \in Pasts /\ p.instructions = past.instructions
  BY <1>1, <1>2 DEF Pasts
<1>4. p.wrapped = past.wrapped
  BY <1>1, Zenon DEF Pasts
<1>5. Past(p)
  BY DEF buy
<1> HIDE DEF p
<1> QED
  BY <1>1, <1>3, <1>4, <1>5, PastFacts

LEMMA ProductOfStep ==
  ASSUME MemeInv, pool # NoPool, ~past'.wrapped, [Next]_vars, pool'.lp_supply = pool.lp_supply
  PROVE  pool'.sol_reserve * pool'.token_reserve >= pool.sol_reserve * pool.token_reserve
<1>n. pool.sol_reserve \in Nat /\ pool.token_reserve \in Nat /\ pool.lp_supply \in Nat
  BY ReservesAreNat
<1>0. CASE UNCHANGED vars
  <2>1. pool' = pool
    BY <1>0 DEF vars
  <2> QED
    BY <2>1, SameReserves
<1>1. CASE Next
  <2>0. past.instructions < MaxInstructions
    BY <1>1, PoolStep
  <2>1. CASE /\ pool'.sol_reserve = pool.sol_reserve /\ pool'.token_reserve = pool.token_reserve
             /\ pool'.lp_supply = pool.lp_supply
    BY <2>1, SameReserves
  <2>2. ASSUME NEW u \in Users, NEW x \in Amounts, NEW from \in Accounts, NEW to \in Accounts,
               \/ buy(u, from, to, x)
               \/ sell(u, from, to, x)
               \/ \E lp_to \in Accounts, y \in Amounts : add_liquidity(u, from, to, lp_to, x, y)
               \/ \E lp_from \in Accounts : remove_liquidity(u, lp_from, from, to, x)
        PROVE  pool'.sol_reserve * pool'.token_reserve >= pool.sol_reserve * pool.token_reserve
    <3>1. CASE buy(u, from, to, x)
      <4>1. ~past.wrapped
        BY <1>1, <3>1, WrappedStays
      <4> PICK n, f, o \in Nat : /\ pool'.sol_reserve = pool.sol_reserve + n
                                 /\ pool'.token_reserve = pool.token_reserve - o
                                 /\ o * (pool.sol_reserve + n) <= pool.token_reserve * n
        BY <3>1, <4>1, BuyReserves
      <4> QED
        BY <1>n, ProductRises
    <3>2. CASE sell(u, from, to, x)
      <4> PICK n, o \in Nat : /\ pool'.sol_reserve = pool.sol_reserve - o
                              /\ pool'.token_reserve = pool.token_reserve + n
                              /\ o * (pool.token_reserve + n) <= pool.sol_reserve * n
        BY <2>0, <3>2, SellReserves
      <4>1. (pool.token_reserve + n) * (pool.sol_reserve - o)
              >= pool.token_reserve * pool.sol_reserve
        BY <1>n, ProductRises
      <4>2. \A a, b \in Int : a * b = b * a
        OBVIOUS
      <4>3. pool.token_reserve + n \in Int /\ pool.sol_reserve - o \in Int
        BY <1>n
      <4> QED
        BY <1>n, <4>1, <4>2, <4>3
    <3>3. CASE \E lp_to \in Accounts, y \in Amounts : add_liquidity(u, from, to, lp_to, x, y)
      <4> PICK lp_to \in Accounts, y \in Amounts : add_liquidity(u, from, to, lp_to, x, y)
        BY <3>3
      <4>1. /\ pool'.sol_reserve = pool.sol_reserve + x
            /\ pool'.token_reserve = pool.token_reserve + y
        BY <2>0, AddReserves
      <4>2. x \in Nat /\ y \in Nat
        BY ConstantFacts
      <4> QED
        BY <1>n, <4>1, <4>2, ProductGrows
    <3>4. CASE \E lp_from \in Accounts : remove_liquidity(u, lp_from, from, to, x)
      <4>1. x \in Nat /\ x > 0 /\ pool'.lp_supply = pool.lp_supply - x
        BY <3>4, RemoveReserves
      <4> QED
        BY <1>n, <4>1
    <3> QED
      BY <2>2, <3>1, <3>2, <3>3, <3>4, Zenon
  <2> QED
    BY <1>1, <2>1, <2>2, PoolStep
<1> QED
  BY <1>0, <1>1

LEMMA ShareOfStep ==
  ASSUME MemeInv, pool # NoPool, ~past'.wrapped, pool.lp_supply > 0, [Next]_vars,
         pool'.lp_supply # pool.lp_supply
  PROVE  /\ pool'.sol_reserve * pool.lp_supply >= pool.sol_reserve * pool'.lp_supply
         /\ pool'.token_reserve * pool.lp_supply >= pool.token_reserve * pool'.lp_supply
<1>n. pool.sol_reserve \in Nat /\ pool.token_reserve \in Nat /\ pool.lp_supply \in Nat
  BY ReservesAreNat
<1>1. Next
  BY DEF vars
<1>0. past.instructions < MaxInstructions
  BY <1>1, PoolStep
<1> PICK u \in Users, x \in Amounts, from \in Accounts, to \in Accounts :
      \/ buy(u, from, to, x)
      \/ sell(u, from, to, x)
      \/ \E lp_to \in Accounts, y \in Amounts : add_liquidity(u, from, to, lp_to, x, y)
      \/ \E lp_from \in Accounts : remove_liquidity(u, lp_from, from, to, x)
  BY <1>1, PoolStep
<1>2. ~buy(u, from, to, x)
  BY <1>1, BuyReserves, WrappedStays
<1>3. ~sell(u, from, to, x)
  BY <1>0, SellReserves
<1>4. CASE \E lp_to \in Accounts, y \in Amounts : add_liquidity(u, from, to, lp_to, x, y)
  <2> PICK lp_to \in Accounts, y \in Amounts : add_liquidity(u, from, to, lp_to, x, y)
    BY <1>4
  <2>1. x \in Nat /\ y \in Nat
    BY ConstantFacts
  <2>2. /\ pool'.sol_reserve = pool.sol_reserve + x
        /\ pool'.token_reserve = pool.token_reserve + y
        /\ \E m \in Nat : /\ pool'.lp_supply \in Nat /\ pool'.lp_supply <= pool.lp_supply + m
                          /\ pool.lp_supply > 0 => /\ m * pool.sol_reserve <= x * pool.lp_supply
                                                   /\ m * pool.token_reserve <= y * pool.lp_supply
    BY <1>0, AddReserves
  <2> PICK m \in Nat : /\ pool'.lp_supply \in Nat /\ pool'.lp_supply <= pool.lp_supply + m
                       /\ m * pool.sol_reserve <= x * pool.lp_supply
                       /\ m * pool.token_reserve <= y * pool.lp_supply
    BY <2>2
  <2> QED
    BY <1>n, <2>1, <2>2, DepositShare
<1>5. CASE \E lp_from \in Accounts : remove_liquidity(u, lp_from, from, to, x)
  <2> PICK s, t \in Nat : /\ x \in Nat /\ x > 0
                          /\ pool'.sol_reserve = pool.sol_reserve - s
                          /\ pool'.token_reserve = pool.token_reserve - t
                          /\ pool'.lp_supply = pool.lp_supply - x
                          /\ s * pool.lp_supply <= pool.sol_reserve * x
                          /\ t * pool.lp_supply <= pool.token_reserve * x
    BY <1>5, RemoveReserves
  <2> QED
    BY <1>n, WithdrawalShare
<1> QED
  BY <1>2, <1>3, <1>4, <1>5

(* No trade lowers the product of the reserves, whatever the fee, the word size
   and the products that wrapped: buy, sell. *)
THEOREM ProductKeepsUp == Spec => ProductNeverFalls
<1>1. MemeInv /\ [Next]_vars
      => [pool # NoPool /\ ~past'.wrapped /\ pool'.lp_supply = pool.lp_supply
          => pool'.sol_reserve * pool'.token_reserve >= pool.sol_reserve * pool.token_reserve]_vars
  BY ProductOfStep
<1> QED
  BY <1>1, MemeInvariant, PTL DEF Spec, ProductNeverFalls

(* No deposit or withdrawal lowers what stands behind an LP token: add_liquidity,
   remove_liquidity. *)
THEOREM ShareKeepsUp == Spec => ShareNeverFalls
<1>1. MemeInv /\ [Next]_vars
      => [pool # NoPool /\ ~past'.wrapped /\ pool.lp_supply > 0 /\ pool'.lp_supply # pool.lp_supply
          => /\ pool'.sol_reserve * pool.lp_supply >= pool.sol_reserve * pool'.lp_supply
             /\ pool'.token_reserve * pool.lp_supply >= pool.token_reserve * pool'.lp_supply]_vars
  BY ShareOfStep
<1> QED
  BY <1>1, MemeInvariant, PTL DEF Spec, ShareNeverFalls
================================================================================
