------------------------------- MODULE NftProofs -------------------------------
(* Theorems about Nft.                                                       *)
EXTENDS Nft, TLAPS

LEMMA ConstantFacts ==
  /\ 2^WordBits \in Nat \ {0} /\ 0 \in Words /\ Words \subseteq Nat
  /\ ROYALTY_BPS \in Nat /\ BpsDenominator \in Nat \ {0} /\ ROYALTY_BPS <= BpsDenominator
  /\ MaxMints \in Nat /\ MaxTime \in Nat /\ MaxInstructions \in Nat
  /\ Prices \subseteq Words /\ Wealth \in Words
  /\ Editions \subseteq Nat
  BY NftAssumption DEF Words, Editions

LEMMA WordType ==
  ASSUME NEW x \in Int
  PROVE  /\ Word(x) \in Words
         /\ x \in Words => Word(x) = x
         /\ x \in Nat => Word(x) <= x
<1> DEFINE W == 2^WordBits
<1>1. W \in Nat /\ W > 0
  BY ConstantFacts
<1>2. Word(x) = x % W /\ Words = 0 .. W - 1
  BY DEF Word, Words
<1> HIDE DEF W
<1>3. x % W \in 0 .. W - 1 /\ (x \in 0 .. W - 1 => x % W = x) /\ (x \in Nat => x % W <= x)
  BY <1>1
<1> QED
  BY <1>2, <1>3

\* The royalty of a price is no more than the price, however the product wraps.
LEMMA RoyaltyBound ==
  ASSUME NEW price \in Words
  PROVE  Royalty(price) \in Nat /\ Royalty(price) <= price
<1> DEFINE product == price * ROYALTY_BPS
           w == Word(product)
<1>0. price \in Nat /\ ROYALTY_BPS \in Nat /\ BpsDenominator \in Nat \ {0}
      /\ ROYALTY_BPS <= BpsDenominator
  BY ConstantFacts
<1>1. product \in Nat
  BY <1>0
<1>2. w \in Nat /\ w <= product
  <2>1. w \in Words /\ w <= product
    BY <1>1, WordType
  <2> QED
    BY <2>1, ConstantFacts
<1>3. product <= price * BpsDenominator
  <2> DEFINE d == BpsDenominator - ROYALTY_BPS
  <2>1. d \in Nat /\ BpsDenominator = ROYALTY_BPS + d
    BY <1>0
  <2> HIDE DEF d
  <2>2. price * (ROYALTY_BPS + d) = price * ROYALTY_BPS + price * d /\ price * d \in Nat
    BY <1>0, <2>1
  <2> QED
    BY <1>1, <2>1, <2>2
<1>4. Royalty(price) = w \div BpsDenominator
  BY DEF Royalty
<1> HIDE DEF product, w
<1>5. w <= price * BpsDenominator
  <2>1. price * BpsDenominator \in Nat
    BY <1>0
  <2> QED
    BY <1>1, <1>2, <1>3, <2>1
<1>6. w \div BpsDenominator \in Nat /\ w \div BpsDenominator <= price
  BY <1>0, <1>2, <1>5
<1> QED
  BY <1>4, <1>6

LEMMA NibbleType == \A w, k : Nibble(w, k) \in SUBSET (0 .. 3)
  BY DEF Nibble

LEMMA TraitsType == \A seed : generate_traits(seed) \in [0 .. TRAIT_TYPES - 1 -> SUBSET (0 .. 3)]
  BY NibbleType DEF generate_traits

LEMMA PixelsType ==
  \A traits, edition :
    generate_pixels(traits, edition) \in [(0 .. Side - 1) \X (0 .. Side - 1) -> SUBSET (0 .. 3)]
  BY NibbleType DEF generate_pixels

--------------------------------------------------------------------------------
Pasts ==
  [seed : [Editions -> Words], lists : [Editions -> Nat], sales : [Editions -> Nat],
   instructions : 0 .. MaxInstructions]

\* A seed is no later than now would give.
SeedInv ==
  MaxTime + MaxMints \in Words => \A e \in Minteds : past.seed[e] <= now + e

\* Also before an edition is minted it has not been sold more often than listed.
SalesInv == \A e \in Editions : past.sales[e] <= past.lists[e]

NftInv ==
  /\ TypeOK
  /\ EditionsAreConsecutive
  /\ ArtFollowsSeed
  /\ SeedsDiffer /\ SeedInv
  /\ ListedAtTheListing
  /\ NoDoubleSale /\ SalesInv

LEMMA NftInvInit == Init => NftInv
<1> SUFFICES ASSUME Init PROVE NftInv
  OBVIOUS
<1>1. \A e \in Editions : nfts[e] = NoNft
  BY DEF Init
<1>2. Minteds = {}
  BY <1>1 DEF Minteds
<1>3. past \in Pasts
  BY ConstantFacts DEF Init, Pasts
<1>4. lamports \in [Users -> Words] /\ now \in 0 .. MaxTime
  BY ConstantFacts DEF Init
<1>5. TypeOK
  BY <1>3, <1>4 DEF Init, TypeOK, Pasts
<1>6. EditionsAreConsecutive
  BY <1>1, <1>2 DEF EditionsAreConsecutive, Init
<1>7. SalesInv
  BY DEF Init, SalesInv
<1> QED
  BY <1>2, <1>5, <1>6, <1>7
     DEF NftInv, ArtFollowsSeed, SeedsDiffer, SeedInv, ListedAtTheListing, NoDoubleSale

LEMMA StateFacts ==
  ASSUME TypeOK
  PROVE  /\ past \in Pasts /\ nfts \in [Editions -> Nfts \cup {NoNft}]
         /\ \A e \in Editions : nfts[e] # NoNft => nfts[e] \in Nfts
         /\ now \in Nat /\ lamports \in [Users -> Words]
         /\ listings \in [Editions -> Listings \cup {NoListing}]
         /\ collection \in Collections \cup {NoCollection}
  BY ConstantFacts DEF TypeOK, Pasts

LEMMA NftFields ==
  ASSUME NEW n \in Nfts
  PROVE  /\ n.owner \in Users /\ n.edition \in Editions /\ n.listed \in BOOLEAN
         /\ n.price \in Words /\ n.price \in Nat /\ n # NoNft
  BY ConstantFacts, NftAssumption DEF Nfts

--------------------------------------------------------------------------------
\* A step that touches neither an NFT nor its listing or history.
LEMMA SameNfts ==
  ASSUME NftInv, TypeOK', nfts' = nfts, listings' = listings, now' >= now,
         past'.seed = past.seed, past'.lists = past.lists, past'.sales = past.sales,
         EditionsAreConsecutive'
  PROVE  NftInv'
<1>1. Minteds' = Minteds
  BY DEF Minteds
<1>2. ArtFollowsSeed' /\ SeedsDiffer' /\ ListedAtTheListing' /\ NoDoubleSale' /\ SalesInv'
  BY <1>1 DEF NftInv, ArtFollowsSeed, SeedsDiffer, ListedAtTheListing, NoDoubleSale, SalesInv
<1>3. SeedInv'
  <2> SUFFICES ASSUME MaxTime + MaxMints \in Words, NEW e \in Minteds
               PROVE  past.seed[e] <= now' + e
    BY <1>1 DEF SeedInv
  <2>1. past.seed[e] <= now + e
    BY DEF NftInv, SeedInv
  <2>2. e \in Editions /\ e \in Nat
    BY ConstantFacts DEF Minteds
  <2>3. past.seed[e] \in Nat
    <3>1. past.seed \in [Editions -> Words]
      BY DEF NftInv, TypeOK
    <3> QED
      BY <2>2, <3>1, ConstantFacts
  <2>4. now \in Nat /\ now' \in Nat
    BY ConstantFacts DEF NftInv, TypeOK
  <2> QED
    BY <2>1, <2>2, <2>3, <2>4
<1> QED
  BY <1>2, <1>3 DEF NftInv

LEMMA TickKeeps ==
  ASSUME NftInv, Tick
  PROVE  NftInv'
<1>1. now \in 0 .. MaxTime /\ now' = now + 1 /\ now < MaxTime /\ TypeOK
  BY DEF NftInv, TypeOK, Tick
<1>2. now' \in 0 .. MaxTime /\ now' >= now
  BY <1>1, ConstantFacts
<1>3. TypeOK'
  BY <1>1, <1>2 DEF Tick, TypeOK
<1>4. EditionsAreConsecutive'
  BY DEF Tick, NftInv, EditionsAreConsecutive, Minteds
<1> QED
  BY <1>2, <1>3, <1>4, SameNfts DEF Tick

LEMMA PastKeeps ==
  ASSUME NEW p \in Pasts, Past(p), past \in Pasts, p.instructions = past.instructions
  PROVE  /\ past' \in Pasts
         /\ past'.seed = p.seed /\ past'.lists = p.lists /\ past'.sales = p.sales
<1>1. past.instructions < MaxInstructions /\ past.instructions \in 0 .. MaxInstructions
  BY DEF Past, Pasts
<1>2. p.instructions + 1 \in 0 .. MaxInstructions
  BY <1>1, ConstantFacts
<1> QED
  BY <1>2 DEF Past, Pasts

LEMMA CreateKeeps ==
  ASSUME NftInv, NEW u \in Users, initialize_collection(u)
  PROVE  NftInv'
<1>0. TypeOK /\ past \in Pasts
  BY StateFacts DEF NftInv
<1>1. /\ past' \in Pasts
      /\ past'.seed = past.seed /\ past'.lists = past.lists /\ past'.sales = past.sales
  BY <1>0, PastKeeps DEF initialize_collection
<1>2. collection' \in Collections /\ collection'.total_minted = 0
  BY ConstantFacts DEF initialize_collection, Collections
<1>3. TypeOK'
  BY <1>0, <1>1, <1>2 DEF initialize_collection, TypeOK, Pasts
<1>4. EditionsAreConsecutive'
  <2>1. \A e \in Editions : nfts[e] = NoNft
    BY DEF NftInv, EditionsAreConsecutive, initialize_collection
  <2>2. \A e \in Editions : ~(e < 0)
    BY ConstantFacts
  <2>3. nfts' = nfts
    BY DEF initialize_collection
  <2> QED
    BY <1>2, <2>1, <2>2, <2>3 DEF EditionsAreConsecutive, Minteds
<1>5. now' >= now
  BY <1>0, StateFacts DEF initialize_collection
<1> QED
  BY <1>1, <1>3, <1>4, <1>5, SameNfts DEF initialize_collection

\* A step that changes one NFT, but neither its number nor its picture.
LEMMA OneNft ==
  ASSUME NftInv, TypeOK', NEW e \in Editions, nfts[e] # NoNft,
         NEW n \in Nfts, nfts' = [nfts EXCEPT ![e] = n],
         n.edition = nfts[e].edition, n.traits = nfts[e].traits, n.pixels = nfts[e].pixels,
         collection' = collection, now' = now, past'.seed = past.seed,
         \A f \in Editions : f # e => /\ listings'[f] = listings[f]
                                      /\ past'.lists[f] = past.lists[f]
                                      /\ past'.sales[f] = past.sales[f],
         IF n.listed THEN listings'[e] # NoListing /\ listings'[e].price = n.price
                     ELSE n.price = 0,
         past'.sales[e] + (IF n.listed THEN 1 ELSE 0) <= past'.lists[e],
         past'.sales[e] <= past'.lists[e]
  PROVE  NftInv'
<1>0. nfts \in [Editions -> Nfts \cup {NoNft}] /\ n # NoNft
  BY NftFields, StateFacts DEF NftInv
<1>1. nfts'[e] = n /\ \A f \in Editions : f # e => nfts'[f] = nfts[f]
  BY <1>0
<1>2. Minteds' = Minteds /\ Minteds \subseteq Editions /\ e \in Minteds
  BY <1>0, <1>1 DEF Minteds
<1>3. EditionsAreConsecutive'
  <2>1. ASSUME NEW f \in Editions
        PROVE  nfts'[f] # NoNft <=> collection # NoCollection /\ f < collection.total_minted
    BY <1>0, <1>1 DEF NftInv, EditionsAreConsecutive
  <2>2. ASSUME NEW f \in Minteds
        PROVE  nfts'[f].edition = f
    BY <1>1, <1>2 DEF NftInv, EditionsAreConsecutive
  <2> QED
    BY <1>2, <2>1, <2>2 DEF EditionsAreConsecutive
<1>4. ArtFollowsSeed'
  <2> SUFFICES ASSUME NEW f \in Minteds
               PROVE  /\ nfts'[f].traits = generate_traits(past.seed[f])
                      /\ nfts'[f].pixels = generate_pixels(nfts'[f].traits, nfts'[f].edition)
    BY <1>2 DEF ArtFollowsSeed
  <2>1. /\ nfts[f].traits = generate_traits(past.seed[f])
        /\ nfts[f].pixels = generate_pixels(nfts[f].traits, nfts[f].edition)
    BY DEF NftInv, ArtFollowsSeed
  <2>2. nfts'[f].traits = nfts[f].traits /\ nfts'[f].pixels = nfts[f].pixels
        /\ nfts'[f].edition = nfts[f].edition
    BY <1>1, <1>2
  <2> QED
    BY <2>1, <2>2, Zenon
<1>5. SeedsDiffer' /\ SeedInv'
  BY <1>2 DEF NftInv, SeedsDiffer, SeedInv
<1>6. ListedAtTheListing'
  <2> SUFFICES ASSUME NEW f \in Minteds
               PROVE  IF nfts'[f].listed
                      THEN listings'[f] # NoListing /\ listings'[f].price = nfts'[f].price
                      ELSE nfts'[f].price = 0
    BY <1>2 DEF ListedAtTheListing
  <2>1. CASE f = e
    BY <1>1, <2>1
  <2>2. CASE f # e
    BY <1>1, <1>2, <2>2 DEF NftInv, ListedAtTheListing
  <2> QED
    BY <2>1, <2>2
<1>7. NoDoubleSale' /\ SalesInv'
  <2>1. ASSUME NEW f \in Minteds
        PROVE  past'.sales[f] + (IF nfts'[f].listed THEN 1 ELSE 0) <= past'.lists[f]
    BY <1>1, <1>2 DEF NftInv, NoDoubleSale
  <2>2. ASSUME NEW f \in Editions PROVE past'.sales[f] <= past'.lists[f]
    BY DEF NftInv, SalesInv
  <2> QED
    BY <1>2, <2>1, <2>2 DEF NoDoubleSale, SalesInv
<1> QED
  BY <1>3, <1>4, <1>5, <1>6, <1>7 DEF NftInv

\* What is known of an NFT that is there.
LEMMA MintedFacts ==
  ASSUME NftInv, NEW e \in Editions, nfts[e] # NoNft
  PROVE  /\ nfts[e] \in Nfts
         /\ past.sales[e] \in Nat /\ past.lists[e] \in Nat /\ past.sales[e] <= past.lists[e]
         /\ past.sales[e] + (IF nfts[e].listed THEN 1 ELSE 0) <= past.lists[e]
         /\ IF nfts[e].listed THEN listings[e] # NoListing /\ listings[e].price = nfts[e].price
                              ELSE nfts[e].price = 0
<1>1. past.sales \in [Editions -> Nat] /\ past.lists \in [Editions -> Nat]
  BY DEF NftInv, TypeOK
<1>2. e \in Minteds
  BY DEF Minteds
<1> QED
  BY <1>1, <1>2, StateFacts DEF NftInv, SalesInv, NoDoubleSale, ListedAtTheListing

LEMMA TransferKeeps ==
  ASSUME NftInv, NEW u \in Users, NEW e \in Editions, transfer(u, e)
  PROVE  NftInv'
<1> DEFINE n == [nfts[e] EXCEPT !.owner = u]
<1>0. /\ TypeOK /\ past \in Pasts /\ nfts[e] # NoNft /\ nfts[e] \in Nfts
      /\ nfts \in [Editions -> Nfts \cup {NoNft}]
  BY StateFacts DEF NftInv, transfer
<1>1. nfts' = [nfts EXCEPT ![e] = n]
  BY <1>0 DEF transfer
<1>2. /\ n \in Nfts /\ n.edition = nfts[e].edition /\ n.traits = nfts[e].traits
      /\ n.pixels = nfts[e].pixels /\ n.listed = nfts[e].listed /\ n.price = nfts[e].price
  BY <1>0 DEF Nfts
<1> HIDE DEF n
<1>3. /\ past' \in Pasts
      /\ past'.seed = past.seed /\ past'.lists = past.lists /\ past'.sales = past.sales
  BY <1>0, PastKeeps DEF transfer
<1>4. nfts' \in [Editions -> Nfts \cup {NoNft}]
  BY <1>0, <1>1, <1>2
<1>5. TypeOK'
  BY <1>0, <1>3, <1>4 DEF transfer, TypeOK, Pasts
<1>6. listings' = listings /\ collection' = collection /\ now' = now
  BY DEF transfer
<1>7. IF n.listed THEN listings'[e] # NoListing /\ listings'[e].price = n.price ELSE n.price = 0
  BY <1>0, <1>2, <1>6, MintedFacts
<1>8. past'.sales[e] + (IF n.listed THEN 1 ELSE 0) <= past'.lists[e]
      /\ past'.sales[e] <= past'.lists[e]
  BY <1>0, <1>2, <1>3, MintedFacts
<1> QED
  BY <1>0, <1>1, <1>2, <1>3, <1>5, <1>6, <1>7, <1>8, OneNft

LEMMA ListKeeps ==
  ASSUME NftInv, NEW u \in Users, NEW e \in Editions, NEW price \in Prices, list(u, e, price)
  PROVE  NftInv'
<1> DEFINE n == [nfts[e] EXCEPT !.listed = TRUE, !.price = price]
           p == [past EXCEPT !.lists[e] = @ + 1]
<1>0. /\ TypeOK /\ past \in Pasts /\ nfts[e] # NoNft /\ nfts[e] \in Nfts
      /\ nfts \in [Editions -> Nfts \cup {NoNft}] /\ price \in Words
      /\ listings \in [Editions -> Listings \cup {NoListing}]
  BY StateFacts, ConstantFacts DEF NftInv, list
<1>1. nfts' = [nfts EXCEPT ![e] = n]
  BY <1>0 DEF list
<1>2. /\ n \in Nfts /\ n.edition = nfts[e].edition /\ n.traits = nfts[e].traits
      /\ n.pixels = nfts[e].pixels /\ n.listed = TRUE /\ n.price = price
  BY <1>0 DEF Nfts
<1>a. past.lists \in [Editions -> Nat] /\ past.sales \in [Editions -> Nat]
  BY <1>0 DEF Pasts
<1>b. /\ p \in Pasts /\ p.instructions = past.instructions /\ p.seed = past.seed
      /\ p.sales = past.sales /\ p.lists = [past.lists EXCEPT ![e] = @ + 1]
  BY <1>0 DEF Pasts
<1>c. Past(p)
  BY DEF list
<1> HIDE DEF n, p
<1>3. /\ past' \in Pasts /\ past'.seed = past.seed /\ past'.sales = past.sales
      /\ past'.lists = [past.lists EXCEPT ![e] = @ + 1]
  BY <1>0, <1>b, <1>c, PastKeeps
<1>4. nfts' \in [Editions -> Nfts \cup {NoNft}]
  BY <1>0, <1>1, <1>2
<1>5. /\ listings' = [listings EXCEPT ![e] = [seller |-> u, price |-> price]]
      /\ [seller |-> u, price |-> price] \in Listings
      /\ [seller |-> u, price |-> price].price = price
  BY <1>0 DEF list, NewListing, Listings
<1>6. /\ listings' \in [Editions -> Listings \cup {NoListing}]
      /\ listings'[e] \in Listings /\ listings'[e].price = price
      /\ \A f \in Editions : f # e => listings'[f] = listings[f]
  BY <1>0, <1>5
<1>7. TypeOK'
  BY <1>0, <1>3, <1>4, <1>6 DEF list, TypeOK, Pasts
<1>8. listings'[e] # NoListing
  BY <1>6, NftAssumption
<1>9. past'.lists[e] = past.lists[e] + 1 /\ \A f \in Editions : f # e => past'.lists[f] = past.lists[f]
  BY <1>3, <1>a
<1>10. past'.sales[e] + 1 <= past'.lists[e] /\ past'.sales[e] <= past'.lists[e]
  BY <1>0, <1>3, <1>9, MintedFacts
<1>11. collection' = collection /\ now' = now
  BY DEF list
<1>12. IF n.listed THEN listings'[e] # NoListing /\ listings'[e].price = n.price ELSE n.price = 0
  BY <1>2, <1>6, <1>8
<1>13. past'.sales[e] + (IF n.listed THEN 1 ELSE 0) <= past'.lists[e]
  BY <1>2, <1>10
<1> QED
  BY <1>0, <1>1, <1>2, <1>3, <1>6, <1>7, <1>9, <1>10, <1>11, <1>12, <1>13, OneNft

LEMMA PaidType ==
  ASSUME lamports \in [Users -> Words], NEW b \in Users, NEW s \in Users, NEW c \in Users,
         NEW price \in Words
  PROVE  Paid(b, s, c, price) \in [Users -> Words]
<1> DEFINE r == Royalty(price)
           debited == [lamports EXCEPT ![b] = Word(@ - price)]
           credited == [debited EXCEPT ![s] = Word(@ + price - r)]
<1>1. r \in Nat /\ price \in Nat
  BY RoyaltyBound, ConstantFacts
<1>2. Paid(b, s, c, price) = [credited EXCEPT ![c] = Word(@ + r)]
  BY DEF Paid
<1> HIDE DEF r
<1>3. \A x \in Words : Word(x - price) \in Words /\ Word(x + price - r) \in Words
                       /\ Word(x + r) \in Words
  <2> SUFFICES ASSUME NEW x \in Words
               PROVE  Word(x - price) \in Words /\ Word(x + price - r) \in Words
                      /\ Word(x + r) \in Words
    OBVIOUS
  <2>1. x - price \in Int /\ x + price - r \in Int /\ x + r \in Int
    BY <1>1, ConstantFacts
  <2> QED
    BY <2>1, WordType
<1>4. debited \in [Users -> Words]
  BY <1>3
<1> HIDE DEF debited
<1>5. credited \in [Users -> Words]
  BY <1>3, <1>4
<1> HIDE DEF credited
<1> QED
  BY <1>2, <1>3, <1>5

LEMMA BuyKeeps ==
  ASSUME NftInv, NEW b \in Users, NEW s \in Users, NEW c \in Users, NEW e \in Editions,
         buy(b, s, c, e)
  PROVE  NftInv'
<1> DEFINE n == [nfts[e] EXCEPT !.owner = b, !.listed = FALSE, !.price = 0]
           p == [past EXCEPT !.sales[e] = @ + 1]
<1>0. /\ TypeOK /\ past \in Pasts /\ nfts[e] # NoNft /\ nfts[e] \in Nfts /\ nfts[e].listed
      /\ nfts \in [Editions -> Nfts \cup {NoNft}] /\ lamports \in [Users -> Words]
  BY StateFacts DEF NftInv, buy
<1>1. nfts' = [nfts EXCEPT ![e] = n]
  BY <1>0 DEF buy, Sold
<1>2. /\ n \in Nfts /\ n.edition = nfts[e].edition /\ n.traits = nfts[e].traits
      /\ n.pixels = nfts[e].pixels /\ n.listed = FALSE /\ n.price = 0
  BY <1>0, ConstantFacts DEF Nfts
<1>a. past.lists \in [Editions -> Nat] /\ past.sales \in [Editions -> Nat]
  BY <1>0 DEF Pasts
<1>b. /\ p \in Pasts /\ p.instructions = past.instructions /\ p.seed = past.seed
      /\ p.lists = past.lists /\ p.sales = [past.sales EXCEPT ![e] = @ + 1]
  BY <1>0 DEF Pasts
<1>c. Past(p)
  BY DEF buy
<1> HIDE DEF n, p
<1>3. /\ past' \in Pasts /\ past'.seed = past.seed /\ past'.lists = past.lists
      /\ past'.sales = [past.sales EXCEPT ![e] = @ + 1]
  BY <1>0, <1>b, <1>c, PastKeeps
<1>4. nfts' \in [Editions -> Nfts \cup {NoNft}]
  BY <1>0, <1>1, <1>2
<1>5. lamports' \in [Users -> Words]
  <2>1. nfts[e].price \in Words
    BY <1>0, NftFields
  <2>2. lamports' = Paid(b, s, c, nfts[e].price)
    BY DEF buy
  <2> QED
    BY <1>0, <2>1, <2>2, PaidType
<1>6. collection' = collection /\ now' = now /\ listings' = listings /\ arithmetic' = arithmetic
  BY DEF buy
<1>7. TypeOK'
  BY <1>0, <1>3, <1>4, <1>5, <1>6 DEF TypeOK, Pasts
<1>8. past'.sales[e] = past.sales[e] + 1 /\ \A f \in Editions : f # e => past'.sales[f] = past.sales[f]
  BY <1>3, <1>a
<1>9. past'.sales[e] <= past'.lists[e] /\ past'.sales[e] \in Nat
  BY <1>0, <1>3, <1>8, MintedFacts
<1>10. past'.sales[e] + (IF n.listed THEN 1 ELSE 0) <= past'.lists[e]
  BY <1>2, <1>9
<1>11. IF n.listed THEN listings'[e] # NoListing /\ listings'[e].price = n.price ELSE n.price = 0
  BY <1>2
<1> QED
  BY <1>0, <1>1, <1>2, <1>3, <1>6, <1>7, <1>8, <1>9, <1>10, <1>11, OneNft

LEMMA MintKeeps ==
  ASSUME NftInv, NEW u \in Users, mint(u)
  PROVE  NftInv'
<1> DEFINE e == collection.total_minted
           n == Minted(u, e)
           p == [past EXCEPT !.seed[e] = Seed(e)]
<1>0. /\ TypeOK /\ past \in Pasts /\ nfts \in [Editions -> Nfts \cup {NoNft}]
      /\ now \in 0 .. MaxTime /\ now \in Nat /\ collection \in Collections
  BY StateFacts DEF NftInv, mint, TypeOK
<1>1. /\ e \in Editions /\ nfts[e] = NoNft /\ nfts' = [nfts EXCEPT ![e] = n]
      /\ collection' = [collection EXCEPT !.total_minted = e + 1] /\ Past(p)
      /\ arithmetic' = arithmetic /\ listings' = listings /\ lamports' = lamports /\ now' = now
  BY DEF mint
<1>2. e \in Nat /\ e < MaxMints
  BY <1>1, ConstantFacts DEF Editions
<1>3. Seed(e) \in Words /\ (now + e \in Words => Seed(e) = now + e)
  <2>1. now + e \in Int
    BY <1>0, <1>2
  <2> QED
    BY <2>1, WordType DEF Seed
<1>4. /\ n \in Nfts /\ n.edition = e /\ n.listed = FALSE /\ n.price = 0
      /\ n.traits = generate_traits(Seed(e)) /\ n.pixels = generate_pixels(n.traits, e)
  <2>1. generate_traits(Seed(e)) \in [0 .. TRAIT_TYPES - 1 -> SUBSET (0 .. 3)]
    BY TraitsType
  <2>2. generate_pixels(generate_traits(Seed(e)), e)
          \in [(0 .. Side - 1) \X (0 .. Side - 1) -> SUBSET (0 .. 3)]
    BY PixelsType
  <2> QED
    BY <1>1, <2>1, <2>2, ConstantFacts DEF Minted, Nfts
<1>5. /\ p \in Pasts /\ p.instructions = past.instructions /\ p.lists = past.lists
      /\ p.sales = past.sales /\ p.seed = [past.seed EXCEPT ![e] = Seed(e)]
  BY <1>0, <1>3 DEF Pasts
<1>6. collection' \in Collections /\ collection'.total_minted = e + 1
  <2>1. e + 1 \in 0 .. MaxMints
    BY <1>2, ConstantFacts
  <2> QED
    BY <1>0, <1>1, <2>1 DEF Collections
<1>c. collection # NoCollection /\ collection' # NoCollection
  BY <1>0, <1>6, NftAssumption
<1>d. \A f \in Editions : nfts[f] # NoNft <=> f < e
  BY <1>c DEF NftInv, EditionsAreConsecutive
<1> HIDE DEF e, n, p
<1>7. /\ past' \in Pasts /\ past'.lists = past.lists /\ past'.sales = past.sales
      /\ past'.seed = [past.seed EXCEPT ![e] = Seed(e)]
  BY <1>0, <1>1, <1>5, PastKeeps
<1>8. /\ nfts' \in [Editions -> Nfts \cup {NoNft}] /\ nfts'[e] = n
      /\ \A f \in Editions : f # e => nfts'[f] = nfts[f]
  BY <1>0, <1>1, <1>4
<1>9. TypeOK'
  BY <1>0, <1>1, <1>6, <1>7, <1>8 DEF TypeOK, Pasts
<1>10. past'.seed[e] = Seed(e) /\ \A f \in Editions : f # e => past'.seed[f] = past.seed[f]
  <2>1. past.seed \in [Editions -> Words]
    BY <1>0 DEF Pasts
  <2> QED
    BY <1>1, <1>7, <2>1
<1>11. n # NoNft
  BY <1>4, NftFields
<1>12. Minteds' = Minteds \cup {e} /\ e \notin Minteds
  BY <1>1, <1>8, <1>11 DEF Minteds
<1>13. EditionsAreConsecutive'
  <2>1. ASSUME NEW f \in Editions
        PROVE  nfts'[f] # NoNft <=> collection' # NoCollection /\ f < collection'.total_minted
    <3>1. f \in Nat
      BY ConstantFacts
    <3>2. CASE f = e
      BY <1>2, <1>6, <1>8, <1>11, <1>c, <3>2
    <3>3. CASE f # e
      BY <1>2, <1>6, <1>8, <1>c, <1>d, <3>1, <3>3
    <3> QED
      BY <3>2, <3>3
  <2>2. ASSUME NEW f \in Minteds \cup {e} PROVE nfts'[f].edition = f
    <3>1. CASE f = e
      BY <1>4, <1>8, <3>1
    <3>2. CASE f # e
      BY <1>8, <3>2 DEF NftInv, EditionsAreConsecutive, Minteds
    <3> QED
      BY <3>1, <3>2
  <2> QED
    BY <1>12, <2>1, <2>2 DEF EditionsAreConsecutive
<1>14. ArtFollowsSeed'
  <2> SUFFICES ASSUME NEW f \in Minteds \cup {e}
               PROVE  /\ nfts'[f].traits = generate_traits(past'.seed[f])
                      /\ nfts'[f].pixels = generate_pixels(nfts'[f].traits, nfts'[f].edition)
    BY <1>12 DEF ArtFollowsSeed
  <2>1. CASE f = e
    <3>1. nfts'[f] = n /\ past'.seed[f] = Seed(e)
      BY <1>8, <1>10, <2>1
    <3>2. n.traits = generate_traits(Seed(e)) /\ n.pixels = generate_pixels(n.traits, e)
          /\ n.edition = e
      BY <1>4
    <3> QED
      BY <3>1, <3>2, Zenon
  <2>2. CASE f # e
    <3>1. f \in Minteds /\ f \in Editions
      BY <2>2 DEF Minteds
    <3>2. nfts'[f] = nfts[f] /\ past'.seed[f] = past.seed[f]
      BY <1>8, <1>10, <2>2, <3>1
    <3>3. /\ nfts[f].traits = generate_traits(past.seed[f])
          /\ nfts[f].pixels = generate_pixels(nfts[f].traits, nfts[f].edition)
      BY <3>1 DEF NftInv, ArtFollowsSeed
    <3> QED
      BY <3>2, <3>3, Zenon
  <2> QED
    BY <2>1, <2>2
<1>15. ASSUME MaxTime + MaxMints \in Words
       PROVE  /\ \A f \in Minteds \cup {e} : past'.seed[f] <= now + f
              /\ \A f, g \in Minteds \cup {e} : f < g => past'.seed[f] < past'.seed[g]
  <2>1. now + e \in Words
    <3>1. now + e \in Nat /\ now + e <= MaxTime + MaxMints /\ MaxTime + MaxMints \in Nat
      BY <1>0, <1>2, ConstantFacts
    <3>2. \A x, y \in Nat : y \in Words /\ x <= y => x \in Words
      BY ConstantFacts DEF Words
    <3> QED
      BY <1>15, <3>1, <3>2
  <2>2. past'.seed[e] = now + e
    BY <1>3, <1>10, <2>1
  <2>3. \A f \in Minteds : f \in Nat /\ f < e /\ f # e /\ f \in Editions
    BY <1>2, <1>d, ConstantFacts DEF Minteds
  <2>4. \A f \in Minteds : past'.seed[f] = past.seed[f] /\ past.seed[f] <= now + f
    BY <1>10, <1>15, <2>3 DEF NftInv, SeedInv
  <2>5. \A f \in Minteds : past.seed[f] \in Nat
    <3>1. past.seed \in [Editions -> Words]
      BY <1>0 DEF Pasts
    <3> QED
      BY <2>3, <3>1, ConstantFacts
  <2>6. \A f \in Minteds \cup {e} : past'.seed[f] <= now + f
    BY <1>0, <1>2, <2>2, <2>4
  <2>7. ASSUME NEW f \in Minteds \cup {e}, NEW g \in Minteds \cup {e}, f < g
        PROVE  past'.seed[f] < past'.seed[g]
    <3>1. CASE g = e
      <4>1. f \in Minteds
        BY <1>2, <2>7, <3>1
      <4>2. past'.seed[f] \in Nat /\ past'.seed[f] <= now + f /\ f < e /\ f \in Nat
        BY <2>3, <2>4, <2>5, <4>1
      <4> QED
        BY <1>0, <1>2, <2>2, <3>1, <4>2
    <3>2. CASE g # e
      <4>1. g \in Minteds /\ g \in Nat /\ g < e
        BY <2>3, <3>2
      <4>2. f \in Minteds
        BY <1>2, <2>7, <4>1
      <4>3. past.seed[f] < past.seed[g]
        BY <1>15, <2>7, <4>1, <4>2 DEF NftInv, SeedsDiffer
      <4> QED
        BY <2>4, <4>1, <4>2, <4>3
    <3> QED
      BY <3>1, <3>2
  <2> QED
    BY <2>6, <2>7
<1>16. SeedsDiffer' /\ SeedInv'
  BY <1>1, <1>12, <1>15 DEF SeedsDiffer, SeedInv
<1>17. SalesInv'
  BY <1>7 DEF NftInv, SalesInv
<1>18. ListedAtTheListing' /\ NoDoubleSale'
  <2>1. ASSUME NEW f \in Minteds \cup {e}
        PROVE  /\ IF nfts'[f].listed
                  THEN listings'[f] # NoListing /\ listings'[f].price = nfts'[f].price
                  ELSE nfts'[f].price = 0
               /\ past'.sales[f] + (IF nfts'[f].listed THEN 1 ELSE 0) <= past'.lists[f]
    <3>1. CASE f = e
      <4>1. past.sales[e] <= past.lists[e] /\ past.sales[e] \in Nat
        BY <1>0, <1>1 DEF NftInv, SalesInv, Pasts
      <4> QED
        BY <1>4, <1>7, <1>8, <3>1, <4>1
    <3>2. CASE f # e
      BY <1>1, <1>7, <1>8, <3>2 DEF NftInv, ListedAtTheListing, NoDoubleSale, Minteds
    <3> QED
      BY <3>1, <3>2
  <2> QED
    BY <1>12, <2>1 DEF ListedAtTheListing, NoDoubleSale
<1> QED
  BY <1>9, <1>13, <1>14, <1>16, <1>17, <1>18 DEF NftInv

LEMMA NftInvNext == NftInv /\ [Next]_vars => NftInv'
<1> SUFFICES ASSUME NftInv, [Next]_vars PROVE NftInv'
  OBVIOUS
<1>1. CASE UNCHANGED vars
  BY <1>1 DEF vars, NftInv, TypeOK, EditionsAreConsecutive, ArtFollowsSeed, SeedsDiffer, SeedInv,
              ListedAtTheListing, NoDoubleSale, SalesInv, Minteds
<1>2. CASE Next
  BY <1>2, TickKeeps, CreateKeeps, MintKeeps, TransferKeeps, ListKeeps, BuyKeeps DEF Next
<1> QED
  BY <1>1, <1>2

LEMMA NftInvariant == Spec => []NftInv
  BY NftInvInit, NftInvNext, PTL DEF Spec

--------------------------------------------------------------------------------
\* The accounts keep their types, balances their word and traits their four bits.
THEOREM NftTypes == Spec => []TypeOK
<1>1. NftInv => TypeOK
  BY DEF NftInv
<1> QED
  BY <1>1, NftInvariant, PTL

\* mint numbers the NFTs one after the other, each once.
THEOREM MintIsConsecutive == Spec => []EditionsAreConsecutive
<1>1. NftInv => EditionsAreConsecutive
  BY DEF NftInv
<1> QED
  BY <1>1, NftInvariant, PTL

\* An NFT keeps the picture mint made of its seed, whatever the generator computes.
THEOREM PictureStays == Spec => []ArtFollowsSeed
<1>1. NftInv => ArtFollowsSeed
  BY DEF NftInv
<1> QED
  BY <1>1, NftInvariant, PTL

\* No two calls of mint use the same seed, for every clock and number of NFTs.
THEOREM MintSeedsDiffer == Spec => []SeedsDiffer
<1>1. NftInv => SeedsDiffer
  BY DEF NftInv
<1> QED
  BY <1>1, NftInvariant, PTL

\* The NFT's and the listing's copy of a price agree after any list, transfer and buy.
THEOREM ListingsAgree == Spec => []ListedAtTheListing
<1>1. NftInv => ListedAtTheListing
  BY DEF NftInv
<1> QED
  BY <1>1, NftInvariant, PTL

\* buy uses up a listing of its own each time.
THEOREM SalesAreListed == Spec => []NoDoubleSale
<1>1. NftInv => NoDoubleSale
  BY DEF NftInv
<1> QED
  BY <1>1, NftInvariant, PTL

\* buy's royalty is within the price, for every royalty of at most the whole and every
\* width of the product.
THEOREM RoyaltyFits == Spec => []RoyaltyWithinPrice
<1>1. NftInv => RoyaltyWithinPrice
  <2> SUFFICES ASSUME NftInv, NEW e \in Minteds PROVE Royalty(nfts[e].price) <= nfts[e].price
    BY DEF RoyaltyWithinPrice
  <2>1. nfts[e].price \in Words
    BY StateFacts, NftFields DEF NftInv, Minteds
  <2> QED
    BY <2>1, RoyaltyBound
<1> QED
  BY <1>1, NftInvariant, PTL
================================================================================
