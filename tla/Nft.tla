---------------------------------- MODULE Nft ----------------------------------
(***************************************************************************)
(* examples/02-nft/src/lib.rs: a collection of generated pictures with a   *)
(* marketplace.                                                            *)
(*                                                                         *)
(* An instruction is one action; one that fails a require!, an account     *)
(* constraint, a check of the runtime or a panic changes nothing and is no *)
(* step here.  An account at a derived address is a function of what it is *)
(* derived from: the NFT and the listing of every edition.  Anybody may    *)
(* pass any account as receiver, seller or creator.  name, symbol and      *)
(* max_supply are stored and never read.                                   *)
(*                                                                         *)
(* Editions stay far below a word; prices need not, and plain arithmetic   *)
(* on u64 panics or wraps depending on the build.  The generator's words   *)
(* are the sets of their one bits.                                         *)
(*                                                                         *)
(* An operator named Mutant... is a faulty version of the definition that  *)
(* follows it, used only to show that a property can fail.                 *)
(***************************************************************************)
EXTENDS Integers, FiniteSetsExt

CONSTANTS
  Users,
  ProgramOwned,     \* the users whose account the program may debit
  NoCollection, NoNft, NoListing,
  WordBits,         \* 64
  Side,             \* pixels in a row and in a column: 8
  ROYALTY_BPS, BpsDenominator,
  Prices,           \* asked for by sellers
  Wealth,           \* the lamports each user starts with
  MaxMints, MaxTime, MaxInstructions   \* bounds of a run

Words == 0 .. 2^WordBits - 1

Editions == 0 .. MaxMints - 1

TRAIT_TYPES == 5

Collections == [authority : Users, total_minted : 0 .. MaxMints]

Nfts ==
  [owner : Users, edition : Editions, traits : [0 .. TRAIT_TYPES - 1 -> SUBSET (0 .. 3)],
   pixels : [(0 .. Side - 1) \X (0 .. Side - 1) -> SUBSET (0 .. 3)],
   listed : BOOLEAN, price : Words]

Listings == [seller : Users, price : Words]

\* The size of a word is stated, since the provers do not compute powers.
ASSUME NftAssumption ==
  /\ ProgramOwned \subseteq Users
  /\ WordBits \in Nat /\ 2^WordBits \in Nat \ {0} /\ Side \in Nat
  /\ ROYALTY_BPS \in Nat /\ BpsDenominator \in Nat \ {0} /\ ROYALTY_BPS <= BpsDenominator
  /\ Prices \subseteq Words /\ Wealth \in Words
  /\ MaxMints \in Nat /\ MaxTime \in Nat /\ MaxInstructions \in Nat
  /\ NoCollection \notin Collections /\ NoNft \notin Nfts /\ NoListing \notin Listings

VARIABLES
  arithmetic,  \* "panics" or "wraps", chosen by the build
  collection,  \* the Collection
  nfts,        \* the Nft of every edition
  listings,    \* the Listing of every edition
  lamports,
  now,         \* the clock
  past         \* history of every edition: the seed it was minted with, how often it
               \* was listed and sold; and the instructions so far

vars == <<arithmetic, collection, nfts, listings, lamports, now, past>>

Word(x) == x % 2^WordBits

\* None of these results panics.
NoPanic(results) == arithmetic = "wraps" \/ results \subseteq Words

--------------------------------------------------------------------------------
(* The generator.                                                           *)
Bits == 0 .. WordBits - 1

BitsOf(n) == {b \in Bits : (n \div 2^b) % 2 = 1}

Value(w) == MapThenSumSet(LAMBDA b : 2^b, w)

Xor(v, w) == (v \ w) \cup (w \ v)

ShiftLeft(w, k) == {b + k : b \in w} \cap Bits

ShiftRight(w, k) == {b - k : b \in w} \cap Bits

Nibble(w, k) == ShiftRight(w, k) \cap 0 .. 3

XorShift(w) ==
  LET a == Xor(w, ShiftLeft(w, 13))
      b == Xor(a, ShiftRight(a, 7))
  IN  Xor(b, ShiftLeft(b, 17))

generate_traits(seed) ==
  LET state[i \in 0 .. TRAIT_TYPES - 1] ==
        XorShift(IF i = 0 THEN BitsOf(seed) ELSE state[i - 1])
  IN  [i \in 0 .. TRAIT_TYPES - 1 |-> Nibble(state[i], 4 * i)]

generate_pixels(traits, edition) ==
  LET trait(i) == Value(traits[i])
      pattern(x, y) ==
        Xor(Xor(Xor(BitsOf(trait(0) * (x + 1)), BitsOf(trait(1) * (y + 1))),
                Xor(BitsOf(trait(2) * (x + y + 1)), BitsOf(trait(3) * edition * 13))),
            BitsOf(trait(4) * edition * 7))
  IN  [p \in (0 .. Side - 1) \X (0 .. Side - 1) |->
         Nibble(pattern(p[1], p[2]), 2 * (trait(0) % 4))]

--------------------------------------------------------------------------------
Init ==
  /\ arithmetic \in {"panics", "wraps"}
  /\ collection = NoCollection
  /\ nfts = [e \in Editions |-> NoNft]
  /\ listings = [e \in Editions |-> NoListing]
  /\ lamports = [u \in Users |-> Wealth]
  /\ now = 0
  /\ past = [seed |-> [e \in Editions |-> 0], lists |-> [e \in Editions |-> 0],
             sales |-> [e \in Editions |-> 0], instructions |-> 0]

\* History and the bound.
Past(p) ==
  /\ past.instructions < MaxInstructions
  /\ past' = [p EXCEPT !.instructions = @ + 1]

\* init refuses a second collection.
initialize_collection(authority) ==
  /\ collection = NoCollection
  /\ collection' = [authority |-> authority, total_minted |-> 0]
  /\ Past(past)
  /\ UNCHANGED <<arithmetic, nfts, listings, lamports, now>>

Seed(edition) == Word(now + edition)

Minted(minter, edition) ==
  LET traits == generate_traits(Seed(edition))
  IN  [owner |-> minter, edition |-> edition, traits |-> traits,
       pixels |-> generate_pixels(traits, edition), listed |-> FALSE, price |-> 0]

\* The NFT's address is derived from total_minted, and init refuses one that is there.
\* max_supply is not looked at.
mint(minter) ==
  LET e == collection.total_minted
  IN  /\ collection # NoCollection /\ e \in Editions
      /\ nfts[e] = NoNft
      /\ NoPanic({now + e})
      /\ nfts' = [nfts EXCEPT ![e] = Minted(minter, e)]
      /\ collection' = [collection EXCEPT !.total_minted = e + 1]
      /\ Past([past EXCEPT !.seed[e] = Seed(e)])
      /\ UNCHANGED <<arithmetic, listings, lamports, now>>

\* Whoever signs, whoever owns it.  A listed NFT stays listed.
transfer(receiver, e) ==
  /\ nfts[e] # NoNft
  /\ nfts' = [nfts EXCEPT ![e].owner = receiver]
  /\ Past(past)
  /\ UNCHANGED <<arithmetic, collection, listings, lamports, now>>

MutantKeepsOldListing(seller, e, price) ==
  IF listings[e] = NoListing THEN [seller |-> seller, price |-> price] ELSE listings[e]

\* init_if_needed: an old listing is overwritten.
NewListing(seller, e, price) == [seller |-> seller, price |-> price]

list(seller, e, price) ==
  /\ nfts[e] # NoNft /\ nfts[e].owner = seller
  /\ nfts' = [nfts EXCEPT ![e].listed = TRUE, ![e].price = price]
  /\ listings' = [listings EXCEPT ![e] = NewListing(seller, e, price)]
  /\ Past([past EXCEPT !.lists[e] = @ + 1])
  /\ UNCHANGED <<arithmetic, collection, lamports, now>>

MutantNotDivided(price) == Word(price * ROYALTY_BPS)

Royalty(price) == Word(price * ROYALTY_BPS) \div BpsDenominator

\* One balance after another: the three accounts may be the same.
Paid(buyer, seller, creator, price) ==
  LET debited == [lamports EXCEPT ![buyer] = Word(@ - price)]
      credited == [debited EXCEPT ![seller] = Word(@ + price - Royalty(price))]
  IN  [credited EXCEPT ![creator] = Word(@ + Royalty(price))]

Total(balances) == MapThenSumSet(LAMBDA u : balances[u], Users)

MutantStaysListed(buyer, e) == [nfts EXCEPT ![e].owner = buyer, ![e].price = 0]

Sold(buyer, e) == [nfts EXCEPT ![e].owner = buyer, ![e].listed = FALSE, ![e].price = 0]

\* The runtime (external) refuses a debit of an account that is not the program's and
\* an instruction that creates or destroys lamports.
buy(buyer, seller, creator, e) ==
  LET price == nfts[e].price
  IN  /\ collection # NoCollection
      /\ nfts[e] # NoNft /\ nfts[e].listed
      /\ NoPanic({price * ROYALTY_BPS, price - Royalty(price), lamports[buyer] - price})
      /\ lamports' = Paid(buyer, seller, creator, price)
      /\ Total(lamports') = Total(lamports)
      /\ lamports'[buyer] >= lamports[buyer] \/ buyer \in ProgramOwned
      /\ nfts' = Sold(buyer, e)
      /\ Past([past EXCEPT !.sales[e] = @ + 1])
      /\ UNCHANGED <<arithmetic, collection, listings, now>>

\* External: a second passes.
Tick ==
  /\ now < MaxTime
  /\ now' = now + 1
  /\ UNCHANGED <<arithmetic, collection, nfts, listings, lamports, past>>

Next ==
  \/ Tick
  \/ \E u \in Users :
       \/ initialize_collection(u)
       \/ mint(u)
       \/ \E e \in Editions :
            \/ transfer(u, e)
            \/ \E price \in Prices : list(u, e, price)
            \/ \E seller, creator \in Users : buy(u, seller, creator, e)

Spec == Init /\ [][Next]_vars
--------------------------------------------------------------------------------
Minteds == {e \in Editions : nfts[e] # NoNft}

TypeOK ==
  /\ arithmetic \in {"panics", "wraps"}
  /\ collection \in Collections \cup {NoCollection}
  /\ nfts \in [Editions -> Nfts \cup {NoNft}]
  /\ listings \in [Editions -> Listings \cup {NoListing}]
  /\ lamports \in [Users -> Words]
  /\ now \in 0 .. MaxTime
  /\ past \in [seed : [Editions -> Words], lists : [Editions -> Nat],
               sales : [Editions -> Nat], instructions : 0 .. MaxInstructions]

\* The NFTs are the editions below total_minted, each under its own number.
EditionsAreConsecutive ==
  /\ \A e \in Editions :
       nfts[e] # NoNft <=> collection # NoCollection /\ e < collection.total_minted
  /\ \A e \in Minteds : nfts[e].edition = e

\* An NFT shows forever the picture of the seed it was minted with: nothing mints it
\* again, and its pixels can be recomputed from its own traits and edition.
ArtFollowsSeed ==
  \A e \in Minteds :
    /\ nfts[e].traits = generate_traits(past.seed[e])
    /\ nfts[e].pixels = generate_pixels(nfts[e].traits, nfts[e].edition)

\* No two NFTs are minted from the same seed, also within one second.
SeedsDiffer ==
  MaxTime + MaxMints \in Words =>
    \A e, f \in Minteds : e < f => past.seed[e] < past.seed[f]

\* The two copies of a price agree: a listed NFT has a listing with its price, an
\* unlisted one has price 0, whoever owns it by then.
ListedAtTheListing ==
  \A e \in Minteds :
    IF nfts[e].listed
    THEN listings[e] # NoListing /\ listings[e].price = nfts[e].price
    ELSE nfts[e].price = 0

\* Every sale uses up a listing of its own.
NoDoubleSale ==
  \A e \in Minteds :
    past.sales[e] + (IF nfts[e].listed THEN 1 ELSE 0) <= past.lists[e]

\* The royalty never exceeds the price, also where its product has wrapped, so the
\* seller's part does not underflow.
RoyaltyWithinPrice == \A e \in Minteds : Royalty(nfts[e].price) <= nfts[e].price
================================================================================
