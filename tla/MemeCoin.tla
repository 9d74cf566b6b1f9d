------------------------------- MODULE MemeCoin -------------------------------
(***************************************************************************)
(* examples/01-meme-coin/src/lib.rs: a constant-product pool of SOL and a  *)
(* token, one of the programs krastor is tried on.                         *)
(*                                                                         *)
(* An instruction is one action: a Solana transaction is atomic, so one    *)
(* that fails a require!, a checked operation, a transfer or a panic       *)
(* changes nothing and is no step here.  Trade, AddLiquidity and           *)
(* RemoveLiquidity ask no more of the token accounts and the LP mint than  *)
(* mut: a client hands over any that the token program then accepts.  An   *)
(* account is its mint and its owner, whose accounts of one mint count as  *)
(* one.                                                                    *)
(*                                                                         *)
(* The token program and the runtime are external: lamports and tokens     *)
(* move only when there are enough, a mint's supply must stay a word, and  *)
(* all lamports together are one.  Lamports are counted above the rent.    *)
(*                                                                         *)
(* Plain +, - and * on u64 panic or wrap depending on the build (the crate *)
(* sets no overflow-checks); arithmetic says which.                        *)
(*                                                                         *)
(* An operator named Mutant... is a faulty version of the definition that  *)
(* follows it, used only to show that a property can fail.                 *)
(***************************************************************************)
EXTENDS Integers, FiniteSets

CONSTANTS
  Users,
  PoolKey,          \* the pool's address, and the owner of its token account
  NoPool,
  PoolMint,         \* pool.mint, which create_pool makes
  OtherMints,       \* every other mint, the LP mint among them
  Authority,        \* who may mint them
  WordSize,         \* 2^64
  FeeBps, FeeDenominator, MinimumLiquidity,
  Amounts,          \* the amounts clients ask for
  Wealth,           \* the lamports each user starts with
  MaxInstructions   \* bound: the instructions of a run

Words == 0 .. WordSize - 1

Holders == Users \cup {PoolKey}

Mints == OtherMints \cup {PoolMint}

Accounts == [mint : Mints, owner : Holders]

\* CreatePool's pool_token_account.
PoolAccount == [mint |-> PoolMint, owner |-> PoolKey]

Pools ==
  [creator : Users, sol_reserve : Words, token_reserve : Words, lp_supply : Words,
   total_fees_collected : Words, paused : BOOLEAN]

ASSUME MemeCoinAssumption ==
  /\ IsFiniteSet(Users) /\ PoolKey \notin Users
  /\ PoolMint \notin OtherMints /\ Authority \in [OtherMints -> Holders]
  /\ WordSize \in Nat \ {0} /\ FeeDenominator \in Nat \ {0}
  /\ FeeBps \in 0 .. FeeDenominator /\ MinimumLiquidity \in Nat
  /\ Amounts \subseteq Words
  /\ Wealth \in Nat /\ Wealth * Cardinality(Users) < WordSize
  /\ MaxInstructions \in Nat
  /\ NoPool \notin Pools

VARIABLES
  arithmetic,  \* "panics" or "wraps", chosen by the build
  pool,        \* the pool's account
  lamports,    \* of the users and the pool
  tokens,      \* in the token accounts
  supply,      \* of the mints
  past         \* history: what create_pool promised, the SOL fees, the tokens the
               \* reserve counts though they went elsewhere, whether a sum of the
               \* token reserve has wrapped, and the instructions so far

vars == <<arithmetic, pool, lamports, tokens, supply, past>>

Least(x, y) == IF x < y THEN x ELSE y

--------------------------------------------------------------------------------
(* Arithmetic of u64.                                                       *)
Word(x) == x % WordSize

\* None of these results panics.
NoPanic(results) == arithmetic = "wraps" \/ results \subseteq Words

\* checked_mul in the fee: an overflow is an error in every build.
Fee(x) == (x * FeeBps) \div FeeDenominator

FeeFits(x) == x * FeeBps \in Words

MutantRoundsUp(reserve_out, reserve_in, x) ==
  LET d == Word(reserve_in + x) IN IF d > 0 THEN (Word(reserve_out * x) + d - 1) \div d ELSE 0

\* numerator / denominator of buy and sell.
Quote(reserve_out, reserve_in, x) ==
  LET d == Word(reserve_in + x) IN IF d > 0 THEN Word(reserve_out * x) \div d ELSE 0

\* The integer square root; the code takes it of an f64, exact below 2^53.
Sqrt(x) == CHOOSE r \in 0 .. x : r * r <= x /\ (r + 1) * (r + 1) > x

MutantLargerShare(p, sol_in, token_in) ==
  IF p.lp_supply = 0 THEN Sqrt(sol_in * token_in) - MinimumLiquidity
  ELSE LET a == Word(sol_in * p.lp_supply) \div p.sol_reserve
           b == Word(token_in * p.lp_supply) \div p.token_reserve
       IN  a + b - Least(a, b)

\* lp_to_mint; a negative difference saturates at 0 and is refused like 0.
LpToMint(p, sol_in, token_in) ==
  IF p.lp_supply = 0
  THEN Sqrt(sol_in * token_in) - MinimumLiquidity
  ELSE Least(Word(sol_in * p.lp_supply) \div p.sol_reserve,
             Word(token_in * p.lp_supply) \div p.token_reserve)

\* A division by zero panics in every build.
LpComputes(p, sol_in, token_in) ==
  \/ p.lp_supply = 0
  \/ /\ p.sol_reserve > 0 /\ p.token_reserve > 0
     /\ NoPanic({sol_in * p.lp_supply, token_in * p.lp_supply})

\* An LP's share of a reserve, in u128.
Share(reserve, lp_amount, lp_supply) == (reserve * lp_amount) \div lp_supply

\* A transfer of lamports or tokens, possibly of an account to itself.
Move(balance, from, to, x) == [[balance EXCEPT ![from] = @ - x] EXCEPT ![to] = @ + x]

\* The token program's conditions on a transfer, a mint_to and a burn.
CanTransfer(authority, from, to, x) ==
  from.owner = authority /\ from.mint = to.mint /\ tokens[from] >= x

MintAuthority(mint) ==
  IF mint # PoolMint THEN {Authority[mint]} ELSE IF pool = NoPool THEN {} ELSE {pool.creator}

CanMint(authority, to, x) ==
  authority \in MintAuthority(to.mint) /\ supply[to.mint] + x \in Words

CanBurn(authority, from, x) ==
  from.owner = authority /\ tokens[from] >= x /\ supply[from.mint] >= x

--------------------------------------------------------------------------------
(* What an instruction writes to the pool's account.                        *)
MutantFeeTwice(p, net, fee, out) ==
  [p EXCEPT !.sol_reserve = Word(@ + net + fee), !.token_reserve = Word(@ - out),
            !.total_fees_collected = Word(@ + fee)]

MutantKeepsTokens(p, net, fee, out) ==
  [p EXCEPT !.sol_reserve = Word(@ + net), !.total_fees_collected = Word(@ + fee)]

Bought(p, net, fee, out) ==
  [p EXCEPT !.sol_reserve = Word(@ + net), !.token_reserve = Word(@ - out),
            !.total_fees_collected = Word(@ + fee)]

Sold(p, net, fee, out) ==
  [p EXCEPT !.token_reserve = Word(@ + net), !.sol_reserve = Word(@ - out),
            !.total_fees_collected = Word(@ + fee)]

Deposited(p, sol_in, token_in, x) ==
  [p EXCEPT !.sol_reserve = Word(@ + sol_in), !.token_reserve = Word(@ + token_in),
            !.lp_supply = Word(@ + x)]

Redeemed(p, sol_share, token_share, x) ==
  [p EXCEPT !.sol_reserve = Word(@ - sol_share), !.token_reserve = Word(@ - token_share),
            !.lp_supply = Word(@ - x)]

--------------------------------------------------------------------------------
Init ==
  /\ arithmetic \in {"panics", "wraps"}
  /\ pool = NoPool
  /\ lamports = [h \in Holders |-> IF h = PoolKey THEN 0 ELSE Wealth]
  /\ tokens = [a \in Accounts |-> 0]
  /\ supply = [m \in Mints |-> 0]
  /\ past = [initial |-> 0, sol_fees |-> 0, diverted |-> 0, wrapped |-> FALSE,
             instructions |-> 0]

\* History.
Past(p) == past' = [p EXCEPT !.instructions = @ + 1]

\* The reserve counts x tokens that went to an account.
Received(to, x) ==
  [past EXCEPT !.diverted = IF to = PoolAccount THEN @ ELSE @ + x,
               !.wrapped = @ \/ pool.token_reserve + x \notin Words]

\* The initial tokens go to the creator's account, not to the pool's.
create_pool(creator, amount) ==
  /\ pool = NoPool
  /\ lamports[creator] >= amount
  /\ pool' = [creator |-> creator, sol_reserve |-> amount, token_reserve |-> amount,
              lp_supply |-> 0, total_fees_collected |-> 0, paused |-> FALSE]
  /\ lamports' = Move(lamports, creator, PoolKey, amount)
  /\ tokens' = [tokens EXCEPT ![[mint |-> PoolMint, owner |-> creator]] = @ + amount]
  /\ supply' = [supply EXCEPT ![PoolMint] = amount]
  /\ Past([past EXCEPT !.initial = amount])
  /\ UNCHANGED arithmetic

Trading == pool # NoPool /\ ~pool.paused

\* The pool signs for its accounts, of whatever mint.
buy(user, from, to, sol_in) ==
  LET fee == Fee(sol_in)
      net == sol_in - fee
      out == Quote(pool.token_reserve, pool.sol_reserve, net)
  IN  /\ Trading /\ sol_in > 0 /\ FeeFits(sol_in)
      /\ NoPanic({pool.token_reserve * net, pool.sol_reserve + net})
      /\ out > 0
      /\ lamports[user] >= sol_in /\ CanTransfer(PoolKey, from, to, out)
      /\ NoPanic({pool.token_reserve - out, pool.total_fees_collected + fee})
      /\ pool' = Bought(pool, net, fee, out)
      /\ lamports' = Move(lamports, user, PoolKey, sol_in)
      /\ tokens' = Move(tokens, from, to, out)
      /\ Past([past EXCEPT !.sol_fees = @ + fee])
      /\ UNCHANGED <<arithmetic, supply>>

\* The fee is taken in tokens and added to the same counter.
sell(user, from, to, token_in) ==
  LET fee == Fee(token_in)
      net == token_in - fee
      out == Quote(pool.sol_reserve, pool.token_reserve, net)
  IN  /\ Trading /\ token_in > 0 /\ FeeFits(token_in)
      /\ NoPanic({pool.sol_reserve * net, pool.token_reserve + net})
      /\ out > 0
      /\ CanTransfer(user, from, to, token_in) /\ lamports[PoolKey] >= out
      /\ NoPanic({pool.sol_reserve - out, pool.total_fees_collected + fee})
      /\ pool' = Sold(pool, net, fee, out)
      /\ lamports' = Move(lamports, PoolKey, user, out)
      /\ tokens' = Move(tokens, from, to, token_in)
      /\ Past(Received(to, net))
      /\ UNCHANGED <<arithmetic, supply>>

\* The mint of lp_to is lp_mint.
add_liquidity(user, from, to, lp_to, sol_in, token_in) ==
  LET x == LpToMint(pool, sol_in, token_in)
  IN  /\ Trading /\ sol_in > 0 /\ token_in > 0
      /\ LpComputes(pool, sol_in, token_in)
      /\ x > 0
      /\ lamports[user] >= sol_in
      /\ CanTransfer(user, from, to, token_in) /\ CanMint(PoolKey, lp_to, x)
      /\ NoPanic({pool.sol_reserve + sol_in, pool.token_reserve + token_in, pool.lp_supply + x})
      /\ pool' = Deposited(pool, sol_in, token_in, x)
      /\ lamports' = Move(lamports, user, PoolKey, sol_in)
      /\ tokens' = [Move(tokens, from, to, token_in) EXCEPT ![lp_to] = @ + x]
      /\ supply' = [supply EXCEPT ![lp_to.mint] = @ + x]
      /\ Past(Received(to, token_in))
      /\ UNCHANGED arithmetic

\* The mint of lp_from is lp_mint.
remove_liquidity(user, lp_from, from, to, lp_amount) ==
  LET sol_share == Share(pool.sol_reserve, lp_amount, pool.lp_supply)
      token_share == Share(pool.token_reserve, lp_amount, pool.lp_supply)
  IN  /\ Trading /\ lp_amount > 0 /\ lp_amount <= pool.lp_supply
      /\ CanBurn(user, lp_from, lp_amount)
      /\ lamports[PoolKey] >= sol_share /\ CanTransfer(PoolKey, from, to, token_share)
      /\ pool' = Redeemed(pool, sol_share, token_share, lp_amount)
      /\ lamports' = Move(lamports, PoolKey, user, sol_share)
      /\ tokens' = Move([tokens EXCEPT ![lp_from] = @ - lp_amount], from, to, token_share)
      /\ supply' = [supply EXCEPT ![lp_from.mint] = @ - lp_amount]
      /\ Past(past)
      /\ UNCHANGED arithmetic

\* The creator remains the mint's authority; any other mint's may call it too.
evil_mint(authority, destination, amount) ==
  /\ CanMint(authority, destination, amount)
  /\ supply' = [supply EXCEPT ![destination.mint] = @ + amount]
  /\ tokens' = [tokens EXCEPT ![destination] = @ + amount]
  /\ Past(past)
  /\ UNCHANGED <<arithmetic, pool, lamports>>

set_paused(authority, paused) ==
  /\ pool # NoPool /\ authority = pool.creator
  /\ pool' = [pool EXCEPT !.paused = paused]
  /\ Past(past)
  /\ UNCHANGED <<arithmetic, lamports, tokens, supply>>

\* External: lamports and tokens are paid, and tokens burned, without the program.
Outside(user, from, to, x) ==
  /\ x > 0
  /\ \/ /\ lamports[user] >= x
        /\ lamports' = Move(lamports, user, to.owner, x)
        /\ UNCHANGED <<tokens, supply>>
     \/ /\ CanTransfer(user, from, to, x)
        /\ tokens' = Move(tokens, from, to, x)
        /\ UNCHANGED <<lamports, supply>>
     \/ /\ CanBurn(user, from, x)
        /\ tokens' = [tokens EXCEPT ![from] = @ - x]
        /\ supply' = [supply EXCEPT ![from.mint] = @ - x]
        /\ UNCHANGED lamports
  /\ Past(past)
  /\ UNCHANGED <<arithmetic, pool>>

Next ==
  /\ past.instructions < MaxInstructions
  /\ \E u \in Users, x \in Amounts :
       \/ create_pool(u, x)
       \/ set_paused(u, x = 0)
       \/ \E to \in Accounts : evil_mint(u, to, x)
       \/ \E from, to \in Accounts :
            \/ buy(u, from, to, x)
            \/ sell(u, from, to, x)
            \/ \E lp_to \in Accounts, y \in Amounts : add_liquidity(u, from, to, lp_to, x, y)
            \/ \E lp_from \in Accounts : remove_liquidity(u, lp_from, from, to, x)
            \/ Outside(u, from, to, x)

Spec == Init /\ [][Next]_vars
--------------------------------------------------------------------------------
TypeOK ==
  /\ arithmetic \in {"panics", "wraps"}
  /\ pool \in Pools \cup {NoPool}
  /\ lamports \in [Holders -> Nat] /\ tokens \in [Accounts -> Nat]
  /\ supply \in [Mints -> Words]
  /\ past \in [initial : Words, sol_fees : Nat, diverted : Nat, wrapped : BOOLEAN,
               instructions : 0 .. MaxInstructions]

\* Until a sum of the token reserve wraps, the pool's account holds the SOL its reserve
\* promises and all SOL fees ever paid, whatever products wrapped and whatever accounts
\* the clients handed over.
Solvent ==
  pool # NoPool /\ ~past.wrapped => lamports[PoolKey] >= pool.sol_reserve + past.sol_fees

\* Until such a sum wraps, the token reserve exceeds what the pool's token account holds
\* by at most the amount create_pool promised and never paid in, and what sells and
\* deposits paid to other accounts.
OverstatedByDiversions ==
  pool # NoPool /\ ~past.wrapped =>
    pool.token_reserve <= tokens[PoolAccount] + past.initial + past.diverted

\* The units of a balance, each with its holder: as many as the balances add up to.
Units(balance) == UNION {{<<h, i>> : i \in 1 .. balance[h]} : h \in DOMAIN balance}

\* Lamports are neither created nor destroyed.
LamportsKept == Cardinality(Units(lamports)) = Wealth * Cardinality(Users)

\* No trade lowers the product of the reserves: rounding and wrapped numerators
\* always favour the pool.
ProductNeverFalls ==
  [][pool # NoPool /\ ~past'.wrapped /\ pool'.lp_supply = pool.lp_supply
     => pool'.sol_reserve * pool'.token_reserve >= pool.sol_reserve * pool.token_reserve]_vars

\* No deposit or withdrawal lowers the reserves behind each of the LP tokens the pool
\* counts, wrapped shares and a wrapped count included.
ShareNeverFalls ==
  [][pool # NoPool /\ ~past'.wrapped /\ pool.lp_supply > 0 /\ pool'.lp_supply # pool.lp_supply
     => /\ pool'.sol_reserve * pool.lp_supply >= pool.sol_reserve * pool'.lp_supply
        /\ pool'.token_reserve * pool.lp_supply >= pool.token_reserve * pool'.lp_supply]_vars
================================================================================
