--------------------------------- MODULE Stock ---------------------------------
(***************************************************************************)
(* examples/03-stock: a tokenised share whose transfers pass a hook that   *)
(* enforces the market's hours and taxes frequent traders, with splits and *)
(* dividends.                                                              *)
(*                                                                         *)
(* An instruction is one action; one that fails a require!, an account     *)
(* constraint or a panic changes nothing and is no step here.  Token 2022  *)
(* and the runtime are external.  Anybody may call any instruction, the    *)
(* hook included.  An account at a derived address is a function of the    *)
(* keys it is derived from, and init refuses one that is there.            *)
(*                                                                         *)
(* The counters of a run stay far below a word; amounts need not, and a    *)
(* plain * on u64 panics or wraps depending on the build.                  *)
(*                                                                         *)
(* An operator named Mutant... is a faulty version of the definition that  *)
(* follows it, used only to show that a property can fail.                 *)
(***************************************************************************)
EXTENDS Integers, Sequences, FiniteSetsExt

CONSTANTS
  Users,
  DefaultKey,        \* Pubkey::default(), as the owner of transferred tokens
  NoConfig, NoVelocity, NoSnapshot, NoClaim,
  Slots,
  WordSize,          \* 2^64
  BaseTax, MaxTax,   \* base_stamp_tax_bps and max_stamp_tax_bps
  VELOCITY_SCALING_BPS, VELOCITY_WINDOW_SECS,
  MinRatio, MaxRatio,
  UserBalance,       \* the balance claim_handler uses for everybody
  Amounts,           \* transferred
  PoolBalances,      \* the dividend pool when a snapshot is taken
  Ratios, Statuses,  \* asked for
  MaxTime, MaxHooks  \* bounds: the clock and the transfers of a user

Owners == Users \cup {DefaultKey}

Words == 0 .. WordSize - 1

Configs == [admin : Users, split_multiplier : Words, market_status : Nat]

Velocities == [window_start : Nat, transfer_count : Nat, current_tax_bps : BaseTax .. MaxTax]

Snapshots == [total_supply : Nat, pool_lamports : Words]

ASSUME StockAssumption ==
  /\ DefaultKey \notin Users
  /\ WordSize \in Nat /\ WordSize > 1
  /\ BaseTax \in Nat /\ MaxTax \in Nat /\ BaseTax <= MaxTax
  /\ VELOCITY_SCALING_BPS \in Nat /\ VELOCITY_WINDOW_SECS \in Nat
  /\ MinRatio \in Nat /\ MaxRatio \in Nat /\ UserBalance \in Nat
  /\ Amounts \subseteq Words /\ PoolBalances \subseteq Words
  /\ Ratios \subseteq Words /\ Statuses \subseteq Nat
  /\ MaxTime \in Nat /\ MaxHooks \in Nat
  /\ NoConfig \notin Configs /\ NoVelocity \notin Velocities
  /\ NoSnapshot \notin Snapshots /\ NoClaim \notin Nat

VARIABLES
  arithmetic,  \* "panics" or "wraps", chosen by the build
  config,      \* the GlobalConfig
  velocity,    \* the Velocity of every owner
  snapshots,   \* the DividendSnapshot of every slot
  claims,      \* what each user has claimed of each snapshot
  now,         \* the clock
  accepted     \* history: when each user's transfers passed the hook

vars == <<arithmetic, config, velocity, snapshots, claims, now, accepted>>

--------------------------------------------------------------------------------
(* math.rs.                                                                 *)
dynamic_stamp_tax(transfer_count) ==
  LET tax == BaseTax + transfer_count * VELOCITY_SCALING_BPS
  IN  IF tax > MaxTax THEN MaxTax ELSE tax

\* The product in stamp_tax_amount, which only the log uses, does not panic.
TaxComputes(amount, tax) == arithmetic = "wraps" \/ amount * tax \in Words

proportional_payout(user_balance, total_pool, total_supply) ==
  IF total_supply = 0 THEN 0
  ELSE ((user_balance * total_pool) \div total_supply) % WordSize

\* Fixed-point numbers: a word of integer and a word of fraction.
to_fixed(value) == value * WordSize

from_fixed(value) == (value \div WordSize) % WordSize

mul_fixed(a, b) == ((a * b) \div WordSize) % WordSize

div_fixed(a, b) == IF b = 0 THEN 0 ELSE ((a * WordSize) \div b) % WordSize

--------------------------------------------------------------------------------
Init ==
  /\ arithmetic \in {"panics", "wraps"}
  /\ config = NoConfig
  /\ velocity = [o \in Owners |-> NoVelocity]
  /\ snapshots = [s \in Slots |-> NoSnapshot]
  /\ claims = [u \in Users |-> [s \in Slots |-> NoClaim]]
  /\ now = 0
  /\ accepted = [u \in Users |-> << >>]

\* Whoever comes first is the admin.  The market starts closed.
initialize(admin) ==
  /\ config = NoConfig
  /\ config' = [admin |-> admin, split_multiplier |-> 1, market_status |-> 1]
  /\ UNCHANGED <<arithmetic, velocity, snapshots, claims, now, accepted>>

IsAdmin(user) == config # NoConfig /\ user = config.admin

\* A record whose owner field is the default key counts as a new one.
Opened(owner) ==
  IF velocity[owner] = NoVelocity \/ owner = DefaultKey
  THEN [window_start |-> now, transfer_count |-> 0, current_tax_bps |-> BaseTax]
  ELSE velocity[owner]

MutantRestartsEarly(owner) ==
  LET v == Opened(owner)
  IN  IF now - v.window_start >= VELOCITY_WINDOW_SECS
      THEN [v EXCEPT !.window_start = now, !.transfer_count = 0] ELSE v

MutantKeepsWindowStart(owner) ==
  LET v == Opened(owner)
  IN  IF now - v.window_start > VELOCITY_WINDOW_SECS THEN [v EXCEPT !.transfer_count = 0] ELSE v

\* The window restarts when a transfer comes after its end.
Windowed(owner) ==
  LET v == Opened(owner)
  IN  IF now - v.window_start > VELOCITY_WINDOW_SECS
      THEN [v EXCEPT !.window_start = now, !.transfer_count = 0] ELSE v

transfer_hook(owner, amount) ==
  LET v == Windowed(owner)
      count == v.transfer_count + 1
      tax == dynamic_stamp_tax(count)
  IN  /\ config # NoConfig /\ config.market_status # 1
      /\ TaxComputes(amount, tax)
      /\ owner \in Users => Len(accepted[owner]) < MaxHooks
      /\ velocity' = [velocity EXCEPT ![owner] =
                        [v EXCEPT !.transfer_count = count, !.current_tax_bps = tax]]
      /\ accepted' = [u \in Users |-> IF u = owner THEN Append(accepted[u], now) ELSE accepted[u]]
      /\ UNCHANGED <<arithmetic, config, snapshots, claims, now>>

trigger_stock_split(authority, ratio) ==
  /\ IsAdmin(authority)
  /\ ratio >= MinRatio /\ ratio <= MaxRatio
  /\ config' = [config EXCEPT !.split_multiplier = ratio]
  /\ UNCHANGED <<arithmetic, velocity, snapshots, claims, now, accepted>>

\* The supply is not read from the mint; any account serves as the pool.
snapshot_dividend(admin, slot, balance) ==
  /\ IsAdmin(admin)
  /\ snapshots[slot] = NoSnapshot
  /\ snapshots' = [snapshots EXCEPT ![slot] = [total_supply |-> 0, pool_lamports |-> balance]]
  /\ UNCHANGED <<arithmetic, config, velocity, claims, now, accepted>>

\* Nothing is paid: the record is all there is.
claim_dividend(user, slot) ==
  /\ config # NoConfig
  /\ snapshots[slot] # NoSnapshot
  /\ claims[user][slot] = NoClaim
  /\ claims' = [claims EXCEPT ![user][slot] =
       proportional_payout(UserBalance, snapshots[slot].pool_lamports,
                           snapshots[slot].total_supply)]
  /\ UNCHANGED <<arithmetic, config, velocity, snapshots, now, accepted>>

update_market_status(relayer, status) ==
  /\ IsAdmin(relayer)
  /\ status <= 2
  /\ config' = [config EXCEPT !.market_status = status]
  /\ UNCHANGED <<arithmetic, velocity, snapshots, claims, now, accepted>>

\* External: a second passes.
Tick ==
  /\ now < MaxTime
  /\ now' = now + 1
  /\ UNCHANGED <<arithmetic, config, velocity, snapshots, claims, accepted>>

Next ==
  \/ Tick
  \/ \E u \in Users :
       \/ initialize(u)
       \/ \E r \in Ratios : trigger_stock_split(u, r)
       \/ \E s \in Statuses : update_market_status(u, s)
       \/ \E s \in Slots, b \in PoolBalances : snapshot_dividend(u, s, b)
       \/ \E s \in Slots : claim_dividend(u, s)
  \/ \E o \in Owners, x \in Amounts : transfer_hook(o, x)

Spec == Init /\ [][Next]_vars
--------------------------------------------------------------------------------
TypeOK ==
  /\ arithmetic \in {"panics", "wraps"}
  /\ config \in Configs \cup {NoConfig}
  /\ velocity \in [Owners -> Velocities \cup {NoVelocity}]
  /\ snapshots \in [Slots -> Snapshots \cup {NoSnapshot}]
  /\ claims \in [Users -> [Slots -> Nat \cup {NoClaim}]]
  /\ now \in Nat /\ accepted \in [Users -> Seq(Nat)]

\* The transfers of an owner since a moment.
Since(owner, start) == {i \in DOMAIN accepted[owner] : accepted[owner][i] >= start}

\* The counter is the number of transfers that passed the hook since the window
\* began, all of them within the window, whatever failed, was refused or was called
\* by others in between; and the tax is the one for that number.  lib.rs, state.rs:45,
\* instructions.rs:119 and the test bug5 say that transfers which run in parallel lose
\* counts.  They cannot: velocity is a writable account, which the runtime gives to one
\* transaction at a time, and that an instruction is one step says so here.
CountsTheWindow ==
  \A o \in Users : velocity[o] # NoVelocity =>
    LET v == velocity[o]
    IN  /\ v.transfer_count = Cardinality(Since(o, v.window_start))
        /\ \A i \in Since(o, v.window_start) :
             accepted[o][i] <= v.window_start + VELOCITY_WINDOW_SECS
        /\ v.current_tax_bps = dynamic_stamp_tax(v.transfer_count)

\* A trader's tax falls only after the window has ended: no split, closing of the
\* market or refused transfer resets it earlier.
TaxFallsOnlyAfterWindow ==
  [][\A o \in Users :
       /\ velocity[o] # NoVelocity
       /\ velocity'[o].current_tax_bps < velocity[o].current_tax_bps
       => now > velocity[o].window_start + VELOCITY_WINDOW_SECS]_vars
================================================================================
