# Verification of krastor

Krastor fuzzes Solana programs: it keeps a pool of accounts, draws random
instruction sequences over them, mutates a copy of the accounts, executes the
sequence in an embedded runtime (LiteSVM) and checks invariants on what is left.
This directory holds TLA+ specifications of that machinery, the TLC instances
that check them, and TLAPS proofs. Paths below are relative to the repository
root, `src/` in the project file.

Run `tlc -config MCFuzzer.cfg MCFuzzer.tla` for a model, `tlapm FuzzerProofs.tla`
for the proofs.

## 1. The system

| Component | State it keeps | Operations | Interacts with |
|---|---|---|---|
| Executor (`fuzz-core/src/executor.rs`) | the runtime's accounts; inside a call, a snapshot and the results so far | `new`, `set_accounts`, `read_accounts`, `execute_sequence` | called by the engine, calls LiteSVM, which runs the program under test |
| Engine (`fuzz-core/src/fuzzer.rs`) | the pool, the executor, the kept binary, instructions, round counter | `deploy_program`, `reset_executor`, `register_instruction`, `random_action`, `run_one_round` | calls the mutator, the executor and the registry; called by the campaign loops |
| Accounts and mutator (`lib.rs`, `mutator.rs`) | none (transforms a slice in place) | `mutate_accounts` and its six mutations | engine |
| Invariant registry (`invariant.rs`) | a list of named closures | `register`, `check_all`, three templates | engine |
| Crash shrinker (`crash.rs`) | the candidate sequence, a pass and a position | `shrink` | calls a detector closure of the caller's |
| Crash records (`crash.rs`, `report/src/lib.rs`) | JSON files in a directory | `CrashRecord::new`, `save`, `load`, `persist_crash` | CLI `fuzz repro` loads them; nothing calls `persist_crash` |
| Coverage bitmap (`lib.rs`) | 65536 saturating counters and a count | `record_edge`, `has_new_coverage`, `merge` | HTML report |
| Instrumentor (`instrumentor/src/lib.rs`) | probes, a map of counters | decode, branch targets, `instrument_text_section`, `record_hit` | none yet |
| IDL parser and generator (`idl-parser/src/lib.rs`) | two files, written by CLI `init` | `parse_idl`, `generate_harness`, `generate_krastor_toml` | the build writes the IDL; the generated harness is a second campaign loop |
| Campaign loops (`cli/src/main.rs`, generated `main`) | counters | `fuzz run`, the harness's `main` | engine |
| Meme coin (`examples/01-meme-coin`) | a pool account; lamports of users and pool; token accounts and supplies of its mint and of others | `create_pool`, `buy`, `sell`, `add_liquidity`, `remove_liquidity`, `evil_mint`, `set_paused` | token program |
| NFT (`examples/02-nft`) | a collection, an account per NFT and per listing | `initialize_collection`, `mint`, `transfer`, `list`, `buy`; a generator of pictures | runtime, clock |
| Stock (`examples/03-stock`) | a config, a velocity record per owner, dividend snapshots and claims | `initialize`, `transfer_hook`, `trigger_stock_split`, `snapshot_dividend`, `claim_dividend`, `update_market_status` | Token 2022 calls the hook, clock |
| Vault (`examples/00-vulnerable`) | a balance | three instructions without checks | the program `Fuzzer` treats as arbitrary |
| Reports (`report/src/lib.rs`) | none | HTML and CI templates | text only |

### What is hard here

Within a process nothing runs concurrently; campaigns that share a directory of
crash records do, and so does a build beside `krastor init`. What a test hardly reaches is the
*partial failure* of a long sequence of calls: a load that stops half-way, a
transaction that fails after others committed, a rollback that may itself fail,
a reset that is silently refused; and *two copies of the same state that drift
apart*: the pool, the mutated working copy, the snapshot, the actions (which
carry their own copies of accounts) and the runtime. The correctness of a
verdict depends on which copy each step reads. PROJECT.json lists the hazards at
their lines.

What makes each component correct:

* Executor: a failed sequence leaves the runtime as it was; it never reaches an
  account nobody gave it; the results stop at the first failure; an `Err`, which undoes
  nothing, comes before the first transaction.
* Engine: a round is atomic; what is loaded partially never survives; read-only
  accounts stay as they are; a verdict blames what it says it blames.
* Mutator: touches only writable accounts, and only the fields it names.
* Shrinker: what it returns still crashes, is part of the input, cannot be
  shortened by one step, and it terminates.
* Crash records: the record of a name that was acknowledged last is whole in its file,
  unless a save of that name is under way, was cut short or overlapped another; what is
  loaded is one whole record.
* Coverage: a bitmap remembers what it has seen however its counters saturate,
  new coverage is noticed, merging loses none, and no share exceeds 100 %.
* Instrumentor: probes stay inside the section, their saved bytes restore the
  original even where probes overlap, and the result does not depend on the order
  of a `HashSet`.
* Campaign loops: every crash of a round is counted once; a load that failed is not
  carried into the next round.
* `krastor init`: the two files come from one IDL; no two items of a harness get one
  name.
* Meme coin: the pool's account covers its SOL reserve; the token reserve exceeds its tokens
  by what is accounted for; no trade or deposit takes from those who hold LP tokens, in
  spite of wrapped arithmetic.
* NFT: the copies of a price and of a number agree, a listing is sold once, and a
  picture belongs to its seed.
* Stock: the tax follows the transfers in the window. (Whether the pool covers the
  claims is no question yet: a snapshot records a supply of 0, instructions.rs:202, so every payout is 0.)

## 2. Modules

| Module | Models |
|---|---|
| `FuzzAccount` | the account record, the mutator as sets of possible results, the three invariant templates |
| `LiteSvmExecutor` | the executor; LiteSVM and the program under test as an external environment; `ExecSpec`, a client that calls the executor's public operations in any order |
| `AtomicRound` | the abstract promise of a round about the runtime's accounts |
| `Fuzzer` | the engine; extends `LiteSvmExecutor` and composes its actions with the round |
| `Shrink` | `shrink`, with its detector as an arbitrary set of sequences |
| `Coverage` | `CoverageBitmap`, used by any number of bitmaps, and the report's share |
| `Instrumentor` | branch targets, probe placement and the map the probes feed |
| `Campaign` | the loops around the engine: `cmd_fuzz_run`, a generated harness's `main`, a user's own program |
| `CrashShelf` | the abstract promise of the crash records: a place for every class of crashes |
| `CrashStore` | the crash records on disk, shared by campaigns that may be killed |
| `IdlHarness` | `krastor init` and what it generates |
| `MemeCoin`, `Nft`, `Stock` | the example programs |
| `FuzzerProofs` | theorems about `LiteSvmExecutor`, `Fuzzer` and `Campaign`, and that they implement `AtomicRound` |
| `DiskProofs` | theorems about `CrashStore` and `IdlHarness`, and that the former implements `CrashShelf` |
| `ShrinkProofs`, `CoverageProofs`, `InstrumentorProofs`, `MemeCoinProofs`, `NftProofs`, `StockProofs` | theorems about the module each is named after |
| `MC...` | instances for TLC |

`Campaign` extends `Fuzzer`, which extends `LiteSvmExecutor`, which extends
`FuzzAccount`. `Shrink`, `Coverage`,
`Instrumentor` and `CrashStore` stand alone: no code of the repository connects them
to the engine yet. `Fuzzer` implements `AtomicRound` (`RoundsAreAtomic`), and
`CrashStore` implements `CrashShelf` (`SavesAreAtomic`).

**State.** A slice of accounts is a function on `1..N`. `svm` maps addresses to
runtime accounts or `NoAccount`. `slice` is the caller's `&mut [FuzzAccount]`
(the engine's `working_accounts`), `snapshot` the executor's copy, `actions` and
`results` the sequence and its outcomes, `call` the progress of
`execute_sequence` and `stage` that of `run_one_round`. `vmAtStart` is history:
the runtime when the sequence began. Strings that do not decode (an empty owner,
or what the placeholder `bs58_encode` yields) are `BadStr`.

**Steps.** `execute_sequence` is one action per turn of its loop: the runtime
accepts the transaction (`SequenceTxOk`, which also reads the slice back),
refuses it (`SequenceTxErr`, which also writes the snapshot back), the program id
does not parse (`SequenceBadProgram`), signing panics (`SequenceSignPanic`), or
the loop ends. `run_one_round` is `RoundBegins` (draw actions, mutate),
`RoundLoads` or `RoundHasNoExecutor`, the executor's steps, then `RoundChecks`
(Ok) or `RoundCrashes` (Err, with the reset). `RoundPanics` is the panic of
`gen_range` on an empty range.

`shrink` is a machine of three passes. `HalveStep` and `HalveEnds` are the
turns of the binary deletion; `SweepRemoves`, `SweepKeeps` and `SweepEnds` the
single sweep over the actions; `ParamsCut`, `ParamsPop`, `ParamsKeep` and
`ParamsEnd` one action's turn of the parameter pass, whose outer loop starts over
after a success. The code asks its detector about a candidate only to learn
whether it crashes, so a detector is the set of candidates that do; an action is
its place in the original, the length of its data and the number of its
accounts, since `shrink` only ever truncates. A detector is taken to be
deterministic: the type of the closure does not force it, and a flaky one would
make every claim about the result meaningless.

`CoverageBitmap` has the actions `new`, `record_edge` and `merge`. Nothing in the
repository calls them yet, so the client is free: any bitmap, any transition, any
order. `seen` and `merged` are history. The exclusive-or of block numbers is the
constant `BitXor`; the instance takes the real one.

The instrumentor first computes the target of every branch: `CollectTargets`, or
`PanicAtBranch` where the product in `branch_target` (lib.rs:118) overflows, which in a
build that checks overflow it does for every offset below -1. Then
`instrument_text_section` is one action per turn of its loop over the `HashSet` of
targets: `ProbeTarget`, `SkipTarget` (the stub does not fit) or `PanicAtTarget`.
The unit is the word of eight bytes, in which the code's arithmetic modulo 2^64 is
arithmetic modulo `AddressSpace`; whether overflow panics or wraps is a choice of
the build, made in `Init`. `MapProbes` hands the probes to a coverage map, and
`record_hit` is what a probe would call.

`Campaign` adds to `Fuzzer` what drives it: `LoopCalls`, `RoundRuns`, `LoopCollects`
(the `if result.is_crash`) and `LoopEnds`. `campaign` says whose loop it is. Only a
user's own program deploys one (`Deploys`); `--program` and `--output` are ignored
by the code. `collected` and `crash_rounds` are history.

In `CrashStore` a campaign is where `persist_crash` would be called: it finds a crash,
opens and truncates the file (`Opens`), writes it (`Writes`), fails at any point
(`Fails`), or is killed and started again at round 0 (`Dies`). `std::fs::write` is
these two steps; two writers of one file may leave a mixture (`Garbled`). A file name
is the folded text of the crash type and the round, and the crashes that share one are a
class. History are `saved`, the last acknowledged record of every class, and `disturbed`,
the classes whose last save was cut short or overlapped another.

`IdlHarness` has one action per stretch of `cmd_init` between two effects on the disk;
`InitStops` is an error or a kill; `phase` says which stretch is next. Of the harness it keeps the fields, functions, arms and
registrations with their names, character by character, since names are what can
clash; `Rebuild` replaces the IDL at any moment.

In the three example programs an instruction is one action, since a Solana
transaction is atomic; one that fails changes nothing and is no step. Plain `+`, `-`,
`*` on u64 panic or wrap depending on the build (no crate sets `overflow-checks`), so
`arithmetic` is chosen in `Init` and both are checked. Words have the constant size
`WordSize` (`WordBits` for the NFT, whose generator works on bits). Anybody may call
any instruction with any accounts its constraints allow. In `MemeCoin` these are any token
accounts, and any LP mint, that the token program accepts: the Accounts structs
(lib.rs:551-615) ask only `mut` of them. A token account is its mint and its owner;
`diverted` counts what the token reserve was credited with while it went to another
account than the pool's, `wrapped` says whether a sum of that reserve has wrapped.
`Outside` is what users can do without the program: pay lamports or tokens to anybody,
burn tokens.

**External parts.** A transaction may do what any Solana runtime lets it: change
the accounts it names as writable, conserving their lamports, or fail and change
nothing. Whether accounts without lamports disappear is the constant
`ReapsEmpty`; both values are checked. The pairs of an address and an account that
LiteSVM's `set_account` refuses are the constant `Refused`; the executor drops that error
(executor.rs:90-92), and so does the model. Whether a transaction succeeds is always
a choice, so the payer's balance and duplicate transactions need no model.

**Left out of the data.** `rent_epoch`, labels, instruction data and
discriminators, error texts, compute units (always 0 in the code) and logs. The
probabilities of the mutations are reduced to what `gen_bool` may return. u64
overflow of lamport sums in the engine is not modelled. The sequences inside a crash
record; argument types of an IDL; names, symbols and `max_supply` of a collection
(stored, never read).

**Names.** An operator called `Mutant...` is a deliberately faulty version of the
definition below it. No specification uses it; it shows that a property can fail.

## 3. Runs

| Run | Question | Result |
|---|---|---|
| `executor_client` | which calls of a free client roll back exactly, and what can they reach? | holds |
| `fuzzer_rounds` | what may a round do to the runtime, the working accounts and its verdict, and where may an `Err` come from, on a runtime that drops empty accounts and refuses some, over five kinds of pool? | holds |
| `campaign` | in the loops of the command, a harness and a user's program, does every round implement `AtomicRound` and leave nothing of a failed load to the next? | holds |
| `executor_rollback_doc` | executor.rs:114 "rolls back the VM account state to the pre-sequence snapshot" | violated: the snapshot is of the slice |
| `shrink_params` | does `shrink` keep the crash, end, and leave nothing to cut, for 3801 detectors? | holds; that no single *action* is left to drop holds for the monotone detectors |
| `coverage` | do saturation, collisions and merges in any order lose or invent coverage? | no |
| `instrumentor` | which sections panic, and are overlapping probes independent of the order and undoable? | in a build that checks overflow, every section with a backward branch of two words or more, a loop's included; otherwise one with a branch to the two words before it. They are |
| `crash_store` | what becomes of a saved record when campaigns share a directory, fail and are killed, and what may `fuzz repro` load? | the record acknowledged last stands until a save of its own class is under way, is cut short or overlaps another; a load is a whole record of the file's class or an error |
| `harness` | do the two files agree, does a harness compile? | for IDLs that keep one style of names and give discriminators |
| `meme_coin` | what do reserves and balances still say of each other after wrapped products and with accounts that are not the pool's? | SOL covers its reserve and the fees; tokens fall short by at most what `create_pool` promised and what was diverted; no trade or deposit takes from the holders |
| `stock` | is the tax the one for the transfers in the window? | it is |
| `nft` | do the copies of a price agree, is a listing sold once, does a wrapped royalty exceed its price? | they do, once; it does not; though anybody may transfer an NFT |

The runs check the properties that relate several steps or several copies of the state.
Type invariants, counters and the plainer facts are not spent a run on: they are proved
(section 4), which says more than an instance would.

**Bounds.** Two pool slots over three addresses (one outside the pool), three
balances, sequences of two transactions, two rounds. Two slots are the least
with a duplicate key, with a load that stops half-way and with one read-only
account; two transactions the least with a commit before a failure; two rounds
the least where one round sees what another left; the third address is what the
snapshot does not hold. `MaxRounds` and `MaxClientLen` are the bounds in guards.
`CHECK_DEADLOCK FALSE` because a campaign really ends: after its last round, or
in a panic; `shrink` returns, and the instrumentor may panic.

`shrink_params`: three actions, 20 bytes and two accounts in one (several cuts,
and a pop after a cut), two accounts in another. The detectors are those with one
or two minimal reasons to crash, those that accept one or two candidates only, and
those that refuse one or two only: monotone and not. `coverage`: counters that
saturate at two, so that saturation, a sum beyond it and a count below it all
occur, and four transitions of which two share a counter. `instrumentor`: every
section of up to three words over branches that reach from six words back to past
the end, exits and plain words, and the sections of five words over five of them
(probes that overlap in chains); the address 4 lets backward branches land both
above and below address 0.

`campaign`: three pools (a read-only account, a signer, a key that does not parse), three
rounds: one to load, one to fail, one to see what is left. `crash_store`: two campaigns, two rounds,
four crashes, one restart, invariants named `a()`, `A_` (they fold to one text) and
`/` (a file that cannot be opened): two
crashes for the saves that overlap, one for what stood before and one for a save that runs
alone after. `harness`: account names are all pairs of names of up to three
characters over an upper-case, two lower-case letters and `_`; instruction names are
drawn from a pool that holds the clashes; two inits, with rebuilds anywhere between.
`meme_coin`: words of four bits, so products of amounts up to five wrap; a fee of a
quarter; the pool's mint and one other, the LP mint; five instructions over the amounts 0,
4 and 5 are enough to create, fund, provide, trade with a wrapped product and redeem.
`stock`: a window of one second on a clock of five moments, three transfers each, words of four bits. `nft`: words of 24 bits, since the generator shifts by up
to 17, a price whose royalty wraps, two editions, pictures of four pixels.
The four properties of `MemeCoin` hold until a sum of the token reserve wraps
(`past.wrapped`): in a build that wraps, the creator may mint until the reserve exceeds a
word, and then it says nothing any more. Products, quotients and the LP count may wrap
before that.

**Fairness.** `Shrink` alone states liveness: `WF` of all of `shrink`, a loop on one thread.

## 4. Proofs

Every invariant, action property and refinement that a passing run checks is also
a theorem, for every value of the constants; only liveness is left to TLC (below).

### The engine: `FuzzerProofs`

For every pool, configuration, program and runtime:

* `TypeCorrect`, `RoundInvariant`, `ReadOnlyStaysUntouched`, `PanicOnlyWithSigner`
* `ErrUndoesNothing`: `execute_sequence` fails, which undoes nothing, only before its
  first transaction
* `RollbackIsExact`: a failed sequence leaves the whole runtime as it was loaded
* `SnapshotAlwaysComplete`: the rollback cannot stop half-way or miss an address
* `SliceIsTheRuntime`: an invariant is checked on what the runtime holds
* `FailedLoadLeavesNothing`: a load that stops half-way does not outlive its round
* `SupplyAlarmIsMutators`: the supply template accuses no transaction
* `FuzzerImplementsAtomicRound`: `Fuzzer` implements `AtomicRound`
* `SyncedClientRollsBack`, `OthersOutOfReach`: the same of a free client of the executor

`RollbackRestoresRuntime` is not inductive: that a rollback is exact follows only
from what was true before it. `RoundInv` adds that actions name pool accounts as
the pool has them (`ActionsFromPool`), that the slots of the copies keep the
pool's keys (`SlotsKeepPlace`), and that while a sequence runs the snapshot
parses, the runtime outside it is untouched, and the state at the start equals
its own overwriting by the snapshot (`RunningInv`). Since a written address is a
pool key, it is a snapshot key, so overwriting undoes everything. That the last
entry of a duplicated key is well defined rests on `MaxOfIndices`, an induction
through the well-foundedness of `<` on the naturals.

On top of `RoundInv`, each property needs one more invariant:

* `LoadInv`: once a round executes, either every pool entry is in the runtime or an
  `Err` is in hand that will reset it. `AllOrNothingLoad` speaks of returned rounds only.
* `LedgerInv`: until a transaction fails, the runtime differs from the one that was
  loaded at the pool's writable addresses only, and holds as many lamports in total.
  With `SliceMirrorsRuntime` it gives `AlarmInv`: for a pool of distinct keys, what is
  missing from the slice was missing from the snapshot already, so the alarm was due to
  the mutator.
* `ExecInv`, of the free client: the two properties of a call need each other.

The sum of a function is a recursive fold, and no prover here does induction over
data. `SumFunction` is therefore shown to be the cardinality of `UnitsOver`, one element
per lamport: the functions of partial sums along an enumeration of the accounts are
compared at the *least* index where they could differ, which well-foundedness supplies.
Conservation is then a statement about sets.

`FuzzerImplementsAtomicRound` maps a round to its ledger: the runtime at the start while
a sequence is under way, the runtime itself otherwise. A transaction is a stutter, the
step that ends a sequence is the round's commit or its undoing, and a reset is the
wipe. `LedgerInv` gives the conservation that `AtomicRound` demands of a commit,
`RollbackRestoresRuntime` the rest.

Of `Campaign`, for every loop: `CampaignType`, `CampaignImplementsFuzzer` (a campaign's
steps are steps of the engine, so every theorem above carries over: `CampaignKeepsRoundInv`,
`CampaignLoadsWhole`, `CampaignIsAtomic`), `LoopsNeverPanic` and `CountIsRight`. The first needs
`UndeployedInv`, for loops that deploy nothing: no executor, no binary, and an `Err` in
hand whenever a round executes, so no transaction is ever signed. `CountInv` says that a round in
progress has not been collected, so the cardinality grows by exactly one.
`EveryLoopDescends` says that the loops have no infinite run: what the loops and
`execute_sequence` do by themselves lowers `LoopRank`, and what a user does between rounds
leaves it alone.

### What is on disk: `DiskProofs`

For any campaigns, names, interleaving and number of kills:

* `AckedRecordsStand`: the record of a class acknowledged last is whole in its file, unless a
  save of the class is under way, was cut short or overlapped another and none has run alone
  since
* `StoreImplementsShelf`: `CrashStore` implements `CrashShelf`

`AckedStands` is silent while a save is under way, so it is not inductive. `StoreInv` says what
is true then: a class that is not disturbed has at most one writer, and that one a file that is
still empty; with no writer, the file holds what was acknowledged. Saves of other classes leave
all this alone, since their files are others (`OtherFiles`). That two records share a file exactly when
they share a class is `NamesAreClasses`; it needs that folding a text twice, as the
display of a violation does, changes nothing the second time (`FoldedViolation`).

For any IDLs and rebuilds:

* `FilesComeFromOneIdl`: two files that are whole and of one `init` come from one IDL
* `NamesStayApart`: an IDL of one style of names generates no two items of one name

`FilesAgree` needs `HarnessInv`: an `init` past its first write is `unfinished`, and the
harness on disk is the one generated from the IDL it parsed. `NamesStayApart` rests on
`CamelInjective` and `SnakeUnchanged`: `to_snake_case` distinguishes camel-case names and
leaves snake-case ones alone.

Both parts turn a name into another piece by piece, which the models write with
`FlattenSeq`. Its recursion is unrolled by the same least-counterexample argument
(`NoDescent`) into lemmas about one piece more (`FlatNext`), a common prefix (`FlatSame`)
and the first piece that differs (`FlatDiffers`).

### The other components

`ShrinkProofs`, for every sequence and every detector: `TypeCorrect`,
`CrashIsKept`, `ParamsAreMinimal`, `EveryTurnDescends`, and for every monotone one
`OneSweepSuffices`.
`ParamsMinimal` needs `ParamsInv`: since the last success of the parameter pass,
no action before the current place has a cut the detector accepts. The sweep is
the subtle one: it never goes back, and later passes change the sequence. The
invariant `SweepInv` says that what could not be dropped from a longer sequence
cannot be dropped from the present one, which for a monotone detector follows from
`DropsComeFirst`: dropping an action and then reducing another is the same as
reducing first. `EveryTurnDescends` is the variant behind `Terminates`: five naturals that
fall in lexicographic order at every turn of a loop, among them the bytes and accounts
left (`Units`), since the third pass starts over after each success.

`CoverageProofs`, for any bitmaps, transitions, size and counter width:
`TypeCorrect`, `MemoryIsExact`, `NewIsNoticed`, `CountIsSafe`, `MergeTakesAll`.
The inductive invariant is the memory of each bitmap with its count; the bound of
the share needs both, through the cardinality of the nonzero counters.

`InstrumentorProofs`, for any sections, address, address space and size of the
map, both builds: `TypeCorrect`, `ProbesCanBeUndone`, `OrderIsIrrelevant`,
`PanicsAreKnown`, `CoverageIsExact`. The invariant describes the section by the
*set* of targets taken so far (`Taken`), whatever their order, and the probes as an
enumeration of that set. `PanicsAreKnown` covers both panics, the product of
`branch_target` and the loop's (`PanicsAt`, `EntryIsSafe`). It rests on `RemainderOnce`,
the two wrap-arounds of a target and its offset cancelling, and on `SectionAssumption`: a
16-bit offset leads at most once around the address space.

`MemeCoinProofs`, for every word size, fee, number of users and run length, both
builds, any token accounts and mints: `MemeTypes`, `PoolIsSolvent`,
`PoolOverstatesDiversions`, `ProductKeepsUp`, `ShareKeepsUp`. `MemeInv` adds to the two
invariants on the reserves that lamports are conserved. A sum of balances is the
cardinality of `Units`, a set with one element per unit, so that a transfer is
a bijection (`UnitsMove`) and no induction over a sum is needed. From conservation
follows that no sum of the SOL reserve wraps before one of the token reserve does
(`SolFits`); the numerators may wrap, and `QuotientFacts` shows that
this only ever favours the pool.

`StockProofs`: `StockTypes`, `HookCountsTheWindow`, `TaxStays`,
and, of the fixed-point helpers no instruction uses, `FixedRoundTrip` and `FixedShareBound`:
dividing before multiplying costs at most a unit while the ratio is below 1; the ratio 1 wraps
to 0, and the whole share is lost. `StockInv` adds to the count that
windows and transfers lie no later than now and that an owner without a record has no
transfer: then a restarted window holds no earlier transfer.

`NftProofs`: `NftTypes`, `MintIsConsecutive`, `PictureStays`, `MintSeedsDiffer`,
`ListingsAgree`, `SalesAreListed`, `RoyaltyFits`. `NftInv` adds that a seed is no later than
now would give (`SeedInv`) and that sales do not exceed listings before an edition is
minted either. The assumption states that 2^WordBits is positive, since the provers do
not compute powers.

### Assumptions

The assumptions are those of the modules, named, and evaluated by TLC in the runs. Three
deserve a word. The set of addresses is finite (`FuzzAccountAssumption`): there are 2^256,
and a sum over the runtime must exist. A character in lower case has itself as lower case and is
no bracket (`LowerCaseAssumption`): `FoldedViolation` needs it, and it holds
of every character but the Turkish dotted capital I, whose lower case is two characters, which
`Lower` does not model. Upper-case letters have distinct lower-case ones
(`LetterAssumption`): true of the ASCII identifiers that an IDL built from Rust source has, not of
all of Unicode (the Kelvin sign and K share k).

### Only model-checked

Liveness (`Terminates`): the prover does not reach fairness and ENABLED. Proved is the
variant, that every turn of `shrink` goes down in a well-founded order
(`EveryTurnDescends`); that a step is always possible until the end, and that it is taken, is
TLC's part. `EveryLoopDescends` stands without a run. The result of
`executor_rollback_doc` is a violation and has no theorem.

## 5. Disagreements and observations

`executor_rollback_doc` is the one disagreement that has a run. Others, met while modelling:

* fuzzer.rs:175 counts only an `Err` of the call as a crash; crash.rs:3 and :33 call an
  execution error one, and a failing transaction returns `Ok`.
* fuzzer.rs:148 records the pool before mutation; crash.rs:11 promises a
  self-contained artifact that reproduces the crash.
* fuzzer.rs:145 copies the accounts' flags into the actions before mutator.rs:133-134
  toggles them, so the toggled signer flag is never tested.
* fuzzer.rs:181 promises the next round a reset executor, but fuzzer.rs:77-78 keeps a
  redeployment's refused binary, and every later reset fails.
* lib.rs:121 calls `covered_edges` the total of nonzero counters; `merge` (lib.rs:161)
  does not update it.
* The supply template blames transactions for the mutator's own `zero_lamports`;
  crash.rs:87 promises a minimal subsequence, which holds for monotone detectors only; a
  branch target on the last word of a section gets no probe although
  instrumentor/src/lib.rs:209 says each does.
* `cmd_fuzz_run` prints rounds from 0, `result.round` counts from 1; a generated harness
  reads `crash_count`, which only `cmd_fuzz_run` increments.
* `parse_idl` needs the name and version at the top level, which newer Anchor IDLs have
  under `metadata` only; a missing discriminator generates a comment that swallows the end
  of its statement; `krastor.toml` names a path that ignores `--idl`.
* instrumentor lib.rs:118 takes the product of a branch's distance as an unsigned number, so
  a build that checks overflow panics on every backward branch of two words or more, before
  the first probe (`PanicsDependOnBuild`).
* meme-coin lib.rs:537 says that `pool_token_account` holds the MEME reserves. The initial
  reserve is never paid in (lib.rs:82), and the instructions take any account there
  (lib.rs:563, only `mut`); `OverstatedByDiversions` is what still holds.
* `cmd_fuzz_run` (cli main.rs:105) and a generated harness deploy nothing, so every round is
  one without an executor and counts as a crash.
* nft lib.rs:243 "could underflow!": it never does (`RoyaltyWithinPrice`, also proved).
* stock's BUG 5 (lib.rs:35 and :65, state.rs:45, instructions.rs:119, and the test at
  tests/integration_tests.rs:94, which computes on a local variable) says that parallel
  transfers lose counts. `CountsTheWindow` and its proof say they do not: the velocity account
  is writable, so the runtime runs one transaction on it at a time. That exclusion is the
  runtime's, taken into the model by making an instruction one step.
* stock's BUG 6 (lib.rs:57 "can overwrite") and BUG 3 (lib.rs:83 "double-claim possible"), and
  the tests of both, describe a second `initialize` and a second claim. The `init` constraints
  (instructions.rs:27, :228) refuse an account that exists, and no instruction closes one, so
  the "close+reopen" of instructions.rs:252 does not occur either. No property is spent on it:
  it would restate the constraint.
* `trigger_stock_split` replaces the multiplier rather than multiplying it.

## 6. Not modelled

* The HTML and CI templates: text layout without state.
* The integration tests of fuzz-core: read as documentation.
* The vault example: its instructions leave out exactly the checks that could promise
  something; the engine's model lets a program under test do what any program may.
* Of modelled parts: the count `mutate_accounts` returns, which no caller reads;
  `svm_mut`, which hands out the whole runtime; overflow of the engine's lamport sums and
  of the supply tolerance; the parsing of JSON and ELF by their libraries; `is_v1` and
  `effective_balance`, which nothing calls; Python tooling around the stock example.
