-------------------------------- MODULE Fuzzer --------------------------------
(***************************************************************************)
(* crates/fuzz-core/src/fuzzer.rs: the engine that runs fuzz rounds.  One  *)
(* round draws a random sequence over the account pool, mutates a working  *)
(* copy of the pool, loads it into the executor, executes the sequence     *)
(* (the actions of LiteSvmExecutor), checks the registered invariants and, *)
(* when the execution returned Err, resets the executor.                   *)
(*                                                                         *)
(* The variables of LiteSvmExecutor are used as they are: svm is the state *)
(* of self.executor (EmptyVm when there is none) and slice is the round's  *)
(* working_accounts.  The registry holds the three built-in templates.     *)
(*                                                                         *)
(* An operator named Mutant... is a faulty version of the definition that  *)
(* follows it, used only to show that a property can fail.                 *)
(***************************************************************************)
EXTENDS LiteSvmExecutor

CONSTANTS
  Pools,              \* the account pools a user may configure
  ProgramId,          \* self.program_id, maybe BadStr
  SequenceLengths,    \* the max_sequence_length a user may configure
  MaxPicked,          \* the most accounts an action gets: 8 in random_action
  Binaries,           \* the program binaries a user may deploy
  GoodBinaries,       \* those add_program accepts
  NoBytes,            \* program_bytes = None
  MaxRounds           \* bound: rounds of a campaign

VARIABLES
  accounts,       \* the pool
  executor,       \* is self.executor Some?
  program_bytes,  \* the binary kept for resets
  has_instructions, \* is available_instructions non-empty?
  max_sequence_length,
  round_count,
  stage,          \* where run_one_round is
  is_crash,       \* of the FuzzRoundResult
  violated        \* the invariants that failed, of the FuzzRoundResult

configVars == <<accounts, executor, program_bytes, has_instructions, max_sequence_length>>

roundVars == <<round_count, stage, is_crash, violated>>

vars == <<execVars, configVars, roundVars>>

ASSUME FuzzerAssumption ==
  /\ Pools \subseteq Slices
  /\ ProgramId \in ProgramIds \cup {BadStr}
  /\ SequenceLengths \subseteq Nat /\ MaxPicked \in Nat \ {0} /\ MaxRounds \in Nat
  /\ GoodBinaries \subseteq Binaries /\ NoBytes \notin Binaries

--------------------------------------------------------------------------------
Init ==
  /\ accounts \in Pools
  /\ executor = FALSE /\ program_bytes = NoBytes /\ svm = EmptyVm
  /\ has_instructions = FALSE /\ max_sequence_length \in SequenceLengths
  /\ round_count = 0
  /\ stage = "Idle" /\ call = "Idle"
  /\ slice = accounts /\ snapshot = accounts
  /\ actions = << >> /\ results = << >>
  /\ vmAtStart = EmptyVm
  /\ is_crash = FALSE /\ violated = {}

\* LiteSvmExecutor::new succeeds on these bytes.
Loads(bytes) == ProgramId # BadStr /\ bytes \in GoodBinaries

\* A fresh executor replaces the old one, or, on failure, does not.
NewExecutor(bytes) ==
  /\ executor' = (executor \/ Loads(bytes))
  /\ svm' = IF Loads(bytes) THEN EmptyVm ELSE svm

\* The bytes are kept before the executor is tried.
deploy_program(bytes) ==
  /\ stage = "Idle"
  /\ program_bytes' = bytes
  /\ NewExecutor(bytes)
  /\ UNCHANGED <<slice, actions, results, snapshot, call, vmAtStart, roundVars,
                 accounts, has_instructions, max_sequence_length>>

register_instruction ==
  /\ stage = "Idle"
  /\ has_instructions' = TRUE
  /\ UNCHANGED <<execVars, accounts, executor, program_bytes, max_sequence_length, roundVars>>

MutantNoReset == UNCHANGED <<executor, svm>>

reset_executor ==
  IF program_bytes = NoBytes THEN UNCHANGED <<executor, svm>> ELSE NewExecutor(program_bytes)

\* The actions random_action may return: some of the pool's accounts, unmutated.
random_action ==
  IF ~has_instructions
  THEN {[program_id |-> ProgramId, accounts |-> {}]}
  ELSE {[program_id |-> ProgramId, accounts |-> {accounts[i] : i \in I}] :
          I \in {J \in SUBSET Idx : Cardinality(J) \in 1 .. MaxPicked}}

\* gen_range panics on the empty ranges 1..=0.
CannotGenerate == max_sequence_length = 0 \/ (has_instructions /\ N = 0)

RoundPanics ==
  /\ stage = "Idle" /\ round_count < MaxRounds
  /\ CannotGenerate
  /\ round_count' = round_count + 1
  /\ stage' = "Panicked"
  /\ UNCHANGED <<execVars, configVars, is_crash, violated>>

\* Steps 1 and 2 of run_one_round: generate the sequence, mutate a copy of the pool.
RoundBegins ==
  /\ stage = "Idle" /\ round_count < MaxRounds
  /\ ~CannotGenerate
  /\ round_count' = round_count + 1
  /\ \E n \in 1 .. max_sequence_length : actions' \in [1 .. n -> random_action]
  /\ slice' \in mutate_accounts(accounts)
  /\ stage' = "SetUp"
  /\ UNCHANGED <<svm, results, snapshot, call, vmAtStart, configVars, is_crash, violated>>

MutantGoesOnWhenNotLoaded ==
  /\ stage = "SetUp" /\ executor
  /\ svm' = set_accounts(svm, slice)
  /\ SequenceStart(actions, slice)
  /\ vmAtStart' = svm'
  /\ stage' = "Execute"
  /\ UNCHANGED <<configVars, round_count, is_crash, violated>>

\* Step 3: load the working accounts.  What was written before the entry that is
\* not accepted stays in the runtime when set_accounts fails.
RoundLoads ==
  /\ stage = "SetUp" /\ executor
  /\ svm' = set_accounts(svm, slice)
  /\ IF set_accounts_ok(slice)
     THEN /\ SequenceStart(actions, slice)
          /\ vmAtStart' = svm'
     ELSE /\ call' = "Err"
          /\ UNCHANGED <<slice, actions, results, snapshot, vmAtStart>>
  /\ stage' = "Execute"
  /\ UNCHANGED <<configVars, round_count, is_crash, violated>>

RoundHasNoExecutor ==
  /\ stage = "SetUp" /\ ~executor
  /\ call' = "Err"
  /\ stage' = "Execute"
  /\ UNCHANGED <<svm, slice, actions, results, snapshot, vmAtStart,
                 configVars, round_count, is_crash, violated>>

RoundExecutes ==
  /\ stage = "Execute"
  /\ SequenceStep
  /\ UNCHANGED <<configVars, roundVars>>

\* Step 4 when the execution returned Ok, whatever its transactions did.
RoundChecks ==
  /\ stage = "Execute" /\ call = "Ok"
  /\ violated' = {inv \in {"supply", "admin", "paused"} :
                    \/ inv = "supply" /\ SupplyViolated(slice, accounts)
                    \/ inv = "admin" /\ AdminViolated(slice, accounts)
                    \/ inv = "paused" /\ PausedViolated(slice)}
  /\ is_crash' = FALSE
  /\ stage' = "Returned"
  /\ UNCHANGED <<execVars, configVars, round_count>>

\* Step 4 when it returned Err; a failing reset is ignored.
RoundCrashes ==
  /\ stage = "Execute" /\ call = "Err"
  /\ is_crash' = TRUE
  /\ reset_executor
  /\ stage' = "Returned"
  /\ UNCHANGED <<slice, actions, results, snapshot, call, vmAtStart,
                 accounts, program_bytes, has_instructions, max_sequence_length,
                 round_count, violated>>

\* The caller has used the FuzzRoundResult; the round's locals are gone.
RoundCollected ==
  /\ stage = "Returned"
  /\ stage' = "Idle" /\ call' = "Idle"
  /\ slice' = accounts /\ snapshot' = accounts
  /\ actions' = << >> /\ results' = << >>
  /\ vmAtStart' = EmptyVm
  /\ is_crash' = FALSE /\ violated' = {}
  /\ UNCHANGED <<svm, configVars, round_count>>

\* The steps run_one_round takes by itself once it is called.
RoundStep ==
  \/ RoundLoads \/ RoundHasNoExecutor \/ RoundExecutes \/ RoundChecks \/ RoundCrashes

Next ==
  \/ \E bytes \in Binaries : deploy_program(bytes)
  \/ register_instruction
  \/ RoundPanics
  \/ RoundBegins
  \/ RoundStep
  \/ RoundCollected

Spec == Init /\ [][Next]_vars
--------------------------------------------------------------------------------
TypeOK ==
  /\ ExecTypeOK
  /\ accounts \in Slices
  /\ executor \in BOOLEAN
  /\ program_bytes \in Binaries \cup {NoBytes}
  /\ has_instructions \in BOOLEAN /\ max_sequence_length \in SequenceLengths
  /\ round_count \in 0 .. MaxRounds
  /\ stage \in {"Idle", "SetUp", "Execute", "Returned", "Panicked"}
  /\ stage \in {"Idle", "SetUp", "Panicked"} <=> call = "Idle"
  /\ is_crash \in BOOLEAN
  /\ violated \subseteq {"supply", "admin", "paused"}

\* While a sequence runs, restoring its snapshot cannot fail half-way (the branch
\* that only prints WARN), and the snapshot holds every address the sequence writes.
SnapshotIsComplete ==
  call = "Running" => set_accounts_ok(snapshot) /\ Written \subseteq KeysOf(snapshot)

\* A round whose sequence failed leaves the whole runtime, and the working accounts,
\* as they were right after the accounts were loaded, even when pool entries share a
\* key and whatever the transactions before the failing one committed.
RollbackRestoresRuntime ==
  stage \in {"Execute", "Returned"} /\ call = "Ok" /\ Failed
  => svm = vmAtStart /\ slice = snapshot

\* An account the pool marks read-only is never changed by a round: neither by the
\* mutator nor by a transaction, a read-back or a rollback.  (With a key that occurs
\* twice, once writable, it may be.)
ReadOnlyUntouched ==
  DistinctKeys(accounts) =>
    \A i \in Idx : ~accounts[i].is_writable => slice[i] = accounts[i]

\* What the invariants are checked against is what the runtime holds, except for
\* accounts the runtime no longer has.
SliceMirrorsRuntime ==
  DistinctKeys(accounts) /\ stage \in {"Execute", "Returned"} /\ call \in {"Running", "Ok"}
  => \A i \in Idx : svm[slice[i].key] \in {NoAccount, ToVm(slice[i])}

\* Between rounds the runtime holds either no account or all of the pool's: what a
\* failing set_accounts wrote before it stopped is never carried into a later round
\* (as long as the kept binary still loads).
AllOrNothingLoad ==
  stage \in {"Idle", "SetUp"} /\ ~ReapsEmpty /\ Loads(program_bytes)
  => svm = EmptyVm \/ \A i \in Idx : accounts[i].key \in Keys /\ svm[accounts[i].key] # NoAccount

\* execute_sequence undoes nothing when it returns Err, whatever its transactions have
\* committed by then: an unparsable program id, or a read-back that stops at a key.  No
\* round ever gets there.  An Err comes before the first transaction, since whatever
\* could stop a later step has stopped the load, or has left the round no executor.
ErrBeforeAnyTransaction == call = "Err" => results = << >>

\* The runtime conserves lamports, so the supply template can only fail on a round
\* whose mutated accounts failed it before the first transaction.
SupplyAlarmBlamesMutator ==
  DistinctKeys(accounts) /\ "supply" \in violated => SupplyViolated(snapshot, accounts)

\* A pool without signer accounts never makes Transaction::new panic, although the
\* mutator toggles the signer flag of the working copies.
PanicNeedsSignerInPool == call = "Panicked" => \E i \in Idx : accounts[i].is_signer

--------------------------------------------------------------------------------
(* The inductive invariant behind the properties above.                     *)

\* Every action of the sequence names pool accounts as the pool has them.
ActionsFromPool ==
  \A j \in DOMAIN actions :
    /\ actions[j].program_id = ProgramId
    /\ \A a \in actions[j].accounts : \E i \in Idx : a = accounts[i]

\* The slots of the working copy and of the snapshot are those of the pool.
SlotsKeepPlace ==
  \A i \in Idx : /\ slice[i].key = accounts[i].key
                 /\ snapshot[i].key = accounts[i].key

\* A kept binary that loads has been loaded; an executor needs a valid program id.
ExecutorKept == (Loads(program_bytes) => executor) /\ (executor => ProgramId # BadStr)

\* While the sequence runs, writing the snapshot back would undo all it has done.
RunningInv ==
  call = "Running" =>
    /\ stage = "Execute" /\ executor
    /\ set_accounts_ok(snapshot)
    /\ ~Failed
    /\ vmAtStart = set_accounts(vmAtStart, snapshot)
    /\ \A k \in Keys \ KeysOf(snapshot) : svm[k] = vmAtStart[k]

ErrInv == call = "Err" => results = << >> /\ (set_accounts_ok(slice) => ~executor)

ReadOnlyInv ==
  DistinctKeys(accounts) =>
    \A i \in Idx : ~accounts[i].is_writable =>
      /\ slice[i] = accounts[i] /\ snapshot[i] = accounts[i]
      /\ call = "Running" => svm[accounts[i].key] = ToVm(accounts[i])

RoundInv ==
  /\ TypeOK
  /\ stage = "Returned" => call \in {"Ok", "Err"}
  /\ ActionsFromPool
  /\ SlotsKeepPlace
  /\ ExecutorKept
  /\ RunningInv
  /\ ErrInv
  /\ RollbackRestoresRuntime
  /\ PanicNeedsSignerInPool
  /\ ReadOnlyInv

--------------------------------------------------------------------------------
(* A round is atomic: while the sequence runs, the ledger an observer will  *)
(* see is still the one the round loaded.                                   *)
Status ==
  IF stage \notin {"Execute", "Returned"} THEN "Idle"
  ELSE IF call \in {"Running", "Panicked"} THEN "Loaded"
  ELSE IF call = "Err" THEN "Broken"
  ELSE IF Failed THEN "Aborted"
  ELSE "Committed"

Atomic == INSTANCE AtomicRound WITH
  Addresses <- Keys, Empty <- NoAccount, Balance <- VmLamports,
  ledger <- IF Status = "Loaded" THEN vmAtStart ELSE svm,
  status <- Status,
  tracked <- KeysOf(accounts) \ {BadStr},
  writable <- {accounts[i].key : i \in {j \in Idx : accounts[j].is_writable}} \ {BadStr}

\* Every behaviour of the fuzzer is one of atomic rounds.
RoundsAreAtomic == Atomic!ASpec

================================================================================
