---------------------------- MODULE LiteSvmExecutor ----------------------------
(***************************************************************************)
(* crates/fuzz-core/src/executor.rs: the wrapper that loads accounts into  *)
(* the embedded Solana runtime (LiteSVM), sends one transaction per action *)
(* and rolls the accounts back when a transaction fails.                   *)
(*                                                                         *)
(* LiteSVM and the program under test are external.  They are modelled by  *)
(* what every Solana runtime guarantees a transaction: it changes only the *)
(* accounts it names as writable, it neither creates nor destroys          *)
(* lamports, and a failing one changes nothing.  Which effect it has, and  *)
(* whether it fails, is a choice.  ReapsEmpty says whether an account that *)
(* is left with no lamports disappears from the runtime, and Refused what  *)
(* set_account answers with an error, such as a sysvar that does not decode. *)
(*                                                                         *)
(* ExecSpec is the executor in the hands of a client that calls its public *)
(* operations in any order with any slice.  Module Fuzzer composes the     *)
(* same actions with its own round.                                        *)
(*                                                                         *)
(* An operator named Mutant... is a faulty version of the definition that  *)
(* follows it, used only to show that a property can fail.                 *)
(***************************************************************************)
EXTENDS FuzzAccount, Sequences

CONSTANTS
  NoAccount,      \* what get_account returns for an address that holds nothing
  ReapsEmpty,     \* does the runtime drop accounts without lamports?
  Refused,        \* the <<address, account>> pairs LiteSVM's set_account refuses
  ProgramIds,     \* the program ids that parse
  ClientSlices,   \* the slices a direct client builds
  ClientActions,  \* the actions a direct client builds
  MaxClientLen    \* bound: the longest sequence a direct client submits

VARIABLES
  svm,        \* the accounts of the runtime, by address
  slice,      \* the caller's `accounts: &mut [FuzzAccount]'
  actions,    \* the sequence being executed
  results,    \* the Vec<InstructionResult> built so far, one outcome per action
  snapshot,   \* snapshot_accounts
  call,       \* where the call of execute_sequence is
  vmAtStart   \* history: the runtime's accounts when the sequence began

execVars == <<svm, slice, actions, results, snapshot, call, vmAtStart>>

FuzzActions == [program_id : ProgramIds \cup {BadStr}, accounts : SUBSET FuzzAccounts]

VmAccounts == [owner : Owners, lamports : Lamports, data : Data]

Outcomes == {"Ok", "InstructionError", "OtherError"}

ASSUME ExecutorAssumption ==
  /\ ReapsEmpty \in BOOLEAN
  /\ NoAccount \notin VmAccounts
  /\ Refused \subseteq Keys \X VmAccounts
  /\ BadStr \notin ProgramIds
  /\ ClientSlices \subseteq Slices
  /\ ClientActions \subseteq FuzzActions
  /\ MaxClientLen \in Nat

Vms == [Keys -> VmAccounts \cup {NoAccount}]

EmptyVm == [k \in Keys |-> NoAccount]

Settle(c) == IF ReapsEmpty /\ c.lamports = 0 THEN NoAccount ELSE c

VmLamports(c) == IF c = NoAccount THEN 0 ELSE c.lamports

--------------------------------------------------------------------------------
(* set_accounts and read_accounts walk the slice and stop with Err at the   *)
(* first entry that does not parse or that LiteSVM refuses, keeping what    *)
(* they did before it.                                                      *)
Stored(a) == [owner |-> a.owner, lamports |-> a.lamports, data |-> a.data]

Accepted(a) == a.key # BadStr /\ a.owner # BadStr /\ <<a.key, Stored(a)>> \notin Refused

SetPrefix(s) == {i \in Idx : \A j \in 1 .. i : Accepted(s[j])}

set_accounts_ok(s) == SetPrefix(s) = Idx

WritersOf(s, k) == {i \in SetPrefix(s) : s[i].key = k}

ToVm(a) == Settle(Stored(a))

MutantDropsTheRest(v, s) ==
  [k \in Keys |-> IF WritersOf(s, k) = {} THEN NoAccount ELSE ToVm(s[Max(WritersOf(s, k))])]

\* The last entry of a key wins.
set_accounts(v, s) ==
  [k \in Keys |-> IF WritersOf(s, k) = {} THEN v[k] ELSE ToVm(s[Max(WritersOf(s, k))])]

ReadPrefix(s) == {i \in Idx : \A j \in 1 .. i : s[j].key # BadStr}

read_accounts_ok(s) == ReadPrefix(s) = Idx

MutantReadsAllButLast(v, s) ==
  [i \in Idx |->
     IF i < N /\ v[s[i].key] # NoAccount
     THEN [s[i] EXCEPT !.lamports = v[s[i].key].lamports,
                       !.data = v[s[i].key].data,
                       !.owner = v[s[i].key].owner]
     ELSE s[i]]

\* An address that holds nothing leaves its entry as it was.
read_accounts(v, s) ==
  [i \in Idx |->
     IF i \in ReadPrefix(s) /\ v[s[i].key] # NoAccount
     THEN [s[i] EXCEPT !.lamports = v[s[i].key].lamports,
                       !.data = v[s[i].key].data,
                       !.owner = v[s[i].key].owner]
     ELSE s[i]]

--------------------------------------------------------------------------------
(* One transaction.  A key that does not parse becomes Pubkey::default(),   *)
(* the system program's own address, which no transaction can write.        *)
WritableKeys(action) == {a.key : a \in {b \in action.accounts : b.is_writable}} \ {BadStr}

MutantSignsAsLoaded(action) ==
  \E a \in action.accounts : \E i \in Idx : slice[i].key = a.key /\ slice[i].is_signer

\* Only the payer signs; Transaction::new panics if anybody else has to.
NeedsOtherSigner(action) == \E a \in action.accounts : a.is_signer

\* External: the accounts a successful transaction may leave.
TransactionEffects(v, W) ==
  LET Before == SumFunction([k \in W |-> VmLamports(v[k])])
      After == {e \in [W -> VmAccounts] : SumFunction([k \in W |-> e[k].lamports]) = Before}
  IN  {[k \in Keys |-> IF k \in W THEN Settle(e[k]) ELSE v[k]] : e \in After}

is_crash_error(outcome) == outcome = "InstructionError"

\* The index of the action the loop is at.
Current == Len(results) + 1

Sending ==
  /\ call = "Running"
  /\ Current <= Len(actions)
  /\ actions[Current].program_id # BadStr

--------------------------------------------------------------------------------
(* execute_sequence, one action per step of its loop.                       *)

\* The entry of the call: the snapshot is a copy of the caller's slice.
SequenceStart(as, s) ==
  /\ actions' = as
  /\ slice' = s
  /\ snapshot' = s
  /\ results' = << >>
  /\ call' = "Running"

\* `?' on an unparsable program id: Err, with no rollback.
SequenceBadProgram ==
  /\ call = "Running"
  /\ Current <= Len(actions)
  /\ actions[Current].program_id = BadStr
  /\ call' = "Err"
  /\ UNCHANGED <<svm, slice, actions, results, snapshot, vmAtStart>>

SequenceSignPanic ==
  /\ Sending
  /\ NeedsOtherSigner(actions[Current])
  /\ call' = "Panicked"
  /\ UNCHANGED <<svm, slice, actions, results, snapshot, vmAtStart>>

\* The runtime accepts the transaction; the slice is read back from it.
SequenceTxOk ==
  /\ Sending
  /\ ~NeedsOtherSigner(actions[Current])
  /\ svm' \in TransactionEffects(svm, WritableKeys(actions[Current]))
  /\ results' = Append(results, "Ok")
  /\ slice' = read_accounts(svm', slice)
  /\ call' = IF read_accounts_ok(slice) THEN "Running" ELSE "Err"
  /\ UNCHANGED <<actions, snapshot, vmAtStart>>

MutantNoRollback ==
  /\ Sending
  /\ ~NeedsOtherSigner(actions[Current])
  /\ \E e \in Outcomes \ {"Ok"} : results' = Append(results, e)
  /\ slice' = snapshot
  /\ call' = "Ok"
  /\ UNCHANGED <<svm, actions, snapshot, vmAtStart>>

MutantKeepsSlice ==
  /\ Sending
  /\ ~NeedsOtherSigner(actions[Current])
  /\ \E e \in Outcomes \ {"Ok"} : results' = Append(results, e)
  /\ svm' = set_accounts(svm, snapshot)
  /\ call' = "Ok"
  /\ UNCHANGED <<slice, actions, snapshot, vmAtStart>>

\* The runtime refuses it: write the snapshot back (as far as it is accepted, a
\* failure is only logged), restore the slice and return the partial results.
SequenceTxErr ==
  /\ Sending
  /\ ~NeedsOtherSigner(actions[Current])
  /\ \E e \in Outcomes \ {"Ok"} : results' = Append(results, e)
  /\ svm' = set_accounts(svm, snapshot)
  /\ slice' = snapshot
  /\ call' = "Ok"
  /\ UNCHANGED <<actions, snapshot, vmAtStart>>

SequenceEnd ==
  /\ call = "Running"
  /\ Current > Len(actions)
  /\ call' = "Ok"
  /\ UNCHANGED <<svm, slice, actions, results, snapshot, vmAtStart>>

SequenceStep ==
  \/ SequenceBadProgram
  \/ SequenceSignPanic
  \/ SequenceTxOk
  \/ SequenceTxErr
  \/ SequenceEnd

--------------------------------------------------------------------------------
(* A direct client of the executor.                                         *)

ExecInit ==
  /\ svm = EmptyVm
  /\ slice \in ClientSlices
  /\ actions = << >> /\ results = << >> /\ snapshot = slice
  /\ call = "Idle"
  /\ vmAtStart = EmptyVm

\* The client turns to another slice.
ClientTakes(s) ==
  /\ call = "Idle"
  /\ slice' = s
  /\ snapshot' = s
  /\ UNCHANGED <<svm, actions, results, call, vmAtStart>>

ClientSets ==
  /\ call = "Idle"
  /\ svm' = set_accounts(svm, slice)
  /\ UNCHANGED <<slice, actions, results, snapshot, call, vmAtStart>>

ClientReads ==
  /\ call = "Idle"
  /\ slice' = read_accounts(svm, slice)
  /\ snapshot' = slice'
  /\ UNCHANGED <<svm, actions, results, call, vmAtStart>>

ClientExecutes(as) ==
  /\ call = "Idle"
  /\ SequenceStart(as, slice)
  /\ vmAtStart' = svm
  /\ UNCHANGED svm

\* The client has looked at the result and is ready for another call.
ClientContinues ==
  /\ call \in {"Ok", "Err"}
  /\ call' = "Idle"
  /\ actions' = << >> /\ results' = << >>
  /\ snapshot' = slice
  /\ vmAtStart' = EmptyVm
  /\ UNCHANGED <<svm, slice>>

ExecNext ==
  \/ \E s \in ClientSlices : ClientTakes(s)
  \/ ClientSets
  \/ ClientReads
  \/ \E n \in 1 .. MaxClientLen : \E as \in [1 .. n -> ClientActions] : ClientExecutes(as)
  \/ SequenceStep
  \/ ClientContinues

ExecSpec == ExecInit /\ [][ExecNext]_execVars

ExecTypeOK ==
  /\ svm \in Vms /\ vmAtStart \in Vms
  /\ slice \in Slices /\ snapshot \in Slices
  /\ actions \in Seq(FuzzActions)
  /\ results \in Seq(Outcomes) /\ Len(results) <= Len(actions)
  /\ call = "Idle" => results = << >>
  /\ call \in {"Idle", "Running", "Ok", "Err", "Panicked"}
--------------------------------------------------------------------------------
(* Properties of one call of execute_sequence.                              *)

KeysOf(s) == {s[i].key : i \in Idx}

Failed == results # << >> /\ results[Len(results)] # "Ok"

\* The addresses some action of the sequence may write.
Written == UNION {WritableKeys(actions[i]) : i \in DOMAIN actions}

\* When the slice agreed with the runtime at the call, can be set, and names every
\* address the sequence writes, a failing transaction leaves the runtime (and the
\* slice) exactly as they were before the sequence.
SyncedRollback ==
  (/\ call = "Ok" /\ Failed
   /\ set_accounts_ok(snapshot) /\ set_accounts(vmAtStart, snapshot) = vmAtStart
   /\ Written \subseteq KeysOf(snapshot))
  => svm = vmAtStart /\ slice = snapshot

\* An account that no action names as writable and that the caller's slice does
\* not hold is out of reach of the whole call, its rollback included.
OutOfReach ==
  call # "Idle" => \A k \in Keys \ (Written \cup KeysOf(snapshot)) : svm[k] = vmAtStart[k]

\* executor.rs:114-115 and 121: on failure the runtime's accounts are rolled back
\* to what they were before the sequence, even for a client whose slice agrees with
\* the runtime.  (The code snapshots the caller's slice, not the runtime: an address
\* the slice does not hold keeps what an earlier transaction of the sequence did.)
RollbackToVmSnapshot ==
  call = "Ok" /\ Failed /\ set_accounts_ok(snapshot)
    /\ set_accounts(vmAtStart, snapshot) = vmAtStart
  => svm = vmAtStart
================================================================================
