----------------------------- MODULE FuzzerProofs -----------------------------
(***************************************************************************)
(* Theorems about the executor (LiteSvmExecutor), the fuzzer (Fuzzer) and  *)
(* the loops that drive it (Campaign): the fuzzer's inductive invariant,   *)
(* the executor in the hands of a direct client, what the runtime holds,   *)
(* conservation of lamports, the refinement of AtomicRound, and campaigns. *)
(***************************************************************************)
EXTENDS Campaign, WellFoundedInduction, FiniteSetTheorems, FunctionTheorems, TLAPS

LEMMA LeastElement ==
  ASSUME NEW T, T \subseteq Nat, T # {}
  PROVE  \E x \in T : \A y \in T : x <= y
<1>1. \E x \in T : \A y \in T : <<y, x>> \notin OpToRel(<, Nat)
  BY NatLessThanWellFounded, WFMin, Zenon
<1>2. \A x, y \in Nat : <<y, x>> \notin OpToRel(<, Nat) => x <= y
  BY DEF OpToRel
<1> QED
  BY <1>1, <1>2

LEMMA MaxOfIndices ==
  ASSUME NEW n \in Nat, NEW S, S \subseteq 1 .. n, S # {}
  PROVE  Max(S) \in S
<1> DEFINE T == {n - x : x \in S}
<1>1. PICK t \in T : \A y \in T : t <= y
  <2>1. T \subseteq Nat
    OBVIOUS
  <2>2. T # {}
    OBVIOUS
  <2> QED
    BY <2>1, <2>2, LeastElement
<1>2. PICK m \in S : t = n - m
  OBVIOUS
<1>3. \A y \in S : m >= y
  <2>1. SUFFICES ASSUME NEW y \in S PROVE m >= y
    OBVIOUS
  <2>2. n - m <= n - y
    BY <1>1, <1>2
  <2> QED
    BY <2>2
<1> QED
  BY <1>3 DEF Max

\* What set_account accepts parses.
LEMMA PrefixParses ==
  ASSUME NEW s, NEW i \in SetPrefix(s)
  PROVE  i \in Idx /\ s[i].key # BadStr /\ s[i].owner # BadStr
<1>1. i \in Idx /\ \A j \in 1 .. i : Accepted(s[j])
  BY Zenon DEF SetPrefix
<1>2. i \in 1 .. i
  BY <1>1, FuzzAccountAssumption DEF Idx
<1>3. Accepted(s[i])
  BY <1>1, <1>2, Zenon
<1> QED
  BY <1>1, <1>3, Zenon DEF Accepted

LEMMA SlotsParse ==
  ASSUME NEW s, set_accounts_ok(s)
  PROVE  \A i \in Idx : s[i].key # BadStr /\ s[i].owner # BadStr
<1>1. \A i \in Idx : i \in SetPrefix(s)
  BY DEF set_accounts_ok
<1> QED
  BY <1>1, PrefixParses, Zenon

LEMMA SetAccountsType ==
  ASSUME NEW v \in Vms, NEW s \in Slices
  PROVE  set_accounts(v, s) \in Vms
<1> SUFFICES ASSUME NEW k \in Keys
             PROVE  set_accounts(v, s)[k] \in VmAccounts \cup {NoAccount}
  BY DEF set_accounts, Vms
<1>1. CASE WritersOf(s, k) = {}
  BY <1>1 DEF set_accounts, Vms
<1>2. CASE WritersOf(s, k) # {}
  <2> DEFINE i == Max(WritersOf(s, k))
  <2>1. WritersOf(s, k) \subseteq 1 .. N
    BY DEF WritersOf, SetPrefix, Accepted, Idx
  <2>2. i \in WritersOf(s, k)
    BY <1>2, <2>1, MaxOfIndices, FuzzAccountAssumption
  <2>3. i \in Idx /\ s[i].owner # BadStr
    BY <2>2, PrefixParses DEF WritersOf
  <2>4. s[i] \in FuzzAccounts
    BY <2>3 DEF Slices
  <2>5. ToVm(s[i]) \in VmAccounts \cup {NoAccount}
    BY <2>3, <2>4 DEF FuzzAccounts, ToVm, Stored, Settle, VmAccounts
  <2> QED
    BY <1>2, <2>5 DEF set_accounts
<1> QED
  BY <1>1, <1>2

LEMMA ReadAccountsType ==
  ASSUME NEW v \in Vms, NEW s \in Slices
  PROVE  read_accounts(v, s) \in Slices
<1> SUFFICES ASSUME NEW i \in Idx
             PROVE  read_accounts(v, s)[i] \in FuzzAccounts
  BY DEF read_accounts, Slices
<1>1. s[i] \in FuzzAccounts
  BY DEF Slices
<1>2. CASE i \in ReadPrefix(s) /\ v[s[i].key] # NoAccount
  <2>1. s[i].key \in Keys
    BY <1>1, <1>2, FuzzAccountAssumption DEF ReadPrefix, Idx, FuzzAccounts
  <2>2. v[s[i].key] \in VmAccounts
    BY <1>2, <2>1 DEF Vms
  <2> QED
    BY <1>1, <1>2, <2>2 DEF read_accounts, FuzzAccounts, VmAccounts
<1>3. CASE ~(i \in ReadPrefix(s) /\ v[s[i].key] # NoAccount)
  BY <1>1, <1>3 DEF read_accounts
<1> QED
  BY <1>2, <1>3

LEMMA EffectsType ==
  ASSUME NEW v \in Vms, NEW W, NEW u \in TransactionEffects(v, W)
  PROVE  u \in Vms /\ \A k \in Keys \ W : u[k] = v[k]
<1>1. PICK e \in [W -> VmAccounts] : u = [k \in Keys |-> IF k \in W THEN Settle(e[k]) ELSE v[k]]
  BY DEF TransactionEffects
<1>2. \A k \in Keys : k \in W => Settle(e[k]) \in VmAccounts \cup {NoAccount}
  BY DEF Settle
<1> QED
  BY <1>1, <1>2 DEF Vms

LEMMA MutateType ==
  ASSUME NEW s \in Slices, NEW w \in mutate_accounts(s)
  PROVE  /\ w \in Slices
         /\ \A i \in Idx : /\ w[i].key = s[i].key
                           /\ w[i].is_writable = s[i].is_writable
                           /\ ~s[i].is_writable => w[i] = s[i]
<1>1. ASSUME NEW a \in FuzzAccounts, NEW b \in MutateAccount(a)
      PROVE  /\ b \in FuzzAccounts
             /\ b.key = a.key /\ b.is_writable = a.is_writable
             /\ ~a.is_writable => b = a
  <2>1. CASE ~a.is_writable
    BY <2>1 DEF MutateAccount
  <2>2. CASE a.is_writable
    <3>2. Rolled("replace_owner", a.owner, mutate_owner) \subseteq Owners \cup {BadStr}
      BY FuzzAccountAssumption DEF FuzzAccounts, mutate_owner, Rolled
    <3>3. Rolled("zero_lamports", a.lamports, {0}) \subseteq Lamports
      BY FuzzAccountAssumption DEF FuzzAccounts, Rolled
    <3>4. \A d \in Data : Rolled("clear_data", d, {NoData}) \subseteq Data
      BY FuzzAccountAssumption DEF Rolled
    <3>5. Rolled("flip_data", a.data, mutate_flip_data_bits(a.data)) \subseteq Data
      BY FuzzAccountAssumption DEF FuzzAccounts, mutate_flip_data_bits, Rolled
    <3>6. Rolled("swap_signer", a.is_signer, {~a.is_signer}) \subseteq BOOLEAN
      BY DEF FuzzAccounts, Rolled
    <3>7. Rolled("mutate_seeds", a.seeds, mutate_seeds(a.seeds)) \subseteq SeedStates
      BY DEF FuzzAccounts, mutate_seeds, SeedStates, Rolled
    <3> DEFINE datas == UNION {Rolled("clear_data", d, {NoData}) :
                        d \in Rolled("flip_data", a.data, mutate_flip_data_bits(a.data))}
    <3>8. datas \subseteq Data
      BY <3>4, <3>5
    <3> HIDE DEF datas
    <3>9. b \in [key : {a.key},
                 owner : Rolled("replace_owner", a.owner, mutate_owner),
                 lamports : Rolled("zero_lamports", a.lamports, {0}),
                 data : datas,
                 is_writable : {a.is_writable},
                 is_signer : Rolled("swap_signer", a.is_signer, {~a.is_signer}),
                 seeds : Rolled("mutate_seeds", a.seeds, mutate_seeds(a.seeds))]
      BY <2>2 DEF MutateAccount, MutatedFields, datas
    <3>10. b \in [key : Keys \cup {BadStr}, owner : Owners \cup {BadStr}, lamports : Lamports,
                  data : Data, is_writable : BOOLEAN, is_signer : BOOLEAN, seeds : SeedStates]
      BY <3>9, <3>2, <3>3, <3>8, <3>6, <3>7 DEF FuzzAccounts
    <3> QED
      BY <2>2, <3>9, <3>10 DEF FuzzAccounts
  <2> QED
    BY <2>1, <2>2
<1>2. \A i \in Idx : s[i] \in FuzzAccounts /\ w[i] \in MutateAccount(s[i])
  BY DEF mutate_accounts, Slices
<1>3. \A i \in Idx : w[i] \in FuzzAccounts
  BY <1>1, <1>2
<1>4. w \in Slices
  <2>1. w = [i \in Idx |-> w[i]]
    BY DEF mutate_accounts
  <2> QED
    BY <2>1, <1>3 DEF Slices
<1> QED
  BY <1>1, <1>2, <1>4

LEMMA RandomActionType ==
  ASSUME accounts \in Slices, NEW a \in random_action
  PROVE  /\ a \in FuzzActions
         /\ a.program_id = ProgramId
         /\ \A b \in a.accounts : \E i \in Idx : b = accounts[i]
<1>1. CASE ~has_instructions
  BY <1>1, FuzzerAssumption DEF random_action, FuzzActions
<1>2. CASE has_instructions
  <2>1. PICK I \in SUBSET Idx :
          a = [program_id |-> ProgramId, accounts |-> {accounts[i] : i \in I}]
    BY <1>2 DEF random_action
  <2>2. {accounts[i] : i \in I} \in SUBSET FuzzAccounts
    BY DEF Slices
  <2> QED
    BY <2>1, <2>2, FuzzerAssumption DEF FuzzActions
<1> QED
  BY <1>1, <1>2

LEMMA EmptySequences ==
  << >> \in Seq(FuzzActions) /\ << >> \in Seq(Outcomes) /\ Len(<< >>) = 0
  OBVIOUS

--------------------------------------------------------------------------------
LEMMA TypeOKInit == Init => TypeOK
<1> SUFFICES ASSUME Init PROVE TypeOK
  OBVIOUS
<1>1. accounts \in Slices
  BY FuzzerAssumption DEF Init
<1>2. EmptyVm \in Vms
  BY DEF EmptyVm, Vms
<1>3. actions \in Seq(FuzzActions) /\ results \in Seq(Outcomes) /\ Len(results) <= Len(actions)
  BY EmptySequences DEF Init
<1>4. ExecTypeOK
  BY <1>1, <1>2, <1>3 DEF Init, ExecTypeOK
<1>5. round_count \in 0 .. MaxRounds
  BY FuzzerAssumption DEF Init
<1>6. executor \in BOOLEAN /\ has_instructions \in BOOLEAN /\ is_crash \in BOOLEAN
  BY DEF Init
<1>7. /\ program_bytes \in Binaries \cup {NoBytes} /\ max_sequence_length \in SequenceLengths
      /\ stage \in {"Idle", "SetUp", "Execute", "Returned", "Panicked"}
      /\ stage \in {"Idle", "SetUp", "Panicked"} <=> call = "Idle"
      /\ violated \subseteq {"supply", "admin", "paused"}
  BY DEF Init
<1> QED
  BY <1>1, <1>4, <1>5, <1>6, <1>7 DEF TypeOK

LEMMA TypeOKNext == TypeOK /\ [Next]_vars => TypeOK'
<1> SUFFICES ASSUME TypeOK, [Next]_vars PROVE TypeOK'
  OBVIOUS
<1>a. \A bytes \in Binaries : NewExecutor(bytes) => svm' \in Vms /\ executor' \in BOOLEAN
  <2>1. EmptyVm \in Vms
    BY DEF EmptyVm, Vms
  <2> QED
    BY <2>1 DEF NewExecutor, TypeOK, ExecTypeOK
<1>1. ASSUME NEW bytes \in Binaries, deploy_program(bytes) PROVE TypeOK'
  BY <1>1, <1>a DEF TypeOK, ExecTypeOK, deploy_program, roundVars
<1>2. CASE register_instruction
  BY <1>2 DEF TypeOK, ExecTypeOK, register_instruction, roundVars, execVars
<1>3. CASE RoundPanics
  BY <1>3, FuzzerAssumption DEF TypeOK, ExecTypeOK, RoundPanics, execVars, configVars
<1>4. CASE RoundBegins
  <2>1. slice' \in Slices
    BY <1>4, MutateType DEF RoundBegins, TypeOK
  <2>2. PICK n \in Nat : actions' \in [1 .. n -> random_action]
    BY <1>4 DEF RoundBegins, TypeOK
  <2>3. actions' \in Seq(FuzzActions) /\ Len(actions') = n
    <3>1. \A i \in 1 .. n : actions'[i] \in FuzzActions
      BY <2>2, RandomActionType DEF TypeOK
    <3>2. actions' = [i \in 1 .. n |-> actions'[i]]
      BY <2>2
    <3> QED
      BY <3>1, <3>2
  <2>4. Len(results) <= Len(actions')
    BY <1>4, <2>3, EmptySequences DEF RoundBegins, TypeOK, ExecTypeOK
  <2> QED
    BY <1>4, <2>1, <2>3, <2>4, FuzzerAssumption DEF TypeOK, ExecTypeOK, RoundBegins, configVars
<1>5. CASE RoundLoads
  BY <1>5, SetAccountsType, EmptySequences
  DEF TypeOK, ExecTypeOK, RoundLoads, SequenceStart, configVars
<1>6. CASE RoundHasNoExecutor
  BY <1>6 DEF TypeOK, ExecTypeOK, RoundHasNoExecutor, configVars
<1>7. CASE RoundExecutes
  <2> USE <1>7 DEF RoundExecutes, configVars, roundVars
  <2>1. CASE SequenceBadProgram
    BY <2>1 DEF TypeOK, ExecTypeOK, SequenceBadProgram
  <2>2. CASE SequenceSignPanic
    BY <2>2 DEF TypeOK, ExecTypeOK, SequenceSignPanic
  <2>3. CASE SequenceTxOk
    <3>1. svm' \in Vms
      BY <2>3, EffectsType DEF SequenceTxOk, TypeOK, ExecTypeOK
    <3>2. slice' \in Slices
      BY <2>3, <3>1, ReadAccountsType DEF SequenceTxOk, TypeOK, ExecTypeOK
    <3>3. results' \in Seq(Outcomes) /\ Len(results') <= Len(actions)
      BY <2>3 DEF SequenceTxOk, Sending, Current, Outcomes, TypeOK, ExecTypeOK
    <3> QED
      BY <2>3, <3>1, <3>2, <3>3 DEF SequenceTxOk, TypeOK, ExecTypeOK
  <2>4. CASE SequenceTxErr
    <3>1. svm' \in Vms
      BY <2>4, SetAccountsType DEF SequenceTxErr, TypeOK, ExecTypeOK
    <3>2. results' \in Seq(Outcomes) /\ Len(results') <= Len(actions)
      BY <2>4 DEF SequenceTxErr, Sending, Current, Outcomes, TypeOK, ExecTypeOK
    <3> QED
      BY <2>4, <3>1, <3>2 DEF SequenceTxErr, TypeOK, ExecTypeOK
  <2>5. CASE SequenceEnd
    BY <2>5 DEF TypeOK, ExecTypeOK, SequenceEnd
  <2> QED
    BY <2>1, <2>2, <2>3, <2>4, <2>5 DEF SequenceStep
<1>8. CASE RoundChecks
  BY <1>8 DEF TypeOK, ExecTypeOK, RoundChecks, configVars, execVars
<1>9. CASE RoundCrashes
  <2>1. svm' \in Vms /\ executor' \in BOOLEAN
    BY <1>9, <1>a DEF RoundCrashes, reset_executor, TypeOK, ExecTypeOK
  <2> QED
    BY <1>9, <2>1 DEF TypeOK, ExecTypeOK, RoundCrashes
<1>10. CASE RoundCollected
  <2>1. EmptyVm \in Vms
    BY DEF EmptyVm, Vms
  <2>2. /\ actions' \in Seq(FuzzActions) /\ results' \in Seq(Outcomes)
        /\ Len(results') <= Len(actions')
    BY <1>10, EmptySequences DEF RoundCollected
  <2>3. ExecTypeOK'
    BY <1>10, <2>1, <2>2 DEF TypeOK, ExecTypeOK, RoundCollected
  <2> QED
    BY <1>10, <2>3 DEF TypeOK, RoundCollected, configVars
<1>11. CASE UNCHANGED vars
  BY <1>11 DEF TypeOK, ExecTypeOK, vars, execVars, configVars, roundVars
<1> QED
  BY <1>1, <1>2, <1>3, <1>4, <1>5, <1>6, <1>7, <1>8, <1>9, <1>10, <1>11
  DEF Next, RoundStep

\* Whatever the pool, the configuration, the program and the runtime do, every
\* variable of the fuzzer keeps its type.
THEOREM TypeCorrect == Spec => []TypeOK
  BY TypeOKInit, TypeOKNext, PTL DEF Spec

--------------------------------------------------------------------------------
(* Loading a slice: twice is once, and only the slice's own keys change.    *)
LEMMA SetAccountsIdempotent ==
  ASSUME NEW v, NEW s
  PROVE  set_accounts(set_accounts(v, s), s) = set_accounts(v, s)
  BY DEF set_accounts

LEMMA SetAccountsOutside ==
  ASSUME NEW v, NEW s, NEW k \in Keys \ KeysOf(s)
  PROVE  set_accounts(v, s)[k] = v[k]
<1>1. WritersOf(s, k) = {}
  BY FuzzAccountAssumption DEF WritersOf, SetPrefix, Accepted, KeysOf, Idx
<1> QED
  BY <1>1 DEF set_accounts

\* Writing a slice back undoes whatever happened to its own keys.
LEMMA SetAccountsRestores ==
  ASSUME NEW v \in Vms, NEW u \in Vms, NEW s, set_accounts_ok(s),
         v = set_accounts(v, s),
         \A k \in Keys \ KeysOf(s) : u[k] = v[k]
  PROVE  set_accounts(u, s) = v
<1>1. SUFFICES ASSUME NEW k \in Keys PROVE set_accounts(u, s)[k] = v[k]
  BY DEF set_accounts, Vms
<1>2. CASE k \in KeysOf(s)
  <2>1. WritersOf(s, k) # {}
    BY <1>2 DEF set_accounts_ok, WritersOf, KeysOf
  <2>2. set_accounts(u, s)[k] = set_accounts(v, s)[k]
    BY <2>1 DEF set_accounts
  <2> QED
    BY <2>2
<1>3. CASE k \notin KeysOf(s)
  BY <1>3, SetAccountsOutside
<1> QED
  BY <1>2, <1>3

\* The account of a key that occurs once is what its slot says.
LEMMA SetAccountsUnique ==
  ASSUME NEW v, NEW s \in Slices, set_accounts_ok(s), DistinctKeys(s), NEW i \in Idx
  PROVE  set_accounts(v, s)[s[i].key] = ToVm(s[i])
<1>1. s[i].key \in Keys
  <2>1. s[i] \in FuzzAccounts
    BY DEF Slices
  <2>2. s[i].key # BadStr
    BY SlotsParse
  <2> QED
    BY <2>1, <2>2 DEF FuzzAccounts
<1>2. WritersOf(s, s[i].key) = {i}
  BY DEF WritersOf, set_accounts_ok, DistinctKeys
<1>3. Max({i}) = i
  <2>1. {i} \subseteq 1 .. N
    BY DEF Idx
  <2> QED
    BY <2>1, MaxOfIndices, FuzzAccountAssumption
<1> QED
  BY <1>1, <1>2, <1>3 DEF set_accounts

LEMMA ReadAccountsKeepsKeys ==
  ASSUME NEW v, NEW s \in Slices, NEW i \in Idx
  PROVE  read_accounts(v, s)[i].key = s[i].key
<1>1. s[i] \in FuzzAccounts
  BY DEF Slices
<1>2. CASE i \in ReadPrefix(s) /\ v[s[i].key] # NoAccount
  BY <1>1, <1>2 DEF read_accounts, FuzzAccounts
<1>3. CASE ~(i \in ReadPrefix(s) /\ v[s[i].key] # NoAccount)
  BY <1>3 DEF read_accounts
<1> QED
  BY <1>2, <1>3

\* Reading back an account that did not change does not change its entry.
LEMMA ReadAccountsSame ==
  ASSUME NEW v, NEW s \in Slices, NEW i \in Idx, v[s[i].key] = ToVm(s[i])
  PROVE  read_accounts(v, s)[i] = s[i]
<1>1. s[i] \in FuzzAccounts
  BY DEF Slices
<1>2. CASE i \in ReadPrefix(s) /\ v[s[i].key] # NoAccount
  <2>1. v[s[i].key] = [owner |-> s[i].owner, lamports |-> s[i].lamports, data |-> s[i].data]
    BY <1>2 DEF ToVm, Stored, Settle
  <2>2. /\ v[s[i].key].lamports = s[i].lamports
        /\ v[s[i].key].data = s[i].data
        /\ v[s[i].key].owner = s[i].owner
    BY <2>1
  <2>3. read_accounts(v, s)[i] = [s[i] EXCEPT !.lamports = v[s[i].key].lamports,
                                              !.data = v[s[i].key].data,
                                              !.owner = v[s[i].key].owner]
    BY <1>2 DEF read_accounts
  <2> QED
    BY <1>1, <2>2, <2>3 DEF FuzzAccounts
<1>3. CASE ~(i \in ReadPrefix(s) /\ v[s[i].key] # NoAccount)
  BY <1>3 DEF read_accounts
<1> QED
  BY <1>2, <1>3

\* What the sequence may write lies in the pool, at slots the pool marks writable.
LEMMA WrittenInPool ==
  ASSUME ActionsFromPool, NEW j \in DOMAIN actions, NEW k \in WritableKeys(actions[j])
  PROVE  \E i \in Idx : accounts[i].key = k /\ accounts[i].is_writable
  BY DEF ActionsFromPool, WritableKeys

LEMMA KeysOfSnapshot ==
  ASSUME SlotsKeepPlace
  PROVE  KeysOf(snapshot) = KeysOf(accounts) /\ KeysOf(slice) = KeysOf(accounts)
  BY DEF SlotsKeepPlace, KeysOf
--------------------------------------------------------------------------------
LEMMA RoundInvInit == Init => RoundInv
<1> SUFFICES ASSUME Init PROVE RoundInv
  OBVIOUS
<1>1. TypeOK
  BY TypeOKInit
<1>2. ActionsFromPool
  <2>1. DOMAIN actions = {}
    BY DEF Init
  <2> QED
    BY <2>1 DEF ActionsFromPool
<1>3. ExecutorKept
  BY FuzzerAssumption DEF Init, ExecutorKept, Loads
<1> QED
  BY <1>1, <1>2, <1>3
  DEF Init, RoundInv, SlotsKeepPlace, RunningInv, ErrInv, RollbackRestoresRuntime,
      PanicNeedsSignerInPool, ReadOnlyInv

LEMMA RoundInvBegins ==
  ASSUME RoundInv, TypeOK', RoundBegins
  PROVE  RoundInv'
<1> USE DEF RoundBegins, configVars
<1>1. stage = "Idle" /\ call = "Idle" /\ accounts \in Slices
  BY DEF RoundInv, TypeOK
<1>2. ActionsFromPool'
  <2>1. PICK n \in Nat : actions' \in [1 .. n -> random_action]
    BY DEF RoundInv, TypeOK
  <2>2. \A j \in DOMAIN actions' : actions'[j] \in random_action
    BY <2>1
  <2> QED
    BY <2>2, <1>1, RandomActionType DEF ActionsFromPool
<1>3. SlotsKeepPlace'
  BY <1>1, MutateType DEF RoundInv, SlotsKeepPlace
<1>4. ReadOnlyInv'
  BY <1>1, MutateType DEF RoundInv, ReadOnlyInv
<1> QED
  BY <1>1, <1>2, <1>3, <1>4
  DEF RoundInv, ExecutorKept, Loads, RunningInv, ErrInv, RollbackRestoresRuntime,
      PanicNeedsSignerInPool

LEMMA RoundInvLoads ==
  ASSUME RoundInv, TypeOK', RoundLoads
  PROVE  RoundInv'
<1> USE DEF RoundLoads, configVars
<1>1. call = "Idle" /\ results = << >> /\ slice \in Slices /\ svm \in Vms
  BY DEF RoundInv, TypeOK, ExecTypeOK
<1>2. CASE set_accounts_ok(slice)
  <2>1. /\ actions' = actions /\ slice' = slice /\ snapshot' = slice
        /\ results' = << >> /\ call' = "Running" /\ vmAtStart' = svm'
        /\ svm' = set_accounts(svm, slice)
    BY <1>2 DEF SequenceStart
  <2>2. ActionsFromPool' /\ SlotsKeepPlace'
    BY <2>1 DEF RoundInv, ActionsFromPool, SlotsKeepPlace
  <2>3. RunningInv'
    <3>1. ~Failed'
      BY <2>1 DEF Failed
    <3>2. vmAtStart' = set_accounts(vmAtStart', snapshot')
      BY <2>1, SetAccountsIdempotent
    <3> QED
      BY <1>2, <2>1, <3>1, <3>2 DEF RunningInv
  <2>4. ReadOnlyInv'
    <3> SUFFICES ASSUME DistinctKeys(accounts), NEW i \in Idx, ~accounts[i].is_writable
                 PROVE  /\ slice[i] = accounts[i]
                        /\ svm'[accounts[i].key] = ToVm(accounts[i])
      BY <2>1 DEF ReadOnlyInv
    <3>1. slice[i] = accounts[i]
      BY DEF RoundInv, ReadOnlyInv
    <3>2. DistinctKeys(slice)
      BY DEF RoundInv, SlotsKeepPlace, DistinctKeys
    <3> QED
      BY <1>1, <1>2, <2>1, <3>1, <3>2, SetAccountsUnique
  <2> QED
    BY <2>1, <2>2, <2>3, <2>4
    DEF RoundInv, ExecutorKept, Loads, ErrInv, RollbackRestoresRuntime, PanicNeedsSignerInPool
<1>3. CASE ~set_accounts_ok(slice)
  BY <1>1, <1>3
  DEF RoundInv, ActionsFromPool, SlotsKeepPlace, ExecutorKept, Loads, RunningInv, ErrInv,
      RollbackRestoresRuntime, PanicNeedsSignerInPool, ReadOnlyInv
<1> QED
  BY <1>2, <1>3

LEMMA RoundInvBadProgram ==
  ASSUME RoundInv, TypeOK', RoundExecutes, SequenceBadProgram
  PROVE  RoundInv'
\* Not a step of the fuzzer: its executor only exists with a valid program id.
<1>1. Current \in DOMAIN actions
  BY DEF SequenceBadProgram, Current, RoundInv, TypeOK, ExecTypeOK
<1>2. ProgramId = BadStr
  BY <1>1 DEF SequenceBadProgram, RoundInv, ActionsFromPool
<1>3. FALSE
  BY <1>2 DEF SequenceBadProgram, RoundInv, RunningInv, ExecutorKept
<1> QED
  BY <1>3

LEMMA RoundInvSignPanic ==
  ASSUME RoundInv, TypeOK', RoundExecutes, SequenceSignPanic
  PROVE  RoundInv'
<1> USE DEF RoundExecutes, SequenceSignPanic, configVars, roundVars
<1>1. Current \in DOMAIN actions
  BY DEF Sending, Current, RoundInv, TypeOK, ExecTypeOK
<1>2. \E i \in Idx : accounts[i].is_signer
  BY <1>1 DEF NeedsOtherSigner, RoundInv, ActionsFromPool
<1>3. call = "Running" /\ stage = "Execute"
  BY DEF Sending, RoundInv, RunningInv
<1> QED
  BY <1>2, <1>3
  DEF RoundInv, ActionsFromPool, SlotsKeepPlace, ExecutorKept, Loads, RunningInv, ErrInv,
      RollbackRestoresRuntime, PanicNeedsSignerInPool, ReadOnlyInv

LEMMA RoundInvTxOk ==
  ASSUME RoundInv, TypeOK', RoundExecutes, SequenceTxOk
  PROVE  RoundInv'
<1> USE DEF RoundExecutes, SequenceTxOk, configVars, roundVars
<1>1. /\ call = "Running" /\ stage = "Execute" /\ slice \in Slices /\ svm \in Vms
      /\ svm' \in Vms /\ results \in Seq(Outcomes) /\ executor /\ set_accounts_ok(snapshot)
  BY DEF Sending, RoundInv, RunningInv, TypeOK, ExecTypeOK
<1>2. Current \in DOMAIN actions
  BY DEF Sending, Current, RoundInv, TypeOK, ExecTypeOK
<1>3. \A k \in Keys \ WritableKeys(actions[Current]) : svm'[k] = svm[k]
  BY <1>1, EffectsType
<1>4. SlotsKeepPlace'
  BY <1>1, ReadAccountsKeepsKeys DEF RoundInv, SlotsKeepPlace
<1>5. call' = "Running"
  <2>1. \A i \in Idx : snapshot[i].key # BadStr
    BY <1>1, SlotsParse
  <2>2. \A i \in Idx : slice[i].key # BadStr
    BY <2>1 DEF RoundInv, SlotsKeepPlace
  <2>3. read_accounts_ok(slice)
    BY <2>2, FuzzAccountAssumption DEF read_accounts_ok, ReadPrefix, Idx
  <2> QED
    BY <2>3
<1>6. RunningInv'
  <2>1. ~Failed'
    BY <1>1 DEF Failed
  <2>2. ASSUME NEW k \in Keys \ KeysOf(snapshot) PROVE svm'[k] = vmAtStart[k]
    <3>1. k \notin WritableKeys(actions[Current])
      BY <1>2, <2>2, WrittenInPool, KeysOfSnapshot DEF RoundInv, KeysOf
    <3> QED
      BY <1>1, <1>3, <3>1, <2>2 DEF RoundInv, RunningInv
  <2> QED
    BY <1>1, <2>1, <2>2 DEF RoundInv, RunningInv
<1>7. ReadOnlyInv'
  <2> SUFFICES ASSUME DistinctKeys(accounts), NEW i \in Idx, ~accounts[i].is_writable
               PROVE  /\ slice'[i] = accounts[i] /\ snapshot[i] = accounts[i]
                      /\ svm'[accounts[i].key] = ToVm(accounts[i])
    BY DEF ReadOnlyInv
  <2>1. /\ slice[i] = accounts[i] /\ snapshot[i] = accounts[i]
        /\ svm[accounts[i].key] = ToVm(accounts[i])
    BY <1>1 DEF RoundInv, ReadOnlyInv
  <2>2. accounts[i].key \in Keys
    <3>1. snapshot[i].key # BadStr
      BY <1>1, SlotsParse
    <3>2. accounts[i] \in FuzzAccounts
      BY DEF RoundInv, TypeOK, Slices
    <3> QED
      BY <2>1, <3>1, <3>2 DEF FuzzAccounts
  <2>3. accounts[i].key \notin WritableKeys(actions[Current])
    BY <1>2, WrittenInPool DEF RoundInv, DistinctKeys
  <2>4. svm'[accounts[i].key] = ToVm(accounts[i])
    BY <1>3, <2>1, <2>2, <2>3
  <2> QED
    BY <1>1, <2>1, <2>4, ReadAccountsSame
<1> QED
  BY <1>1, <1>4, <1>5, <1>6, <1>7
  DEF RoundInv, ActionsFromPool, ExecutorKept, Loads, ErrInv, RollbackRestoresRuntime,
      PanicNeedsSignerInPool, RunningInv, Failed

LEMMA RoundInvTxErr ==
  ASSUME RoundInv, TypeOK', RoundExecutes, SequenceTxErr
  PROVE  RoundInv'
<1> USE DEF RoundExecutes, SequenceTxErr, configVars, roundVars
<1>1. /\ call = "Running" /\ svm \in Vms /\ vmAtStart \in Vms
      /\ set_accounts_ok(snapshot)
  BY DEF Sending, RoundInv, RunningInv, TypeOK, ExecTypeOK
<1>2. svm' = vmAtStart
  BY <1>1, SetAccountsRestores DEF RoundInv, RunningInv
<1>3. RollbackRestoresRuntime'
  BY <1>2 DEF RollbackRestoresRuntime
<1>4. ReadOnlyInv'
  BY DEF RoundInv, ReadOnlyInv
<1> QED
  BY <1>3, <1>4
  DEF RoundInv, ActionsFromPool, SlotsKeepPlace, ExecutorKept, Loads, RunningInv, ErrInv,
      PanicNeedsSignerInPool

LEMMA RoundInvEnd ==
  ASSUME RoundInv, TypeOK', RoundExecutes, SequenceEnd
  PROVE  RoundInv'
<1> USE DEF RoundExecutes, SequenceEnd, configVars, roundVars
<1>1. call = "Running" /\ ~Failed /\ ~Failed'
  BY DEF RoundInv, RunningInv, Failed
<1> QED
  BY <1>1
  DEF RoundInv, ActionsFromPool, SlotsKeepPlace, ExecutorKept, Loads, RunningInv, ErrInv,
      RollbackRestoresRuntime, PanicNeedsSignerInPool, ReadOnlyInv
LEMMA RoundInvChecks ==
  ASSUME RoundInv, TypeOK', RoundChecks
  PROVE  RoundInv'
<1> USE DEF RoundChecks, configVars, execVars
<1>1. Failed' = Failed
  BY DEF Failed
<1> QED
  BY <1>1
  DEF RoundInv, ActionsFromPool, SlotsKeepPlace, ExecutorKept, Loads, RunningInv, ErrInv,
      RollbackRestoresRuntime, PanicNeedsSignerInPool, ReadOnlyInv

LEMMA RoundInvCrashes ==
  ASSUME RoundInv, TypeOK', RoundCrashes
  PROVE  RoundInv'
<1> USE DEF RoundCrashes
<1>1. program_bytes' = program_bytes /\ executor \in BOOLEAN
  BY DEF RoundInv, TypeOK
<1>2. ExecutorKept' /\ (~executor => ~executor')
  <2>1. CASE program_bytes = NoBytes
    BY <1>1, <2>1 DEF reset_executor, RoundInv, ExecutorKept, Loads
  <2>2. CASE program_bytes # NoBytes
    BY <1>1, <2>2 DEF reset_executor, NewExecutor, RoundInv, ExecutorKept, Loads
  <2> QED
    BY <2>1, <2>2
<1>3. ErrInv'
  BY <1>2 DEF RoundInv, ErrInv, set_accounts_ok, SetPrefix, Accepted
<1> QED
  BY <1>2, <1>3
  DEF RoundInv, ActionsFromPool, SlotsKeepPlace, RunningInv,
      RollbackRestoresRuntime, PanicNeedsSignerInPool, ReadOnlyInv

LEMMA RoundInvCollected ==
  ASSUME RoundInv, TypeOK', RoundCollected
  PROVE  RoundInv'
<1> USE DEF RoundCollected, configVars
<1>1. ActionsFromPool'
  <2>1. DOMAIN actions' = {}
    OBVIOUS
  <2> QED
    BY <2>1 DEF ActionsFromPool
<1> QED
  BY <1>1
  DEF RoundInv, SlotsKeepPlace, ExecutorKept, Loads, RunningInv, ErrInv,
      RollbackRestoresRuntime, PanicNeedsSignerInPool, ReadOnlyInv

LEMMA RoundInvBetweenRounds ==
  ASSUME RoundInv, TypeOK',
         \/ \E bytes \in Binaries : deploy_program(bytes)
         \/ register_instruction
         \/ RoundPanics
         \/ RoundHasNoExecutor
         \/ UNCHANGED vars
  PROVE  RoundInv'
<1> USE DEF RoundInv, ActionsFromPool, SlotsKeepPlace, RunningInv, ErrInv,
            RollbackRestoresRuntime, PanicNeedsSignerInPool, ReadOnlyInv
<1>1. ASSUME NEW bytes \in Binaries, deploy_program(bytes) PROVE RoundInv'
  <2>1. call = "Idle"
    BY <1>1 DEF deploy_program, TypeOK
  <2>2. ExecutorKept'
    BY <1>1 DEF deploy_program, NewExecutor, ExecutorKept, Loads, TypeOK
  <2> QED
    BY <1>1, <2>1, <2>2 DEF deploy_program, roundVars
<1>2. CASE register_instruction
  BY <1>2 DEF register_instruction, ExecutorKept, Loads, TypeOK, roundVars, execVars
<1>3. CASE RoundPanics
  BY <1>3 DEF RoundPanics, ExecutorKept, Loads, TypeOK, configVars, execVars
<1>4. CASE RoundHasNoExecutor
  <2>1. call = "Idle" /\ results = << >>
    BY <1>4 DEF RoundHasNoExecutor, TypeOK, ExecTypeOK
  <2> QED
    BY <1>4, <2>1 DEF RoundHasNoExecutor, ExecutorKept, Loads, configVars
<1>5. CASE UNCHANGED vars
  BY <1>5 DEF vars, execVars, configVars, roundVars, ExecutorKept, Loads, Failed
<1> QED
  BY <1>1, <1>2, <1>3, <1>4, <1>5

LEMMA RoundInvNext == RoundInv /\ [Next]_vars => RoundInv'
<1> SUFFICES ASSUME RoundInv, [Next]_vars PROVE RoundInv'
  OBVIOUS
<1>1. TypeOK'
  BY TypeOKNext DEF RoundInv
<1>2. CASE RoundExecutes
  BY <1>1, <1>2, RoundInvBadProgram, RoundInvSignPanic, RoundInvTxOk, RoundInvTxErr, RoundInvEnd
  DEF RoundExecutes, SequenceStep
<1> QED
  BY <1>1, <1>2, RoundInvBegins, RoundInvLoads, RoundInvChecks, RoundInvCrashes,
     RoundInvCollected, RoundInvBetweenRounds
  DEF Next, RoundStep

\* The fuzzer without its fairness, which no safety property needs.
Steps == Init /\ [][Next]_vars

LEMMA StepsKeepRoundInv == Steps => []RoundInv
  BY RoundInvInit, RoundInvNext, PTL DEF Steps

\* The inductive invariant holds for every pool, program and configuration.
THEOREM RoundInvariant == Spec => []RoundInv
  BY StepsKeepRoundInv, PTL DEF Spec, Steps

--------------------------------------------------------------------------------
\* A failed sequence leaves the runtime and the working accounts as they were
\* loaded, whatever its earlier transactions committed.
THEOREM RollbackIsExact == Spec => []RollbackRestoresRuntime
<1>1. RoundInv => RollbackRestoresRuntime
  BY DEF RoundInv
<1> QED
  BY <1>1, RoundInvariant, PTL

\* The snapshot of a running sequence always parses and holds all it may write, so
\* the rollback is never partial.
THEOREM SnapshotAlwaysComplete == Spec => []SnapshotIsComplete
<1>1. RoundInv => SnapshotIsComplete
  <2> SUFFICES ASSUME RoundInv, call = "Running"
               PROVE  set_accounts_ok(snapshot) /\ Written \subseteq KeysOf(snapshot)
    BY DEF SnapshotIsComplete
  <2>1. Written \subseteq KeysOf(accounts)
    BY WrittenInPool DEF Written, KeysOf, RoundInv
  <2> QED
    BY <2>1, KeysOfSnapshot DEF RoundInv, RunningInv
<1> QED
  BY <1>1, RoundInvariant, PTL

\* No round changes an account the pool marks read-only.
THEOREM ReadOnlyStaysUntouched == Spec => []ReadOnlyUntouched
<1>1. RoundInv => ReadOnlyUntouched
  BY DEF RoundInv, ReadOnlyInv, ReadOnlyUntouched
<1> QED
  BY <1>1, RoundInvariant, PTL

\* No mutation makes Transaction::new panic.
THEOREM PanicOnlyWithSigner == Spec => []PanicNeedsSignerInPool
<1>1. RoundInv => PanicNeedsSignerInPool
  BY DEF RoundInv
<1> QED
  BY <1>1, RoundInvariant, PTL

\* The Err that undoes nothing is never returned after a transaction.
THEOREM ErrUndoesNothing == Spec => []ErrBeforeAnyTransaction
<1>1. RoundInv => ErrBeforeAnyTransaction
  BY DEF RoundInv, ErrInv, ErrBeforeAnyTransaction
<1> QED
  BY <1>1, RoundInvariant, PTL

--------------------------------------------------------------------------------
(* A direct client of the executor.                                         *)

\* What the two properties of a call need besides each other.
ExecInv ==
  /\ ExecTypeOK
  /\ call = "Running" => ~Failed
  /\ OutOfReach
  /\ SyncedRollback

LEMMA ExecInvInit == ExecInit => ExecInv
<1> SUFFICES ASSUME ExecInit PROVE ExecInv
  OBVIOUS
<1>1. EmptyVm \in Vms /\ slice \in Slices
  BY ExecutorAssumption DEF EmptyVm, Vms, ExecInit
<1>2. actions \in Seq(FuzzActions) /\ results \in Seq(Outcomes) /\ Len(results) <= Len(actions)
  BY EmptySequences DEF ExecInit
<1> QED
  BY <1>1, <1>2 DEF ExecInit, ExecInv, ExecTypeOK, OutOfReach, SyncedRollback

LEMMA ExecTypeNext ==
  ASSUME ExecTypeOK, [ExecNext]_execVars
  PROVE  ExecTypeOK'
<1>1. ASSUME NEW s \in ClientSlices, ClientTakes(s) PROVE ExecTypeOK'
  BY <1>1, ExecutorAssumption DEF ExecTypeOK, ClientTakes
<1>2. CASE ClientSets
  BY <1>2, SetAccountsType DEF ExecTypeOK, ClientSets
<1>3. CASE ClientReads
  BY <1>3, ReadAccountsType DEF ExecTypeOK, ClientReads
<1>4. ASSUME NEW n \in 1 .. MaxClientLen,
             \E as \in [1 .. n -> ClientActions] : ClientExecutes(as)
      PROVE  ExecTypeOK'
  <2>1. actions' \in [1 .. n -> ClientActions] /\ ClientExecutes(actions')
    BY <1>4 DEF ClientExecutes, SequenceStart
  <2>2. n \in Nat /\ \A i \in 1 .. n : actions'[i] \in FuzzActions
    BY <2>1, ExecutorAssumption
  <2>3. actions' = [i \in 1 .. n |-> actions'[i]]
    BY <2>1
  <2>4. actions' \in Seq(FuzzActions) /\ Len(actions') \in Nat
    BY <2>2, <2>3
  <2> QED
    BY <2>1, <2>4, EmptySequences DEF ExecTypeOK, ClientExecutes, SequenceStart
<1>5. CASE SequenceBadProgram
  BY <1>5 DEF ExecTypeOK, SequenceBadProgram
<1>6. CASE SequenceSignPanic
  BY <1>6 DEF ExecTypeOK, SequenceSignPanic, Sending
<1>7. CASE SequenceTxOk
  <2>1. svm' \in Vms
    BY <1>7, EffectsType DEF SequenceTxOk, ExecTypeOK
  <2>2. slice' \in Slices
    BY <1>7, <2>1, ReadAccountsType DEF SequenceTxOk, ExecTypeOK
  <2>3. results' \in Seq(Outcomes) /\ Len(results') <= Len(actions)
    BY <1>7 DEF SequenceTxOk, Sending, Current, Outcomes, ExecTypeOK
  <2> QED
    BY <1>7, <2>1, <2>2, <2>3 DEF SequenceTxOk, ExecTypeOK
<1>8. CASE SequenceTxErr
  <2>1. svm' \in Vms
    BY <1>8, SetAccountsType DEF SequenceTxErr, ExecTypeOK
  <2>2. results' \in Seq(Outcomes) /\ Len(results') <= Len(actions)
    BY <1>8 DEF SequenceTxErr, Sending, Current, Outcomes, ExecTypeOK
  <2> QED
    BY <1>8, <2>1, <2>2 DEF SequenceTxErr, ExecTypeOK
<1>9. CASE SequenceEnd
  BY <1>9 DEF ExecTypeOK, SequenceEnd
<1>10. CASE ClientContinues
  <2>1. EmptyVm \in Vms
    BY DEF EmptyVm, Vms
  <2>2. /\ actions' \in Seq(FuzzActions) /\ results' \in Seq(Outcomes)
        /\ Len(results') <= Len(actions')
    BY <1>10, EmptySequences DEF ClientContinues
  <2> QED
    BY <1>10, <2>1, <2>2 DEF ExecTypeOK, ClientContinues
<1>11. CASE UNCHANGED execVars
  BY <1>11 DEF ExecTypeOK, execVars
<1> QED
  BY <1>1, <1>2, <1>3, <1>4, <1>5, <1>6, <1>7, <1>8, <1>9, <1>10, <1>11
  DEF ExecNext, SequenceStep

LEMMA ExecInvTxOk ==
  ASSUME ExecInv, ExecTypeOK', SequenceTxOk
  PROVE  ExecInv'
<1> USE DEF SequenceTxOk
<1>1. call = "Running" /\ svm \in Vms /\ results \in Seq(Outcomes) /\ Current \in DOMAIN actions
  BY DEF Sending, Current, ExecInv, ExecTypeOK
<1>2. ~Failed'
  BY <1>1 DEF Failed
<1>3. \A k \in Keys \ WritableKeys(actions[Current]) : svm'[k] = svm[k]
  BY <1>1, EffectsType
<1>4. Written' = Written /\ WritableKeys(actions[Current]) \subseteq Written
  BY <1>1 DEF Written
<1>5. OutOfReach'
  BY <1>1, <1>3, <1>4 DEF ExecInv, OutOfReach, KeysOf
<1> QED
  BY <1>2, <1>5 DEF ExecInv, SyncedRollback

LEMMA ExecInvTxErr ==
  ASSUME ExecInv, ExecTypeOK', SequenceTxErr
  PROVE  ExecInv'
<1> USE DEF SequenceTxErr
<1>1. call = "Running" /\ svm \in Vms /\ vmAtStart \in Vms
  BY DEF Sending, ExecInv, ExecTypeOK
<1>2. Written' = Written /\ KeysOf(snapshot)' = KeysOf(snapshot)
  BY DEF Written, KeysOf
<1>3. OutOfReach'
  <2> SUFFICES ASSUME NEW k \in Keys \ (Written \cup KeysOf(snapshot))
               PROVE  svm'[k] = vmAtStart[k]
    BY <1>2 DEF OutOfReach
  <2>1. svm'[k] = svm[k]
    BY SetAccountsOutside
  <2> QED
    BY <1>1, <2>1 DEF ExecInv, OutOfReach
<1>4. SyncedRollback'
  <2> SUFFICES ASSUME set_accounts_ok(snapshot), set_accounts(vmAtStart, snapshot) = vmAtStart,
                      Written \subseteq KeysOf(snapshot)
               PROVE  svm' = vmAtStart
    BY <1>2 DEF SyncedRollback, set_accounts_ok, SetPrefix, Accepted
  <2>1. \A k \in Keys \ KeysOf(snapshot) : svm[k] = vmAtStart[k]
    BY <1>1 DEF ExecInv, OutOfReach
  <2> QED
    BY <1>1, <2>1, SetAccountsRestores
<1> QED
  BY <1>3, <1>4 DEF ExecInv

LEMMA ExecInvNext == ExecInv /\ [ExecNext]_execVars => ExecInv'
<1> SUFFICES ASSUME ExecInv, [ExecNext]_execVars PROVE ExecInv'
  OBVIOUS
<1>1. ExecTypeOK'
  BY ExecTypeNext DEF ExecInv
<1> USE DEF ExecInv, OutOfReach, SyncedRollback
<1>2. ASSUME NEW s \in ClientSlices, ClientTakes(s) PROVE ExecInv'
  BY <1>1, <1>2 DEF ClientTakes
<1>3. CASE ClientSets
  BY <1>1, <1>3 DEF ClientSets
<1>4. CASE ClientReads
  BY <1>1, <1>4 DEF ClientReads
<1>5. ASSUME NEW called, ClientExecutes(called) PROVE ExecInv'
  <2>1. ~Failed'
    BY <1>5 DEF ClientExecutes, SequenceStart, Failed
  <2> QED
    BY <1>1, <1>5, <2>1 DEF ClientExecutes, SequenceStart
<1>6. CASE SequenceBadProgram \/ SequenceSignPanic \/ SequenceEnd
  <2>1. /\ call = "Running" /\ call' \in {"Err", "Panicked", "Ok"}
        /\ UNCHANGED <<svm, slice, actions, results, snapshot, vmAtStart>>
    BY <1>6 DEF SequenceBadProgram, SequenceSignPanic, SequenceEnd, Sending
  <2>2. ~Failed'
    BY <2>1 DEF Failed
  <2>3. Written' = Written /\ KeysOf(snapshot)' = KeysOf(snapshot)
    BY <2>1 DEF Written, KeysOf
  <2> QED
    BY <1>1, <2>1, <2>2, <2>3
<1>7. CASE ClientContinues
  BY <1>1, <1>7 DEF ClientContinues
<1>8. CASE UNCHANGED execVars
  BY <1>1, <1>8 DEF execVars, Failed, Written, KeysOf, set_accounts_ok, SetPrefix, Accepted, set_accounts,
                    WritersOf
<1> QED
  BY <1>1, <1>2, <1>3, <1>4, <1>5, <1>6, <1>7, <1>8, ExecInvTxOk, ExecInvTxErr
  DEF ExecNext, SequenceStep

LEMMA ExecInvariant == ExecSpec => []ExecInv
  BY ExecInvInit, ExecInvNext, PTL DEF ExecSpec

\* Whatever slices and sequences a client passes, in whatever order: a failing
\* transaction undoes the whole call when the client's slice agreed with the runtime.
THEOREM SyncedClientRollsBack == ExecSpec => []SyncedRollback
<1>1. ExecInv => SyncedRollback
  BY DEF ExecInv
<1> QED
  BY <1>1, ExecInvariant, PTL

\* No call touches an account that its slice and its actions do not name.
THEOREM OthersOutOfReach == ExecSpec => []OutOfReach
<1>1. ExecInv => OutOfReach
  BY DEF ExecInv
<1> QED
  BY <1>1, ExecInvariant, PTL

--------------------------------------------------------------------------------
(* What the runtime holds, compared with the working accounts.              *)

\* An account that has settled stays as it is.
LEMMA SettleTwice ==
  ASSUME NEW c
  PROVE  Settle(c) = NoAccount \/ (Settle(c) = c /\ ~(ReapsEmpty /\ c.lamports = 0))
  BY DEF Settle

LEMMA EffectsSettled ==
  ASSUME NEW v \in Vms, NEW W, NEW u \in TransactionEffects(v, W), NEW k \in Keys, k \in W,
         u[k] # NoAccount
  PROVE  Settle(u[k]) = u[k]
<1>1. PICK e \in [W -> VmAccounts] : u = [h \in Keys |-> IF h \in W THEN Settle(e[h]) ELSE v[h]]
  BY DEF TransactionEffects
<1>2. u[k] = Settle(e[k])
  BY <1>1
<1> QED
  BY <1>2 DEF Settle

\* Reading an account back makes its entry agree with it.
LEMMA ReadAccountsMirrors ==
  ASSUME NEW v \in Vms, NEW s \in Slices, NEW i \in Idx, read_accounts_ok(s),
         v[s[i].key] # NoAccount, Settle(v[s[i].key]) = v[s[i].key]
  PROVE  ToVm(read_accounts(v, s)[i]) = v[s[i].key]
<1> DEFINE c == v[s[i].key]
<1>1. s[i] \in FuzzAccounts /\ i \in ReadPrefix(s)
  BY DEF Slices, read_accounts_ok
<1>2. s[i].key \in Keys
  BY <1>1, FuzzAccountAssumption DEF ReadPrefix, Idx, FuzzAccounts
<1>3. c \in VmAccounts
  BY <1>2 DEF Vms
<1>4. read_accounts(v, s)[i]
        = [s[i] EXCEPT !.lamports = c.lamports, !.data = c.data, !.owner = c.owner]
  BY <1>1 DEF read_accounts
<1>5. /\ read_accounts(v, s)[i].lamports = c.lamports
      /\ read_accounts(v, s)[i].data = c.data
      /\ read_accounts(v, s)[i].owner = c.owner
  BY <1>1, <1>4 DEF FuzzAccounts
<1>6. c = [owner |-> c.owner, lamports |-> c.lamports, data |-> c.data]
  BY <1>3 DEF VmAccounts
<1> HIDE DEF c
<1>7. ToVm(read_accounts(v, s)[i]) = Settle(c)
  BY <1>5, <1>6 DEF ToVm, Stored
<1> QED
  BY <1>7 DEF c

LEMMA KeysOfRunning ==
  ASSUME RoundInv, call = "Running"
  PROVE  /\ read_accounts_ok(slice)
         /\ \A i \in Idx : accounts[i].key \in Keys /\ slice[i].key = accounts[i].key
<1>1. \A i \in Idx : snapshot[i].key # BadStr
  BY SlotsParse DEF RoundInv, RunningInv
<1>2. \A i \in Idx : slice[i].key = accounts[i].key /\ accounts[i].key # BadStr
  BY <1>1 DEF RoundInv, SlotsKeepPlace
<1>3. read_accounts_ok(slice)
  BY <1>2, FuzzAccountAssumption DEF read_accounts_ok, ReadPrefix, Idx
<1>4. \A i \in Idx : accounts[i] \in FuzzAccounts
  BY DEF RoundInv, TypeOK, Slices
<1> QED
  BY <1>2, <1>3, <1>4 DEF FuzzAccounts

LEMMA MirrorTxOk ==
  ASSUME RoundInv, SliceMirrorsRuntime, RoundExecutes, SequenceTxOk
  PROVE  SliceMirrorsRuntime'
<1> USE DEF RoundExecutes, SequenceTxOk, configVars, roundVars
<1>1. /\ call = "Running" /\ stage = "Execute" /\ slice \in Slices /\ svm \in Vms
  BY DEF Sending, RoundInv, RunningInv, TypeOK, ExecTypeOK
<1>2. svm' \in Vms /\ \A k \in Keys \ WritableKeys(actions[Current]) : svm'[k] = svm[k]
  BY <1>1, EffectsType
<1> SUFFICES ASSUME DistinctKeys(accounts), NEW i \in Idx, svm'[slice'[i].key] # NoAccount
             PROVE  svm'[slice'[i].key] = ToVm(slice'[i])
  BY DEF SliceMirrorsRuntime, DistinctKeys
<1> DEFINE k == slice[i].key
<1>3. k \in Keys /\ slice'[i].key = k /\ read_accounts_ok(slice)
  BY <1>1, KeysOfRunning, ReadAccountsKeepsKeys
<1>4. CASE k \in WritableKeys(actions[Current])
  <2>1. Settle(svm'[k]) = svm'[k]
    BY <1>1, <1>3, <1>4, EffectsSettled
  <2> QED
    BY <1>1, <1>2, <1>3, <2>1, ReadAccountsMirrors
<1>5. CASE k \notin WritableKeys(actions[Current])
  <2>1. svm'[k] = svm[k]
    BY <1>2, <1>3, <1>5
  <2>2. svm[k] = ToVm(slice[i])
    BY <1>1, <1>3, <2>1 DEF SliceMirrorsRuntime
  <2>3. slice'[i] = slice[i]
    BY <1>1, <2>1, <2>2, ReadAccountsSame
  <2> QED
    BY <2>1, <2>2, <2>3
<1> QED
  BY <1>4, <1>5

LEMMA MirrorTxErr ==
  ASSUME RoundInv, RoundExecutes, SequenceTxErr
  PROVE  SliceMirrorsRuntime'
<1> USE DEF RoundExecutes, SequenceTxErr, configVars, roundVars
<1>1. /\ call = "Running" /\ svm \in Vms /\ snapshot \in Slices /\ set_accounts_ok(snapshot)
  BY DEF Sending, RoundInv, RunningInv, TypeOK, ExecTypeOK
<1> SUFFICES ASSUME DistinctKeys(accounts), NEW i \in Idx
             PROVE  svm'[snapshot[i].key] = ToVm(snapshot[i])
  BY DEF SliceMirrorsRuntime, DistinctKeys
<1>2. DistinctKeys(snapshot)
  BY DEF RoundInv, SlotsKeepPlace, DistinctKeys
<1> QED
  BY <1>1, <1>2, SetAccountsUnique

LEMMA MirrorNext == RoundInv /\ SliceMirrorsRuntime /\ [Next]_vars => SliceMirrorsRuntime'
<1> SUFFICES ASSUME RoundInv, SliceMirrorsRuntime, [Next]_vars PROVE SliceMirrorsRuntime'
  OBVIOUS
<1>1. CASE RoundLoads
  <2> SUFFICES ASSUME DistinctKeys(accounts)', call' \in {"Running", "Ok"}, NEW i \in Idx
               PROVE  svm'[slice'[i].key] = ToVm(slice'[i])
    BY DEF SliceMirrorsRuntime
  <2>1. /\ set_accounts_ok(slice) /\ slice' = slice /\ svm' = set_accounts(svm, slice)
        /\ slice \in Slices /\ svm \in Vms /\ DistinctKeys(accounts)
    BY <1>1 DEF RoundLoads, SequenceStart, configVars, RoundInv, TypeOK, ExecTypeOK, DistinctKeys
  <2>2. DistinctKeys(slice)
    BY <2>1 DEF RoundInv, SlotsKeepPlace, DistinctKeys
  <2> QED
    BY <2>1, <2>2, SetAccountsUnique
<1>2. CASE RoundExecutes
  <2>1. CASE SequenceBadProgram \/ SequenceSignPanic
    BY <2>1 DEF SequenceBadProgram, SequenceSignPanic, SliceMirrorsRuntime
  <2>2. CASE SequenceEnd
    BY <1>2, <2>2 DEF SequenceEnd, RoundExecutes, configVars, roundVars, SliceMirrorsRuntime,
                      DistinctKeys
  <2> QED
    BY <1>2, <2>1, <2>2, MirrorTxOk, MirrorTxErr DEF RoundExecutes, SequenceStep
<1>3. CASE RoundChecks
  BY <1>3 DEF RoundChecks, execVars, configVars, SliceMirrorsRuntime, DistinctKeys
<1>4. CASE RoundCrashes \/ RoundHasNoExecutor
  BY <1>4 DEF RoundCrashes, RoundHasNoExecutor, SliceMirrorsRuntime
<1>5. ASSUME stage' \in {"Idle", "SetUp", "Panicked"} PROVE SliceMirrorsRuntime'
  BY <1>5 DEF SliceMirrorsRuntime
<1>6. CASE UNCHANGED vars
  BY <1>6 DEF vars, execVars, configVars, roundVars, SliceMirrorsRuntime, DistinctKeys
<1> QED
  BY <1>1, <1>2, <1>3, <1>4, <1>5, <1>6
  DEF Next, RoundStep, deploy_program, register_instruction, RoundPanics, RoundBegins,
      RoundCollected, roundVars

LEMMA MirrorInit == Init => SliceMirrorsRuntime
  BY DEF Init, SliceMirrorsRuntime

\* Whatever the transactions did, the working accounts an invariant is checked on are
\* those of the runtime, except for accounts the runtime dropped.
THEOREM SliceIsTheRuntime == Spec => []SliceMirrorsRuntime
  BY MirrorInit, MirrorNext, RoundInvariant, PTL DEF Spec

--------------------------------------------------------------------------------
(* A failing load leaves nothing behind.                                    *)
AllLoaded == \A i \in Idx : accounts[i].key \in Keys /\ svm[accounts[i].key] # NoAccount

\* A load is either complete, or it will be wiped before the round returns.
LoadInv ==
  ~ReapsEmpty /\ Loads(program_bytes) =>
    /\ stage = "Execute" /\ call # "Err" => AllLoaded
    /\ stage # "Execute" => svm = EmptyVm \/ AllLoaded

LEMMA SetAccountsLoads ==
  ASSUME ~ReapsEmpty, NEW v, NEW s \in Slices, set_accounts_ok(s), NEW i \in Idx
  PROVE  s[i].key \in Keys /\ set_accounts(v, s)[s[i].key] # NoAccount
<1> DEFINE k == s[i].key
           m == Max(WritersOf(s, k))
<1>1. k \in Keys
  <2>1. s[i] \in FuzzAccounts
    BY DEF Slices
  <2>2. s[i].key # BadStr
    BY SlotsParse
  <2> QED
    BY <2>1, <2>2 DEF FuzzAccounts
<1>2. i \in WritersOf(s, k) /\ WritersOf(s, k) \subseteq 1 .. N
  BY DEF set_accounts_ok, WritersOf, SetPrefix, Accepted, Idx
<1>3. m \in WritersOf(s, k)
  BY <1>2, MaxOfIndices, FuzzAccountAssumption
<1>4. m \in Idx /\ s[m].owner # BadStr
  BY <1>3, PrefixParses DEF WritersOf
<1> HIDE DEF m
<1>5. s[m] \in FuzzAccounts
  BY <1>4 DEF Slices
<1>6. ToVm(s[m]) \in VmAccounts
  BY <1>4, <1>5 DEF FuzzAccounts, ToVm, Stored, Settle, VmAccounts
<1>7. set_accounts(v, s)[k] = ToVm(s[m])
  BY <1>1, <1>2 DEF set_accounts, m
<1> QED
  BY <1>1, <1>6, <1>7, ExecutorAssumption

LEMMA EffectsKeepLoaded ==
  ASSUME ~ReapsEmpty, NEW v \in Vms, NEW W, NEW u \in TransactionEffects(v, W), NEW k \in Keys,
         v[k] # NoAccount
  PROVE  u[k] # NoAccount
<1>1. PICK e \in [W -> VmAccounts] : u = [h \in Keys |-> IF h \in W THEN Settle(e[h]) ELSE v[h]]
  BY DEF TransactionEffects
<1>2. CASE k \in W
  BY <1>1, <1>2, ExecutorAssumption DEF Settle
<1>3. CASE k \notin W
  BY <1>1, <1>3
<1> QED
  BY <1>2, <1>3

LEMMA LoadInvNext == RoundInv /\ LoadInv /\ [Next]_vars => LoadInv'
<1> SUFFICES ASSUME RoundInv, LoadInv, [Next]_vars, ~ReapsEmpty, Loads(program_bytes')
             PROVE  /\ stage' = "Execute" /\ call' # "Err" => AllLoaded'
                    /\ stage' # "Execute" => svm' = EmptyVm \/ AllLoaded'
  BY DEF LoadInv, Loads
<1> USE DEF AllLoaded
<1>1. ASSUME NEW bytes \in Binaries, deploy_program(bytes)
      PROVE  svm' = EmptyVm /\ stage' # "Execute"
  BY <1>1 DEF deploy_program, NewExecutor, roundVars
<1>2. ASSUME program_bytes' = program_bytes
      PROVE  /\ Loads(program_bytes) /\ executor
             /\ stage = "Execute" /\ call # "Err" => AllLoaded
             /\ stage # "Execute" => svm = EmptyVm \/ AllLoaded
  BY <1>2 DEF LoadInv, RoundInv, ExecutorKept
<1>3. CASE register_instruction
  BY <1>2, <1>3 DEF register_instruction, execVars, roundVars
<1>4. CASE RoundPanics
  BY <1>2, <1>4 DEF RoundPanics, execVars, configVars
<1>5. CASE RoundBegins
  BY <1>2, <1>5 DEF RoundBegins, configVars
<1>6. CASE RoundLoads
  <2>1. slice \in Slices /\ \A i \in Idx : slice[i].key = accounts[i].key
    BY DEF RoundInv, TypeOK, ExecTypeOK, SlotsKeepPlace
  <2>2. CASE set_accounts_ok(slice)
    BY <1>6, <2>1, <2>2, SetAccountsLoads DEF RoundLoads, configVars
  <2>3. CASE ~set_accounts_ok(slice)
    BY <1>6, <2>3 DEF RoundLoads
  <2> QED
    BY <2>2, <2>3
<1>7. CASE RoundHasNoExecutor
  BY <1>7 DEF RoundHasNoExecutor
<1>8. CASE RoundExecutes
  <2> USE <1>8 DEF RoundExecutes, configVars, roundVars
  <2>0. stage = "Execute" /\ program_bytes' = program_bytes /\ svm \in Vms
    BY DEF RoundInv, TypeOK, ExecTypeOK
  <2>1. CASE SequenceBadProgram \/ SequenceSignPanic \/ SequenceEnd
    BY <1>2, <2>0, <2>1 DEF SequenceBadProgram, SequenceSignPanic, SequenceEnd, Sending
  <2>2. CASE SequenceTxOk
    BY <1>2, <2>0, <2>2, EffectsKeepLoaded DEF SequenceTxOk, Sending
  <2>3. CASE SequenceTxErr
    <3>1. call = "Running"
      BY <2>3 DEF SequenceTxErr, Sending
    <3>2. /\ snapshot \in Slices /\ set_accounts_ok(snapshot)
          /\ \A i \in Idx : snapshot[i].key = accounts[i].key
      BY <3>1 DEF RoundInv, RunningInv, TypeOK, ExecTypeOK, SlotsKeepPlace
    <3> QED
      BY <2>0, <2>3, <3>2, SetAccountsLoads DEF SequenceTxErr
  <2> QED
    BY <2>1, <2>2, <2>3 DEF SequenceStep
<1>9. CASE RoundChecks
  BY <1>2, <1>9 DEF RoundChecks, execVars, configVars
<1>10. CASE RoundCrashes
  <2>1. program_bytes' = program_bytes /\ program_bytes # NoBytes
    BY <1>2, <1>10, FuzzerAssumption DEF RoundCrashes, Loads
  <2>2. svm' = EmptyVm /\ stage' = "Returned"
    BY <1>2, <1>10, <2>1 DEF RoundCrashes, reset_executor, NewExecutor
  <2> QED
    BY <2>2
<1>11. CASE RoundCollected
  BY <1>2, <1>11 DEF RoundCollected, configVars
<1>12. CASE UNCHANGED vars
  BY <1>2, <1>12 DEF vars, execVars, configVars, roundVars
<1> QED
  BY <1>1, <1>3, <1>4, <1>5, <1>6, <1>7, <1>8, <1>9, <1>10, <1>11, <1>12 DEF Next, RoundStep

LEMMA LoadInvInit == Init => LoadInv
  BY DEF Init, LoadInv

LEMMA StepsLoadWhole == Steps => []AllOrNothingLoad
<1>1. LoadInv => AllOrNothingLoad
  BY DEF LoadInv, AllLoaded, AllOrNothingLoad
<1> QED
  BY <1>1, LoadInvInit, LoadInvNext, StepsKeepRoundInv, PTL DEF Steps

\* Between rounds nothing of a load that failed half-way is left.
THEOREM FailedLoadLeavesNothing == Spec => []AllOrNothingLoad
  BY StepsLoadWhole, PTL DEF Spec, Steps

--------------------------------------------------------------------------------
(* Sums.  What SumFunction adds up in some order is the number of the units *)
(* its function has, which no order matters to.                             *)
UnitsOver(f, s) == UNION {{x} \X (1 .. f[x]) : x \in s}

SumUpTo(f) ==
  CHOOSE g : g = [s \in SUBSET DOMAIN f |->
                    IF s = {} THEN 0
                    ELSE f[CHOOSE x \in s : TRUE] + g[s \ {CHOOSE x \in s : TRUE}]]

LEMMA SumByDefinition ==
  ASSUME NEW f
  PROVE  SumFunction(f) = SumUpTo(f)[DOMAIN f]
  BY DEF SumFunction, SumFunctionOnSet, FoldFunctionOnSet, MapThenFoldSet, SumUpTo

LEMMA UnitIn ==
  ASSUME NEW f, NEW s, NEW u
  PROVE  u \in UnitsOver(f, s) <=> \E x \in s : \E i \in 1 .. f[x] : u = <<x, i>>
  BY DEF UnitsOver

LEMMA UnitsOfOne ==
  ASSUME NEW x, NEW n \in Nat
  PROVE  IsFiniteSet({x} \X (1 .. n)) /\ Cardinality({x} \X (1 .. n)) = n
<1>1. IsFiniteSet({x}) /\ Cardinality({x}) = 1
  BY FS_Singleton
<1>2. IsFiniteSet(1 .. n) /\ Cardinality(1 .. n) = n
  BY FS_Interval
<1>3. /\ IsFiniteSet({x} \X (1 .. n))
      /\ Cardinality({x} \X (1 .. n)) = Cardinality({x}) * Cardinality(1 .. n)
  BY <1>1, <1>2, FS_Product, Zenon
<1> QED
  BY <1>1, <1>2, <1>3

\* One element more.
LEMMA UnitsWith ==
  ASSUME NEW D, NEW f \in [D -> Nat], NEW s \in SUBSET D, NEW c \in s,
         IsFiniteSet(UnitsOver(f, s \ {c}))
  PROVE  /\ IsFiniteSet(UnitsOver(f, s))
         /\ Cardinality(UnitsOver(f, s)) = f[c] + Cardinality(UnitsOver(f, s \ {c}))
<1> DEFINE Rest == UnitsOver(f, s \ {c})
           Own == {c} \X (1 .. f[c])
<1>1. IsFiniteSet(Own) /\ Cardinality(Own) = f[c] /\ f[c] \in Nat
  BY UnitsOfOne
<1>2. UnitsOver(f, s) = Rest \cup Own
  BY DEF UnitsOver
<1>3. Rest \cap Own = {}
  BY DEF UnitsOver
<1>4. Cardinality(Rest) \in Nat /\ Cardinality({}) = 0
  BY FS_CardinalityType, FS_EmptySet
<1> HIDE DEF Rest, Own
<1>5. /\ IsFiniteSet(Rest \cup Own)
      /\ Cardinality(Rest \cup Own) = Cardinality(Rest) + Cardinality(Own) - Cardinality(Rest \cap Own)
  BY <1>1, FS_Union DEF Rest
<1>6. Cardinality(UnitsOver(f, s)) = Cardinality(Rest) + f[c] - 0
  BY <1>1, <1>2, <1>3, <1>4, <1>5
<1> QED
  BY <1>1, <1>2, <1>4, <1>5, <1>6 DEF Rest

LEMMA UnitsFinite ==
  ASSUME NEW D, IsFiniteSet(D), NEW f \in [D -> Nat]
  PROVE  \A s \in SUBSET D : IsFiniteSet(s) /\ IsFiniteSet(UnitsOver(f, s))
<1>1. \A s \in SUBSET D : IsFiniteSet(s) /\ Cardinality(s) \in Nat
  BY FS_Subset, FS_CardinalityType
<1> DEFINE Bad == {s \in SUBSET D : ~IsFiniteSet(UnitsOver(f, s))}
           Sizes == {Cardinality(s) : s \in Bad}
<1>2. SUFFICES ASSUME Bad # {} PROVE FALSE
  BY <1>1
<1>3. Sizes \subseteq Nat /\ Sizes # {}
  BY <1>1, <1>2
<1>4. PICK n \in Sizes : \A m \in Sizes : n <= m
  BY <1>3, LeastElement
<1>5. PICK s \in Bad : n = Cardinality(s)
  BY <1>4
<1>6. s # {}
  <2>1. UnitsOver(f, {}) = {}
    BY DEF UnitsOver
  <2> QED
    BY <1>5, <2>1, FS_EmptySet
<1>7. PICK c \in s : TRUE
  BY <1>6
<1>8. Cardinality(s \ {c}) = Cardinality(s) - 1 /\ Cardinality(s) \in Nat
  BY <1>1, <1>5, <1>7, FS_RemoveElement
<1>9. s \ {c} \notin Bad
  BY <1>4, <1>5, <1>8
<1>10. IsFiniteSet(UnitsOver(f, s \ {c}))
  BY <1>5, <1>9
<1> QED
  BY <1>5, <1>7, <1>10, UnitsWith

LEMMA SumIsUnits ==
  ASSUME NEW D, IsFiniteSet(D), NEW f \in [D -> Nat]
  PROVE  /\ IsFiniteSet(UnitsOver(f, D))
         /\ SumFunction(f) = Cardinality(UnitsOver(f, D))
         /\ SumFunction(f) \in Nat
<1> DEFINE Step(g, s) == IF s = {} THEN 0
                         ELSE f[CHOOSE x \in s : TRUE] + g[s \ {CHOOSE x \in s : TRUE}]
           U == [s \in SUBSET D |-> Cardinality(UnitsOver(f, s))]
           G == SumUpTo(f)
<1>1. \A s \in SUBSET D : IsFiniteSet(s) /\ IsFiniteSet(UnitsOver(f, s))
  BY UnitsFinite
<1>2. U[{}] = 0
  <2>1. UnitsOver(f, {}) = {}
    BY DEF UnitsOver
  <2> QED
    BY <2>1, FS_EmptySet
<1>3. ASSUME NEW s \in SUBSET D, NEW c \in s PROVE U[s] = f[c] + U[s \ {c}]
  BY <1>1, <1>3, UnitsWith
<1>4. \A s \in SUBSET D : U[s] \in Nat
  BY <1>1, FS_CardinalityType
<1>5. \A s \in SUBSET D : U[s] = Step(U, s)
  BY <1>2, <1>3
<1>6. U = [s \in SUBSET D |-> Step(U, s)]
  <2>1. U = [s \in SUBSET D |-> U[s]]
    OBVIOUS
  <2> HIDE DEF U
  <2> QED
    BY <1>5, <2>1
<1>7. DOMAIN f = D
  OBVIOUS
<1> HIDE DEF U
<1>8. G = [s \in SUBSET D |-> Step(G, s)]
  BY <1>6, <1>7 DEF SumUpTo
<1>9. \A s \in SUBSET D : G[s] = Step(G, s)
  BY <1>8
<1> HIDE DEF G
<1> DEFINE Bad == {s \in SUBSET D : G[s] # U[s]}
           Sizes == {Cardinality(s) : s \in Bad}
<1>10. Bad = {}
  <2>1. SUFFICES ASSUME Bad # {} PROVE FALSE
    OBVIOUS
  <2>2. Sizes \subseteq Nat /\ Sizes # {}
    BY <1>1, <2>1, FS_CardinalityType
  <2>3. PICK n \in Sizes : \A m \in Sizes : n <= m
    BY <2>2, LeastElement
  <2>4. PICK s \in Bad : n = Cardinality(s)
    BY <2>3
  <2>5. s # {}
    BY <1>2, <1>9, <2>4
  <2> DEFINE c == CHOOSE x \in s : TRUE
  <2>6. c \in s
    BY <2>5
  <2>7. G[s] = f[c] + G[s \ {c}]
    BY <1>9, <2>4, <2>5
  <2>8. U[s] = f[c] + U[s \ {c}]
    BY <1>3, <2>4, <2>6
  <2> HIDE DEF c
  <2>9. Cardinality(s \ {c}) = Cardinality(s) - 1 /\ Cardinality(s) \in Nat
    BY <1>1, <2>4, <2>6, FS_RemoveElement, FS_CardinalityType
  <2>10. s \ {c} \notin Bad
    <3>1. SUFFICES ASSUME s \ {c} \in Bad PROVE FALSE
      OBVIOUS
    <3>2. Cardinality(s \ {c}) \in Sizes
      BY <3>1
    <3>3. n <= Cardinality(s \ {c})
      BY <2>3, <3>2, Zenon
    <3>4. n = Cardinality(s)
      BY <2>4
    <3> QED
      BY <2>9, <3>3, <3>4
  <2>11. G[s \ {c}] = U[s \ {c}]
    BY <2>4, <2>10
  <2> QED
    BY <2>4, <2>7, <2>8, <2>11
<1>11. G[D] = Cardinality(UnitsOver(f, D))
  BY <1>10 DEF U
<1>12. SumFunction(f) = G[D]
  BY <1>7, SumByDefinition DEF G
<1> QED
  BY <1>1, <1>11, <1>12, FS_CardinalityType

\* Larger numbers have a larger sum.
LEMMA SumMonotone ==
  ASSUME NEW D, IsFiniteSet(D), NEW f \in [D -> Nat], NEW g \in [D -> Nat],
         \A x \in D : f[x] <= g[x]
  PROVE  SumFunction(f) <= SumFunction(g)
<1>1. UnitsOver(f, D) \subseteq UnitsOver(g, D)
  <2> SUFFICES ASSUME NEW u \in UnitsOver(f, D) PROVE u \in UnitsOver(g, D)
    OBVIOUS
  <2>1. PICK x \in D : \E i \in 1 .. f[x] : u = <<x, i>>
    BY UnitIn
  <2>2. f[x] \in Nat /\ g[x] \in Nat /\ f[x] <= g[x]
    OBVIOUS
  <2>3. \E i \in 1 .. g[x] : u = <<x, i>>
    BY <2>1, <2>2
  <2> QED
    BY <2>3, UnitIn
<1> QED
  BY <1>1, SumIsUnits, FS_Subset

\* A sum over two parts of a domain.
LEMMA SumSplit ==
  ASSUME NEW D, IsFiniteSet(D), NEW f \in [D -> Nat], NEW A \in SUBSET D
  PROVE  SumFunction(f) = SumFunction([x \in A |-> f[x]]) + SumFunction([x \in D \ A |-> f[x]])
<1> DEFINE g == [x \in A |-> f[x]]
           h == [x \in D \ A |-> f[x]]
<1>1. IsFiniteSet(A) /\ IsFiniteSet(D \ A)
  BY FS_Subset
<1>2. g \in [A -> Nat] /\ h \in [D \ A -> Nat]
  OBVIOUS
<1>3. (\A x \in A : g[x] = f[x]) /\ \A x \in D \ A : h[x] = f[x]
  OBVIOUS
<1> HIDE DEF g, h
<1>4. /\ IsFiniteSet(UnitsOver(g, A)) /\ SumFunction(g) = Cardinality(UnitsOver(g, A))
      /\ IsFiniteSet(UnitsOver(h, D \ A)) /\ SumFunction(h) = Cardinality(UnitsOver(h, D \ A))
      /\ SumFunction(f) = Cardinality(UnitsOver(f, D))
      /\ SumFunction(g) \in Nat /\ SumFunction(h) \in Nat
  BY <1>1, <1>2, SumIsUnits
<1>5. UnitsOver(f, D) = UnitsOver(g, A) \cup UnitsOver(h, D \ A)
  <2>1. ASSUME NEW u
        PROVE  u \in UnitsOver(f, D) <=> u \in UnitsOver(g, A) \/ u \in UnitsOver(h, D \ A)
    BY <1>3, UnitIn
  <2> QED
    BY <2>1, Zenon
<1>6. UnitsOver(g, A) \cap UnitsOver(h, D \ A) = {}
  BY DEF UnitsOver
<1>7. Cardinality(UnitsOver(g, A) \cup UnitsOver(h, D \ A))
        = Cardinality(UnitsOver(g, A)) + Cardinality(UnitsOver(h, D \ A))
            - Cardinality(UnitsOver(g, A) \cap UnitsOver(h, D \ A))
  BY <1>4, FS_Union, Zenon
<1>8. SumFunction(f) = SumFunction(g) + SumFunction(h) - 0
  BY <1>4, <1>5, <1>6, <1>7, FS_EmptySet, Zenon
<1>9. SumFunction(f) = SumFunction(g) + SumFunction(h)
  BY <1>4, <1>8
<1> QED
  BY <1>9 DEF g, h

\* A sum does not depend on how its terms are named.
LEMMA SumRenamed ==
  ASSUME NEW D, IsFiniteSet(D), NEW E, IsFiniteSet(E), NEW f \in [E -> Nat],
         NEW r \in [D -> E], \A x, y \in D : r[x] = r[y] => x = y, \A e \in E : \E x \in D : r[x] = e
  PROVE  SumFunction([x \in D |-> f[r[x]]]) = SumFunction(f)
<1> DEFINE g == [x \in D |-> f[r[x]]]
<1>1. g \in [D -> Nat] /\ \A x \in D : g[x] = f[r[x]]
  OBVIOUS
<1> HIDE DEF g
<1>2. /\ IsFiniteSet(UnitsOver(g, D)) /\ SumFunction(g) = Cardinality(UnitsOver(g, D))
      /\ SumFunction(f) = Cardinality(UnitsOver(f, E))
  BY <1>1, SumIsUnits
<1> DEFINE b == [u \in UnitsOver(g, D) |-> <<r[u[1]], u[2]>>]
<1>3. b \in Bijection(UnitsOver(g, D), UnitsOver(f, E))
  <2>1. ASSUME NEW u \in UnitsOver(g, D) PROVE b[u] \in UnitsOver(f, E)
    <3>1. PICK x \in D : \E i \in 1 .. g[x] : u = <<x, i>>
      BY UnitIn
    <3>2. PICK i \in 1 .. g[x] : u = <<x, i>>
      BY <3>1
    <3>3. b[u] = <<r[x], i>> /\ r[x] \in E /\ i \in 1 .. f[r[x]]
      BY <1>1, <3>2
    <3> QED
      BY <3>3, UnitIn
  <2>2. ASSUME NEW u \in UnitsOver(g, D), NEW v \in UnitsOver(g, D), b[u] = b[v] PROVE u = v
    <3>1. PICK x \in D : \E i \in 1 .. g[x] : u = <<x, i>>
      BY UnitIn
    <3>2. PICK i \in 1 .. g[x] : u = <<x, i>>
      BY <3>1
    <3>3. PICK y \in D : \E j \in 1 .. g[y] : v = <<y, j>>
      BY UnitIn
    <3>4. PICK j \in 1 .. g[y] : v = <<y, j>>
      BY <3>3
    <3>5. <<r[x], i>> = <<r[y], j>>
      BY <2>2, <3>2, <3>4
    <3> QED
      BY <3>2, <3>4, <3>5
  <2>3. ASSUME NEW w \in UnitsOver(f, E) PROVE \E u \in UnitsOver(g, D) : b[u] = w
    <3>1. PICK e \in E : \E i \in 1 .. f[e] : w = <<e, i>>
      BY UnitIn
    <3>2. PICK i \in 1 .. f[e] : w = <<e, i>>
      BY <3>1
    <3>3. PICK x \in D : r[x] = e
      OBVIOUS
    <3>4. <<x, i>> \in UnitsOver(g, D)
      BY <1>1, <3>2, <3>3, UnitIn
    <3> QED
      BY <3>2, <3>3, <3>4
  <2>4. b \in [UnitsOver(g, D) -> UnitsOver(f, E)]
    BY <2>1
  <2> HIDE DEF b
  <2> QED
    BY <2>2, <2>3, <2>4, Fun_IsBij
<1>4. Cardinality(UnitsOver(g, D)) = Cardinality(UnitsOver(f, E))
  BY <1>2, <1>3, FS_Bijection DEF ExistsBijection
<1> QED
  BY <1>2, <1>4 DEF g

--------------------------------------------------------------------------------
(* Conservation.  The lamports of the whole runtime, and of a set of keys.  *)
HeldBy(v, K) == SumFunction([k \in K |-> VmLamports(v[k])])

LEMMA VmLamportsType ==
  ASSUME NEW c \in VmAccounts \cup {NoAccount}
  PROVE  /\ VmLamports(c) \in Nat
         /\ VmLamports(Settle(c)) = VmLamports(c)
         /\ c # NoAccount => VmLamports(c) = c.lamports
<1>1. CASE c = NoAccount
  BY <1>1 DEF VmLamports, Settle
<1>2. CASE c # NoAccount
  BY <1>2, FuzzAccountAssumption DEF VmLamports, Settle, VmAccounts
<1> QED
  BY <1>1, <1>2

LEMMA HeldSplit ==
  ASSUME NEW v \in Vms, NEW K \in SUBSET Keys
  PROVE  /\ IsFiniteSet(K) /\ HeldBy(v, K) \in Nat /\ HeldBy(v, Keys \ K) \in Nat
         /\ HeldBy(v, Keys) = HeldBy(v, K) + HeldBy(v, Keys \ K)
<1> DEFINE f == [k \in Keys |-> VmLamports(v[k])]
           g == [k \in K |-> VmLamports(v[k])]
           h == [k \in Keys \ K |-> VmLamports(v[k])]
<1>1. \A k \in Keys : VmLamports(v[k]) \in Nat
  BY VmLamportsType DEF Vms
<1>2. f \in [Keys -> Nat] /\ g \in [K -> Nat] /\ h \in [Keys \ K -> Nat]
  BY <1>1
<1>3. IsFiniteSet(Keys) /\ IsFiniteSet(K) /\ IsFiniteSet(Keys \ K)
  BY FuzzAccountAssumption, FS_Subset
<1>4. [k \in K |-> f[k]] = g /\ [k \in Keys \ K |-> f[k]] = h
  OBVIOUS
<1> HIDE DEF f, g, h
<1>5. SumFunction(f) = SumFunction(g) + SumFunction(h)
  BY <1>2, <1>3, <1>4, SumSplit
<1>6. SumFunction(g) \in Nat /\ SumFunction(h) \in Nat
  BY <1>2, <1>3, SumIsUnits
<1> QED
  BY <1>3, <1>5, <1>6 DEF f, g, h, HeldBy

LEMMA HeldElsewhere ==
  ASSUME NEW u \in Vms, NEW v \in Vms, NEW K \in SUBSET Keys, \A k \in Keys \ K : u[k] = v[k]
  PROVE  HeldBy(u, Keys) = HeldBy(v, Keys) <=> HeldBy(u, K) = HeldBy(v, K)
<1>1. [k \in Keys \ K |-> VmLamports(u[k])] = [k \in Keys \ K |-> VmLamports(v[k])]
  OBVIOUS
<1>2. HeldBy(u, Keys \ K) = HeldBy(v, Keys \ K)
  BY <1>1 DEF HeldBy
<1>3. /\ HeldBy(u, K) \in Nat /\ HeldBy(u, Keys \ K) \in Nat
      /\ HeldBy(u, Keys) = HeldBy(u, K) + HeldBy(u, Keys \ K)
  BY HeldSplit
<1>4. /\ HeldBy(v, K) \in Nat
      /\ HeldBy(v, Keys) = HeldBy(v, K) + HeldBy(v, Keys \ K)
  BY HeldSplit
<1> QED
  BY <1>2, <1>3, <1>4

\* A transaction moves lamports between the accounts it may write.
LEMMA EffectsConserve ==
  ASSUME NEW v \in Vms, NEW W \in SUBSET Keys, NEW u \in TransactionEffects(v, W)
  PROVE  HeldBy(u, Keys) = HeldBy(v, Keys)
<1>1. PICK e \in [W -> VmAccounts] :
        /\ SumFunction([k \in W |-> e[k].lamports]) = SumFunction([k \in W |-> VmLamports(v[k])])
        /\ u = [k \in Keys |-> IF k \in W THEN Settle(e[k]) ELSE v[k]]
  BY DEF TransactionEffects
<1>2. u \in Vms /\ \A k \in Keys \ W : u[k] = v[k]
  BY EffectsType
<1>3. \A k \in W : VmLamports(u[k]) = e[k].lamports
  <2>1. SUFFICES ASSUME NEW k \in W PROVE VmLamports(u[k]) = e[k].lamports
    OBVIOUS
  <2>2. u[k] = Settle(e[k]) /\ e[k] \in VmAccounts
    BY <1>1
  <2> QED
    BY <2>2, VmLamportsType, ExecutorAssumption
<1>4. [k \in W |-> VmLamports(u[k])] = [k \in W |-> e[k].lamports]
  BY <1>3
<1>5. HeldBy(u, W) = HeldBy(v, W)
  BY <1>1, <1>4 DEF HeldBy
<1> QED
  BY <1>2, <1>5, HeldElsewhere

\* The addresses of the pool's writable entries.
PoolWritable == {accounts[i].key : i \in {j \in Idx : accounts[j].is_writable}} \ {BadStr}

\* Until a transaction fails, the runtime differs from the one the round loaded in the
\* pool's writable accounts only, and holds as much.
LedgerInv ==
  call \in {"Running", "Ok"} =>
    /\ set_accounts_ok(snapshot)
    /\ vmAtStart = set_accounts(vmAtStart, snapshot)
    /\ ~Failed => /\ HeldBy(svm, Keys) = HeldBy(vmAtStart, Keys)
                  /\ \A k \in Keys \ PoolWritable : svm[k] = vmAtStart[k]

LEMMA LedgerInvNext == RoundInv /\ LedgerInv /\ [Next]_vars => LedgerInv'
<1> SUFFICES ASSUME RoundInv, LedgerInv, [Next]_vars, call' \in {"Running", "Ok"}
             PROVE  LedgerInv'
  BY DEF LedgerInv
<1>1. CASE RoundLoads
  <2>1. /\ set_accounts_ok(slice) /\ snapshot' = slice
        /\ vmAtStart' = svm' /\ svm' = set_accounts(svm, slice)
    BY <1>1 DEF RoundLoads, SequenceStart
  <2>2. vmAtStart' = set_accounts(vmAtStart', snapshot')
    BY <2>1, SetAccountsIdempotent
  <2> QED
    BY <2>1, <2>2 DEF LedgerInv, HeldBy
<1>2. CASE RoundExecutes
  <2>0. call = "Running" /\ ~Failed /\ UNCHANGED <<snapshot, vmAtStart, accounts>>
    BY <1>2 DEF RoundExecutes, SequenceStep, SequenceBadProgram, SequenceSignPanic, SequenceTxOk,
                SequenceTxErr, SequenceEnd, Sending, configVars, RoundInv, RunningInv
  <2>1. CASE SequenceBadProgram \/ SequenceSignPanic
    BY <2>1 DEF SequenceBadProgram, SequenceSignPanic
  <2>2. CASE SequenceEnd
    BY <2>0, <2>2 DEF SequenceEnd, LedgerInv, PoolWritable, Failed
  <2>3. CASE SequenceTxOk
    <3>1. svm \in Vms /\ Current \in DOMAIN actions /\ actions \in Seq(FuzzActions)
      BY <2>3 DEF SequenceTxOk, Sending, Current, RoundInv, TypeOK, ExecTypeOK
    <3> DEFINE W == WritableKeys(actions[Current])
    <3>2. W \subseteq Keys /\ W \subseteq PoolWritable
      <4>1. actions[Current] \in FuzzActions
        BY <3>1
      <4>2. W \subseteq Keys
        BY <4>1 DEF WritableKeys, FuzzActions, FuzzAccounts
      <4>3. \A k \in W : k # BadStr /\ \E i \in Idx : accounts[i].key = k /\ accounts[i].is_writable
        BY <3>1, WrittenInPool DEF RoundInv, WritableKeys
      <4> QED
        BY <4>2, <4>3 DEF PoolWritable
    <3>3. svm' \in TransactionEffects(svm, W)
      BY <2>3 DEF SequenceTxOk
    <3> HIDE DEF W
    <3>4. HeldBy(svm', Keys) = HeldBy(svm, Keys)
      BY <3>1, <3>2, <3>3, EffectsConserve
    <3>5. \A k \in Keys \ PoolWritable : svm'[k] = svm[k]
      BY <3>1, <3>2, <3>3, EffectsType
    <3>6. PoolWritable' = PoolWritable
      BY <2>0 DEF PoolWritable
    <3>7. HeldBy(svm, Keys)' = HeldBy(svm', Keys) /\ HeldBy(vmAtStart, Keys)' = HeldBy(vmAtStart, Keys)
      BY <2>0 DEF HeldBy
    <3> QED
      BY <2>0, <3>4, <3>5, <3>6, <3>7 DEF LedgerInv, set_accounts_ok, SetPrefix, Accepted
  <2>4. CASE SequenceTxErr
    <3>1. Failed'
      BY <2>4 DEF SequenceTxErr, Failed, RoundInv, TypeOK, ExecTypeOK
    <3> QED
      BY <2>0, <3>1 DEF LedgerInv, set_accounts_ok, SetPrefix, Accepted
  <2> QED
    BY <1>2, <2>1, <2>2, <2>3, <2>4 DEF RoundExecutes, SequenceStep
<1>3. CASE RoundChecks
  BY <1>3 DEF RoundChecks, execVars, configVars, LedgerInv, PoolWritable, Failed
<1>4. CASE UNCHANGED vars
  BY <1>4 DEF vars, execVars, configVars, LedgerInv, PoolWritable, Failed
<1>5. ASSUME call = "Idle" \/ call = "Err", ~RoundLoads, ~RoundExecutes, ~RoundChecks, Next
      PROVE  FALSE
  BY <1>5 DEF Next, RoundStep, deploy_program, register_instruction, execVars, RoundPanics,
              RoundBegins, RoundHasNoExecutor, RoundCrashes, RoundCollected
<1>6. call # "Idle" /\ call # "Err" /\ Next => RoundLoads \/ RoundExecutes \/ RoundChecks \/ RoundCollected
  BY DEF Next, RoundStep, deploy_program, register_instruction, RoundPanics,
         RoundBegins, RoundHasNoExecutor, RoundCrashes, RoundInv, TypeOK
<1>7. ~RoundCollected
  BY DEF RoundCollected
<1> QED
  BY <1>1, <1>2, <1>3, <1>4, <1>5, <1>6, <1>7

LEMMA LedgerInvInit == Init => LedgerInv
  BY DEF Init, LedgerInv

LEMMA StepsKeepLedgerInv == Steps => []LedgerInv
  BY LedgerInvInit, LedgerInvNext, StepsKeepRoundInv, PTL DEF Steps

--------------------------------------------------------------------------------
LEMMA SumLamportsType ==
  ASSUME NEW s \in Slices
  PROVE  /\ IsFiniteSet(Idx) /\ [i \in Idx |-> s[i].lamports] \in [Idx -> Nat]
         /\ SumLamports(s) \in Nat
<1>1. IsFiniteSet(Idx)
  BY FS_Interval, FuzzAccountAssumption DEF Idx
<1>2. \A i \in Idx : s[i].lamports \in Nat
  BY FuzzAccountAssumption DEF Slices, FuzzAccounts
<1>3. [i \in Idx |-> s[i].lamports] \in [Idx -> Nat]
  BY <1>2
<1> QED
  BY <1>1, <1>3, SumIsUnits DEF SumLamports

\* What the pool's accounts hold is summed by slot or by address.
LEMMA HeldBySlots ==
  ASSUME NEW v \in Vms, NEW s \in Slices, DistinctKeys(s), KeysOf(s) \subseteq Keys
  PROVE  /\ [i \in Idx |-> VmLamports(v[s[i].key])] \in [Idx -> Nat]
         /\ SumFunction([i \in Idx |-> VmLamports(v[s[i].key])]) = HeldBy(v, KeysOf(s))
<1> DEFINE K == KeysOf(s)
           f == [k \in K |-> VmLamports(v[k])]
           r == [i \in Idx |-> s[i].key]
<1>1. IsFiniteSet(Idx) /\ IsFiniteSet(K)
  BY SumLamportsType, FS_Subset, FuzzAccountAssumption
<1>2. \A k \in K : VmLamports(v[k]) \in Nat
  BY VmLamportsType DEF Vms
<1>3. f \in [K -> Nat]
  BY <1>2
<1>4. r \in [Idx -> K] /\ \A k \in K : \E i \in Idx : r[i] = k
  BY DEF KeysOf
<1>5. \A i, j \in Idx : r[i] = r[j] => i = j
  BY DEF DistinctKeys
<1>6. [i \in Idx |-> f[r[i]]] = [i \in Idx |-> VmLamports(v[s[i].key])]
  BY <1>4
<1>7. \A i \in Idx : VmLamports(v[s[i].key]) \in Nat
  BY <1>2, <1>4
<1>8. SumFunction(f) = HeldBy(v, K)
  BY DEF HeldBy
<1> HIDE DEF f, r, K
<1>9. SumFunction([i \in Idx |-> f[r[i]]]) = SumFunction(f)
  BY <1>1, <1>3, <1>4, <1>5, SumRenamed
<1> QED
  BY <1>6, <1>7, <1>8, <1>9 DEF K

LEMMA ToVmLamports ==
  ASSUME NEW a \in FuzzAccounts, a.owner # BadStr
  PROVE  VmLamports(ToVm(a)) = a.lamports
<1>1. [owner |-> a.owner, lamports |-> a.lamports, data |-> a.data] \in VmAccounts
  BY DEF FuzzAccounts, VmAccounts
<1> QED
  BY <1>1, VmLamportsType, ExecutorAssumption DEF ToVm, Stored

\* The working accounts never hold less than when they were loaded.
LEMMA NothingDestroyed ==
  ASSUME RoundInv, LedgerInv, SliceMirrorsRuntime, DistinctKeys(accounts),
         stage = "Execute", call = "Ok"
  PROVE  SumLamports(snapshot) <= SumLamports(slice)
<1>1. /\ slice \in Slices /\ snapshot \in Slices /\ accounts \in Slices
      /\ svm \in Vms /\ vmAtStart \in Vms
      /\ \A i \in Idx : slice[i].key = accounts[i].key /\ snapshot[i].key = accounts[i].key
      /\ set_accounts_ok(snapshot) /\ vmAtStart = set_accounts(vmAtStart, snapshot)
  BY DEF RoundInv, TypeOK, ExecTypeOK, SlotsKeepPlace, LedgerInv
<1>2. SumLamports(slice) \in Nat
  BY <1>1, SumLamportsType
<1>3. CASE Failed
  <2>1. slice = snapshot
    BY <1>3 DEF RoundInv, RollbackRestoresRuntime
  <2> QED
    BY <1>2, <2>1
<1>4. CASE ~Failed
  <2> DEFINE K == KeysOf(snapshot)
             now == [i \in Idx |-> VmLamports(svm[snapshot[i].key])]
             then == [i \in Idx |-> VmLamports(vmAtStart[snapshot[i].key])]
  <2>1. DistinctKeys(snapshot)
    BY <1>1 DEF DistinctKeys
  <2>2. \A i \in Idx : /\ snapshot[i] \in FuzzAccounts /\ slice[i] \in FuzzAccounts
                       /\ snapshot[i].key \in Keys /\ snapshot[i].owner # BadStr
    <3>1. \A i \in Idx : snapshot[i] \in FuzzAccounts /\ slice[i] \in FuzzAccounts
      BY <1>1 DEF Slices
    <3>2. \A i \in Idx : snapshot[i].key # BadStr /\ snapshot[i].owner # BadStr
      BY <1>1, SlotsParse
    <3> QED
      BY <3>1, <3>2 DEF FuzzAccounts
  <2>3. K \subseteq Keys
    BY <2>2 DEF KeysOf
  <2>4. /\ now \in [Idx -> Nat] /\ SumFunction(now) = HeldBy(svm, K)
        /\ SumFunction(then) = HeldBy(vmAtStart, K)
    BY <1>1, <2>1, <2>3, HeldBySlots
  <2>5. HeldBy(svm, K) = HeldBy(vmAtStart, K)
    <3>1. \A k \in Keys \ K : svm[k] = vmAtStart[k]
      <4>1. Keys \ K \subseteq Keys \ PoolWritable
        BY <1>1 DEF KeysOf, PoolWritable
      <4> QED
        BY <1>4, <4>1 DEF LedgerInv
    <3>2. HeldBy(svm, Keys) = HeldBy(vmAtStart, Keys)
      BY <1>4 DEF LedgerInv
    <3> QED
      BY <1>1, <2>3, <3>1, <3>2, HeldElsewhere
  <2>6. \A i \in Idx : VmLamports(vmAtStart[snapshot[i].key]) = snapshot[i].lamports
    BY <1>1, <2>1, <2>2, SetAccountsUnique, ToVmLamports
  <2>7. then = [i \in Idx |-> snapshot[i].lamports]
    BY <2>6
  <2>8. \A i \in Idx : VmLamports(svm[snapshot[i].key]) <= slice[i].lamports
    <3>1. SUFFICES ASSUME NEW i \in Idx
                   PROVE  VmLamports(svm[snapshot[i].key]) <= slice[i].lamports
      OBVIOUS
    <3>2. slice[i].lamports \in Nat
      BY <2>2, FuzzAccountAssumption DEF FuzzAccounts
    <3>3. svm[snapshot[i].key] \in {NoAccount, ToVm(slice[i])}
      BY <1>1 DEF SliceMirrorsRuntime
    <3>4. VmLamports(NoAccount) = 0
      BY DEF VmLamports
    <3>5. ToVm(slice[i]) = NoAccount \/ VmLamports(ToVm(slice[i])) = slice[i].lamports
      BY DEF ToVm, Stored, Settle, VmLamports
    <3> QED
      BY <3>2, <3>3, <3>4, <3>5
  <2>9. [i \in Idx |-> slice[i].lamports] \in [Idx -> Nat] /\ IsFiniteSet(Idx)
    BY <1>1, SumLamportsType
  <2>10. \A i \in Idx : now[i] <= [j \in Idx |-> slice[j].lamports][i]
    BY <2>8
  <2> HIDE DEF now, then, K
  <2>11. SumFunction(now) <= SumFunction([j \in Idx |-> slice[j].lamports])
    BY <2>4, <2>9, <2>10, SumMonotone
  <2> QED
    BY <2>4, <2>5, <2>7, <2>11 DEF SumLamports
<1> QED
  BY <1>3, <1>4

LEMMA SupplyMonotone ==
  ASSUME NEW a \in Slices, NEW b \in Slices, NEW c \in Slices,
         SumLamports(a) <= SumLamports(b), SupplyViolated(b, c)
  PROVE  SupplyViolated(a, c)
<1> DEFINE x == SumLamports(c)
<1>1. SumLamports(a) \in Nat /\ SumLamports(b) \in Nat /\ x \in Nat
  BY SumLamportsType
<1>2. SaturatingSub(x, (N * x) \div 100) \in Int
  <2>1. N * x \in Int
    BY <1>1, FuzzAccountAssumption
  <2>2. (N * x) \div 100 \in Int
    BY <2>1
  <2> QED
    BY <1>1, <2>2 DEF SaturatingSub
<1>3. SumLamports(b) < SaturatingSub(x, (N * x) \div 100)
  BY DEF SupplyViolated
<1>4. SumLamports(a) < SaturatingSub(x, (N * x) \div 100)
  BY <1>1, <1>2, <1>3
<1> QED
  BY <1>4 DEF SupplyViolated

AlarmInv ==
  /\ stage # "Returned" => violated = {}
  /\ SupplyAlarmBlamesMutator

LEMMA AlarmInvNext ==
  RoundInv /\ LedgerInv /\ SliceMirrorsRuntime /\ AlarmInv /\ [Next]_vars => AlarmInv'
<1> SUFFICES ASSUME RoundInv, LedgerInv, SliceMirrorsRuntime, AlarmInv, [Next]_vars
             PROVE  AlarmInv'
  OBVIOUS
<1>1. CASE RoundChecks
  <2> SUFFICES ASSUME DistinctKeys(accounts), SupplyViolated(slice, accounts)
               PROVE  SupplyViolated(snapshot, accounts)
    BY <1>1 DEF RoundChecks, execVars, configVars, AlarmInv, SupplyAlarmBlamesMutator,
                DistinctKeys, SupplyViolated, SumLamports
  <2>1. SumLamports(snapshot) <= SumLamports(slice)
    BY <1>1, NothingDestroyed DEF RoundChecks
  <2> QED
    BY <2>1, SupplyMonotone DEF RoundInv, TypeOK, ExecTypeOK
<1>2. CASE UNCHANGED vars
  BY <1>2 DEF vars, execVars, configVars, roundVars, AlarmInv, SupplyAlarmBlamesMutator,
              DistinctKeys, SupplyViolated, SumLamports
<1>3. CASE RoundCollected
  BY <1>3 DEF RoundCollected, AlarmInv, SupplyAlarmBlamesMutator
<1>4. ASSUME stage # "Returned", violated' = violated PROVE AlarmInv'
  BY <1>4 DEF AlarmInv, SupplyAlarmBlamesMutator
<1> QED
  BY <1>1, <1>2, <1>3, <1>4
  DEF Next, RoundStep, deploy_program, register_instruction, RoundPanics, RoundBegins, RoundLoads,
      RoundHasNoExecutor, RoundExecutes, RoundCrashes, roundVars

LEMMA AlarmInvInit == Init => AlarmInv
  BY DEF Init, AlarmInv, SupplyAlarmBlamesMutator

\* No transaction can cause an alarm of the supply template: it also fails on the
\* accounts the mutator handed to the round.
THEOREM SupplyAlarmIsMutators == Spec => []SupplyAlarmBlamesMutator
<1>1. AlarmInv => SupplyAlarmBlamesMutator
  BY DEF AlarmInv
<1> QED
  BY <1>1, AlarmInvInit, AlarmInvNext, RoundInvariant, StepsKeepLedgerInv, SliceIsTheRuntime, PTL
  DEF Spec, Steps

--------------------------------------------------------------------------------
(* Rounds are atomic.  The ledger the abstract specification sees.          *)
Ledger == IF Status = "Loaded" THEN vmAtStart ELSE svm

\* The pool, and with it what a round tracks and may write, never changes.
LEMMA PoolStays ==
  ASSUME [Next]_vars
  PROVE  accounts' = accounts
  BY DEF Next, RoundStep, vars, configVars, deploy_program, register_instruction, RoundPanics,
         RoundBegins, RoundLoads, RoundHasNoExecutor, RoundExecutes, RoundChecks, RoundCrashes,
         RoundCollected

LEMMA AtomicSupply ==
  ASSUME NEW v
  PROVE  Atomic!Supply(v) = HeldBy(v, Keys)
<1>1. ASSUME NEW f PROVE Atomic!SumFunction(f) = SumFunction(f)
  BY DEF SumFunction, SumFunctionOnSet, FoldFunctionOnSet, MapThenFoldSet,
         Atomic!SumFunction, Atomic!SumFunctionOnSet, Atomic!FoldFunctionOnSet,
         Atomic!MapThenFoldSet
<1> QED
  BY <1>1 DEF Atomic!Supply, HeldBy

\* What a step has to show.
LEMMA AtomicStutter ==
  ASSUME accounts' = accounts, Status' = Status, Ledger' = Ledger
  PROVE  UNCHANGED Atomic!abstractVars
  BY DEF Atomic!abstractVars, Ledger, KeysOf

LEMMA AtomicWipe ==
  ASSUME accounts' = accounts, Status \in {"Idle", "Broken"}, Status' = Status, svm' = EmptyVm
  PROVE  Atomic!ANext
  BY DEF Atomic!ANext, Atomic!Wipe, EmptyVm, KeysOf

LEMMA AtomicLoad ==
  ASSUME accounts' = accounts, Status = "Idle", Status' \in {"Loaded", "Broken"},
         \A k \in Keys \ KeysOf(accounts) : Ledger'[k] = svm[k]
  PROVE  Atomic!ANext
  BY FuzzAccountAssumption
  DEF Atomic!ANext, Atomic!Load, Atomic!AgreeOutside, Ledger, KeysOf

LEMMA AtomicCommit ==
  ASSUME accounts' = accounts, Status = "Loaded", Status' = "Committed",
         \A k \in Keys \ PoolWritable : svm'[k] = vmAtStart[k],
         HeldBy(svm', Keys) = HeldBy(vmAtStart, Keys)
  PROVE  Atomic!ANext
<1>1. Ledger = vmAtStart /\ Ledger' = svm'
  BY DEF Ledger
<1>2. Atomic!AgreeOutside(Ledger', Ledger, PoolWritable)
  BY <1>1 DEF Atomic!AgreeOutside
<1>3. Atomic!Supply(Ledger') = Atomic!Supply(Ledger)
  BY <1>1, AtomicSupply
<1> QED
  BY <1>2, <1>3 DEF Atomic!ANext, Atomic!Commit, Ledger, PoolWritable, KeysOf

LEMMA AtomicAbort ==
  ASSUME accounts' = accounts, Status = "Loaded", Status' = "Aborted", svm' = vmAtStart
  PROVE  Atomic!ANext
  BY DEF Atomic!ANext, Atomic!Abort, KeysOf

LEMMA AtomicFinish ==
  ASSUME accounts' = accounts, Status \in {"Committed", "Aborted", "Broken"}, Status' = "Idle",
         svm' = svm
  PROVE  Atomic!ANext
  BY DEF Atomic!ANext, Atomic!Finish, KeysOf

LEMMA StatusValues ==
  ASSUME TypeOK
  PROVE  /\ call = "Idle" => Status = "Idle"
         /\ call \in {"Running", "Panicked"} => Status = "Loaded"
         /\ call = "Err" => Status = "Broken"
         /\ call = "Ok" /\ Failed => Status = "Aborted"
         /\ call = "Ok" /\ ~Failed => Status = "Committed"
  BY DEF TypeOK, ExecTypeOK, Status

LEMMA AtomicStep ==
  ASSUME RoundInv, RoundInv', LedgerInv, LedgerInv', [Next]_vars
  PROVE  Atomic!ANext \/ UNCHANGED Atomic!abstractVars
<1>1. accounts' = accounts
  BY PoolStays
<1>2. /\ call = "Idle" => Status = "Idle"
      /\ call \in {"Running", "Panicked"} => Status = "Loaded"
      /\ call = "Err" => Status = "Broken"
      /\ call = "Ok" /\ Failed => Status = "Aborted"
      /\ call = "Ok" /\ ~Failed => Status = "Committed"
      /\ call \in {"Idle", "Running", "Ok", "Err", "Panicked"}
      /\ stage \in {"Idle", "SetUp", "Panicked"} <=> call = "Idle"
  BY StatusValues DEF RoundInv, TypeOK, ExecTypeOK
<1>3. /\ call' = "Idle" => Status' = "Idle"
      /\ call' \in {"Running", "Panicked"} => Status' = "Loaded"
      /\ call' = "Err" => Status' = "Broken"
      /\ call' = "Ok" /\ Failed' => Status' = "Aborted"
      /\ call' = "Ok" /\ ~Failed' => Status' = "Committed"
  <2>1. TypeOK'
    BY DEF RoundInv
  <2> QED
    BY <2>1 DEF TypeOK, ExecTypeOK, Status
<1>4. ASSUME Status' = Status, svm' = svm, vmAtStart' = vmAtStart
      PROVE  UNCHANGED Atomic!abstractVars
  BY <1>1, <1>4, AtomicStutter DEF Ledger
<1>5. ASSUME NEW bytes \in Binaries, deploy_program(bytes)
      PROVE  Atomic!ANext \/ UNCHANGED Atomic!abstractVars
  <2>1. call = "Idle" /\ call' = "Idle" /\ vmAtStart' = vmAtStart
    BY <1>2, <1>5 DEF deploy_program
  <2>2. svm' = EmptyVm \/ svm' = svm
    BY <1>5 DEF deploy_program, NewExecutor
  <2> QED
    BY <1>1, <1>2, <1>3, <1>4, <2>1, <2>2, AtomicWipe
<1>6. CASE register_instruction \/ RoundPanics \/ RoundBegins
  <2>1. call = "Idle" /\ call' = "Idle" /\ svm' = svm /\ vmAtStart' = vmAtStart
    <3>1. call' = call /\ svm' = svm /\ vmAtStart' = vmAtStart
      BY <1>6 DEF register_instruction, RoundPanics, RoundBegins, execVars
    <3>2. stage = "Idle"
      BY <1>6 DEF register_instruction, RoundPanics, RoundBegins
    <3> QED
      BY <1>2, <3>1, <3>2
  <2> QED
    BY <1>2, <1>3, <1>4, <2>1
<1>7. CASE RoundLoads
  <2>1. call = "Idle" /\ svm' = set_accounts(svm, slice)
    BY <1>2, <1>7 DEF RoundLoads
  <2>2. (call' = "Running" /\ vmAtStart' = svm') \/ call' = "Err"
    BY <1>7 DEF RoundLoads, SequenceStart
  <2>3. Ledger' = svm'
    BY <1>3, <2>2 DEF Ledger
  <2>4. KeysOf(slice) = KeysOf(accounts)
    BY KeysOfSnapshot DEF RoundInv
  <2>5. \A k \in Keys \ KeysOf(accounts) : Ledger'[k] = svm[k]
    BY <2>1, <2>3, <2>4, SetAccountsOutside
  <2> QED
    BY <1>1, <1>2, <1>3, <2>1, <2>2, <2>5, AtomicLoad
<1>8. CASE RoundHasNoExecutor
  <2>1. call = "Idle" /\ svm' = svm /\ call' = "Err"
    BY <1>2, <1>8 DEF RoundHasNoExecutor
  <2>2. Ledger' = svm
    BY <1>3, <2>1 DEF Ledger
  <2> QED
    BY <1>1, <1>2, <1>3, <2>1, <2>2, AtomicLoad
<1>9. CASE RoundExecutes
  <2>0. call = "Running" /\ vmAtStart' = vmAtStart
    BY <1>9 DEF RoundExecutes, SequenceStep, SequenceBadProgram, SequenceSignPanic, SequenceTxOk,
                SequenceTxErr, SequenceEnd, Sending
  <2>1. CASE SequenceBadProgram
    <3>1. Current \in DOMAIN actions
      BY <2>1 DEF SequenceBadProgram, Current, RoundInv, TypeOK, ExecTypeOK
    <3>2. ProgramId = BadStr
      BY <2>1, <3>1 DEF SequenceBadProgram, RoundInv, ActionsFromPool
    <3> QED
      BY <2>0, <3>2 DEF RoundInv, RunningInv, ExecutorKept
  <2>2. CASE SequenceSignPanic \/ SequenceTxOk
    <3>1. call' \in {"Running", "Panicked"}
      BY <2>0, <2>2, KeysOfRunning DEF SequenceSignPanic, SequenceTxOk
    <3> QED
      BY <1>1, <1>2, <1>3, <2>0, <3>1, AtomicStutter DEF Ledger
  <2>3. CASE SequenceTxErr
    <3>1. call' = "Ok" /\ Failed'
      BY <2>3 DEF SequenceTxErr, Failed, RoundInv, TypeOK, ExecTypeOK
    <3>2. svm' = vmAtStart
      BY <2>0, <3>1 DEF RoundInv, RollbackRestoresRuntime, TypeOK
    <3> QED
      BY <1>1, <1>2, <1>3, <2>0, <3>1, <3>2, AtomicAbort
  <2>4. CASE SequenceEnd
    <3>1. call' = "Ok" /\ svm' = svm /\ results' = results
      BY <2>4 DEF SequenceEnd
    <3>2. ~Failed /\ ~Failed'
      BY <2>0, <3>1 DEF RoundInv, RunningInv, Failed
    <3> QED
      BY <1>1, <1>2, <1>3, <2>0, <3>1, <3>2, AtomicCommit DEF LedgerInv
  <2> QED
    BY <1>9, <2>1, <2>2, <2>3, <2>4 DEF RoundExecutes, SequenceStep
<1>10. CASE RoundChecks \/ UNCHANGED vars
  <2>1. UNCHANGED execVars
    BY <1>10 DEF RoundChecks, vars
  <2>2. call' = call /\ Failed' = Failed /\ svm' = svm /\ vmAtStart' = vmAtStart
    BY <2>1 DEF execVars, Failed
  <2> QED
    BY <1>2, <1>3, <1>4, <2>2
<1>11. CASE RoundCrashes
  <2>1. call = "Err" /\ call' = "Err" /\ vmAtStart' = vmAtStart
    BY <1>11 DEF RoundCrashes
  <2>2. svm' = EmptyVm \/ svm' = svm
    BY <1>11 DEF RoundCrashes, reset_executor, NewExecutor
  <2> QED
    BY <1>1, <1>2, <1>3, <1>4, <2>1, <2>2, AtomicWipe
<1>12. CASE RoundCollected
  <2>1. call' = "Idle" /\ svm' = svm /\ call \in {"Ok", "Err"}
    BY <1>12 DEF RoundCollected, RoundInv
  <2> QED
    BY <1>1, <1>2, <1>3, <2>1, AtomicFinish
<1> QED
  BY <1>5, <1>6, <1>7, <1>8, <1>9, <1>10, <1>11, <1>12 DEF Next, RoundStep

LEMMA AtomicInit == Init => Atomic!AInit
  BY DEF Init, Atomic!AInit, Status, EmptyVm, KeysOf

LEMMA StepsAreAtomic == Steps => RoundsAreAtomic
<1>1. RoundInv /\ RoundInv' /\ LedgerInv /\ LedgerInv' /\ [Next]_vars
        => [Atomic!ANext]_Atomic!abstractVars
  BY AtomicStep
<1> QED
  BY <1>1, AtomicInit, StepsKeepRoundInv, StepsKeepLedgerInv, PTL
  DEF Steps, RoundsAreAtomic, Atomic!ASpec

\* The fuzzer implements atomic rounds: from the outside a round is loaded whole or
\* broken, and commits whole, without making or destroying lamports, or leaves no trace.
THEOREM FuzzerImplementsAtomicRound == Spec => RoundsAreAtomic
  BY StepsAreAtomic, PTL DEF Spec, Steps

--------------------------------------------------------------------------------
(* Campaigns: the loops that drive the fuzzer.                              *)

\* A step of a campaign is one of the fuzzer.
LEMMA CampaignStepsFuzzer == [CNext]_allVars => [Next]_vars
  BY DEF CNext, allVars, Deploys, Registers, LoopCalls, RoundRuns, LoopCollects, LoopEnds, Next

\* Whoever drives it, a campaign is a behaviour of the fuzzer.
THEOREM CampaignImplementsFuzzer == CSpec => Steps
<1>1. CInit => Init
  BY DEF CInit
<1> QED
  BY <1>1, CampaignStepsFuzzer, PTL DEF CSpec, Steps

\* A campaign, whoever drives it, keeps the fuzzer's inductive invariant.
THEOREM CampaignKeepsRoundInv == CSpec => []RoundInv
  BY CampaignImplementsFuzzer, StepsKeepRoundInv, PTL

\* What a failing load wrote is never carried into a later round of a campaign.
THEOREM CampaignLoadsWhole == CSpec => []AllOrNothingLoad
  BY CampaignImplementsFuzzer, StepsLoadWhole, PTL

\* The rounds of a campaign are atomic.
THEOREM CampaignIsAtomic == CSpec => RoundsAreAtomic
  BY CampaignImplementsFuzzer, StepsAreAtomic, PTL

--------------------------------------------------------------------------------
\* Without an executor a round stops before its first transaction.
UndeployedInv ==
  campaign # "custom" =>
    /\ ~executor /\ program_bytes = NoBytes
    /\ call \in {"Idle", "Err"}
    /\ stage = "Execute" => call = "Err"
    /\ N > 0 /\ max_sequence_length > 0 => stage # "Panicked"

LEMMA UndeployedInvInit == CInit => UndeployedInv
  BY DEF CInit, Init, UndeployedInv

LEMMA UndeployedInvNext == TypeOK /\ UndeployedInv /\ [CNext]_allVars => UndeployedInv'
<1> SUFFICES ASSUME TypeOK, UndeployedInv, [CNext]_allVars, campaign' # "custom"
             PROVE  UndeployedInv'
  BY DEF UndeployedInv
<1>a. campaign' = campaign
  BY DEF CNext, allVars, campaignVars, Deploys, Registers, LoopCalls, RoundRuns, LoopCollects,
         LoopEnds
<1>b. /\ ~executor /\ program_bytes = NoBytes
      /\ call \in {"Idle", "Err"} /\ (stage = "Execute" => call = "Err")
      /\ (N > 0 /\ max_sequence_length > 0 => stage # "Panicked")
  BY <1>a DEF UndeployedInv
<1>1. CASE UNCHANGED allVars
  BY <1>1, <1>b DEF allVars, vars, execVars, configVars, roundVars, campaignVars, UndeployedInv
<1>2. CASE Deploys
  BY <1>2, <1>a DEF Deploys
<1>3. CASE Registers
  BY <1>3, <1>b DEF Registers, register_instruction, execVars, roundVars, campaignVars,
                    UndeployedInv
<1>4. CASE LoopCalls
  <2>1. CASE RoundPanics
    <3>1. ~(N > 0 /\ max_sequence_length > 0)
      BY <2>1 DEF RoundPanics, CannotGenerate
    <3> QED
      BY <2>1, <3>1, <1>4, <1>b DEF RoundPanics, LoopCalls, execVars, configVars, campaignVars,
                                    UndeployedInv
  <2>2. CASE RoundBegins
    BY <2>2, <1>4, <1>b DEF RoundBegins, LoopCalls, configVars, campaignVars, UndeployedInv
  <2> QED
    BY <1>4, <2>1, <2>2 DEF LoopCalls
<1>5. CASE RoundRuns
  <2>1. CASE RoundLoads
    BY <2>1, <1>b DEF RoundLoads
  <2>2. CASE RoundHasNoExecutor
    BY <2>2, <1>5, <1>b DEF RoundHasNoExecutor, RoundRuns, configVars, campaignVars, UndeployedInv
  <2>3. CASE RoundExecutes
    BY <2>3, <1>b DEF RoundExecutes, SequenceStep, SequenceBadProgram, SequenceSignPanic,
                      SequenceTxOk, SequenceTxErr, SequenceEnd, Sending
  <2>4. CASE RoundChecks
    BY <2>4, <1>b DEF RoundChecks
  <2>5. CASE RoundCrashes
    BY <2>5, <1>5, <1>b DEF RoundCrashes, reset_executor, RoundRuns, campaignVars, UndeployedInv
  <2> QED
    BY <1>5, <2>1, <2>2, <2>3, <2>4, <2>5 DEF RoundRuns, RoundStep
<1>6. CASE LoopCollects
  BY <1>6, <1>b DEF LoopCollects, RoundCollected, configVars, UndeployedInv
<1>7. CASE LoopEnds
  BY <1>7, <1>b DEF LoopEnds, vars, execVars, configVars, roundVars, UndeployedInv
<1> QED
  BY <1>1, <1>2, <1>3, <1>4, <1>5, <1>6, <1>7 DEF CNext

\* The loops of the repository never panic, given accounts and a sequence length.
THEOREM LoopsNeverPanic == CSpec => []LoopsDoNotPanic
<1>1. UndeployedInv => LoopsDoNotPanic
  BY DEF UndeployedInv, LoopsDoNotPanic
<1>2. RoundInv => TypeOK
  BY DEF RoundInv
<1> QED
  BY <1>1, <1>2, UndeployedInvInit, UndeployedInvNext, CampaignKeepsRoundInv, PTL DEF CSpec

--------------------------------------------------------------------------------
\* What makes CountReported inductive: a round in progress has not been collected.
CountInv ==
  /\ campaign \in {"cli", "harness", "custom"} /\ finished \in BOOLEAN
  /\ crash_count \in Nat
  /\ collected \subseteq 1 .. round_count /\ crash_rounds \subseteq collected
  /\ stage \in {"SetUp", "Execute", "Returned"} => round_count \in (1 .. round_count) \ collected
  /\ CountReported

LEMMA CountInvInit == CInit => CountInv
<1> SUFFICES ASSUME CInit PROVE CountInv
  OBVIOUS
<1>1. Cardinality(crash_rounds) = 0
  BY FS_EmptySet DEF CInit
<1>2. CountReported
  BY <1>1 DEF CInit, CountReported
<1>3. collected = {} /\ crash_rounds = {} /\ stage = "Idle" /\ crash_count = 0
  BY DEF CInit, Init
<1>4. campaign \in {"cli", "harness", "custom"} /\ finished \in BOOLEAN
  BY DEF CInit
<1> QED
  BY <1>2, <1>3, <1>4 DEF CountInv

\* A step that collects nothing keeps the count, provided a round it starts is a new one.
LEMMA CountInvKept ==
  ASSUME CountInv, UNCHANGED <<campaign, crash_count, collected, crash_rounds>>,
         finished' \in BOOLEAN,
         round_count \in Nat,
         \/ /\ round_count' = round_count
            /\ \/ stage' = "Idle"
               \/ stage' = stage
               \/ stage \in {"SetUp", "Execute", "Returned"}
         \/ round_count' = round_count + 1
  PROVE  CountInv'
<1>1. collected' \subseteq 1 .. round_count'
  BY DEF CountInv
<1>2. ASSUME stage' \in {"SetUp", "Execute", "Returned"}
      PROVE  round_count' \in (1 .. round_count') \ collected'
  <2>1. CASE round_count' = round_count + 1
    <3>1. round_count + 1 \notin collected /\ round_count + 1 \in 1 .. round_count + 1
      BY DEF CountInv
    <3> QED
      BY <2>1, <3>1
  <2>2. CASE round_count' = round_count
    BY <1>2, <2>2 DEF CountInv
  <2> QED
    BY <2>1, <2>2
<1>3. CountReported'
  BY DEF CountInv, CountReported
<1> QED
  BY <1>1, <1>2, <1>3 DEF CountInv

LEMMA CountInvCollects ==
  ASSUME TypeOK, CountInv, LoopCollects
  PROVE  CountInv'
<1> USE DEF LoopCollects, RoundCollected
<1>1. round_count \in (1 .. round_count) \ collected /\ round_count \in Nat
  BY DEF CountInv, TypeOK
<1>2. /\ IsFiniteSet(crash_rounds) /\ round_count \notin crash_rounds
      /\ crash_count \in Nat /\ is_crash \in BOOLEAN
  <2>1. IsFiniteSet(1 .. round_count)
    BY <1>1, FS_Interval
  <2> QED
    BY <1>1, <2>1, FS_Subset DEF CountInv, TypeOK
<1>3. Cardinality(crash_rounds \cup {round_count}) = Cardinality(crash_rounds) + 1
  BY <1>2, FS_AddElement
<1>4. CountReported'
  BY <1>2, <1>3 DEF CountInv, CountReported, Counted
<1>5. crash_count' \in Nat
  BY <1>2 DEF Counted
<1> QED
  BY <1>1, <1>4, <1>5 DEF CountInv

LEMMA CountInvNext == TypeOK /\ CountInv /\ [CNext]_allVars => CountInv'
<1> SUFFICES ASSUME TypeOK, CountInv, [CNext]_allVars PROVE CountInv'
  OBVIOUS
<1>1. round_count \in Nat /\ finished \in BOOLEAN
  BY DEF TypeOK, CountInv
<1>2. CASE UNCHANGED allVars
  BY <1>1, <1>2, CountInvKept DEF allVars, vars, roundVars, campaignVars
<1>3. CASE Deploys
  BY <1>1, <1>3, CountInvKept DEF Deploys, deploy_program, roundVars, campaignVars
<1>4. CASE Registers
  BY <1>1, <1>4, CountInvKept DEF Registers, register_instruction, roundVars, campaignVars
<1>5. CASE LoopCalls
  BY <1>1, <1>5, CountInvKept DEF LoopCalls, RoundPanics, RoundBegins, campaignVars
<1>6. CASE RoundRuns
  <2>1. CASE RoundLoads
    BY <1>1, <1>6, <2>1, CountInvKept DEF RoundRuns, RoundLoads, campaignVars
  <2>2. CASE RoundHasNoExecutor
    BY <1>1, <1>6, <2>2, CountInvKept DEF RoundRuns, RoundHasNoExecutor, campaignVars
  <2>3. CASE RoundExecutes
    BY <1>1, <1>6, <2>3, CountInvKept DEF RoundRuns, RoundExecutes, roundVars, campaignVars
  <2>4. CASE RoundChecks
    BY <1>1, <1>6, <2>4, CountInvKept DEF RoundRuns, RoundChecks, campaignVars
  <2>5. CASE RoundCrashes
    BY <1>1, <1>6, <2>5, CountInvKept DEF RoundRuns, RoundCrashes, campaignVars
  <2> QED
    BY <1>6, <2>1, <2>2, <2>3, <2>4, <2>5 DEF RoundRuns, RoundStep
<1>7. CASE LoopCollects
  BY <1>7, CountInvCollects
<1>8. CASE LoopEnds
  BY <1>1, <1>8, CountInvKept DEF LoopEnds, vars, roundVars
<1> QED
  BY <1>2, <1>3, <1>4, <1>5, <1>6, <1>7, <1>8 DEF CNext

LEMMA CountInvariant == CSpec => []CountInv
<1>1. RoundInv => TypeOK
  BY DEF RoundInv
<1> QED
  BY <1>1, CountInvInit, CountInvNext, CampaignKeepsRoundInv, PTL DEF CSpec

\* The number the command prints is that of its crash rounds; a harness's is 0.
THEOREM CountIsRight == CSpec => []CountReported
<1>1. CountInv => CountReported
  BY DEF CountInv
<1> QED
  BY <1>1, CountInvariant, PTL

\* Type correctness of a campaign: only rounds that were run are ever collected.
THEOREM CampaignType == CSpec => []CTypeOK
<1>1. RoundInv /\ CountInv => CTypeOK
  BY DEF RoundInv, CountInv, CTypeOK
<1> QED
  BY <1>1, CampaignKeepsRoundInv, CountInvariant, PTL

--------------------------------------------------------------------------------
(* Why the loops end: what goes down at each of their steps.                *)
StepsOfRound ==
  CASE stage = "SetUp" -> 3 [] stage = "Execute" -> 2 [] stage = "Returned" -> 1 [] OTHER -> 0

LoopRank == <<MaxRounds - round_count, IF finished THEN 0 ELSE 1, StepsOfRound,
              IF call = "Running" THEN 1 ELSE 0, Len(actions) - Len(results)>>

\* The lexicographic order.
Below(r, q) == \E k \in 1 .. 5 : r[k] < q[k] /\ \A j \in 1 .. k - 1 : r[j] = q[j]

LoopRankIsNatural == LoopRank \in [1 .. 5 -> Nat]

LoopsDescend ==
  /\ LoopCalls \/ RoundRuns \/ LoopCollects \/ LoopEnds => Below(LoopRank', LoopRank)
  /\ Deploys \/ Registers => LoopRank' = LoopRank

\* One case per place of LoopRank.
LEMMA BelowAt ==
  ASSUME NEW r, NEW q,
         \/ r[1] < q[1]
         \/ r[1] = q[1] /\ r[2] < q[2]
         \/ r[1] = q[1] /\ r[2] = q[2] /\ r[3] < q[3]
         \/ r[1] = q[1] /\ r[2] = q[2] /\ r[3] = q[3] /\ r[4] < q[4]
         \/ r[1] = q[1] /\ r[2] = q[2] /\ r[3] = q[3] /\ r[4] = q[4] /\ r[5] < q[5]
  PROVE  Below(r, q)
<1>1. 1 .. 0 = {} /\ 1 .. 1 = {1} /\ 1 .. 2 = {1, 2} /\ 1 .. 3 = {1, 2, 3} /\ 1 .. 4 = {1, 2, 3, 4}
  OBVIOUS
<1>2. ASSUME NEW k \in 1 .. 5, r[k] < q[k], \A j \in 1 .. k - 1 : r[j] = q[j]
      PROVE  Below(r, q)
  BY <1>2 DEF Below
<1>3. CASE r[1] < q[1]
  BY <1>1, <1>2, <1>3
<1>4. CASE r[1] = q[1] /\ r[2] < q[2]
  BY <1>1, <1>2, <1>4
<1>5. CASE r[1] = q[1] /\ r[2] = q[2] /\ r[3] < q[3]
  BY <1>1, <1>2, <1>5
<1>6. CASE r[1] = q[1] /\ r[2] = q[2] /\ r[3] = q[3] /\ r[4] < q[4]
  BY <1>1, <1>2, <1>6
<1>7. CASE r[1] = q[1] /\ r[2] = q[2] /\ r[3] = q[3] /\ r[4] = q[4] /\ r[5] < q[5]
  BY <1>1, <1>2, <1>7
<1> QED
  BY <1>3, <1>4, <1>5, <1>6, <1>7

LEMMA LoopRankTyped == TypeOK => LoopRankIsNatural
<1> SUFFICES ASSUME TypeOK PROVE LoopRankIsNatural
  OBVIOUS
<1>1. MaxRounds - round_count \in Nat
  BY FuzzerAssumption DEF TypeOK
<1>2. Len(actions) - Len(results) \in Nat
  <2>1. actions \in Seq(FuzzActions) /\ results \in Seq(Outcomes) /\ Len(results) <= Len(actions)
    BY DEF TypeOK, ExecTypeOK
  <2>2. Len(actions) \in Nat /\ Len(results) \in Nat
    BY <2>1
  <2> QED
    BY <2>1, <2>2
<1>3. StepsOfRound \in Nat
  BY DEF StepsOfRound
<1> DEFINE Open == IF finished THEN 0 ELSE 1
           Running == IF call = "Running" THEN 1 ELSE 0
<1>4. Open \in Nat /\ Running \in Nat
  OBVIOUS
<1>5. LoopRank = <<MaxRounds - round_count, Open, StepsOfRound, Running, Len(actions) - Len(results)>>
  BY DEF LoopRank
<1> HIDE DEF Open, Running
<1> QED
  BY <1>1, <1>2, <1>3, <1>4, <1>5 DEF LoopRankIsNatural

\* A turn of execute_sequence ends the call or gets on with the sequence.
LEMMA SequenceDescends ==
  ASSUME TypeOK, SequenceStep
  PROVE  /\ call = "Running"
         /\ \/ call' # "Running"
            \/ call' = "Running" /\ Len(actions') - Len(results') < Len(actions) - Len(results)
<1>1. call = "Running"
  BY DEF SequenceStep, SequenceBadProgram, SequenceSignPanic, SequenceTxOk, SequenceTxErr,
         SequenceEnd, Sending
<1>2. CASE SequenceBadProgram \/ SequenceSignPanic \/ SequenceTxErr \/ SequenceEnd
  <2>1. call' \in {"Err", "Panicked", "Ok"}
    BY <1>2 DEF SequenceBadProgram, SequenceSignPanic, SequenceTxErr, SequenceEnd
  <2> QED
    BY <1>1, <2>1
<1>3. CASE SequenceTxOk
  <2>1. results' = Append(results, "Ok") /\ actions' = actions /\ call' \in {"Running", "Err"}
    BY <1>3 DEF SequenceTxOk
  <2>2. actions \in Seq(FuzzActions) /\ results \in Seq(Outcomes)
    BY DEF TypeOK, ExecTypeOK
  <2>3. Len(results') = Len(results) + 1 /\ Len(results) \in Nat /\ Len(actions) \in Nat
    BY <2>1, <2>2
  <2>4. Len(actions') - Len(results') < Len(actions) - Len(results)
    BY <2>1, <2>3
  <2> QED
    BY <1>1, <2>1, <2>4
<1> QED
  BY <1>2, <1>3 DEF SequenceStep

LEMMA StepLowersLoopRank ==
  ASSUME TypeOK
  PROVE  LoopsDescend
<1> DEFINE Running == IF call = "Running" THEN 1 ELSE 0
           Left == Len(actions) - Len(results)
           Open == IF finished THEN 0 ELSE 1
<1>1. /\ LoopRank[1] = MaxRounds - round_count /\ LoopRank[2] = Open
      /\ LoopRank[3] = StepsOfRound /\ LoopRank[4] = Running /\ LoopRank[5] = Left
      /\ LoopRank'[1] = MaxRounds - round_count' /\ LoopRank'[2] = Open'
      /\ LoopRank'[3] = StepsOfRound' /\ LoopRank'[4] = Running' /\ LoopRank'[5] = Left'
  BY DEF LoopRank
<1>2. ASSUME LoopCalls PROVE Below(LoopRank', LoopRank)
  <2>1. round_count' = round_count + 1
    BY <1>2 DEF LoopCalls, RoundPanics, RoundBegins
  <2>2. MaxRounds - round_count' < MaxRounds - round_count
    BY <2>1, FuzzerAssumption DEF TypeOK
  <2> QED
    BY <1>1, <2>2, BelowAt
<1>3. ASSUME LoopEnds PROVE Below(LoopRank', LoopRank)
  <2>1. round_count' = round_count /\ Open' < Open
    BY <1>3 DEF LoopEnds, vars, roundVars
  <2> QED
    BY <1>1, <2>1, BelowAt
<1>4. ASSUME \/ LoopCollects
             \/ (RoundLoads \/ RoundHasNoExecutor \/ RoundChecks \/ RoundCrashes) /\ UNCHANGED campaignVars
      PROVE  Below(LoopRank', LoopRank)
  <2>1. round_count' = round_count /\ finished' = finished
    BY <1>4 DEF LoopCollects, RoundCollected, RoundLoads, RoundHasNoExecutor, RoundChecks,
                RoundCrashes, campaignVars
  <2>2. StepsOfRound' < StepsOfRound
    BY <1>4 DEF LoopCollects, RoundCollected, RoundLoads, RoundHasNoExecutor, RoundChecks,
                RoundCrashes, StepsOfRound
  <2> QED
    BY <1>1, <2>1, <2>2, BelowAt
<1>5. ASSUME RoundExecutes /\ UNCHANGED campaignVars PROVE Below(LoopRank', LoopRank)
  <2>1. round_count' = round_count /\ finished' = finished /\ stage' = stage
    BY <1>5 DEF RoundExecutes, roundVars, campaignVars
  <2>2. StepsOfRound' = StepsOfRound /\ Open' = Open
    BY <2>1 DEF StepsOfRound
  <2>3. \/ Running' < Running
        \/ Running' = Running /\ Left' < Left
    BY <1>5, SequenceDescends DEF RoundExecutes
  <2> QED
    BY <1>1, <2>1, <2>2, <2>3, BelowAt
<1>6. ASSUME Deploys \/ Registers PROVE LoopRank' = LoopRank
  <2>1. /\ round_count' = round_count /\ finished' = finished /\ stage' = stage
        /\ call' = call /\ actions' = actions /\ results' = results
    BY <1>6 DEF Deploys, Registers, deploy_program, register_instruction, campaignVars,
                roundVars, execVars
  <2> QED
    BY <2>1 DEF LoopRank, StepsOfRound
<1> QED
  BY <1>2, <1>3, <1>4, <1>5, <1>6 DEF LoopsDescend, RoundRuns, RoundStep

\* Every step of a loop, and every turn of execute_sequence inside a round, brings the
\* loop nearer to its end, and deploying or registering between rounds does not set it
\* back: no sequence, program or failure makes a round or a campaign run for ever.
THEOREM EveryLoopDescends == CSpec => []LoopRankIsNatural /\ [][LoopsDescend]_allVars
<1>1. RoundInv => TypeOK
  BY DEF RoundInv
<1>2. TypeOK => LoopRankIsNatural
  BY LoopRankTyped
<1>3. TypeOK => LoopsDescend
  BY StepLowersLoopRank
<1> QED
  BY <1>1, <1>2, <1>3, CampaignKeepsRoundInv, PTL
================================================================================
