------------------------------ MODULE FuzzAccount ------------------------------
(***************************************************************************)
(* The data of krastor's fuzzing core (crates/fuzz-core/src): the accounts *)
(* the fuzzer keeps (lib.rs), the account mutator (mutator.rs) and the     *)
(* built-in invariant templates (invariant.rs).  Everything here is an     *)
(* operator; the state machines that use them are LiteSvmExecutor and      *)
(* Fuzzer.                                                                 *)
(*                                                                         *)
(* A `&mut [FuzzAccount]' slice is a function on Idx.  A base58 string     *)
(* that does not decode to a 32-byte key (the empty string, or what the    *)
(* placeholder bs58_encode may return) is BadStr.  rent_epoch is left out: *)
(* it is only ever copied together with lamports and nothing reads it.     *)
(***************************************************************************)
EXTENDS Integers, FiniteSets, FiniteSetsExt, Functions

CONSTANTS
  Keys,           \* the public keys that parse
  Owners,         \* the owner programs that parse
  SystemProgram,  \* the owner "11111111111111111111111111111111"
  BadStr,         \* any string Pubkey::try_from refuses
  Lamports,       \* the balances an account may have
  Data,           \* the data an account may hold
  NoData,         \* the empty data vector
  PausedData,     \* the data whose first byte is odd
  N,              \* accounts.len()
  Config          \* MutationConfig: for each mutation, what gen_bool(p) may return

Mutations == {"flip_data", "replace_owner", "zero_lamports",
              "clear_data", "swap_signer", "mutate_seeds"}

ASSUME FuzzAccountAssumption ==
  /\ IsFiniteSet(Keys) /\ BadStr \notin Keys \cup Owners
  /\ SystemProgram \in Owners
  /\ Lamports \subseteq Nat /\ 0 \in Lamports
  /\ NoData \in Data /\ PausedData \subseteq Data \ {NoData}
  /\ N \in Nat
  /\ Config \in [Mutations -> (SUBSET BOOLEAN) \ {{}}]

Idx == 1 .. N

\* seeds: None, seeds that derive the account's address, seeds that no longer do.
SeedStates == {"None", "Derives", "Corrupt"}

FuzzAccounts ==
  [key : Keys \cup {BadStr}, owner : Owners \cup {BadStr}, lamports : Lamports,
   data : Data, is_writable : BOOLEAN, is_signer : BOOLEAN, seeds : SeedStates]

Slices == [Idx -> FuzzAccounts]

\* Every key of the slice names another account.
DistinctKeys(s) == \A i, j \in Idx : i # j => s[i].key # s[j].key

--------------------------------------------------------------------------------
(* The mutator.  gen_bool(p) returns FALSE for p = 0, TRUE for p = 1 and    *)
(* either otherwise, so a field takes its old or its new values accordingly. *)
Rolled(m, old, new) ==
  (IF TRUE \in Config[m] THEN new ELSE {}) \cup (IF FALSE \in Config[m] THEN {old} ELSE {})

\* Flipping bits of nothing does nothing; bits may flip back to the same data.
mutate_flip_data_bits(d) == IF d = NoData THEN {NoData} ELSE Data \ {NoData}

\* A random owner (whose encoding may not decode), the system program or "".
mutate_owner == Owners \cup {SystemProgram, BadStr}

\* Seeds are xored with random bytes (possibly zero) or one of them is removed.
mutate_seeds(s) == IF s = "None" THEN {s} ELSE {s, "Corrupt"}

\* The six mutations touch different fields, except that data is flipped first and
\* cleared afterwards.
MutatedFields(a) ==
  [key : {a.key},
   owner : Rolled("replace_owner", a.owner, mutate_owner),
   lamports : Rolled("zero_lamports", a.lamports, {0}),
   data : UNION {Rolled("clear_data", d, {NoData}) :
                   d \in Rolled("flip_data", a.data, mutate_flip_data_bits(a.data))},
   is_writable : {a.is_writable},
   is_signer : Rolled("swap_signer", a.is_signer, {~a.is_signer}),
   seeds : Rolled("mutate_seeds", a.seeds, mutate_seeds(a.seeds))]

\* The accounts one pass over `a' may leave.
MutateAccount(a) == IF a.is_writable THEN MutatedFields(a) ELSE {a}

\* The slices mutate_accounts may leave of slice s.
mutate_accounts(s) ==
  {w \in [Idx -> UNION {MutateAccount(s[i]) : i \in Idx}] :
     \A i \in Idx : w[i] \in MutateAccount(s[i])}

--------------------------------------------------------------------------------
(* The invariant templates, as the predicate under which each one returns   *)
(* Some(message).                                                           *)
SumLamports(s) == SumFunction([i \in Idx |-> s[i].lamports])

SaturatingSub(a, b) == IF a < b THEN 0 ELSE a - b

SupplyViolated(current, initial) ==
  LET initial_sum == SumLamports(initial)
      rent_tolerance == (N * initial_sum) \div 100
  IN  SumLamports(current) < SaturatingSub(initial_sum, rent_tolerance)

AdminViolated(current, initial) ==
  \E i \in Idx : current[i].owner # initial[i].owner /\ initial[i].is_signer

PausedViolated(current) == \E i \in Idx : current[i].data \in PausedData
================================================================================
