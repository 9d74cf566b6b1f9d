------------------------------ MODULE AtomicRound ------------------------------
(***************************************************************************)
(* What a fuzz round promises about the accounts of the runtime, whatever  *)
(* the transactions of its sequence do one by one: a sequence commits as a *)
(* whole or aborts without a trace, a commit neither creates nor destroys  *)
(* lamports, and nothing but the pool's writable accounts ever moves       *)
(* between the load and the verdict.  Fuzzer implements it.                *)
(***************************************************************************)
EXTENDS Functions

CONSTANTS Addresses, Empty, Balance(_)

VARIABLES
  ledger,    \* the accounts as an observer between rounds sees them
  status,    \* "Idle", then "Loaded" or "Broken", then "Committed" or "Aborted"
  tracked,   \* the addresses of the pool
  writable   \* those some pool entry marks writable

abstractVars == <<ledger, status, tracked, writable>>

Supply(l) == SumFunction([k \in Addresses |-> Balance(l[k])])

AgreeOutside(l, m, S) == \A k \in Addresses \ S : l[k] = m[k]

AInit ==
  /\ status = "Idle"
  /\ ledger = [k \in Addresses |-> Empty]
  /\ writable \subseteq tracked

\* A deployment, or the reset after a broken load, wipes the ledger or fails.
Wipe ==
  /\ status \in {"Idle", "Broken"}
  /\ ledger' = [k \in Addresses |-> Empty]
  /\ UNCHANGED status

Load ==
  /\ status = "Idle"
  /\ status' \in {"Loaded", "Broken"}
  /\ AgreeOutside(ledger', ledger, tracked)

Commit ==
  /\ status = "Loaded"
  /\ status' = "Committed"
  /\ AgreeOutside(ledger', ledger, writable)
  /\ Supply(ledger') = Supply(ledger)

Abort ==
  /\ status = "Loaded"
  /\ status' = "Aborted"
  /\ UNCHANGED ledger

Finish ==
  /\ status \in {"Committed", "Aborted", "Broken"}
  /\ status' = "Idle"
  /\ UNCHANGED ledger

ANext == (Wipe \/ Load \/ Commit \/ Abort \/ Finish) /\ UNCHANGED <<tracked, writable>>

ASpec == AInit /\ [][ANext]_abstractVars
================================================================================
