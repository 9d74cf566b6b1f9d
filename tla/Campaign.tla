------------------------------- MODULE Campaign -------------------------------
(***************************************************************************)
(* The loops that drive the fuzzer: cmd_fuzz_run of crates/cli ("cli") and *)
(* main of a generated harness, crates/idl-parser/src/lib.rs ("harness").  *)
(* A user's own program ("custom") deploys and registers between rounds as *)
(* it likes, as Fuzzer allows.  Neither loop of the repository deploys     *)
(* anything: --program and --output are ignored.                           *)
(***************************************************************************)
EXTENDS Fuzzer

VARIABLES
  campaign,      \* which of the three it is
  finished,      \* has the loop ended?
  crash_count,   \* of the fuzzer: nothing in fuzz-core counts
  collected,     \* history: the rounds whose result the loop has seen
  crash_rounds   \* history: those of them that were crashes

campaignVars == <<campaign, finished, crash_count, collected, crash_rounds>>

allVars == <<vars, campaignVars>>

--------------------------------------------------------------------------------
CInit ==
  /\ Init
  /\ campaign \in {"cli", "harness", "custom"}
  /\ finished = FALSE
  /\ crash_count = 0
  /\ collected = {} /\ crash_rounds = {}

Deploys ==
  /\ campaign = "custom"
  /\ \E bytes \in Binaries : deploy_program(bytes)
  /\ UNCHANGED campaignVars

\* register_invariants of a harness registers all instructions before the loop.
Registers ==
  /\ \/ campaign = "custom"
     \/ campaign = "harness" /\ round_count = 0
  /\ register_instruction
  /\ UNCHANGED campaignVars

\* The loops run exactly MaxRounds rounds (--iterations, or 100_000).
LoopCalls ==
  /\ ~finished
  /\ RoundPanics \/ RoundBegins
  /\ UNCHANGED campaignVars

RoundRuns == RoundStep /\ UNCHANGED campaignVars

\* Only cmd_fuzz_run counts; a harness prints crashes and never adds them up.
Counted == IF campaign = "cli" /\ is_crash THEN crash_count + 1 ELSE crash_count

LoopCollects ==
  /\ RoundCollected
  /\ crash_count' = Counted
  /\ collected' = collected \cup {round_count}
  /\ crash_rounds' = IF is_crash THEN crash_rounds \cup {round_count} ELSE crash_rounds
  /\ UNCHANGED <<campaign, finished>>

LoopEnds ==
  /\ stage = "Idle" /\ round_count = MaxRounds
  /\ ~finished
  /\ finished' = TRUE
  /\ UNCHANGED <<vars, campaign, crash_count, collected, crash_rounds>>

CNext == Deploys \/ Registers \/ LoopCalls \/ RoundRuns \/ LoopCollects \/ LoopEnds

CSpec == CInit /\ [][CNext]_allVars
--------------------------------------------------------------------------------
CTypeOK ==
  /\ TypeOK
  /\ campaign \in {"cli", "harness", "custom"} /\ finished \in BOOLEAN
  /\ crash_count \in Nat
  /\ collected \subseteq 1 .. round_count /\ crash_rounds \subseteq collected

\* The crash count the two loops report: the number of crash rounds for the command,
\* 0 for a harness, whatever it met.
CountReported ==
  crash_count = IF campaign = "cli" THEN Cardinality(crash_rounds) ELSE 0

\* A round of theirs never panics: they have accounts and a sequence length.
LoopsDoNotPanic ==
  campaign # "custom" /\ N > 0 /\ max_sequence_length > 0 => stage # "Panicked" /\ call # "Panicked"
================================================================================
