------------------------------ MODULE IdlHarness ------------------------------
(***************************************************************************)
(* `krastor init`: cmd_init (crates/cli/src/main.rs) reads an Anchor IDL   *)
(* and writes what crates/idl-parser/src/lib.rs generates from it: first   *)
(* fuzz/harness.rs, a Rust program, then krastor.toml.                     *)
(*                                                                         *)
(* Of the generated text only what decides whether it compiles and what it *)
(* dispatches to is kept; argument types occur in comments only.  A name   *)
(* is a sequence of characters.  The build that writes the IDL and the     *)
(* compiler are external.  std::fs::write truncates, then writes.          *)
(*                                                                         *)
(* An operator named Mutant... is a faulty version of the definition that  *)
(* follows it, used only to show that a property can fail.                 *)
(***************************************************************************)
EXTENDS Integers, SequencesExt

CONSTANTS
  FirstIdls,    \* what the build has left in target/idl before the first init
  Rebuilt,      \* what a later build may leave there
  NoIdl,        \* no file there
  Characters,   \* of the names
  FirstLower(_),   \* char::to_lowercase().next()
  Reserved,     \* the names of the functions every harness has
  NoDiscriminator,
  NoFile, Partial,   \* a file that is not there, one that is empty or broken off
  MaxInits      \* bound: the inits of a run

Idls == FirstIdls \cup Rebuilt

IsUpper(c) == FirstLower(c) # c

ASSUME IdlHarnessAssumption ==
  /\ NoIdl \notin Rebuilt /\ MaxInits \in Nat
  /\ \A i \in Idls \ {NoIdl} : \A j \in DOMAIN i.instructions :
       /\ i.instructions[j].name \in Seq(Characters)
       /\ i.instructions[j].accounts \subseteq Seq(Characters)

\* Names are ASCII: no two upper-case characters share their lower case.
ASSUME LetterAssumption ==
  /\ \A c \in Characters : IsUpper(c) => FirstLower(c) # "_"
  /\ \A c, d \in Characters :
       IsUpper(c) /\ IsUpper(d) /\ FirstLower(c) = FirstLower(d) => c = d

VARIABLES
  idl_file,   \* the file in target/idl
  idl,        \* the one cmd_init has parsed
  phase,      \* where cmd_init is
  harness, toml,   \* the two files
  inits,      \* the inits so far
  installed,  \* history: the IDL of the last init that returned Ok
  unfinished  \* history: has one written anything since?

harnessVars == <<idl_file, idl, phase, harness, toml, inits, installed, unfinished>>

--------------------------------------------------------------------------------
MutantLowers(s) == [i \in DOMAIN s |-> FirstLower(s[i])]

to_snake_case(s) ==
  FlattenSeq([i \in DOMAIN s |->
                IF IsUpper(s[i]) /\ i > 1 THEN <<"_", FirstLower(s[i])>> ELSE <<FirstLower(s[i])>>])

\* serde refuses an IDL that has its name and version under "metadata" alone.
Parses(file) == file # NoIdl /\ file.top_level

Instructions(i) == DOMAIN i.instructions

AccountNames(i) == UNION {i.instructions[j].accounts : j \in Instructions(i)}

\* One field per account name: seen compares the names before they are converted.
generate_fuzz_accounts_struct(i) == [name \in AccountNames(i) |-> to_snake_case(name)]

\* One function per instruction.
Functions(i) == [j \in Instructions(i) |-> to_snake_case(i.instructions[j].name)]

\* One arm per instruction; of two arms for a name the first is taken.
generate_instruction_dispatch(i) ==
  [j \in Instructions(i) |-> [name |-> i.instructions[j].name, calls |-> Functions(i)[j]]]

\* A missing discriminator becomes a comment, which hides the end of the statement.
generate_invariant_templates(i) ==
  [j \in Instructions(i) |-> [name |-> i.instructions[j].name,
                              discriminator |-> i.instructions[j].discriminator]]

generate_harness(i) ==
  [program_id |-> i.address,
   fields |-> generate_fuzz_accounts_struct(i),
   functions |-> Functions(i),
   dispatch |-> generate_instruction_dispatch(i),
   registered |-> generate_invariant_templates(i)]

generate_krastor_toml(i) == [program_id |-> i.address, name |-> i.name, version |-> i.version]

--------------------------------------------------------------------------------
HarnessInit ==
  /\ idl_file \in FirstIdls
  /\ idl = NoIdl
  /\ phase = "idle"
  /\ harness = NoFile /\ toml = NoFile
  /\ inits = 0
  /\ installed = NoIdl /\ unfinished = FALSE

\* External: the program is built again.
Rebuild ==
  /\ idl_file' \in Rebuilt
  /\ inits > 0
  /\ UNCHANGED <<idl, phase, harness, toml, inits, installed, unfinished>>

\* cmd_init fails before it has written anything.
InitFindsNoIdl ==
  /\ phase = "idle" /\ inits < MaxInits
  /\ ~Parses(idl_file)
  /\ inits' = inits + 1
  /\ UNCHANGED <<idl_file, idl, phase, harness, toml, installed, unfinished>>

InitParses ==
  /\ phase = "idle" /\ inits < MaxInits
  /\ Parses(idl_file)
  /\ idl' = idl_file
  /\ phase' = "create harness"
  /\ inits' = inits + 1
  /\ UNCHANGED <<idl_file, harness, toml, installed, unfinished>>

InitCreatesHarness ==
  /\ phase = "create harness"
  /\ harness' = Partial
  /\ phase' = "write harness"
  /\ unfinished' = TRUE
  /\ UNCHANGED <<idl_file, idl, toml, inits, installed>>

InitWritesHarness ==
  /\ phase = "write harness"
  /\ harness' = generate_harness(idl)
  /\ phase' = "create toml"
  /\ UNCHANGED <<idl_file, idl, toml, inits, installed, unfinished>>

InitCreatesToml ==
  /\ phase = "create toml"
  /\ toml' = Partial
  /\ phase' = "write toml"
  /\ UNCHANGED <<idl_file, idl, harness, inits, installed, unfinished>>

MutantReadsIdlAgain ==
  /\ phase = "write toml"
  /\ toml' = generate_krastor_toml(idl_file)
  /\ phase' = "idle"
  /\ installed' = idl /\ unfinished' = FALSE
  /\ UNCHANGED <<idl_file, idl, harness, inits>>

InitWritesToml ==
  /\ phase = "write toml"
  /\ toml' = generate_krastor_toml(idl)
  /\ phase' = "idle"
  /\ installed' = idl /\ unfinished' = FALSE
  /\ UNCHANGED <<idl_file, idl, harness, inits>>

\* Making fuzz/ or one of the writes fails, or the process is killed.
InitStops ==
  /\ phase # "idle"
  /\ phase' = "idle"
  /\ UNCHANGED <<idl_file, idl, harness, toml, inits, installed, unfinished>>

HarnessNext ==
  \/ Rebuild
  \/ InitFindsNoIdl \/ InitParses
  \/ InitCreatesHarness \/ InitWritesHarness
  \/ InitCreatesToml \/ InitWritesToml
  \/ InitStops

HarnessSpec == HarnessInit /\ [][HarnessNext]_harnessVars
--------------------------------------------------------------------------------
Installed == installed # NoIdl /\ ~unfinished

\* Unless an init broke off half-way, harness.rs and krastor.toml are complete and come
\* from one IDL, whatever the build did to the file while cmd_init was running.
FilesAgree ==
  ~unfinished =>
    IF installed = NoIdl
    THEN harness = NoFile /\ toml = NoFile
    ELSE harness = generate_harness(installed) /\ toml = generate_krastor_toml(installed)

InjectiveFunction(f) == \A x, y \in DOMAIN f : f[x] = f[y] => x = y

\* External: what rustc accepts of the generated items.
Compiles(h) ==
  /\ InjectiveFunction(h.fields)
  /\ InjectiveFunction(h.functions)
  /\ \A j \in DOMAIN h.functions : h.functions[j] \notin Reserved
  /\ \A j \in DOMAIN h.registered : h.registered[j].discriminator = 8

Camel(name) == ~IsUpper(name[1]) /\ \A k \in DOMAIN name : name[k] # "_"

Snake(name) == \A k \in DOMAIN name : ~IsUpper(name[k])

OneStyle(names) == (\A n \in names : Camel(n)) \/ (\A n \in names : Snake(n))

InstructionNames(i) == {i.instructions[j].name : j \in Instructions(i)}

WellNamed(i) ==
  /\ OneStyle(AccountNames(i)) /\ OneStyle(InstructionNames(i))
  /\ \A j, k \in Instructions(i) :
       i.instructions[j].name = i.instructions[k].name => j = k
  /\ \A n \in InstructionNames(i) : to_snake_case(n) \notin Reserved
  /\ \A j \in Instructions(i) : i.instructions[j].discriminator = 8

\* The harness of an IDL that keeps one style of names and gives 8-byte discriminators
\* compiles: converting the names merges no two of them.
WellNamedCompiles == Installed /\ WellNamed(installed) => Compiles(harness)
================================================================================
