------------------------------ MODULE CrashStore ------------------------------
(***************************************************************************)
(* Crash records on disk: CrashRecord (crates/fuzz-core/src/crash.rs),     *)
(* persist_crash (crates/report/src/lib.rs) and `krastor fuzz repro`       *)
(* (crates/cli/src/main.rs), as used by campaigns that share one output    *)
(* directory, may be killed at any moment and then start over at round 0.  *)
(* Nothing in the repository calls persist_crash: the campaigns are        *)
(* external.                                                               *)
(*                                                                         *)
(* std::fs::write opens and truncates the file, then writes it: two steps. *)
(* The sequences of a record are not told apart here; their reduction is   *)
(* Shrink's subject.  A text is a sequence of characters.                  *)
(*                                                                         *)
(* An operator named Mutant... is a faulty version of the definition that  *)
(* follows it, used only to show that a property can fail.                 *)
(***************************************************************************)
EXTENDS Integers, SequencesExt

CONSTANTS
  Campaigns,
  Texts,          \* the names of the invariants
  Types,          \* the other CrashTypes, as lower-case words
  Lower(_),       \* char::to_lowercase
  Absent, Empty, Garbled,   \* contents of a file other than a record
  MaxRound, MaxRestarts, MaxCrashes  \* bounds: of a campaign, and of all

ASSUME CrashStoreAssumption ==
  /\ Texts \subseteq Seq(STRING) /\ Types \subseteq STRING
  /\ "invariantviolation" \notin Types
  /\ MaxRound \in Nat /\ MaxRestarts \in Nat /\ MaxCrashes \in Nat
  /\ Absent # Empty /\ Empty # Garbled /\ Absent # Garbled

Brackets == {"(", ")"}

\* A character in lower case has no other lower case and is no bracket.
ASSUME LowerCaseAssumption ==
  /\ \A type \in Types \cup {"invariantviolation", "_"} : type \notin Brackets /\ Lower(type) = type
  /\ \A text \in Texts : \A i \in DOMAIN text :
       text[i] \notin Brackets =>
         Lower(text[i]) \notin Brackets /\ Lower(Lower(text[i])) = Lower(text[i])

VARIABLES
  files,     \* contents of every name
  pc,        \* where each campaign is
  round,     \* its round
  restarts,  \* how often a campaign was started again
  crash,     \* the record it is saving
  found,     \* history: the number of crashes
  saved,     \* history: of every class, the last record whose persist_crash returned Ok
  disturbed  \* history: the classes whose last save was cut short, or ran with another

vars == <<files, pc, round, restarts, crash, found, saved, disturbed>>

Kinds ==
  [type : Types, text : {<< >>}] \cup [type : {"invariantviolation"}, text : Texts]

\* run stands for the timestamp and the sequences.
CrashRecords ==
  [kind : Kinds, discovered_at_round : 0 .. MaxRound - 1, run : Campaigns \X (0 .. MaxRestarts)]

\* Display for CrashType.
Display(kind) ==
  IF kind.type = "invariantviolation"
  THEN <<kind.type, "(">> \o kind.text \o <<")">>
  ELSE <<kind.type>>

\* to_lowercase, '(' becomes '_', ')' goes.
FoldedChar(c) == CASE c = "(" -> <<"_">> [] c = ")" -> << >> [] OTHER -> <<Lower(c)>>

Folded(text) == FlattenSeq([i \in DOMAIN text |-> FoldedChar(text[i])])

MutantNoRound(r) == <<Folded(Display(r.kind)), 0>>

\* The digits of the round hold no '_': the pair stands for its concatenation.
FileName(r) == <<Folded(Display(r.kind)), r.discovered_at_round>>

Names == {FileName(r) : r \in CrashRecords}

\* A name with a '/' is one in a directory nobody made.
CanOpen(name) == \A i \in DOMAIN name[1] : name[1][i] # "/"

\* The crashes the naming scheme does not tell apart: the same round, the same type
\* and, up to letter case and brackets, the same invariant.
ClassOf(r) == [type |-> r.kind.type, text |-> Folded(r.kind.text), round |-> r.discovered_at_round]

Classes == {ClassOf(r) : r \in CrashRecords}

PlaceOf ==
  [c \in Classes |->
     FileName([kind |-> [type |-> c.type, text |-> c.text], discovered_at_round |-> c.round])]

\* CrashRecord::load, for `fuzz repro`: an incomplete or mixed text does not parse.
Load(name) == IF files[name] \in {Empty, Garbled} THEN Absent ELSE files[name]

--------------------------------------------------------------------------------
Init ==
  /\ files = [n \in Names |-> Absent]
  /\ pc = [w \in Campaigns |-> "fuzzing"]
  /\ round = [w \in Campaigns |-> 0]
  /\ restarts = 0
  /\ crash = [w \in Campaigns |-> Absent]
  /\ found = 0
  /\ saved = [c \in Classes |-> Absent] /\ disturbed = {}

\* w has truncated the file of the class c and not yet written it.
Writing(w, c) == pc[w] = "writing" /\ ClassOf(crash[w]) = c

\* CrashRecord::new.
NewRecord(w, kind) ==
  [kind |-> kind, discovered_at_round |-> round[w], run |-> <<w, restarts>>]

\* A round ends with a crash or without.
Finds(w, kind) ==
  /\ pc[w] = "fuzzing" /\ round[w] < MaxRound /\ found < MaxCrashes
  /\ crash' = [crash EXCEPT ![w] = NewRecord(w, kind)]
  /\ pc' = [pc EXCEPT ![w] = "saving"]
  /\ round' = [round EXCEPT ![w] = @ + 1]
  /\ found' = found + 1
  /\ UNCHANGED <<files, restarts, saved, disturbed>>

FindsNothing(w) ==
  /\ pc[w] = "fuzzing" /\ round[w] < MaxRound
  /\ round' = [round EXCEPT ![w] = @ + 1]
  /\ UNCHANGED <<files, pc, restarts, crash, found, saved, disturbed>>

Opens(w) ==
  LET name == FileName(crash[w])
  IN  /\ pc[w] = "saving" /\ CanOpen(name)
      /\ files' = [files EXCEPT ![name] = Empty]
      /\ pc' = [pc EXCEPT ![w] = "writing"]
      /\ disturbed' = LET c == ClassOf(crash[w])
                      IN  IF \E v \in Campaigns : Writing(v, c)
                          THEN disturbed \cup {c} ELSE disturbed \ {c}
      /\ UNCHANGED <<round, restarts, crash, found, saved>>

\* What another campaign wrote since this one truncated the file may stick out behind.
Writes(w) ==
  LET name == FileName(crash[w])
  IN  /\ pc[w] = "writing"
      /\ \/ files' = [files EXCEPT ![name] = crash[w]]
         \/ files[name] # Empty /\ files' = [files EXCEPT ![name] = Garbled]
      /\ pc' = [pc EXCEPT ![w] = "fuzzing"]
      /\ saved' = [saved EXCEPT ![ClassOf(crash[w])] = crash[w]]
      /\ crash' = [crash EXCEPT ![w] = Absent]
      /\ UNCHANGED <<round, restarts, found, disturbed>>

\* The file that was opened is empty by now; some bytes of the record may be in it.
Cut(w) ==
  IF pc[w] = "writing"
  THEN /\ \/ UNCHANGED files
          \/ files' = [files EXCEPT ![FileName(crash[w])] = Garbled]
       /\ disturbed' = disturbed \cup {ClassOf(crash[w])}
  ELSE UNCHANGED <<files, disturbed>>

MutantDropsError(w) ==
  /\ pc[w] \in {"saving", "writing"}
  /\ Cut(w)
  /\ pc' = [pc EXCEPT ![w] = "fuzzing"]
  /\ saved' = [saved EXCEPT ![ClassOf(crash[w])] = crash[w]]
  /\ crash' = [crash EXCEPT ![w] = Absent]
  /\ UNCHANGED <<round, restarts, found>>

\* Making the directory, opening or writing fails: persist_crash returns Err.
Fails(w) ==
  /\ pc[w] \in {"saving", "writing"}
  /\ Cut(w)
  /\ pc' = [pc EXCEPT ![w] = "fuzzing"]
  /\ crash' = [crash EXCEPT ![w] = Absent]
  /\ UNCHANGED <<round, restarts, found, saved>>

Dies(w) ==
  /\ restarts < MaxRestarts
  /\ Cut(w)
  /\ pc' = [pc EXCEPT ![w] = "fuzzing"]
  /\ round' = [round EXCEPT ![w] = 0]
  /\ restarts' = restarts + 1
  /\ crash' = [crash EXCEPT ![w] = Absent]
  /\ UNCHANGED <<found, saved>>

Persists(w) == Opens(w) \/ Writes(w) \/ Fails(w)

Next ==
  \E w \in Campaigns :
    \/ \E kind \in Kinds : Finds(w, kind)
    \/ FindsNothing(w)
    \/ Persists(w)
    \/ Dies(w)

Spec == Init /\ [][Next]_vars
--------------------------------------------------------------------------------
\* The last acknowledged record of every class is in its file, whole, whatever the saves
\* of other classes do and however they fail.  Not so while a save of the class is under
\* way, and not after one that was cut short (a failing or killed save has truncated the
\* file already: what was acknowledged before is gone) or that ran with another, until
\* the next one that runs alone.
AckedStands ==
  \A c \in Classes \ disturbed :
    (\A w \in Campaigns : ~Writing(w, c)) => files[PlaceOf[c]] = saved[c]

--------------------------------------------------------------------------------
(* The directory is a shelf with a place for every class of crashes.        *)
Shelf == INSTANCE CrashShelf WITH
  Nothing <- Absent, shelf <- [c \in Classes |-> Load(PlaceOf[c])]

\* A save replaces the record of one class as a whole or makes it unreadable.
SavesAreAtomic == Shelf!ShelfSpec
================================================================================
