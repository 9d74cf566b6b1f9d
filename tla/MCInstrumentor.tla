---------------------------- MODULE MCInstrumentor ----------------------------
(* Instances of Instrumentor for TLC.                                        *)
EXTENDS Instrumentor

\* Offsets reach before the section, its words, its end and past it.
MCWords == {[branch |-> "jump", offset |-> o] : o \in -6 .. 2}
             \cup {[branch |-> "none", offset |-> 0], [branch |-> "exit", offset |-> -2]}

MCTexts == UNION {[0 .. n - 1 -> MCWords] : n \in 0 .. 3}
             \cup [0 .. 4 -> {w \in MCWords : w.offset \in {-2, 0, 1}}]
================================================================================
