------------------------------ MODULE CrashShelf ------------------------------
(***************************************************************************)
(* What the crash records on disk promise: for every class of crashes a    *)
(* place that holds one whole record of that class or nothing readable,    *)
(* and a step touches one place.  CrashStore implements it.                *)
(***************************************************************************)
CONSTANTS Classes, ClassOf(_), Nothing

VARIABLE shelf

ShelfInit == shelf = [c \in Classes |-> Nothing]

\* The place of c gets a record of its class or loses what it holds.
Change(c) ==
  /\ \A d \in Classes \ {c} : shelf'[d] = shelf[d]
  /\ shelf'[c] # Nothing => ClassOf(shelf'[c]) = c

ShelfNext == \E c \in Classes : Change(c)

ShelfSpec == ShelfInit /\ [][ShelfNext]_shelf
================================================================================
