------------------------------ MODULE TakeOver ------------------------------
(***************************************************************************)
(* What taking books over promises (app/src/lib/move/book-move.js), with   *)
(* none of its steps: empty books are filled from the files of one book    *)
(* and no other, and are filled once everything the file brings is there.  *)
(* After that nothing is taken over into them again.                       *)
(* A file is the set of records it brings.                                 *)
(***************************************************************************)
CONSTANTS
    Record,  \* the records that may be taken over
    File     \* the files that may be picked, each a set of records

VARIABLES
    state,   \* of the new books
    file,    \* the file they are being filled from
    moved    \* the records taken over so far

vars == <<state, file, moved>>

Init ==
    /\ state = "empty" /\ file = {} /\ moved = {}

\* A first file, or another one that has all that was moved so far.
Begin(f) ==
    /\ state \in {"empty", "filling"} /\ moved \subseteq f
    /\ state' = "filling" /\ file' = f
    /\ UNCHANGED moved

Add(r) ==
    /\ state = "filling" /\ r \in file \ moved
    /\ moved' = moved \cup {r}
    /\ UNCHANGED <<state, file>>

Finish ==
    /\ state = "filling" /\ file = moved
    /\ state' = "full" /\ file' = {}
    /\ UNCHANGED moved

Next ==
    \/ \E f \in File : Begin(f)
    \/ \E r \in Record : Add(r)
    \/ Finish

Spec == Init /\ [][Next]_vars
=============================================================================
