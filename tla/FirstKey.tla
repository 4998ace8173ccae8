------------------------------- MODULE FirstKey -------------------------------
(***************************************************************************)
(* What the backup key of the books promises (ensureBackupKey in           *)
(* app/src/lib/backup/keeper.js): whoever needs it may have to make one,   *)
(* but only while it has none; it gives its key up only for an older one   *)
(* that was made for the same books; and in the end all use one key.       *)
(***************************************************************************)
EXTENDS Naturals

CONSTANTS Key,  \* numbers from 1 on, the older the smaller
          User

NoKey == 0

VARIABLES made,  \* the keys made so far
          using  \* the key each user has

Init == made = {} /\ using = [u \in User |-> NoKey]

Make(u) ==
    /\ using[u] = NoKey
    /\ \E k \in Key \ made :
          made' = made \cup {k} /\ using' = [using EXCEPT ![u] = k]

Follow(u) ==
    /\ \E k \in made : /\ using[u] = NoKey \/ k < using[u]
                       /\ using' = [using EXCEPT ![u] = k]
    /\ UNCHANGED made

Next == \E u \in User : Make(u) \/ Follow(u)

OneForAll == \A u, v \in User : using[u] = using[v]

Safe == Init /\ [][Next]_<<made, using>>
Spec == Safe /\ <>[]OneForAll
=============================================================================
