------------------------------ MODULE MCMatching ------------------------------
(* Matching on two own devices. *)
EXTENDS Matching

MCDevice == {1, 2}
MCReceipt == {1}
MCTx == {1, 2}
SecondLate == {2}
FirstPerson == {1}

\* The second booking is a sure one; the first one only a person takes.
MCScore == [p \in MCReceipt \X MCTx |-> IF p[2] = 2 THEN 9 ELSE 4]
=============================================================================
