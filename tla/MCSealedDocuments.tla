-------------------------- MODULE MCSealedDocuments --------------------------
(* SealedDocuments with two reads at a time; which key and which read is     *)
(* which does not matter.                                                    *)
EXTENDS SealedDocuments

CONSTANTS k1, k2, list, get

MCKey == {k1, k2}
MCReader == {list, get}
Alike == Permutations(MCKey) \cup Permutations(MCReader)
=============================================================================
