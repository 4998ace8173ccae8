----------------------------- MODULE MCBookMove -----------------------------
(* BookMove with two old books, of which the first may get new keys. *)
EXTENDS BookMove

MCBooks == {"a", "b"}
OnlyA == {"a"}
Nothing == {}
Key2 == {2}
Matches == {"matches"}
MatchesAndSettings == {"matches", "settings"}
=============================================================================
