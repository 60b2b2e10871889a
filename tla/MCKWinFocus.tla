------------------------------ MODULE MCKWinFocus ------------------------------
(* An instance of KWinFocus for TLC. *)
EXTENDS KWinFocus

CONSTANTS c1, c2, c3

MCClients == {c1, c2, c3}
MCApp == [c \in MCClients |-> IF c = c3 THEN "other" ELSE "one"]
MCSymmetry == Permutations({c1, c2})
==============================================================================
