--------------------------- MODULE MCKlipperHistory ---------------------------
(* An instance of KlipperHistory for TLC. *)
EXTENDS KlipperHistory
==============================================================================
