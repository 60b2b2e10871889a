--------------------------- MODULE MCSessionServices ---------------------------
(* An instance of SessionServices for TLC. *)
EXTENDS SessionServices

CONSTANTS a1, a2, ksmserver

MCServices == {a1, a2, ksmserver}
MCApps == {a1, a2}
MCLocker == ksmserver
MCAppTypes == {{"ChangeProfile", "InterruptSession"}}
==============================================================================
