---------------------------- MODULE MCKSMStartup ----------------------------
(* Instances of KSMStartup for TLC. *)
EXTENDS KSMStartup

CONSTANTS plasma, other, mail, editor, term, never

Entry(id, restart) == [id |-> id, restart |-> restart]

(* Three applications are saved, one of them not to be restarted; the        *)
(* sub-session shares an application with the session.                       *)
MCSaved ==
  [group \in {"Session", "SubSession"} |->
     IF group = "Session"
       THEN <<Entry(mail, TRUE), Entry(never, FALSE), Entry(editor, TRUE)>>
       ELSE <<Entry(mail, TRUE), Entry(term, TRUE)>>]
=============================================================================
