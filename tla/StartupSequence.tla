--------------------------- MODULE StartupSequence ---------------------------
(***************************************************************************)
(* What the start of a session promises (src/ksmserver/README, "KDE        *)
(* startup sequence"): its phases run one after the other and none is left *)
(* out; the applications of the saved session are started between          *)
(* autostart phases 1 and 2, in the order they were saved in, and each of  *)
(* them once; and the session comes up.                                    *)
(***************************************************************************)
EXTENDS Naturals, Sequences

CONSTANT Session    \* the saved session: who is in it, and is it restarted?

VARIABLES
  phase,            \* how far the startup is
  seen,             \* how far it is through Session
  started           \* how often each entry of Session was started

vars == <<phase, seen, started>>

Phases == {"LaunchingWM", "AutoStart0", "KcmInitPhase1", "AutoStart1",
           "Restoring", "FinishingStartup", "Up"}

(* A default session restores nothing. *)
Init ==
  /\ phase = "LaunchingWM"
  /\ seen \in {0, Len(Session)}
  /\ started = [i \in DOMAIN Session |-> 0]

Follows == [LaunchingWM |-> "AutoStart0", AutoStart0 |-> "KcmInitPhase1",
            KcmInitPhase1 |-> "AutoStart1", FinishingStartup |-> "Up"]

NextPhase ==
  /\ phase \in DOMAIN Follows
  /\ phase' = Follows[phase]
  /\ UNCHANGED <<seen, started>>

(* The entries still to be seen to.  One whose client is back already, since *)
(* an earlier entry had the same id, is not started.                         *)
Left == {i \in DOMAIN Session : i > seen /\ Session[i].restart}

Back(i) ==
  \E j \in DOMAIN Session : started[j] > 0 /\ Session[j].id = Session[i].id

StartNext ==
  \E next \in Left :
    /\ \A i \in Left : i < next => Back(i)
    /\ seen' = next
    /\ started' = [started EXCEPT ![next] = @ + 1]

AllSeen ==
  /\ \A i \in Left : Back(i)
  /\ seen' = Len(Session)
  /\ UNCHANGED started

(* The first application is started at once, each further one as part of    *)
(* "Restoring"; that phase may last after the end of the list.              *)
Restore ==
  /\ phase \in {"AutoStart1", "Restoring"}
  /\ \/ phase' = "Restoring" /\ StartNext
     \/ phase' \in {"Restoring", "FinishingStartup"} /\ AllSeen

Next == NextPhase \/ Restore

Spec == Init /\ [][Next]_vars /\ WF_vars(Next)
==============================================================================
