------------------------------ MODULE KSMServer ------------------------------
(***************************************************************************)
(* The session manager of the workspace, ksmserver: how it ends a session. *)
(*                                                                         *)
(* KSMServer is one single-threaded object driven by its event loop.  It   *)
(* talks XSMP, through libSM, to the session's clients; an action of this  *)
(* module is one handler run to completion: a message of a client, a D-Bus *)
(* request, or a timer that fires.  The one handler that does not run to   *)
(* completion, the logout dialog with its nested event loop, is two        *)
(* actions (Shutdown... and DialogAnswered) between which all others can   *)
(* run.                                                                    *)
(*                                                                         *)
(* The start of the session is a single state here ("Starting"); the       *)
(* module KSMStartup details it.  What a saved session contains is not     *)
(* part of this module.                                                    *)
(*                                                                         *)
(* Definitions named Slip... are variants of the definition they precede   *)
(* with a plausible mistake in it.  No action uses them; they serve to see *)
(* that the properties at the end of the module would notice it.           *)
(***************************************************************************)
EXTENDS Integers, FiniteSets

CONSTANTS
  Client,       \* the KSMClient objects ever created
  NoClient,     \* the null pointer
  Program,      \* the names clients give as their program
  Present,      \* those connected, identified and saved already at the start
  InitialWM,    \* the window manager selected when the server starts
  ProgramOf,    \* the program each client will identify itself as
  Requests,     \* which requests the environment issues (see RequestKinds)
  MaxShots      \* bound: one-shot timers of one kind that run at once

RequestKinds == {"logout", "fastLogout", "checkpoint", "subSession",
                 "restoreSubSession", "wmChanged", "localSave",
                 "interact", "phase2", "connect", "outOfTurn"}

ASSUME ConstantsAssumption ==
  /\ IsFiniteSet(Client)
  /\ NoClient \notin Client
  /\ Present \subseteq Client
  /\ InitialWM \in Program
  /\ ProgramOf \in [Client -> Program]
  /\ Requests \subseteq RequestKinds
  /\ MaxShots \in Nat \ {0}

VARIABLES
  (* KSMServer *)
  state,                 \* State state
  dialogActive,          \* the logout dialog's event loop is running
  wm,                    \* the program that counts as the window manager
  wmPhase1WaitingCount,  \* window managers whose phase 1 is awaited
  saveType,              \* SmSaveLocal, or SmSaveBoth (standing for Global too)
  clientInteracting,     \* the client allowed to talk to the user
  clientsToSave,         \* the sub-session being closed: all its clients
  clientsToKill,         \* ... and those to be terminated
  inhibited,             \* sleep is suppressed on behalf of a logout
  quit,                  \* kapp->quit() was called
  (* its clients and the KSMClient flags, as the sets of clients *)
  clients, created, registered, identified,
  saveYourselfDone, pendingInteraction, waitForPhase2, wasPhase2,
  (* timers *)
  protectionTimer,       \* protectionTimer is active
  pendingShutdown,       \* a logout waits for the startup to end, or "none"
  shots,                 \* QTimer::singleShot timers running, by slot
  (* libSM's view of each connection *)
  inSave,                \* save_yourself_in_progress
  mayInteract,           \* interaction_allowed # SmInteractStyleNone
  canCancel,             \* can_cancel_shutdown
  interacting,           \* interact_in_progress
  (* history *)
  asked                  \* clients sent a SaveYourself in this round of saving

roundVars  == <<wmPhase1WaitingCount, saveType, asked>>
listVars   == <<clientsToSave, clientsToKill>>
otherVars  == <<dialogActive, wm, inhibited, quit>>
serverVars == <<state, roundVars, listVars, otherVars, clientInteracting>>
clientVars == <<clients, created, registered, identified>>
flagVars   == <<saveYourselfDone, pendingInteraction, waitForPhase2, wasPhase2>>
timerVars  == <<protectionTimer, pendingShutdown, shots>>
saveVars   == <<inSave, mayInteract, canCancel>>
smVars     == <<saveVars, interacting>>
allButState == <<roundVars, listVars, otherVars, clientInteracting, clientVars,
                 flagVars, timerVars, smVars>>
vars == <<state, allButState>>

(* The states of a session that is being ended for good ... *)
Leaving == {"Shutdown", "WaitingForKNotify", "Killing", "KillingWM"}
(* ... those in which clients are being saved ... *)
Saving  == {"Shutdown", "Checkpoint", "ClosingSubSession"}
(* ... and all that the source's `state >= Shutdown' covers. *)
ShutdownOrLater == Leaving \cup Saving
                     \cup {"KillingSubSession", "RestoringSubSession"}
States  == {"Starting", "Idle"} \cup ShutdownOrLater
Slots   == {"logoutSound", "timeoutQuit", "timeoutWMQuit", "subSession"}

IsWM(c)    == c \in identified /\ ProgramOf[c] = wm
WMs(S)     == {c \in S : IsWM(c)}
Others(S)  == {c \in S : ~IsWM(c)}

------------------------------------------------------------------------------
(* Sending, as done by the handlers below. *)

(* libSM notes the SaveYourselfDone of the clients `answered', then sends    *)
(* SmsSaveYourself to every client of S.                                     *)
SmsSaveYourself(answered, S, shutdown, interact) ==
  /\ inSave' = (inSave \ answered) \cup S
  /\ mayInteract' = IF interact THEN (mayInteract \ answered) \cup S
                                ELSE mayInteract \ (answered \cup S)
  /\ canCancel' = IF shutdown /\ interact THEN canCancel \cup S
                                          ELSE canCancel \ S

(* KSMClient::resetState for every client of S. *)
ResetState(S) ==
  /\ saveYourselfDone' = saveYourselfDone \ S
  /\ pendingInteraction' = pendingInteraction \ S
  /\ waitForPhase2' = waitForPhase2 \ S
  /\ wasPhase2' = wasPhase2 \ S

(* One more singleShot timer, in the timers sh. *)
Shoot(sh, slot) ==
  [sh EXCEPT ![slot] = IF @ < MaxShots THEN @ + 1 ELSE @]

SlipTimerNotRestarted == UNCHANGED protectionTimer

StartProtection == protectionTimer' = TRUE
EndProtection   == protectionTimer' = FALSE

SlipNobodyLetIn(pending, inter) ==
  /\ clientInteracting' = NoClient
  /\ pendingInteraction' = pending
  /\ interacting' = inter
  /\ StartProtection

SlipUnarmed(pending, inter) ==
  \/ /\ pending \cap clients' = {}
     /\ clientInteracting' = NoClient
     /\ pendingInteraction' = pending
     /\ interacting' = inter
     /\ UNCHANGED protectionTimer
  \/ \E c \in pending \cap clients' :
       /\ clientInteracting' = c
       /\ pendingInteraction' = pending \ {c}
       /\ interacting' = inter \cup {c}
       /\ EndProtection

(* handlePendingInteractions, when nobody interacts, with the flags         *)
(* `pending' set and the interactions `inter' in progress.  The code takes  *)
(* the first such client of its list, the model any.                        *)
HandlePendingInteractions(pending, inter) ==
  \/ /\ pending \cap clients' = {}
     /\ clientInteracting' = NoClient
     /\ pendingInteraction' = pending
     /\ interacting' = inter
     /\ StartProtection
  \/ \E c \in pending \cap clients' :
       /\ clientInteracting' = c
       /\ pendingInteraction' = pending \ {c}
       /\ interacting' = inter \cup {c}
       /\ EndProtection

------------------------------------------------------------------------------
(* completeShutdownOrCheckpoint, called in state st with the phase-2 flags  *)
(* `wait' and the sub-session's lists `save' and `kill'; the clients and    *)
(* their saveYourselfDone flags are those of the handler, already primed.   *)

Pending(st, save) == IF st = "ClosingSubSession" THEN save ELSE clients'
NotDoneYet(st, wait, save) ==
  st \notin Saving \/ ~(Pending(st, save) \subseteq saveYourselfDone' \cup wait)
Phase2Due(st, wait, save) ==
  (Pending(st, save) \cap wait) \ saveYourselfDone'

SlipSubSessionUntimed(kill, save) ==
  /\ state' = "KillingSubSession"
  /\ clientsToKill' = kill
  /\ clientsToSave' = save
  /\ UNCHANGED shots

(* startKillingSubSession, completeKillingSubSession *)
KillSubSession(kill, save) ==
  /\ shots' = Shoot(shots, "subSession")
  /\ IF \A c \in kill : c \in WMs(kill)
       THEN /\ state' = "Idle"
            /\ clientsToKill' = {}
            /\ clientsToSave' = {}
       ELSE /\ state' = "KillingSubSession"
            /\ clientsToKill' = kill
            /\ clientsToSave' = save

Complete(st, wait, save, kill) ==
  \/ /\ NotDoneYet(st, wait, save)
     /\ state' = st
     /\ waitForPhase2' = wait
     /\ clientsToSave' = save
     /\ clientsToKill' = kill
     /\ UNCHANGED shots
  \/ /\ ~NotDoneYet(st, wait, save)
     /\ Phase2Due(st, wait, save) # {}
     /\ state' = st
     /\ waitForPhase2' = wait \ Phase2Due(st, wait, save)
     /\ clientsToSave' = save
     /\ clientsToKill' = kill
     /\ UNCHANGED shots
  \/ /\ ~NotDoneYet(st, wait, save)
     /\ Phase2Due(st, wait, save) = {}
     /\ waitForPhase2' = wait
     /\ \/ /\ st = "Shutdown"
           /\ state' = "WaitingForKNotify"
           /\ shots' = Shoot(shots, "logoutSound")
           /\ clientsToSave' = save
           /\ clientsToKill' = kill
        \/ /\ st = "Checkpoint"
           /\ state' = "Idle"
           /\ clientsToSave' = save
           /\ clientsToKill' = kill
           /\ UNCHANGED shots
        \/ /\ st = "ClosingSubSession"
           /\ KillSubSession(kill, save)

SlipKillWMUntimed(cs, sh) ==
  /\ state' = "KillingWM"
  /\ shots' = sh
  /\ quit' = (WMs(cs) = {})

(* killWM with the clients cs connected and the timers sh running; without  *)
(* a window manager it ends the program at once, whoever else remains.      *)
KillWM(cs, sh) ==
  /\ state' = "KillingWM"
  /\ IF WMs(cs) # {}
       THEN shots' = Shoot(sh, "timeoutWMQuit") /\ UNCHANGED quit
       ELSE shots' = sh /\ quit' = TRUE

SlipKillWMAtOnce(cs, sh) == KillWM(cs, sh)

(* completeKilling *)
CompleteKilling(cs, sh) ==
  IF Others(cs) # {}
    THEN state' = "Killing" /\ shots' = sh /\ UNCHANGED quit
    ELSE KillWM(cs, sh)

------------------------------------------------------------------------------
(* Requests: D-Bus, the global shortcuts, the pending-shutdown timer. *)

SlipSleepKeptSuppressed == UNCHANGED inhibited

BeginSuppressingSleep == inhibited' = TRUE
StopSuppressingSleep  == inhibited' = FALSE

(* Whom a round of saving asks first: the window managers, if there are any. *)
AskedFirst == IF WMs(clients) # {} THEN WMs(clients) ELSE clients

(* The confirmed part of shutdown(). *)
BeginShutdown ==
  /\ BeginSuppressingSleep
  /\ dialogActive' = FALSE
  /\ saveType' = "Both"
  /\ wmPhase1WaitingCount' = Cardinality(WMs(clients))
  /\ StartProtection
  /\ ResetState(clients)
  /\ SmsSaveYourself({}, AskedFirst, TRUE, TRUE)
  /\ asked' = AskedFirst
  /\ IF clients = {}
       THEN /\ state' = "WaitingForKNotify"
            /\ shots' = Shoot(shots, "logoutSound")
       ELSE /\ state' = "Shutdown"
            /\ UNCHANGED shots
  /\ UNCHANGED <<wm, clientInteracting, listVars, quit, clientVars,
                 interacting>>

(* shutdown() that returns early: a dialog is open, or `already performing  *)
(* shutdown' ...                                                            *)
ShutdownIgnored ==
  /\ dialogActive \/ state \in ShutdownOrLater
  /\ pendingShutdown' = "none"
  /\ UNCHANGED <<serverVars, clientVars, flagVars, protectionTimer, shots,
                 smVars>>

(* ... or the session is still starting: try again in a second; or this is  *)
(* a fast halt or reboot that is not available.                             *)
ShutdownNotNow(confirm) ==
  /\ ~dialogActive
  /\ \/ state = "Starting" /\ pendingShutdown' = confirm
     \/ state = "Idle" /\ confirm = "fastLogout" /\ pendingShutdown' = "none"
  /\ UNCHANGED <<serverVars, clientVars, flagVars, protectionTimer, shots,
                 smVars>>

(* shutdown() up to the dialog. *)
ShutdownAsks(confirm) ==
  /\ ~dialogActive
  /\ state = "Idle"
  /\ confirm = "logout"
  /\ pendingShutdown' = "none"
  /\ dialogActive' = TRUE
  /\ UNCHANGED <<state, wm, roundVars, clientInteracting, listVars, inhibited,
                 quit, clientVars, flagVars, protectionTimer, shots, smVars>>

ShutdownAtOnce(confirm) ==
  /\ ~dialogActive
  /\ state = "Idle"
  /\ confirm = "fastLogout"
  /\ pendingShutdown' = "none"
  /\ BeginShutdown

Shutdown(confirm) ==
  \/ ShutdownIgnored
  \/ ShutdownNotNow(confirm)
  \/ ShutdownAsks(confirm)
  \/ ShutdownAtOnce(confirm)

LogoutRequested ==
  /\ ~quit
  /\ \E confirm \in {"logout", "fastLogout"} \cap Requests : Shutdown(confirm)

PendingShutdownTimeout ==
  /\ ~quit
  /\ pendingShutdown # "none"
  /\ Shutdown(pendingShutdown)

(* The dialog returns; whatever the state is by then, it goes on. *)
DialogAnswered ==
  /\ ~quit
  /\ dialogActive
  /\ UNCHANGED pendingShutdown
  /\ \/ BeginShutdown
     \/ /\ dialogActive' = FALSE
        /\ UNCHANGED <<state, wm, roundVars, clientInteracting, listVars,
                       inhibited, quit, clientVars, flagVars, protectionTimer,
                       shots, smVars>>

(* saveCurrentSession *)
SaveCurrentSession ==
  /\ ~quit
  /\ "checkpoint" \in Requests
  /\ state = "Idle"
  /\ ~dialogActive
  /\ state' = IF clients = {} THEN "Idle" ELSE "Checkpoint"
  /\ wmPhase1WaitingCount' = Cardinality(WMs(clients))
  /\ saveType' = "Local"
  /\ ResetState(clients)
  /\ SmsSaveYourself({}, AskedFirst, FALSE, FALSE)
  /\ asked' = AskedFirst
  /\ UNCHANGED <<otherVars, clientInteracting, listVars, clientVars,
                 timerVars, interacting>>

(* saveSubSession: save and close the clients of `close', only save `only'. *)
SaveSubSession(close, only) ==
  /\ ~quit
  /\ "subSession" \in Requests
  /\ state = "Idle"
  /\ saveType' = "Both"
  /\ StartProtection
  /\ saveYourselfDone' = saveYourselfDone \ (close \cup only)
  /\ pendingInteraction' = pendingInteraction \ (close \cup only)
  /\ wasPhase2' = wasPhase2 \ (close \cup only)
  /\ SmsSaveYourself({}, close \cup only, TRUE, TRUE)
  /\ asked' = close \cup only
  /\ UNCHANGED clientVars
  /\ Complete("ClosingSubSession", waitForPhase2 \ (close \cup only),
              clientsToSave \cup close \cup only, clientsToKill \cup close)
  /\ UNCHANGED <<otherVars, wmPhase1WaitingCount, clientInteracting,
                 pendingShutdown, interacting>>

(* restoreSubSession, from any state, and the end of its restore sequence. *)
RestoreSubSession ==
  /\ ~quit
  /\ "restoreSubSession" \in Requests
  /\ state' \in {"RestoringSubSession", "Idle"}
  /\ UNCHANGED allButState

SubSessionRestored ==
  /\ ~quit
  /\ state = "RestoringSubSession"
  /\ state' = "Idle"
  /\ UNCHANGED allButState

(* The session is up: the end of finishStartup. *)
FinishStartup ==
  /\ ~quit
  /\ state = "Starting"
  /\ state' = "Idle"
  /\ UNCHANGED allButState

(* wmChanged: another window manager was configured. *)
WMChanged(p) ==
  /\ ~quit
  /\ "wmChanged" \in Requests
  /\ wm' = p
  /\ UNCHANGED <<state, dialogActive, roundVars, clientInteracting, listVars,
                 inhibited, quit, clientVars, flagVars, timerVars, smVars>>

------------------------------------------------------------------------------
(* Messages of clients. *)

(* newClient: a connection that has not registered yet. *)
NewClient(c) ==
  /\ ~quit
  /\ "connect" \in Requests
  /\ c \notin created
  /\ created' = created \cup {c}
  /\ clients' = clients \cup {c}
  /\ UNCHANGED <<serverVars, registered, identified, flagVars, timerVars,
                 smVars>>

(* registerClient: every client first saves locally, without interaction. *)
RegisterClient(c) ==
  /\ ~quit
  /\ c \in clients \ registered
  /\ registered' = registered \cup {c}
  /\ SmsSaveYourself({}, {c}, FALSE, FALSE)
  /\ UNCHANGED <<serverVars, clients, created, identified, flagVars, timerVars,
                 interacting>>

SlipSetProgramUnregistered(c) ==
  /\ c \in clients \ identified
  /\ identified' = identified \cup {c}
  /\ UNCHANGED <<serverVars, clients, created, registered, flagVars, timerVars,
                 smVars>>

(* clientSetProgram, outside startup. *)
ClientSetProgram(c) ==
  /\ ~quit
  /\ c \in registered \ identified
  /\ identified' = identified \cup {c}
  /\ UNCHANGED <<serverVars, clients, created, registered, flagVars, timerVars,
                 smVars>>

(* A client asks to be saved alone, and may ask for interaction too. *)
ClientSaveRequest(c) ==
  /\ ~quit
  /\ "localSave" \in Requests
  /\ c \in registered
  /\ \E interact \in BOOLEAN : SmsSaveYourself({}, {c}, FALSE, interact)
  /\ UNCHANGED <<serverVars, clientVars, flagVars, timerVars, interacting>>

(* A client that interacts is to send InteractDone and nothing else before   *)
(* it.  Neither libSM nor ksmserver sees to that.                            *)
MaySpeak(c) == c \notin interacting \/ "outOfTurn" \in Requests

(* libSM hands a SaveYourselfDone on only while a save is in progress, and   *)
(* does not know which SaveYourself it answers.  A client may send it while  *)
(* it waits for its turn to interact or for phase 2.                         *)
SaveYourselfDoneArrives(c) ==
  /\ ~quit
  /\ c \in inSave
  /\ MaySpeak(c)

(* saveYourselfDone after the save is over: the saved state is discarded. *)
SaveYourselfDoneIdle(c) ==
  /\ SaveYourselfDoneArrives(c)
  /\ state = "Idle"
  /\ SmsSaveYourself({c}, {}, FALSE, FALSE)
  /\ UNCHANGED <<serverVars, clientVars, flagVars, timerVars, interacting>>

SlipAnyoneCounts(c) == wmPhase1WaitingCount > 0

(* Does the message of c end a phase 1 that the other clients wait for? *)
CountsAsWM(c) == IsWM(c) /\ wmPhase1WaitingCount > 0

SlipAlwaysLogout == TRUE

(* The SaveYourself messages after phase 1 are for a logout (or for closing  *)
(* a sub-session) unless the round is a checkpoint.                          *)
ForLogout == saveType # "Local"

(* The last such message lets the other clients start.  `answered' is {c} if *)
(* it answers a SaveYourself, which libSM has noted by then.                 *)
WMPhase1Done(c, answered) ==
  LET rest == IF CountsAsWM(c) /\ wmPhase1WaitingCount = 1
                THEN Others(clients) ELSE {}
  IN /\ wmPhase1WaitingCount' =
           wmPhase1WaitingCount - (IF CountsAsWM(c) THEN 1 ELSE 0)
     /\ SmsSaveYourself(answered, rest, ForLogout, ForLogout)
     /\ asked' = asked \cup rest
     /\ UNCHANGED saveType

(* saveYourselfDone *)
SaveYourselfDone(c) ==
  /\ SaveYourselfDoneArrives(c)
  /\ state # "Idle"
  /\ saveYourselfDone' = saveYourselfDone \cup {c}
  /\ StartProtection
  /\ UNCHANGED clientVars
  /\ Complete(state, waitForPhase2, clientsToSave, clientsToKill)
  /\ IF c \in wasPhase2
       THEN SmsSaveYourself({c}, {}, FALSE, FALSE) /\ UNCHANGED roundVars
       ELSE WMPhase1Done(c, {c})
  /\ UNCHANGED <<otherVars, clientInteracting, pendingInteraction,
                 wasPhase2, pendingShutdown, interacting>>

(* phase2Request, of any client, at any time and repeatedly. *)
Phase2Request(c) ==
  /\ ~quit
  /\ "phase2" \in Requests
  /\ c \in clients
  /\ MaySpeak(c)
  /\ wasPhase2' = wasPhase2 \cup {c}
  /\ UNCHANGED <<saveYourselfDone, clientVars>>
  /\ Complete(state, waitForPhase2 \cup {c}, clientsToSave, clientsToKill)
  /\ WMPhase1Done(c, {})
  /\ UNCHANGED <<otherVars, clientInteracting, pendingInteraction,
                 protectionTimer, pendingShutdown, interacting>>

(* interactRequest; libSM lets it through if the SaveYourself allowed it. *)
InteractRequest(c) ==
  LET queued == state \in {"Shutdown", "ClosingSubSession"}
      pending == IF queued THEN pendingInteraction \cup {c} ELSE pendingInteraction
      inter == IF queued THEN interacting ELSE interacting \cup {c}
  IN /\ ~quit
     /\ "interact" \in Requests
     /\ MaySpeak(c)
     /\ c \in mayInteract
     /\ UNCHANGED clientVars
     /\ IF clientInteracting # NoClient
          THEN /\ pendingInteraction' = pending
               /\ interacting' = inter
               /\ UNCHANGED <<clientInteracting, protectionTimer>>
          ELSE HandlePendingInteractions(pending, inter)
     /\ UNCHANGED <<state, otherVars, roundVars, listVars, saveYourselfDone,
                    waitForPhase2, wasPhase2, pendingShutdown, shots,
                    saveVars>>

(* interactDone of a client other than the one that was let in. *)
InteractDoneStray(c) ==
  /\ ~quit
  /\ c \in interacting
  /\ c # clientInteracting
  /\ interacting' = interacting \ {c}
  /\ UNCHANGED <<serverVars, clientVars, flagVars, timerVars, saveVars>>

InteractDone(c) ==
  /\ ~quit
  /\ c \in interacting
  /\ c = clientInteracting
  /\ UNCHANGED clientVars
  /\ HandlePendingInteractions(pendingInteraction, interacting \ {c})
  /\ UNCHANGED <<state, otherVars, roundVars, listVars, saveYourselfDone,
                 waitForPhase2, wasPhase2, pendingShutdown, shots, saveVars>>

(* interactDone that cancels, and cancelShutdown; libSM lets it through     *)
(* only from a client that may cancel.                                      *)
CancelShutdown(c) ==
  /\ ~quit
  /\ c \in interacting
  /\ c = clientInteracting
  /\ c \in canCancel
  /\ interacting' = interacting \ {c}
  /\ clientInteracting' = NoClient
  /\ state' = "Idle"
  /\ IF state = "ClosingSubSession"
       THEN /\ clientsToKill' = {}
            /\ clientsToSave' = {}
            /\ UNCHANGED <<inhibited, canCancel>>
       ELSE /\ StopSuppressingSleep
            /\ canCancel' = canCancel \ clients
            /\ UNCHANGED listVars
  /\ UNCHANGED <<dialogActive, wm, roundVars, quit, clientVars, flagVars,
                 timerVars, inSave, mayInteract>>

SlipKeepInKillList(c) == clientsToKill

SaveListWithout(c) == clientsToSave \ {c}
KillListWithout(c) == clientsToKill \ {c}

(* The connection of c is closed, in order or not: deleteClient. *)
Forget(c) ==
  /\ clients' = clients \ {c}
  /\ registered' = registered \ {c}
  /\ identified' = identified \ {c}
  /\ saveYourselfDone' = saveYourselfDone \ {c}
  /\ wasPhase2' = wasPhase2 \ {c}
  /\ inSave' = inSave \ {c}
  /\ mayInteract' = mayInteract \ {c}
  /\ canCancel' = canCancel \ {c}
  /\ asked' = asked \ {c}
  /\ IF c = clientInteracting
       THEN HandlePendingInteractions(pendingInteraction \ {c}, interacting \ {c})
       ELSE /\ pendingInteraction' = pendingInteraction \ {c}
            /\ interacting' = interacting \ {c}
            /\ UNCHANGED <<clientInteracting, protectionTimer>>

DeleteClient(c) ==
  /\ ~quit
  /\ c \in clients
  /\ Forget(c)
  /\ UNCHANGED <<dialogActive, wm, wmPhase1WaitingCount, saveType, inhibited,
                 created, pendingShutdown>>
  /\ \/ /\ state \notin {"Killing", "KillingSubSession", "KillingWM"}
        /\ Complete(state, waitForPhase2 \ {c}, SaveListWithout(c),
                    KillListWithout(c))
        /\ UNCHANGED quit
     \/ /\ state = "Killing"
        /\ CompleteKilling(clients \ {c}, shots)
        /\ waitForPhase2' = waitForPhase2 \ {c}
        /\ clientsToSave' = SaveListWithout(c)
        /\ clientsToKill' = KillListWithout(c)
     \/ /\ state = "KillingSubSession"
        /\ waitForPhase2' = waitForPhase2 \ {c}
        /\ IF Others(KillListWithout(c)) # {}
             THEN /\ clientsToSave' = SaveListWithout(c)
                  /\ clientsToKill' = KillListWithout(c)
                  /\ UNCHANGED state
             ELSE /\ clientsToSave' = {}
                  /\ clientsToKill' = {}
                  /\ state' = "Idle"
        /\ UNCHANGED <<quit, shots>>
     \/ /\ state = "KillingWM"
        /\ waitForPhase2' = waitForPhase2 \ {c}
        /\ clientsToSave' = SaveListWithout(c)
        /\ clientsToKill' = KillListWithout(c)
        /\ quit' = (clients \ {c} = {})
        /\ UNCHANGED <<state, shots>>

------------------------------------------------------------------------------
(* Timers. *)

(* protectionTimeout: a single-shot timer, so it is no longer active. *)
ProtectionTimeoutIgnored ==
  /\ ~quit
  /\ protectionTimer
  /\ state \notin Saving \/ clientInteracting # NoClient
  /\ EndProtection
  /\ UNCHANGED <<serverVars, clientVars, flagVars, pendingShutdown, shots,
                 smVars>>

SlipGiveUpOnlyAsked == asked \ waitForPhase2

GivenUp == clients \ waitForPhase2

ProtectionTimeout ==
  /\ ~quit
  /\ protectionTimer
  /\ state \in Saving
  /\ clientInteracting = NoClient
  /\ saveYourselfDone' = saveYourselfDone \cup GivenUp
  /\ UNCHANGED clientVars
  /\ Complete(state, waitForPhase2, clientsToSave, clientsToKill)
  /\ StartProtection
  /\ UNCHANGED <<otherVars, roundVars, clientInteracting, pendingInteraction,
                 wasPhase2, pendingShutdown, smVars>>

Fire(slot) == ~quit /\ shots[slot] > 0
Fired(slot) == [shots EXCEPT ![slot] = @ - 1]

(* logoutSoundFinished: the sound ended, or logoutSoundTimeout; startKilling *)
StartKilling(sh) ==
  /\ CompleteKilling(clients, Shoot(sh, "timeoutQuit"))
  /\ UNCHANGED <<dialogActive, wm, roundVars, clientInteracting, listVars,
                 inhibited, clientVars, flagVars, protectionTimer,
                 pendingShutdown, smVars>>

LogoutSoundFinished ==
  /\ ~quit
  /\ state = "WaitingForKNotify"
  /\ StartKilling(shots)

(* A shot that finds nothing left to do. *)
ShotSpent(slot) ==
  /\ shots' = Fired(slot)
  /\ UNCHANGED <<serverVars, clientVars, flagVars, protectionTimer,
                 pendingShutdown, smVars>>

LogoutSoundTimeout ==
  /\ Fire("logoutSound")
  /\ \/ state = "WaitingForKNotify" /\ StartKilling(Fired("logoutSound"))
     \/ state # "WaitingForKNotify" /\ ShotSpent("logoutSound")

(* timeoutQuit *)
TimeoutQuit ==
  /\ Fire("timeoutQuit")
  /\ \/ /\ state = "Killing"
        /\ KillWM(clients, Fired("timeoutQuit"))
        /\ UNCHANGED <<dialogActive, wm, roundVars, clientInteracting,
                       listVars, inhibited, clientVars, flagVars,
                       protectionTimer, pendingShutdown, smVars>>
     \/ state # "Killing" /\ ShotSpent("timeoutQuit")

(* timeoutWMQuit quits whatever the state is. *)
TimeoutWMQuit ==
  /\ Fire("timeoutWMQuit")
  /\ shots' = Fired("timeoutWMQuit")
  /\ quit' = TRUE
  /\ UNCHANGED <<state, dialogActive, wm, roundVars, clientInteracting,
                 listVars, inhibited, clientVars, flagVars, protectionTimer,
                 pendingShutdown, smVars>>

(* signalSubSessionClosed *)
SignalSubSessionClosed ==
  /\ Fire("subSession")
  /\ \/ /\ state = "KillingSubSession"
        /\ shots' = Fired("subSession")
        /\ state' = "Idle"
        /\ clientsToKill' = {}
        /\ clientsToSave' = {}
        /\ UNCHANGED <<otherVars, roundVars, clientInteracting, clientVars,
                       flagVars, protectionTimer, pendingShutdown, smVars>>
     \/ state # "KillingSubSession" /\ ShotSpent("subSession")

------------------------------------------------------------------------------
(* The session starts; some clients may have come up already. *)
Init ==
  /\ state = "Starting"
  /\ dialogActive = FALSE
  /\ wm = InitialWM
  /\ wmPhase1WaitingCount = 0
  /\ saveType = "Local"
  /\ clientInteracting = NoClient
  /\ clientsToSave = {}
  /\ clientsToKill = {}
  /\ inhibited = FALSE
  /\ quit = FALSE
  /\ clients = Present
  /\ created = Present
  /\ registered = Present
  /\ identified = Present
  /\ saveYourselfDone = {}
  /\ pendingInteraction = {}
  /\ waitForPhase2 = {}
  /\ wasPhase2 = {}
  /\ protectionTimer = FALSE
  /\ pendingShutdown = "none"
  /\ shots = [slot \in Slots |-> 0]
  /\ inSave = {}
  /\ mayInteract = {}
  /\ canCancel = {}
  /\ interacting = {}
  /\ asked = {}

ClientMessage(c) ==
  \/ NewClient(c)
  \/ RegisterClient(c)
  \/ ClientSetProgram(c)
  \/ ClientSaveRequest(c)
  \/ SaveYourselfDoneIdle(c)
  \/ SaveYourselfDone(c)
  \/ Phase2Request(c)
  \/ InteractRequest(c)
  \/ InteractDoneStray(c)
  \/ InteractDone(c)
  \/ CancelShutdown(c)
  \/ DeleteClient(c)

Request ==
  \/ LogoutRequested
  \/ DialogAnswered
  \/ SaveCurrentSession
  \/ \E close \in SUBSET registered :
       \E only \in SUBSET (registered \ close) : SaveSubSession(close, only)
  \/ RestoreSubSession
  \/ SubSessionRestored
  \/ \E p \in Program : WMChanged(p)

Timer ==
  \/ PendingShutdownTimeout
  \/ ProtectionTimeoutIgnored
  \/ ProtectionTimeout
  \/ LogoutSoundTimeout
  \/ TimeoutQuit
  \/ TimeoutWMQuit
  \/ SignalSubSessionClosed

(* The process has left its event loop. *)
Terminated == quit /\ UNCHANGED vars

Next ==
  \/ FinishStartup
  \/ LogoutSoundFinished
  \/ Request
  \/ Timer
  \/ \E c \in Client : ClientMessage(c)
  \/ Terminated

Spec == Init /\ [][Next]_vars

(* Timers fire once they are due, and the event loop gets to them.  Nothing *)
(* is assumed of the clients, the user and the sound server.                *)
TimerFairness ==
  /\ WF_vars(PendingShutdownTimeout)
  /\ WF_vars(ProtectionTimeout \/ ProtectionTimeoutIgnored)
  /\ WF_vars(LogoutSoundTimeout)
  /\ WF_vars(TimeoutQuit)
  /\ WF_vars(TimeoutWMQuit)
  /\ WF_vars(SignalSubSessionClosed)

(* ... and the startup ends (module KSMStartup). *)
FairSpec == Spec /\ TimerFairness /\ WF_vars(FinishStartup)

------------------------------------------------------------------------------
(* Properties *)

TypeOK ==
  /\ state \in States
  /\ dialogActive \in BOOLEAN
  /\ wm \in Program
  /\ wmPhase1WaitingCount \in Nat
  /\ saveType \in {"Local", "Both"}
  /\ clientInteracting \in Client \cup {NoClient}
  /\ inhibited \in BOOLEAN
  /\ quit \in BOOLEAN
  /\ created \subseteq Client
  /\ clients \subseteq created
  /\ registered \subseteq clients
  /\ identified \subseteq registered
  /\ saveYourselfDone \subseteq clients
  /\ pendingInteraction \subseteq clients
  /\ waitForPhase2 \subseteq clients
  /\ wasPhase2 \subseteq clients
  /\ protectionTimer \in BOOLEAN
  /\ pendingShutdown \in {"none", "logout", "fastLogout"}
  /\ shots \in [Slots -> 0 .. MaxShots]
  /\ inSave \subseteq clients
  /\ mayInteract \subseteq clients
  /\ canCancel \subseteq clients
  /\ interacting \subseteq clients
  /\ asked \subseteq clients

(* The server keeps KSMClient pointers outside its list of clients, and     *)
(* deleteClient deletes the object: no pointer to a client that has gone    *)
(* may survive it.                                                          *)
NoDanglingClient ==
  /\ clientInteracting \in clients \cup {NoClient}
  /\ clientsToSave \subseteq clients
  /\ clientsToKill \subseteq clientsToSave

(* While the clients are saved for a logout or for closing a sub-session,   *)
(* something always drives it on: the user who was let in to a client, or   *)
(* the protection timer (startProtection, endProtection).                   *)
ProtectionArmed ==
  state \in {"Shutdown", "ClosingSubSession"} /\ clientInteracting = NoClient
    => protectionTimer

(* A client that waits for its turn to talk to the user in a logout waits   *)
(* for another client, never for nothing (handlePendingInteractions).       *)
InteractionServed ==
  state = "Shutdown" /\ pendingInteraction # {} => clientInteracting # NoClient

(* Sleep is suppressed exactly while the session is being left: begun by    *)
(* the confirmed logout, released by cancelShutdown.                        *)
InhibitedWhileLeaving == inhibited <=> state \in Leaving

(* "make sure the WM finishes its phase 1 before others a chance to change  *)
(* anything": in a logout nobody else is asked to save before the window    *)
(* manager has answered or requested phase 2.  Only with one window manager *)
(* connected: the count does not tell the answer of one from another's.     *)
WMFirst ==
  [][\A w \in clients :
       /\ state = "Shutdown"
       /\ WMs(clients) = {w}
       /\ Others(asked) = {} /\ Others(asked') # {}
       => w \in saveYourselfDone' \cup wasPhase2']_vars

(* "kill the WM as the last one": it is told to go when all others are      *)
(* gone, or when a timeoutQuit fires, 10 seconds after startKilling (of     *)
(* this logout, or of one that was cancelled in between).                   *)
WMLast ==
  [][state # "KillingWM" /\ state' = "KillingWM" =>
       Others(clients') = {} \/ shots'["timeoutQuit"] < shots["timeoutQuit"]]_vars

(* A checkpoint is never a logout: no client that it asks to save can cancel *)
(* a shutdown (saveType and the interaction style of the later messages).    *)
CheckpointIsSilent == state = "Checkpoint" => asked \cap canCancel = {}

(* The program ends only at the end of a logout. *)
QuitOnlyWhenLeaving == quit => state = "KillingWM"

(* A logout that has begun ends, or is cancelled, or it is the user's turn: *)
(* no client can hold it up by being silent.                                *)
ShutdownProgresses ==
  (<>[](state = "Shutdown" /\ ~quit)) => []<>(clientInteracting # NoClient)

(* Once the clients were told to go, the program ends; it can only be       *)
(* stopped by a client that still cancels.                                  *)
KillingEnds ==
  state \in Leaving \ {"Shutdown"} ~> quit \/ state = "Idle"

(* Closing a sub-session ends, unless the user is asked. *)
SubSessionCloses ==
  (<>[](state \in {"ClosingSubSession", "KillingSubSession"} /\ ~quit)) =>
     []<>(clientInteracting # NoClient)

------------------------------------------------------------------------------
(* A statement of the source that the code does not keep. *)

(* "perform shutdown as soon as startup is finished": the logout that was   *)
(* put off while the session started takes place.                           *)
PendingLogoutHonoured ==
  pendingShutdown = "logout" ~> dialogActive \/ state \in Leaving

==============================================================================
