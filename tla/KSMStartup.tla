------------------------------ MODULE KSMStartup ------------------------------
(***************************************************************************)
(* The start of a session by ksmserver (startup.cpp), the detail of what   *)
(* KSMServer calls "Starting": the window manager is launched, then        *)
(* klauncher and kcminit are told to run their phases one by one, and the  *)
(* applications of the saved session are started one after the other.      *)
(*                                                                         *)
(* Each phase ends with a signal of klauncher or kcminit, or with a timer; *)
(* some can be held up by applications that call suspendStartup, for ten   *)
(* seconds at most.  An action is one slot run to completion.  A slot that *)
(* is called in another state than the one it is for returns at once: such *)
(* a call is no step here, except that it uses up its timer.               *)
(*                                                                         *)
(* As in KSMServer, definitions named Slip... are variants with a mistake. *)
(***************************************************************************)
EXTENDS Integers, Sequences, FiniteSets

CONSTANTS
  App,          \* clients that suspend the startup
  Id,           \* client ids in saved sessions
  NoId,         \* no id
  Saved,        \* what the saved session and a saved sub-session consist of
  InitialWM,    \* the window manager selected when the server starts
  SubSessions,  \* when sub-sessions are restored: "never", "idle" or "any" time
  MaxSuspend    \* bound: suspendStartup calls of an App not yet resumed

ASSUME ConstantsAssumption ==
  /\ IsFiniteSet(App)
  /\ NoId \notin Id
  /\ Saved \in [{"Session", "SubSession"} -> Seq([id : Id, restart : BOOLEAN])]
  /\ SubSessions \in {"never", "idle", "any"}
  /\ MaxSuspend \in Nat \ {0}

VARIABLES
  state,                      \* State state
  wm,                         \* the program launched as window manager
  wmRunning,                  \* wmProcess is running
  wmShots,                    \* 4 s timers of launchWM that still run
  startupSuspendCount,        \* App -> suspensions
  startupSuspendTimeoutTimer, \* ... is active
  phaseOver,                  \* the current phase's end was signalled, but it
                              \* is held up
  kcminitSignals,             \* ... is not null
  kcmShots,                   \* single-shot timers of kcminit's phases
  waitAutoStart2, waitKcmInit2,
  sessionGroup,               \* which of Saved, or "" for a default session
  appsToStart, lastAppStarted, lastIdStarted,
  restoreTimer,               \* ... is active
  registered,                 \* ids of the connected clients
  launched,                   \* ids of applications ever started from Saved
  starts                      \* how often each entry of the session was started

wmVars      == <<wm, wmRunning, wmShots>>
suspendVars == <<startupSuspendCount, startupSuspendTimeoutTimer, phaseOver>>
kcmVars     == <<kcminitSignals, kcmShots, waitAutoStart2, waitKcmInit2>>
appVars     == <<appsToStart, lastAppStarted, lastIdStarted, restoreTimer,
                 launched, starts>>
vars == <<state, wmVars, suspendVars, kcmVars, sessionGroup, appVars, registered>>

States == {"LaunchingWM", "AutoStart0", "KcmInitPhase1", "AutoStart1",
           "Restoring", "FinishingStartup", "Idle", "RestoringSubSession"}
KcmShots == {"phase1Now", "phase1Timeout", "phase2Now", "phase2Timeout"}

NobodySuspends == [a \in App |-> 0]

------------------------------------------------------------------------------
(* The phases.  `count' is startupSuspendCount and `timer' whether its timer *)
(* is active, when the phase's slot looks at them.                           *)

SlipHeldUpUntimed(count) ==
  /\ count # NobodySuspends
  /\ startupSuspendTimeoutTimer' = FALSE
  /\ phaseOver' = TRUE

(* checkStartupSuspend: somebody holds the startup up, or nobody does. *)
HeldUp(count) ==
  /\ count # NobodySuspends
  /\ startupSuspendTimeoutTimer' = TRUE
  /\ phaseOver' = TRUE

Free(count, timer) ==
  /\ count = NobodySuspends
  /\ startupSuspendTimeoutTimer' = timer
  /\ phaseOver' = FALSE

AutoStart0(count, timer) ==
  /\ \/ HeldUp(count) /\ UNCHANGED state
     \/ Free(count, timer) /\ state' = "AutoStart0"
  /\ UNCHANGED <<kcmVars, appVars>>

(* kcminit is told to run phase 1, if there is a kcminit. *)
RunPhase1 ==
  \E running \in BOOLEAN :
    /\ kcminitSignals' = running
    /\ kcmShots' = kcmShots \cup {IF running THEN "phase1Timeout" ELSE "phase1Now"}

AutoStart0Done(count, timer) ==
  /\ \/ HeldUp(count) /\ UNCHANGED <<state, kcminitSignals, kcmShots>>
     \/ Free(count, timer) /\ state' = "KcmInitPhase1" /\ RunPhase1
  /\ UNCHANGED <<waitAutoStart2, waitKcmInit2, appVars>>

AutoStart2(count, timer) ==
  \/ /\ HeldUp(count)
     /\ state' = "Restoring"
     /\ UNCHANGED kcmVars
  \/ /\ Free(count, timer)
     /\ state' = "FinishingStartup"
     /\ waitAutoStart2' = TRUE
     /\ waitKcmInit2' = TRUE
     /\ kcmShots' = kcmShots \cup
                      {IF kcminitSignals THEN "phase2Timeout" ELSE "phase2Now"}
     /\ UNCHANGED kcminitSignals

SlipStartedAgain(from, upto) ==
  {i \in (1 .. upto) \cap (from .. upto) :
     LET entry == Saved[sessionGroup'][i]
     IN entry.restart /\ entry.id \notin registered'}

(* The entries after `from' of the saved session that are to be started:     *)
(* those to be restarted at all, and not connected already.                  *)
ToStart(from, upto) ==
  {i \in (from + 1) .. upto :
     LET entry == Saved[sessionGroup'][i]
     IN entry.restart /\ entry.id \notin registered'}

(* tryRestoreNext in state st, with the entries `from' + 1 to `upto' of the  *)
(* saved session left to look at.                                            *)
TryRestoreNext(st, from, upto, count) ==
  \/ \E next \in ToStart(from, upto) :
       /\ \A i \in ToStart(from, upto) : next <= i
       /\ state' = st
       /\ appsToStart' = upto
       /\ lastAppStarted' = next
       /\ lastIdStarted' = Saved[sessionGroup'][next].id
       /\ launched' = launched \cup {lastIdStarted'}
       /\ starts' = IF sessionGroup' = "Session"
                      THEN [starts EXCEPT ![next] = @ + 1] ELSE starts
       /\ restoreTimer' = TRUE
       /\ startupSuspendTimeoutTimer' = FALSE
       /\ phaseOver' = FALSE
       /\ UNCHANGED kcmVars
  \/ /\ ToStart(from, upto) = {}
     /\ appsToStart' = 0
     /\ lastAppStarted' = IF from < upto THEN upto ELSE from
     /\ lastIdStarted' = NoId
     /\ restoreTimer' = FALSE
     /\ UNCHANGED <<launched, starts>>
     /\ \/ st = "Restoring" /\ AutoStart2(count, FALSE)
        \/ /\ st = "RestoringSubSession"
           /\ state' = "Idle"
           /\ startupSuspendTimeoutTimer' = FALSE
           /\ phaseOver' = FALSE
           /\ UNCHANGED kcmVars

AutoStart1Done(count, timer) ==
  \/ /\ HeldUp(count)
     /\ UNCHANGED <<state, kcmVars, appVars>>
  \/ /\ count = NobodySuspends
     /\ sessionGroup # ""
     /\ TryRestoreNext("Restoring", 0, appsToStart, count)
  \/ /\ count = NobodySuspends
     /\ sessionGroup = ""
     /\ AutoStart2(count, timer)
     /\ lastAppStarted' = 0
     /\ lastIdStarted' = NoId
     /\ UNCHANGED <<appsToStart, restoreTimer, launched, starts>>

------------------------------------------------------------------------------
(* The window manager. *)

(* launchWM's 4 s timer, or one of them: autoStart0. *)
WMTimeout ==
  /\ wmShots > 0
  /\ wmShots' = wmShots - 1
  /\ UNCHANGED <<wm, wmRunning, startupSuspendCount, sessionGroup, registered>>
  /\ IF state = "LaunchingWM"
       THEN AutoStart0(startupSuspendCount, startupSuspendTimeoutTimer)
       ELSE UNCHANGED <<state, startupSuspendTimeoutTimer, phaseOver, kcmVars,
                        appVars>>

(* clientSetProgram of the window manager. *)
WMIdentified ==
  /\ wmRunning
  /\ state = "LaunchingWM"
  /\ UNCHANGED <<wmVars, startupSuspendCount, sessionGroup, registered>>
  /\ AutoStart0(startupSuspendCount, startupSuspendTimeoutTimer)

(* wmProcessChange: the window manager failed, or ended.  KWin replaces      *)
(* another one as long as the server is still in its first phase.            *)
WMProcessChange ==
  /\ wmRunning
  /\ IF state = "LaunchingWM" /\ wm # "kwin"
       THEN /\ wm' = "kwin"
            /\ wmShots' = wmShots + 1
            /\ UNCHANGED wmRunning
       ELSE /\ wmRunning' = FALSE
            /\ UNCHANGED <<wm, wmShots>>
  /\ UNCHANGED <<state, suspendVars, kcmVars, sessionGroup, appVars, registered>>

------------------------------------------------------------------------------
(* Signals of klauncher and kcminit, and the timers that protect them. *)

(* autoStart0Done and autoStart1Done are disconnected once received. *)
AutoStart0Signalled ==
  /\ state = "AutoStart0"
  /\ ~phaseOver
  /\ AutoStart0Done(startupSuspendCount, startupSuspendTimeoutTimer)
  /\ UNCHANGED <<wmVars, startupSuspendCount, sessionGroup, registered>>

AutoStart1Signalled ==
  /\ state = "AutoStart1"
  /\ ~phaseOver
  /\ UNCHANGED <<wmVars, startupSuspendCount, sessionGroup, registered>>
  /\ AutoStart1Done(startupSuspendCount, startupSuspendTimeoutTimer)

(* kcmPhase1Done and autoStart1; the timers `shots' are left. *)
KcmPhase1Done(shots) ==
  /\ state' = IF state = "KcmInitPhase1" THEN "AutoStart1" ELSE state
  /\ kcmShots' = shots
  /\ UNCHANGED <<wmVars, suspendVars, kcminitSignals, waitAutoStart2,
                 waitKcmInit2, sessionGroup, appVars, registered>>

KcmPhase1Signalled ==
  /\ state = "KcmInitPhase1"
  /\ kcminitSignals
  /\ KcmPhase1Done(kcmShots)

KcmPhase1Timeout ==
  \E shot \in kcmShots \cap {"phase1Now", "phase1Timeout"} :
    KcmPhase1Done(kcmShots \ {shot})

(* finishStartup, with what is still waited for. *)
FinishStartup(autoStart2, kcmInit2) ==
  /\ waitAutoStart2' = autoStart2
  /\ waitKcmInit2' = kcmInit2
  /\ state' = IF autoStart2 \/ kcmInit2 THEN state ELSE "Idle"

AutoStart2Signalled ==
  /\ state = "FinishingStartup"
  /\ waitAutoStart2
  /\ FinishStartup(FALSE, waitKcmInit2)
  /\ UNCHANGED <<wmVars, suspendVars, kcminitSignals, kcmShots, sessionGroup,
                 appVars, registered>>

(* kcmPhase2Done in its state *)
KcmPhase2Done(shots) ==
  /\ FinishStartup(waitAutoStart2, FALSE)
  /\ kcminitSignals' = FALSE
  /\ kcmShots' = shots
  /\ UNCHANGED <<wmVars, suspendVars, sessionGroup, appVars, registered>>

KcmPhase2Signalled ==
  /\ state = "FinishingStartup"
  /\ kcminitSignals
  /\ KcmPhase2Done(kcmShots)

KcmPhase2Timeout ==
  \E shot \in kcmShots \cap {"phase2Now", "phase2Timeout"} :
    IF state = "FinishingStartup" /\ waitKcmInit2
      THEN KcmPhase2Done(kcmShots \ {shot})
      ELSE /\ kcmShots' = kcmShots \ {shot}
           /\ UNCHANGED <<state, wmVars, suspendVars, kcminitSignals,
                          waitAutoStart2, waitKcmInit2, sessionGroup, appVars,
                          registered>>

------------------------------------------------------------------------------
(* Suspending the startup. *)

SuspendStartup(a) ==
  /\ startupSuspendCount[a] < MaxSuspend
  /\ startupSuspendCount' = [startupSuspendCount EXCEPT ![a] = @ + 1]
  /\ UNCHANGED <<state, wmVars, startupSuspendTimeoutTimer, phaseOver, kcmVars,
                 sessionGroup, appVars, registered>>

(* resumeStartupInternal: the phase's slot is called again.  The timer never *)
(* runs in another state than these (TimerMeansHeldUp).                      *)
ResumeStartupInternal ==
  /\ startupSuspendCount' = NobodySuspends
  /\ UNCHANGED <<wmVars, sessionGroup, registered>>
  /\ \/ state = "LaunchingWM" /\ AutoStart0(NobodySuspends, FALSE)
     \/ state = "AutoStart0" /\ AutoStart0Done(NobodySuspends, FALSE)
     \/ state = "AutoStart1" /\ AutoStart1Done(NobodySuspends, FALSE)
     \/ /\ state = "Restoring"
        /\ AutoStart2(NobodySuspends, FALSE)
        /\ UNCHANGED appVars

SlipResumeLeavesTimer(a) ==
  /\ startupSuspendCount[a] > 0
  /\ startupSuspendCount' = [startupSuspendCount EXCEPT ![a] = @ - 1]
  /\ UNCHANGED <<state, wmVars, startupSuspendTimeoutTimer, phaseOver, kcmVars,
                 sessionGroup, appVars, registered>>

SlipResumeUnknown(a) ==
  /\ startupSuspendCount' = [startupSuspendCount EXCEPT ![a] = @ - 1]
  /\ UNCHANGED <<state, wmVars, startupSuspendTimeoutTimer, phaseOver, kcmVars,
                 sessionGroup, appVars, registered>>

ResumeStartup(a) ==
  LET count == [startupSuspendCount EXCEPT ![a] = @ - 1]
  IN /\ startupSuspendCount[a] > 0
     /\ IF count = NobodySuspends /\ startupSuspendTimeoutTimer
          THEN ResumeStartupInternal
          ELSE /\ startupSuspendCount' = count
               /\ UNCHANGED <<state, wmVars, startupSuspendTimeoutTimer,
                              phaseOver, kcmVars, sessionGroup, appVars,
                              registered>>

StartupSuspendTimeout ==
  /\ startupSuspendTimeoutTimer
  /\ ResumeStartupInternal

------------------------------------------------------------------------------
(* Restoring applications. *)

(* clientRegistered, of an application that was started with its old id *)
ClientRegistered(id) ==
  /\ id \in launched \ registered
  /\ registered' = registered \cup {id}
  /\ UNCHANGED <<wmVars, startupSuspendCount, sessionGroup>>
  /\ IF id = lastIdStarted /\ state \in {"Restoring", "RestoringSubSession"}
       THEN TryRestoreNext(state, lastAppStarted, appsToStart, startupSuspendCount)
       ELSE UNCHANGED <<state, startupSuspendTimeoutTimer, phaseOver, kcmVars,
                        appVars>>

RestoreTimeout ==
  /\ restoreTimer
  /\ UNCHANGED <<wmVars, startupSuspendCount, sessionGroup, registered>>
  /\ TryRestoreNext(state, lastAppStarted, appsToStart, startupSuspendCount)

ClientGone(id) ==
  /\ id \in registered
  /\ registered' = registered \ {id}
  /\ UNCHANGED <<state, wmVars, suspendVars, kcmVars, sessionGroup, appVars>>

(* restoreSubSession, whatever the state is *)
RestoreSubSession ==
  /\ SubSessions # "never"
  /\ SubSessions = "idle" => state = "Idle"
  /\ sessionGroup' = "SubSession"
  /\ UNCHANGED <<wmVars, startupSuspendCount, registered>>
  /\ TryRestoreNext("RestoringSubSession", 0, Len(Saved["SubSession"]),
                    startupSuspendCount)

------------------------------------------------------------------------------
(* restoreSession or startDefaultSession, and launchWM *)
Init ==
  /\ state = "LaunchingWM"
  /\ wm = InitialWM
  /\ wmRunning = TRUE
  /\ wmShots = 1
  /\ startupSuspendCount = NobodySuspends
  /\ startupSuspendTimeoutTimer = FALSE
  /\ phaseOver = FALSE
  /\ kcminitSignals = FALSE
  /\ kcmShots = {}
  /\ waitAutoStart2 = FALSE
  /\ waitKcmInit2 = FALSE
  /\ sessionGroup \in {"Session", ""}
  /\ appsToStart = IF sessionGroup = "" THEN 0 ELSE Len(Saved["Session"])
  /\ lastAppStarted = 0
  /\ lastIdStarted = NoId
  /\ restoreTimer = FALSE
  /\ registered = {}
  /\ launched = {}
  /\ starts = [i \in DOMAIN Saved["Session"] |-> 0]

Signal ==
  \/ AutoStart0Signalled
  \/ KcmPhase1Signalled
  \/ AutoStart1Signalled
  \/ AutoStart2Signalled
  \/ KcmPhase2Signalled

Timer ==
  \/ WMTimeout
  \/ KcmPhase1Timeout
  \/ KcmPhase2Timeout
  \/ StartupSuspendTimeout
  \/ RestoreTimeout

Next ==
  \/ WMIdentified
  \/ WMProcessChange
  \/ Signal
  \/ Timer
  \/ \E a \in App : SuspendStartup(a) \/ ResumeStartup(a)
  \/ \E id \in Id : ClientRegistered(id) \/ ClientGone(id)
  \/ RestoreSubSession

Spec == Init /\ [][Next]_vars

(* Timers fire.  The signals of klauncher are needed too: nothing in the     *)
(* server stands in for them.  kcminit, the window manager, the clients that *)
(* suspend the startup and those that are restored may never be heard of.    *)
FairSpec ==
  /\ Spec
  /\ WF_vars(WMTimeout)
  /\ WF_vars(KcmPhase1Timeout)
  /\ WF_vars(KcmPhase2Timeout)
  /\ WF_vars(StartupSuspendTimeout)
  /\ WF_vars(RestoreTimeout)
  /\ WF_vars(AutoStart0Signalled)
  /\ WF_vars(AutoStart1Signalled)
  /\ WF_vars(AutoStart2Signalled)

------------------------------------------------------------------------------
(* Properties *)

TypeOK ==
  /\ state \in States
  /\ wm \in {InitialWM, "kwin"}
  /\ wmRunning \in BOOLEAN
  /\ wmShots \in 0 .. 2
  /\ startupSuspendCount \in [App -> 0 .. MaxSuspend]
  /\ startupSuspendTimeoutTimer \in BOOLEAN
  /\ phaseOver \in BOOLEAN
  /\ kcminitSignals \in BOOLEAN
  /\ kcmShots \subseteq KcmShots
  /\ waitAutoStart2 \in BOOLEAN
  /\ waitKcmInit2 \in BOOLEAN
  /\ sessionGroup \in {"Session", "SubSession", ""}
  /\ appsToStart \in Nat
  /\ lastAppStarted \in Nat
  /\ lastIdStarted \in Id \cup {NoId}
  /\ restoreTimer \in BOOLEAN
  /\ launched \subseteq Id
  /\ registered \subseteq launched
  /\ starts \in [DOMAIN Saved["Session"] -> Nat]

(* In every phase something is outstanding that ends it: a timer, or a       *)
(* signal of klauncher that is still connected.  The signals are             *)
(* disconnected before checkStartupSuspend is asked, so a phase that is held *)
(* up must have the timer of the suspension; and kcminit's phases must have  *)
(* the `protection' timers.                                                  *)
StartupDriven ==
  /\ state = "LaunchingWM" => wmShots > 0 \/ startupSuspendTimeoutTimer
  /\ state \in {"AutoStart0", "AutoStart1"} =>
       ~phaseOver \/ startupSuspendTimeoutTimer
  /\ state = "KcmInitPhase1" => kcmShots \cap {"phase1Now", "phase1Timeout"} # {}
  /\ state \in {"Restoring", "RestoringSubSession"} =>
       restoreTimer \/ startupSuspendTimeoutTimer
  /\ state = "FinishingStartup" =>
       \/ waitAutoStart2
       \/ waitKcmInit2 /\ kcmShots \cap {"phase2Now", "phase2Timeout"} # {}

(* The timer of the suspension runs only while a client suspends a phase     *)
(* that is over otherwise: when it fires it resumes that very phase, never a *)
(* later one (resumeStartupInternal warns of an `unknown resume startup      *)
(* state'), and the client that resumes last stops it.                       *)
TimerMeansHeldUp ==
  startupSuspendTimeoutTimer =>
    /\ startupSuspendCount # NobodySuspends
    /\ phaseOver
    /\ state \in {"LaunchingWM", "AutoStart0", "AutoStart1", "Restoring"}

(* The saved session has been seen through when the server is at another, or *)
(* at none.                                                                  *)
Startup == INSTANCE StartupSequence WITH
  Session <- Saved["Session"],
  phase   <- IF state \in {"Idle", "RestoringSubSession"} THEN "Up" ELSE state,
  seen    <- IF sessionGroup = "Session" THEN lastAppStarted
               ELSE Len(Saved["Session"]),
  started <- starts

(* The startup runs through all its phases in turn.  Between autostart 1 and *)
(* 2 it starts the applications of the saved session in their order, each    *)
(* once, and none is passed over whose client is not back already; later     *)
(* timeouts and registrations start none of them again.  And the session     *)
(* comes up although kcminit, the window manager, suspending clients and     *)
(* restored applications may never be heard of.                              *)
ImplementsStartup == Startup!Spec

------------------------------------------------------------------------------
(* A statement of the source that the code does not keep. *)

(* After launching the window manager ksmserver goes through the autostart   *)
(* and kcminit phases, and "also tells klauncher to perform autostart phase   *)
(* 2" (README, KDE startup sequence): a startup ends with its last phase.     *)
StartupNotAborted ==
  [][state' \in {"Idle", "RestoringSubSession"} /\ state # state' =>
       state \in {"FinishingStartup", "Idle", "RestoringSubSession"}]_vars
==============================================================================
