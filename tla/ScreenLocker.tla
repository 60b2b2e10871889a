----------------------------- MODULE ScreenLocker -----------------------------
(***************************************************************************)
(* The screen locker in ksmserver: KSldApp, which runs the greeter and     *)
(* keeps the state of the lock (ksldapp.cpp), and Interface, its face on   *)
(* the session bus (interface.cpp).                                        *)
(*                                                                         *)
(* ksld is the KSldApp object; the slots and calls that work on it alone   *)
(* are operators from ksld to ksld.  The greeter is a process: "none" is   *)
(* running, it is "starting", or "ready" once it has written to its        *)
(* output.  Each action is one event of ksmserver's event loop, which does *)
(* not run while a call of the policy agent is waited for (inhibiting).    *)
(* What ksmserver sends goes to lockerOut, in the order it is sent.        *)
(*                                                                         *)
(* Definitions named Slip... are variants with a mistake.                  *)
(***************************************************************************)
EXTENDS Integers, FiniteSets, SequencesExt

CONSTANTS
  NoCaller,     \* no Inhibit call is being handled
  GraceTimes,   \* values of m_lockGrace: "none" (0), "timed", "endless" (-1)
  MaxInhibits,  \* bound: Inhibit calls in a behaviour
  MaxFailures   \* bound: exits of the greeter that are failures

ASSUME ScreenLockerAssumption ==
  /\ GraceTimes \subseteq {"none", "timed", "endless"}
  /\ MaxInhibits \in Nat /\ MaxFailures \in Nat

VARIABLES
  ksld,          \* the KSldApp
  lockGrace,     \* m_lockGrace
  greeterFailures, \* exits of the greeter that were failures
  requests,      \* m_requests; their cookies differ
  nextCookie,    \* m_next_cookie, counted from its random start
  lockReplies,   \* m_lockReplies: whom Lock is still to be answered
  lockerWatched, \* the services m_serviceWatcher watches
  inhibiting,    \* the caller whose Inhibit is being handled, or NoCaller
  lockerOut      \* messages that ksmserver has sent

lockerVars == <<ksld, lockGrace, greeterFailures, requests, nextCookie,
                lockReplies, lockerWatched, inhibiting, lockerOut>>

interfaceVars == <<requests, nextCookie, lockerWatched, inhibiting>>

LockState == {"Unlocked", "AcquiringLock", "Locked"}

Ksld == [lockState : LockState, greeter : {"none", "starting", "ready"},
         inGraceTime : BOOLEAN, graceTimer : BOOLEAN, graceTimeKill : BOOLEAN,
         inhibitCounter : Int]

------------------------------------------------------------------------------
(* KSldApp. *)

endGraceTime(k) == [k EXCEPT !.graceTimer = FALSE, !.inGraceTime = FALSE]

doUnlock(k) == endGraceTime([k EXCEPT !.lockState = "Unlocked"])

startLockProcess(k, started) ==
  [k EXCEPT !.greeter = IF started THEN "starting" ELSE "none"]

(* lock(immediateLock): while locked it ends the grace time.  Otherwise    *)
(* the grab may fail, and so may the start of the greeter.  The SIGUSR1    *)
(* that tells a running greeter to ask for the password at once changes    *)
(* nothing here; one that it ends is a greeter that fails.                 *)
lock(k, grabbed, started) ==
  LET acquiring == startLockProcess([k EXCEPT !.lockState = "AcquiringLock"], started)
  IN IF k.lockState # "Unlocked" THEN endGraceTime(k)
     ELSE IF ~grabbed            THEN k
     ELSE IF started             THEN acquiring ELSE doUnlock(acquiring)

(* The grace time of an idle timeout: without a timer it does not end by   *)
(* itself.                                                                 *)
beginGraceTime(k) ==
  IF lockGrace = "none" THEN k
  ELSE [k EXCEPT !.inGraceTime = TRUE, !.graceTimer = (lockGrace = "timed")]

inhibit(k) == [k EXCEPT !.inhibitCounter = @ + 1]

------------------------------------------------------------------------------
(* Interface. *)

Answer(to, cookie) == [kind |-> "Return", to |-> to, cookie |-> cookie]

LockDone(to) == [kind |-> "LockDone", to |-> to]

(* sendLockReplies, which locked() and unlocked() lead to. *)
LockAnswers == [i \in DOMAIN lockReplies |-> LockDone(lockReplies[i])]

SlipForgetReplies == lockReplies' = << >> /\ UNCHANGED lockerOut

sendLockReplies ==
  /\ lockerOut' = lockerOut \o LockAnswers
  /\ lockReplies' = << >>

(* Lock, called over the bus, is answered later if the lock is being       *)
(* acquired.  Without a caller it is the shortcut, or the session manager  *)
(* at its start.                                                           *)
Lock(caller, grabbed, started) ==
  LET k == lock(ksld, grabbed, started)
  IN /\ ksld' = k
     /\ IF caller = NoCaller THEN UNCHANGED <<lockReplies, lockerOut>>
        ELSE IF k.lockState = "AcquiringLock"
             THEN /\ lockReplies' = Append(lockReplies, caller)
                  /\ UNCHANGED lockerOut
             ELSE /\ lockerOut' = Append(lockerOut, LockDone(caller))
                  /\ UNCHANGED lockReplies
     /\ UNCHANGED <<interfaceVars, lockGrace, greeterFailures>>

(* Inhibit calls the policy agent, and does the rest when that returns. *)
Inhibit(caller) ==
  /\ nextCookie < MaxInhibits
  /\ inhibiting' = caller
  /\ lockerOut' = Append(lockerOut, [kind |-> "AddInhibition", serial |-> nextCookie])
  /\ UNCHANGED <<ksld, lockGrace, greeterFailures, requests, nextCookie,
                 lockReplies, lockerWatched>>

(* powerdevilcookie is 0 if the call of the policy agent failed. *)
SlipAnswerFirst(powerdevilcookie) ==
  /\ requests' = requests \cup {[cookie |-> nextCookie, dbusid |-> inhibiting,
                                powerdevilcookie |-> powerdevilcookie]}
  /\ nextCookie' = nextCookie + 1
  /\ lockerWatched' = lockerWatched \cup {inhibiting}
  /\ lockerOut' = lockerOut \o <<Answer(inhibiting, nextCookie)>>
       \o (IF inhibiting \in lockerWatched THEN << >>
           ELSE <<[kind |-> "AddMatch", service |-> inhibiting]>>)
  /\ ksld' = inhibit(ksld)
  /\ inhibiting' = NoCaller
  /\ UNCHANGED <<lockGrace, greeterFailures, lockReplies>>

InhibitReturns(powerdevilcookie) ==
  /\ requests' = requests \cup {[cookie |-> nextCookie, dbusid |-> inhibiting,
                                powerdevilcookie |-> powerdevilcookie]}
  /\ nextCookie' = nextCookie + 1
  /\ lockerWatched' = lockerWatched \cup {inhibiting}
  /\ lockerOut' = lockerOut
       \o (IF inhibiting \in lockerWatched THEN << >>
           ELSE <<[kind |-> "AddMatch", service |-> inhibiting]>>)
       \o <<Answer(inhibiting, nextCookie)>>
  /\ ksld' = inhibit(ksld)
  /\ inhibiting' = NoCaller
  /\ UNCHANGED <<lockGrace, greeterFailures, lockReplies>>

(* What the policy agent is sent when the requests rs are dropped. *)
Releases(rs) ==
  LET backed == SetToSeq({r \in rs : r.powerdevilcookie # 0})
  IN [i \in DOMAIN backed |-> [kind |-> "ReleaseInhibition",
                               cookie |-> backed[i].powerdevilcookie]]

(* uninhibit() for each of them. *)
Dropped(rs) == [ksld EXCEPT !.inhibitCounter = @ - Cardinality(rs)]

(* UnInhibit, for the request with this cookie if there is one. *)
SlipKeepPolicy(cookie) ==
  LET rs == {r \in requests : r.cookie = cookie}
  IN /\ requests' = requests \ rs
     /\ ksld' = Dropped(rs)
     /\ UNCHANGED <<lockGrace, greeterFailures, nextCookie, lockReplies,
                    lockerWatched, inhibiting, lockerOut>>

UnInhibit(cookie) ==
  LET rs == {r \in requests : r.cookie = cookie}
  IN /\ requests' = requests \ rs
     /\ lockerOut' = lockerOut \o Releases(rs)
     /\ ksld' = Dropped(rs)
     /\ UNCHANGED <<lockGrace, greeterFailures, nextCookie, lockReplies,
                    lockerWatched, inhibiting>>

(* A service has gone: UnInhibit for each of its requests. *)
SlipUninhibitOnce(name) ==
  LET rs == {r \in requests : r.dbusid = name}
  IN /\ lockerWatched' = lockerWatched \ {name}
     /\ requests' = requests \ rs
     /\ lockerOut' = lockerOut \o Releases(rs)
     /\ ksld' = [ksld EXCEPT !.inhibitCounter = @ - 1]
     /\ UNCHANGED <<lockGrace, greeterFailures, nextCookie, lockReplies, inhibiting>>

serviceUnregistered(name) ==
  LET rs == {r \in requests : r.dbusid = name}
  IN /\ lockerWatched' = lockerWatched \ {name}
     /\ requests' = requests \ rs
     /\ lockerOut' = lockerOut
          \o (IF name \in lockerWatched
              THEN <<[kind |-> "RemoveMatch", service |-> name]>> ELSE << >>)
          \o Releases(rs)
     /\ ksld' = Dropped(rs)
     /\ UNCHANGED <<lockGrace, greeterFailures, nextCookie, lockReplies, inhibiting>>

------------------------------------------------------------------------------
(* Events of the greeter, of the timers and of the user. *)

Idle == inhibiting = NoCaller

(* lockProcessReady *)
GreeterReady ==
  /\ Idle
  /\ ksld.greeter = "starting"
  /\ ksld' = [ksld EXCEPT !.lockState = "Locked", !.greeter = "ready"]
  /\ sendLockReplies
  /\ UNCHANGED <<interfaceVars, lockGrace, greeterFailures>>

(* lockProcessFinished, for an exit that unlocks: the greeter succeeded,   *)
(* or it exits in any way after unlock() terminated it.  It need not have  *)
(* been ready.                                                             *)
SlipKeepKill ==
  /\ Idle
  /\ ksld.greeter # "none"
  /\ ksld' = doUnlock([ksld EXCEPT !.greeter = "none"])
  /\ sendLockReplies
  /\ UNCHANGED <<interfaceVars, lockGrace, greeterFailures>>

GreeterSucceeds ==
  /\ Idle
  /\ ksld.greeter # "none"
  /\ ksld' = doUnlock([ksld EXCEPT !.graceTimeKill = FALSE, !.greeter = "none"])
  /\ sendLockReplies
  /\ UNCHANGED <<interfaceVars, lockGrace, greeterFailures>>

(* lockProcessFinished, for a failure: the greeter is started again.  When *)
(* that fails, nothing more is done.                                       *)
GreeterFails(started) ==
  /\ Idle
  /\ greeterFailures < MaxFailures
  /\ ksld.greeter # "none" /\ ~ksld.graceTimeKill
  /\ greeterFailures' = greeterFailures + 1
  /\ ksld' = startLockProcess(ksld, started)
  /\ UNCHANGED <<interfaceVars, lockGrace, lockReplies, lockerOut>>

IdleTimeout(grabbed, started) ==
  /\ Idle
  /\ ksld.lockState = "Unlocked"
  /\ ksld.inhibitCounter = 0
  /\ LET k == lock(beginGraceTime(ksld), grabbed, started)
     IN ksld' = k
  /\ UNCHANGED <<interfaceVars, lockGrace, greeterFailures, lockReplies, lockerOut>>

EndGraceTime ==
  /\ Idle
  /\ ksld.graceTimer
  /\ ksld' = endGraceTime(ksld)
  /\ UNCHANGED <<interfaceVars, lockGrace, greeterFailures, lockReplies, lockerOut>>

(* The user moves while the lock window is shown: unlock(). *)
Activity ==
  /\ Idle
  /\ ksld.lockState # "Unlocked"
  /\ ksld.inGraceTime
  /\ ksld' = [ksld EXCEPT !.graceTimeKill = TRUE]
  /\ UNCHANGED <<interfaceVars, lockGrace, greeterFailures, lockReplies, lockerOut>>

LockShortcut(grabbed, started) == Idle /\ Lock(NoCaller, grabbed, started)

LockerInit ==
  /\ ksld = [lockState |-> "Unlocked", greeter |-> "none", inGraceTime |-> FALSE,
             graceTimer |-> FALSE, graceTimeKill |-> FALSE, inhibitCounter |-> 0]
  /\ lockGrace \in GraceTimes
  /\ greeterFailures = 0
  /\ requests = {}
  /\ nextCookie = 0
  /\ lockReplies = << >>
  /\ lockerWatched = {}
  /\ inhibiting = NoCaller
  /\ lockerOut = << >>
==============================================================================
