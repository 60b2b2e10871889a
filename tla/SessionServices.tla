--------------------------- MODULE SessionServices ---------------------------
(***************************************************************************)
(* The policy agent (a module of kded), the screen locker (in ksmserver)   *)
(* and the applications that use them, on the session bus.                 *)
(*                                                                         *)
(* The bus takes the messages of a sender in the order they were sent, and *)
(* each service handles what the bus brought it in that order, one at a    *)
(* time.  kded handles nothing while forceLockAndWait waits for the locker, *)
(* and ksmserver nothing while Interface::Inhibit waits for the agent; each *)
(* call that is waited for may run into the time limit of the bus (25 s).  *)
(* A service that wants to know of a name's end has the bus send it: the   *)
(* match is in effect once the bus has taken the AddMatch, and comes too   *)
(* late for a name that went before.                                       *)
(*                                                                         *)
(* An application does one call at a time, may call with the cookies it    *)
(* was given, also more than once, and may go at any moment.               *)
(*                                                                         *)
(* Definitions named Slip... are variants with a mistake.                  *)
(***************************************************************************)
EXTENDS PolicyAgent, ScreenLocker

CONSTANTS
  Apps,         \* names of the applications
  Locker,       \* the name of ksmserver
  Agent,        \* the name of kded
  AppTypes,     \* policies that applications inhibit, a set of sets
  MaxEvents,    \* bound: calls, ends, signals, restarts, failures and user actions
  MaxForced,    \* bound: lock signals of the login manager
  MaxRestarts   \* bound: restarts of kded

ASSUME SessionAssumption ==
  /\ Locker \notin Apps /\ Agent \notin Apps \cup {Locker}
  /\ Services = Apps \cup {Locker} /\ IsFiniteSet(Apps)
  /\ NoCaller \notin Services \cup {Agent}
  /\ AppTypes \subseteq SUBSET Policies
  /\ MaxEvents \in Nat /\ MaxForced \in Nat /\ MaxRestarts \in Nat

VARIABLES
  alive,        \* the applications that are on the bus
  waiting,      \* the applications that wait for an answer
  lockerGrants, \* the cookies each application was given by the locker
  agentGrants,  \* and by the agent
  events,       \* how many of these there were
  matches,      \* <<watcher, name>>: the bus tells the watcher of the name's end
  agentQueue,   \* what the bus brought to kded, not yet handled
  lockerQueue,  \* and to ksmserver
  agentOut,     \* messages that kded has sent, not yet taken by the bus
  agentReply,   \* the answer to the call ksmserver waits for: << >> or <<cookie>>
  forcing,      \* forceLockAndWait waits for an answer
  forced,       \* lock signals there were, each with a call of Lock
  locksAnswered, \* how many of these calls ksmserver has answered
  restarts,     \* restarts of kded
  lost          \* cookies whose answer came after ksmserver gave up on it

appVars == <<alive, waiting, lockerGrants, agentGrants>>

busVars == <<matches, agentQueue, lockerQueue, agentReply, lost>>

kdedVars == <<agentOut, forcing, forced, locksAnswered, restarts>>

vars == <<agentVars, lockerVars, appVars, busVars, kdedVars, events>>

------------------------------------------------------------------------------
(* The applications. *)

CallsAgent(msg) ==
  /\ agentQueue' = Append(agentQueue, msg)
  /\ UNCHANGED lockerQueue

CallsLocker(msg) ==
  /\ lockerQueue' = Append(lockerQueue, msg)
  /\ UNCHANGED agentQueue

Event == events < MaxEvents /\ events' = events + 1

MayCall(a) == a \in alive \ waiting /\ Event

CallUnchanged == UNCHANGED <<agentVars, lockerVars, kdedVars, alive, lockerGrants,
                             agentGrants, matches, agentReply, lost>>

AppInhibits(a) ==
  /\ MayCall(a) /\ CallUnchanged
  /\ CallsLocker([kind |-> "Inhibit", from |-> a])
  /\ waiting' = waiting \cup {a}

AppUnInhibits(a) ==
  /\ MayCall(a) /\ CallUnchanged
  /\ \E c \in lockerGrants[a] :
       CallsLocker([kind |-> "UnInhibit", from |-> a, cookie |-> c])
  /\ UNCHANGED waiting

AppLocks(a) ==
  /\ MayCall(a) /\ CallUnchanged
  /\ CallsLocker([kind |-> "Lock", from |-> a])
  /\ waiting' = waiting \cup {a}

AppAddsInhibition(a) ==
  /\ MayCall(a) /\ CallUnchanged
  /\ \E types \in AppTypes :
       CallsAgent([kind |-> "AddInhibition", from |-> a, types |-> types])
  /\ waiting' = waiting \cup {a}

AppReleases(a) ==
  /\ MayCall(a) /\ CallUnchanged
  /\ \E c \in agentGrants[a] :
       CallsAgent([kind |-> "ReleaseInhibition", from |-> a, cookie |-> c])
  /\ UNCHANGED waiting

AppForcesAll(a) ==
  /\ MayCall(a) /\ CallUnchanged
  /\ CallsAgent([kind |-> "ForceUnInhibitAll", from |-> a])
  /\ UNCHANGED waiting

(* The bus tells the watchers whose match is in effect. *)
AppGoes(a) ==
  LET gone == [kind |-> "Gone", from |-> a]
      Told(watcher, queue) == IF <<watcher, a>> \in matches THEN Append(queue, gone)
                              ELSE queue
  IN /\ a \in alive /\ Event
     /\ alive' = alive \ {a}
     /\ waiting' = waiting \ {a}
     /\ agentQueue' = Told(Agent, agentQueue)
     /\ lockerQueue' = Told(Locker, lockerQueue)
     /\ UNCHANGED <<agentVars, lockerVars, kdedVars, lockerGrants, agentGrants,
                    matches, agentReply, lost>>

------------------------------------------------------------------------------
(* The bus takes the next message of a service. *)

(* A match for an application that has gone never matters. *)
Matched(watcher, m) ==
  matches' = CASE m.kind = "AddMatch" /\ m.service \in alive \cup {Locker} ->
                    matches \cup {<<watcher, m.service>>}
               [] m.kind = "RemoveMatch" -> matches \ {<<watcher, m.service>>}
               [] OTHER -> matches

(* The answer to the call with this serial is still waited for. *)
Awaited(serial) == inhibiting # NoCaller /\ serial = nextCookie

AgentSends ==
  /\ agentOut # << >>
  /\ LET m == Head(agentOut)
         late == m.kind = "Return" /\ m.to = Locker /\ ~Awaited(m.serial)
     IN /\ Matched(Agent, m)
        /\ lockerQueue' = IF m.kind = "Lock"
                          THEN Append(lockerQueue, [kind |-> "Lock", from |-> Agent])
                          ELSE lockerQueue
        /\ agentReply' = IF m.kind = "Return" /\ m.to = Locker /\ ~late
                         THEN <<m.cookie>> ELSE agentReply
        /\ lost' = IF late THEN lost \cup {m.cookie} ELSE lost
        /\ IF m.kind = "Return" /\ m.to \in alive
           THEN /\ agentGrants' = [agentGrants EXCEPT ![m.to] = @ \cup {m.cookie}]
                /\ waiting' = waiting \ {m.to}
           ELSE UNCHANGED <<agentGrants, waiting>>
  /\ agentOut' = Tail(agentOut)
  /\ UNCHANGED <<agentVars, lockerVars, forcing, forced, locksAnswered, restarts, alive,
                 lockerGrants, agentQueue, events>>

(* ksmserver answers the calls of Lock in the order it got them, so that   *)
(* kded has the answer it waits for, to its last call, once all its calls  *)
(* are answered; those before are answers it gave up on.                   *)
LockerSends ==
  /\ lockerOut # << >>
  /\ LET m == Head(lockerOut)
     IN /\ Matched(Locker, m)
        /\ agentQueue' = CASE m.kind = "AddInhibition" ->
                                Append(agentQueue, [kind |-> "AddInhibition", from |-> Locker,
                                       types |-> {"ChangeScreenSettings"}, serial |-> m.serial])
                           [] m.kind = "ReleaseInhibition" ->
                                Append(agentQueue, [kind |-> "ReleaseInhibition",
                                                    from |-> Locker, cookie |-> m.cookie])
                           [] OTHER -> agentQueue
        /\ lockerGrants' = IF m.kind = "Return" /\ m.to \in alive
                           THEN [lockerGrants EXCEPT ![m.to] = @ \cup {m.cookie}]
                           ELSE lockerGrants
        /\ waiting' = IF m.kind \in {"Return", "LockDone"} THEN waiting \ {m.to} ELSE waiting
        /\ IF m.kind = "LockDone" /\ m.to = Agent
           THEN /\ locksAnswered' = locksAnswered + 1
                /\ forcing' = (forcing /\ locksAnswered' # forced)
           ELSE UNCHANGED <<locksAnswered, forcing>>
  /\ lockerOut' = Tail(lockerOut)
  /\ UNCHANGED <<agentVars, ksld, lockGrace, greeterFailures, interfaceVars, lockReplies,
                 agentOut, forced, restarts, alive, agentGrants, lockerQueue,
                 agentReply, lost, events>>

------------------------------------------------------------------------------
(* kded. *)

AgentTakes(kind) ==
  /\ ~forcing
  /\ agentQueue # << >>
  /\ Head(agentQueue).kind = kind
  /\ agentQueue' = Tail(agentQueue)

AgentUnchanged == UNCHANGED <<lockerVars, appVars, forcing, forced, locksAnswered, restarts,
                              matches, lockerQueue, agentReply, lost, events>>

(* What QDBusServiceWatcher sends for the names it stops to watch. *)
RemoveMatches ==
  LET gone == SetToSeq(watched \ watched')
  IN [i \in DOMAIN gone |-> [kind |-> "RemoveMatch", service |-> gone[i]]]

AgentAdds ==
  /\ AgentTakes("AddInhibition")
  /\ LET m == Head(agentQueue)
     IN /\ AddInhibition(m.types, m.from)
        /\ agentOut' = agentOut
             \o (IF m.from \in watched THEN << >>
                 ELSE <<[kind |-> "AddMatch", service |-> m.from]>>)
             \o <<[kind |-> "Return", to |-> m.from, cookie |-> lastCookie',
                   serial |-> IF m.from = Locker THEN m.serial ELSE 0]>>
  /\ AgentUnchanged

AgentReleases ==
  /\ AgentTakes("ReleaseInhibition")
  /\ ReleaseInhibition(Head(agentQueue).cookie)
  /\ agentOut' = agentOut \o RemoveMatches
  /\ AgentUnchanged

AgentReleasesAll ==
  /\ AgentTakes("ForceUnInhibitAll")
  /\ releaseAllInhibitions
  /\ agentOut' = agentOut \o RemoveMatches
  /\ AgentUnchanged

AgentHearsOfEnd ==
  /\ AgentTakes("Gone")
  /\ onServiceUnregistered(Head(agentQueue).from)
  /\ agentOut' = agentOut \o RemoveMatches
  /\ AgentUnchanged

(* The login manager asks for the lock: forceLockAndWait. *)
AgentForcesLock ==
  /\ ~forcing
  /\ forced < MaxForced /\ Event
  /\ forced' = forced + 1
  /\ forcing' = TRUE
  /\ agentOut' = Append(agentOut, [kind |-> "Lock"])
  /\ UNCHANGED <<agentVars, lockerVars, appVars, busVars, locksAnswered, restarts>>

(* The answer of ksmserver takes longer than the time limit because       *)
(* ksmserver waits for kded in turn, or for the greeter.                  *)
AgentTimesOut ==
  /\ forcing
  /\ inhibiting # NoCaller \/ \E i \in DOMAIN lockReplies : lockReplies[i] = Agent
  /\ forcing' = FALSE
  /\ UNCHANGED <<agentVars, lockerVars, appVars, busVars, agentOut, forced,
                 locksAnswered, restarts, events>>

(* kded goes and is started again.  The bus has taken all it sent, and     *)
(* answers the calls it had not handled with errors.                       *)
AgentRestarts ==
  /\ restarts < MaxRestarts /\ Event
  /\ agentOut = << >>
  /\ restarts' = restarts + 1
  /\ AgentRestart
  /\ forcing' = FALSE
  /\ agentQueue' = << >>
  /\ waiting' = waiting \ {a \in waiting : \E i \in DOMAIN agentQueue :
                              /\ agentQueue[i].kind = "AddInhibition"
                              /\ agentQueue[i].from = a}
  /\ agentReply' = IF \E i \in DOMAIN agentQueue :
                        /\ agentQueue[i].kind = "AddInhibition"
                        /\ agentQueue[i].from = Locker
                        /\ Awaited(agentQueue[i].serial)
                   THEN <<0>> ELSE agentReply
  /\ matches' = {m \in matches : m[1] # Agent}
  /\ lost' = {}
  /\ UNCHANGED <<lockerVars, alive, lockerGrants, agentGrants, lockerQueue,
                 agentOut, forced, locksAnswered>>

------------------------------------------------------------------------------
(* ksmserver. *)

LockerTakes(kind) ==
  /\ Idle
  /\ lockerQueue # << >>
  /\ Head(lockerQueue).kind = kind
  /\ lockerQueue' = Tail(lockerQueue)

LockerUnchanged == UNCHANGED <<agentVars, kdedVars, appVars, matches, agentQueue,
                               agentReply, lost, events>>

LockerInhibits ==
  /\ LockerTakes("Inhibit") /\ LockerUnchanged
  /\ Inhibit(Head(lockerQueue).from)

LockerUnInhibits ==
  /\ LockerTakes("UnInhibit") /\ LockerUnchanged
  /\ UnInhibit(Head(lockerQueue).cookie)

LockerLocks ==
  /\ LockerTakes("Lock") /\ LockerUnchanged
  /\ \E grabbed, started \in BOOLEAN : Lock(Head(lockerQueue).from, grabbed, started)

LockerHearsOfEnd ==
  /\ LockerTakes("Gone") /\ LockerUnchanged
  /\ serviceUnregistered(Head(lockerQueue).from)

LockerIsAnswered ==
  /\ inhibiting # NoCaller
  /\ agentReply # << >>
  /\ InhibitReturns(Head(agentReply))
  /\ agentReply' = << >>
  /\ UNCHANGED <<agentVars, kdedVars, appVars, matches, agentQueue, lockerQueue, lost,
                 events>>

(* The answer of kded takes longer than the time limit because kded waits *)
(* for ksmserver in turn.                                                 *)
LockerTimesOut ==
  /\ forcing
  /\ inhibiting # NoCaller
  /\ agentReply = << >>
  /\ InhibitReturns(0)
  /\ UNCHANGED <<agentVars, kdedVars, appVars, busVars, events>>

OthersUnchanged == UNCHANGED <<agentVars, kdedVars, appVars, busVars>>

LockerGreeterReady == GreeterReady /\ OthersUnchanged /\ UNCHANGED events

LockerGreeterSucceeds == GreeterSucceeds /\ OthersUnchanged /\ UNCHANGED events

LockerGreeterFails ==
  /\ Event /\ OthersUnchanged
  /\ \E started \in BOOLEAN : GreeterFails(started)

LockerIdleTimeout ==
  /\ Event /\ OthersUnchanged
  /\ \E grabbed, started \in BOOLEAN : IdleTimeout(grabbed, started)

LockerGraceEnds == EndGraceTime /\ OthersUnchanged /\ UNCHANGED events

LockerActivity == Activity /\ Event /\ OthersUnchanged

LockerShortcut ==
  /\ Event /\ OthersUnchanged
  /\ \E grabbed, started \in BOOLEAN : LockShortcut(grabbed, started)

------------------------------------------------------------------------------
Init ==
  /\ AgentInit
  /\ LockerInit
  /\ alive = Apps
  /\ waiting = {}
  /\ lockerGrants = [a \in Apps |-> {}]
  /\ agentGrants = [a \in Apps |-> {}]
  /\ events = 0
  /\ matches = {}
  /\ agentQueue = << >>
  /\ lockerQueue = << >>
  /\ agentOut = << >>
  /\ agentReply = << >>
  /\ forcing = FALSE
  /\ forced = 0
  /\ locksAnswered = 0
  /\ restarts = 0
  /\ lost = {}

Next ==
  \/ \E a \in Apps : \/ AppInhibits(a) \/ AppUnInhibits(a) \/ AppLocks(a)
                     \/ AppAddsInhibition(a) \/ AppReleases(a) \/ AppForcesAll(a)
                     \/ AppGoes(a)
  \/ AgentSends \/ AgentAdds \/ AgentReleases \/ AgentReleasesAll
  \/ AgentHearsOfEnd \/ AgentForcesLock \/ AgentTimesOut \/ AgentRestarts
  \/ LockerSends \/ LockerInhibits \/ LockerUnInhibits \/ LockerLocks
  \/ LockerHearsOfEnd \/ LockerIsAnswered \/ LockerTimesOut
  \/ LockerGreeterReady \/ LockerGreeterSucceeds \/ LockerGreeterFails
  \/ LockerIdleTimeout \/ LockerGraceEnds \/ LockerActivity \/ LockerShortcut

AgentHandles == AgentAdds \/ AgentReleases \/ AgentReleasesAll \/ AgentHearsOfEnd

LockerHandles ==
  LockerInhibits \/ LockerUnInhibits \/ LockerLocks \/ LockerHearsOfEnd

(* As long as the bus or one of the event loops has something to do, one   *)
(* of them does something; the time limit of a call runs out, and a        *)
(* greeter that was started gets ready.  Applications, users and the login *)
(* manager need not do anything.                                           *)
GoesOn ==
  \/ AgentSends \/ LockerSends \/ AgentHandles \/ LockerHandles \/ LockerIsAnswered
  \/ AgentTimesOut \/ LockerTimesOut \/ LockerGreeterReady

Fairness == WF_vars(GoesOn)

Spec == Init /\ [][Next]_vars /\ Fairness

------------------------------------------------------------------------------
Serial == 0 .. MaxInhibits

AgentMessage ==
  [kind : {"AddInhibition"}, from : Apps, types : SUBSET Policies]
    \cup [kind : {"AddInhibition"}, from : {Locker}, types : SUBSET Policies, serial : Serial]
    \cup [kind : {"ReleaseInhibition"}, from : Services, cookie : Cookies]
    \cup [kind : {"ForceUnInhibitAll", "Gone"}, from : Apps]

LockerMessage ==
  [kind : {"Inhibit", "Lock", "Gone"}, from : Apps]
    \cup [kind : {"Lock"}, from : {Agent}]
    \cup [kind : {"UnInhibit"}, from : Apps, cookie : Serial]

AgentSent ==
  [kind : {"AddMatch", "RemoveMatch"}, service : Services]
    \cup [kind : {"Return"}, to : Services, cookie : Cookies, serial : Serial]
    \cup [kind : {"Lock"}]

LockerSent ==
  [kind : {"AddMatch", "RemoveMatch"}, service : Apps]
    \cup [kind : {"AddInhibition"}, serial : Serial]
    \cup [kind : {"ReleaseInhibition"}, cookie : Cookies]
    \cup [kind : {"Return"}, to : Apps, cookie : Serial]
    \cup [kind : {"LockDone"}, to : Apps \cup {Agent}]

Request == [cookie : Serial, dbusid : Apps, powerdevilcookie : Cookies \cup {0}]

LockerTypeOK ==
  /\ ksld \in Ksld /\ lockGrace \in GraceTimes
  /\ greeterFailures \in 0 .. MaxFailures
  /\ requests \subseteq Request /\ nextCookie \in Serial
  /\ lockReplies \in Seq(Apps \cup {Agent})
  /\ lockerWatched \subseteq Apps /\ inhibiting \in Apps \cup {NoCaller}
  /\ (inhibiting # NoCaller => nextCookie < MaxInhibits)
  /\ lockerOut \in Seq(LockerSent)

AppTypeOK ==
  /\ alive \subseteq Apps /\ waiting \subseteq Apps
  /\ lockerGrants \in [Apps -> SUBSET Serial]
  /\ agentGrants \in [Apps -> SUBSET Cookies]
  /\ events \in 0 .. MaxEvents

BusTypeOK ==
  /\ matches \subseteq {Agent, Locker} \X Services
  /\ agentQueue \in Seq(AgentMessage) /\ lockerQueue \in Seq(LockerMessage)
  /\ agentReply \in {<< >>} \cup {<<c>> : c \in Cookies \cup {0}}
  /\ lost \subseteq Cookies

KdedTypeOK ==
  /\ agentOut \in Seq(AgentSent)
  /\ forcing \in BOOLEAN /\ forced \in 0 .. MaxForced /\ locksAnswered \in Nat
  /\ restarts \in 0 .. MaxRestarts

(* The variables of the parties, and the messages between them, are of     *)
(* their types.                                                            *)
TypeOK == AgentTypeOK /\ LockerTypeOK /\ AppTypeOK /\ BusTypeOK /\ KdedTypeOK

(* An application that has had its answer is watched as long as an         *)
(* inhibition of its is kept: the match is in effect before the answer     *)
(* arrives, and is dropped only with the last cookie of the application,   *)
(* although the agent and the locker stop and start watching a name again  *)
(* and again while messages are under way.                                 *)
AnsweredIsWatched ==
  \A a \in alive \ waiting :
    /\ cookiesOf(a) # {} => <<Agent, a>> \in matches
    /\ (\E r \in requests : r.dbusid = a) => <<Locker, a>> \in matches

InAgentQueue(c) ==
  \E i \in DOMAIN agentQueue : /\ agentQueue[i].kind = "ReleaseInhibition"
                               /\ agentQueue[i].from = Locker
                               /\ agentQueue[i].cookie = c

InLockerOut(c) ==
  \E i \in DOMAIN lockerOut : /\ lockerOut[i].kind = "ReleaseInhibition"
                              /\ lockerOut[i].cookie = c

InAgentOut(c) ==
  \E i \in DOMAIN agentOut : /\ agentOut[i].kind = "Return" /\ agentOut[i].to = Locker
                             /\ agentOut[i].cookie = c

(* Every inhibition that the agent holds for the locker is one of a        *)
(* request the locker keeps, or its cookie or its release is under way, or *)
(* the locker had given up waiting for it: then nobody will release it.    *)
LockerCookiesAccounted ==
  \A c \in cookiesOf(Locker) :
    \/ \E r \in requests : r.powerdevilcookie = c
    \/ agentReply = <<c>> \/ InAgentOut(c)
    \/ InAgentQueue(c) \/ InLockerOut(c)
    \/ c \in lost

(* As long as kded has not been restarted, an inhibition is released by    *)
(* the service that added it: the cookies that the locker and the          *)
(* applications keep are not mixed up, and none is given twice.            *)
ReleasesOwn ==
  restarts = 0 =>
    \A i \in DOMAIN agentQueue :
      agentQueue[i].kind = "ReleaseInhibition" =>
        cookieToBusService[agentQueue[i].cookie] \in {agentQueue[i].from, NoService}

(* The automatic lock is held off exactly as long as there are requests.   *)
CounterIsRequests == ksld.inhibitCounter = Cardinality(requests)

(* When the lock is gone so is the greeter, and nobody is left waiting for *)
(* a reply to Lock; replies are delayed only while the lock is acquired.   *)
LockAgrees ==
  /\ ksld.lockState = "Unlocked" => ksld.greeter = "none" /\ ~ksld.graceTimeKill
  /\ lockReplies # << >> => ksld.lockState = "AcquiringLock"
  /\ ksld.lockState # "Unlocked" /\ ksld.greeter = "none" => greeterFailures > 0

(* The greeter failed and could not be started again. *)
GreeterGivenUp == ksld.lockState # "Unlocked" /\ ksld.greeter = "none"

(* Every call is answered in the end, although kded may wait for ksmserver *)
(* while ksmserver waits for kded; only a greeter that cannot be started   *)
(* again leaves the callers of Lock without an answer.                     *)
Waiting(a) == a \in waiting \/ (a = Agent /\ forcing)

CallsAreAnswered ==
  \A a \in Apps \cup {Agent} : Waiting(a) ~> (~Waiting(a) \/ GreeterGivenUp)

(* The inhibitions of an application that went are released by the agent,  *)
(* if its match was in effect, and by the locker, if its match was.        *)
KeepsNothing(a) ==
  /\ <<Agent, a>> \in matches => cookiesOf(a) = {}
  /\ <<Locker, a>> \in matches => \A r \in requests : r.dbusid # a

GoneIsReleased == \A a \in Apps : (a \notin alive) ~> KeepsNothing(a)
==============================================================================
