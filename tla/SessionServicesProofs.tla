------------------------ MODULE SessionServicesProofs ------------------------
(***************************************************************************)
(* Proofs about SessionServices, for any applications and any bounds: the  *)
(* variables and messages are of their types, the agent on the bus         *)
(* implements the agent of PolicyAgent, and the locker's state, its        *)
(* greeter, its counter and its delayed replies agree.  Of the messages    *)
(* under way: nobody's release hits the inhibition of another, the         *)
(* locker's cookies are accounted for, and an application that has its     *)
(* answer stays watched.                                                   *)
(***************************************************************************)
EXTENDS SessionServices, PolicyAgentProofs, FiniteSetTheorems

LEMMA SomeOrder ==
  ASSUME NEW S, IsFiniteSet(S)
  PROVE  SetToSeq(S) \in Seq(S)
<1>1. ExistsBijection(1 .. Cardinality(S), S) /\ Cardinality(S) \in Nat
  BY FS_CardinalityType
<1>2. PICK f \in Bijection(1 .. Cardinality(S), S) : TRUE
  BY <1>1 DEF ExistsBijection
<1>3. SetToSeq(S) \in [1 .. Cardinality(S) -> S]
  BY <1>2 DEF SetToSeq, IsInjective, Bijection, Injection, Surjection
<1> QED
  BY <1>1, <1>3

LEMMA MappedSeq ==
  ASSUME NEW S, NEW T, NEW s \in Seq(S), NEW g,
         DOMAIN g = DOMAIN s, g = [i \in DOMAIN s |-> g[i]],
         \A i \in DOMAIN s : g[i] \in T
  PROVE  g \in Seq(T)
<1>1. Len(s) \in Nat /\ DOMAIN s = 1 .. Len(s)
  OBVIOUS
<1>2. g \in [1 .. Len(s) -> T]
  BY <1>1
<1> QED
  BY <1>1, <1>2

------------------------------------------------------------------------------
(* The types of the messages of ksmserver. *)

LEMMA AnswersType ==
  ASSUME LockerTypeOK
  PROVE  LockAnswers \in Seq(LockerSent)
<1>1. \A i \in DOMAIN lockReplies : lockReplies[i] \in Apps \cup {Agent}
  BY DEF LockerTypeOK
<1>2. \A i \in DOMAIN LockAnswers : LockAnswers[i] \in LockerSent
  BY <1>1 DEF LockAnswers, LockDone, LockerSent
<1> QED
  BY <1>2, MappedSeq DEF LockAnswers, LockerTypeOK

LEMMA ReleasesType ==
  ASSUME NEW rs \in SUBSET Request, IsFiniteSet(rs)
  PROVE  Releases(rs) \in Seq(LockerSent)
<1> DEFINE S == {r \in rs : r.powerdevilcookie # 0}
           backed == SetToSeq(S)
<1>1. IsFiniteSet(S)
  BY FS_Subset
<1>2. backed \in Seq(S)
  BY <1>1, SomeOrder
<1>3. Releases(rs) = [i \in DOMAIN backed |-> [kind |-> "ReleaseInhibition",
                                              cookie |-> backed[i].powerdevilcookie]]
  BY DEF Releases
<1>4. \A i \in DOMAIN backed : backed[i] \in S
  BY <1>2
<1>5. \A i \in DOMAIN backed : Releases(rs)[i] \in LockerSent
  <2> SUFFICES ASSUME NEW i \in DOMAIN backed PROVE Releases(rs)[i] \in LockerSent
    OBVIOUS
  <2>1. backed[i].powerdevilcookie \in Cookies
    BY <1>4 DEF Request
  <2> QED
    BY <1>3, <2>1 DEF LockerSent
<1> HIDE DEF backed
<1> QED
  BY <1>2, <1>3, <1>5, MappedSeq

------------------------------------------------------------------------------
(* The locker: its types, with the counter and the lock in agreement. *)

RequestsOK ==
  /\ IsFiniteSet(requests)
  /\ \A r \in requests : r.cookie < nextCookie
  /\ CounterIsRequests

LockerInv == LockerTypeOK /\ RequestsOK /\ LockAgrees

LEMMA LockType ==
  ASSUME NEW k \in Ksld, NEW grabbed, NEW started
  PROVE  /\ lock(k, grabbed, started) \in Ksld
         /\ lock(k, grabbed, started).inhibitCounter = k.inhibitCounter
         /\ lock(k, grabbed, started).graceTimeKill = k.graceTimeKill
         /\ k.lockState # "Unlocked" =>
              /\ lock(k, grabbed, started).lockState = k.lockState
              /\ lock(k, grabbed, started).greeter = k.greeter
         /\ k.lockState = "Unlocked" =>
              \/ lock(k, grabbed, started) = k
              \/ /\ lock(k, grabbed, started).lockState = "Unlocked"
                 /\ lock(k, grabbed, started).greeter = "none"
              \/ /\ lock(k, grabbed, started).lockState = "AcquiringLock"
                 /\ lock(k, grabbed, started).greeter = "starting"
BY DEF lock, Ksld, LockState, endGraceTime, doUnlock, startLockProcess

LEMMA CounterType ==
  ASSUME NEW k \in Ksld, NEW n \in Int
  PROVE  /\ [k EXCEPT !.inhibitCounter = n] \in Ksld
         /\ [k EXCEPT !.inhibitCounter = n].inhibitCounter = n
         /\ [k EXCEPT !.inhibitCounter = n].lockState = k.lockState
         /\ [k EXCEPT !.inhibitCounter = n].greeter = k.greeter
         /\ [k EXCEPT !.inhibitCounter = n].graceTimeKill = k.graceTimeKill
BY DEF Ksld

LEMMA LockKeeps ==
  ASSUME LockerInv, NEW caller \in Apps \cup {Agent, NoCaller}, NEW grabbed, NEW started,
         Lock(caller, grabbed, started)
  PROVE  LockerInv'
<1> DEFINE k == lock(ksld, grabbed, started)
<1>1. ksld' = k /\ UNCHANGED <<interfaceVars, lockGrace, greeterFailures>>
  BY DEF Lock
<1>2. ksld \in Ksld
  BY DEF LockerInv, LockerTypeOK
<1>3. RequestsOK'
  BY <1>1, <1>2, LockType DEF LockerInv, RequestsOK, CounterIsRequests, interfaceVars
<1>4. lockReplies' \in Seq(Apps \cup {Agent}) /\ lockerOut' \in Seq(LockerSent)
  <2>1. caller # NoCaller => LockDone(caller) \in LockerSent
    BY DEF LockDone, LockerSent
  <2>2. CASE caller = NoCaller
    BY <2>2 DEF Lock, LockerInv, LockerTypeOK
  <2>3. CASE caller # NoCaller /\ k.lockState = "AcquiringLock"
    BY <2>3 DEF Lock, LockerInv, LockerTypeOK
  <2>4. CASE caller # NoCaller /\ k.lockState # "AcquiringLock"
    BY <2>1, <2>4 DEF Lock, LockerInv, LockerTypeOK
  <2> QED
    BY <2>2, <2>3, <2>4
<1>5. LockerTypeOK'
  BY <1>1, <1>2, <1>4, LockType DEF LockerInv, LockerTypeOK, interfaceVars
<1>6. LockAgrees'
  <2>1. k.lockState = "Unlocked" => k.greeter = "none" /\ ~k.graceTimeKill
    BY <1>2, LockType DEF LockerInv, LockAgrees, Ksld
  <2>2. lockReplies' # << >> => k.lockState = "AcquiringLock"
    <3>1. lockReplies # << >> => k.lockState = "AcquiringLock"
      BY <1>2, LockType DEF LockerInv, LockAgrees
    <3> QED
      BY <3>1 DEF Lock
  <2>3. k.lockState # "Unlocked" /\ k.greeter = "none" => greeterFailures > 0
    BY <1>2, LockType DEF LockerInv, LockAgrees
  <2> QED
    BY <1>1, <2>1, <2>2, <2>3 DEF LockAgrees
<1> QED
  BY <1>3, <1>5, <1>6 DEF LockerInv

LEMMA InhibitKeeps ==
  ASSUME LockerInv, NEW caller \in Apps, Inhibit(caller)
  PROVE  LockerInv'
<1> USE SessionAssumption, ScreenLockerAssumption
<1>1. [kind |-> "AddInhibition", serial |-> nextCookie] \in LockerSent
  BY DEF LockerInv, LockerTypeOK, LockerSent
<1>2. LockerTypeOK'
  BY <1>1 DEF LockerInv, LockerTypeOK, Inhibit
<1>3. RequestsOK' /\ LockAgrees'
  BY DEF LockerInv, RequestsOK, CounterIsRequests, LockAgrees, Inhibit
<1> QED
  BY <1>2, <1>3 DEF LockerInv

LEMMA InhibitReturnsKeeps ==
  ASSUME LockerInv, inhibiting # NoCaller, NEW c \in Cookies \cup {0}, InhibitReturns(c)
  PROVE  LockerInv'
<1> USE SessionAssumption, ScreenLockerAssumption DEF LockerInv
<1> DEFINE r == [cookie |-> nextCookie, dbusid |-> inhibiting, powerdevilcookie |-> c]
           sent == (IF inhibiting \in lockerWatched THEN << >>
                    ELSE <<[kind |-> "AddMatch", service |-> inhibiting]>>)
                   \o <<Answer(inhibiting, nextCookie)>>
<1>1. nextCookie \in Serial /\ nextCookie < MaxInhibits /\ inhibiting \in Apps
  BY DEF LockerTypeOK
<1>2. requests' = requests \cup {r} /\ nextCookie' = nextCookie + 1
  BY DEF InhibitReturns
<1>3. r \in Request /\ r \notin requests
  <2>1. r \in Request
    BY <1>1 DEF Request
  <2>2. \A q \in requests : q.cookie # r.cookie
    BY <1>1 DEF RequestsOK, Serial, LockerTypeOK, Request
  <2> QED
    BY <2>1, <2>2
<1>4. Answer(inhibiting, nextCookie) \in LockerSent
      /\ [kind |-> "AddMatch", service |-> inhibiting] \in LockerSent
  BY <1>1 DEF Answer, LockerSent
<1>5. sent \in Seq(LockerSent)
  BY <1>4
<1>6. lockerOut' \in Seq(LockerSent)
  <2>1. lockerOut' = lockerOut
          \o (IF inhibiting \in lockerWatched THEN << >>
              ELSE <<[kind |-> "AddMatch", service |-> inhibiting]>>)
          \o <<Answer(inhibiting, nextCookie)>>
    BY DEF InhibitReturns
  <2>2. lockerOut \in Seq(LockerSent)
    BY DEF LockerTypeOK
  <2> QED
    BY <1>4, <2>1, <2>2
<1>7. /\ ksld' \in Ksld /\ ksld'.inhibitCounter = ksld.inhibitCounter + 1
      /\ ksld'.lockState = ksld.lockState /\ ksld'.greeter = ksld.greeter
      /\ ksld'.graceTimeKill = ksld.graceTimeKill
  <2>1. ksld \in Ksld /\ ksld.inhibitCounter + 1 \in Int
    BY DEF LockerTypeOK, Ksld
  <2>2. ksld' = [ksld EXCEPT !.inhibitCounter = ksld.inhibitCounter + 1]
    BY DEF InhibitReturns, inhibit
  <2> QED
    BY <2>1, <2>2, CounterType
<1>8. LockerTypeOK'
  <2>1. nextCookie' \in Serial
    BY <1>1, <1>2 DEF Serial
  <2>2. lockerWatched' \subseteq Apps /\ inhibiting' = NoCaller
        /\ UNCHANGED <<lockGrace, greeterFailures, lockReplies>>
    BY <1>1 DEF InhibitReturns, LockerTypeOK
  <2> QED
    BY <1>2, <1>3, <1>6, <1>7, <2>1, <2>2 DEF LockerTypeOK
<1>9. RequestsOK'
  <2>1. IsFiniteSet(requests') /\ Cardinality(requests') = Cardinality(requests) + 1
    BY <1>2, <1>3, FS_AddElement DEF RequestsOK
  <2>2. \A q \in requests' : q.cookie < nextCookie'
    BY <1>1, <1>2 DEF RequestsOK, Serial, LockerTypeOK, Request
  <2> QED
    BY <1>7, <2>1, <2>2 DEF RequestsOK, CounterIsRequests
<1>10. LockAgrees'
  BY <1>7 DEF InhibitReturns, LockAgrees
<1> QED
  BY <1>8, <1>9, <1>10

(* Requests that are dropped are taken off the counter. *)
LEMMA DropKeeps ==
  ASSUME LockerInv, NEW rs \in SUBSET requests,
         requests' = requests \ rs, ksld' = Dropped(rs), UNCHANGED nextCookie
  PROVE  /\ RequestsOK'
         /\ ksld' \in Ksld
         /\ ksld'.lockState = ksld.lockState /\ ksld'.greeter = ksld.greeter
         /\ ksld'.graceTimeKill = ksld.graceTimeKill
<1>1. IsFiniteSet(requests) /\ IsFiniteSet(rs) /\ ksld \in Ksld
  BY FS_Subset DEF LockerInv, LockerTypeOK, RequestsOK
<1>2. Cardinality(rs) \in Nat /\ Cardinality(requests) \in Nat
  BY <1>1, FS_CardinalityType
<1>3. IsFiniteSet(requests') /\ Cardinality(requests') = Cardinality(requests) - Cardinality(rs)
  <2>1. requests \cap rs = rs
    OBVIOUS
  <2>2. /\ IsFiniteSet(requests \ rs)
        /\ Cardinality(requests \ rs) = Cardinality(requests) - Cardinality(requests \cap rs)
    BY <1>1, FS_Difference
  <2> QED
    BY <2>1, <2>2
<1>4. ksld.inhibitCounter - Cardinality(rs) \in Int
  BY <1>1, <1>2 DEF Ksld
<1>5. ksld' = [ksld EXCEPT !.inhibitCounter = ksld.inhibitCounter - Cardinality(rs)]
  BY DEF Dropped
<1>6. /\ ksld' \in Ksld
      /\ ksld'.inhibitCounter = ksld.inhibitCounter - Cardinality(rs)
      /\ ksld'.lockState = ksld.lockState /\ ksld'.greeter = ksld.greeter
      /\ ksld'.graceTimeKill = ksld.graceTimeKill
  BY <1>1, <1>4, <1>5, CounterType
<1>7. RequestsOK'
  BY <1>3, <1>6 DEF LockerInv, RequestsOK, CounterIsRequests
<1> QED
  BY <1>6, <1>7

LEMMA UnInhibitKeeps ==
  ASSUME LockerInv, NEW cookie, UnInhibit(cookie)
  PROVE  LockerInv'
<1> DEFINE rs == {r \in requests : r.cookie = cookie}
<1>1. requests' = requests \ rs /\ ksld' = Dropped(rs) /\ UNCHANGED nextCookie
  BY DEF UnInhibit
<1>2. rs \in SUBSET Request /\ IsFiniteSet(rs)
  BY FS_Subset DEF LockerInv, LockerTypeOK, RequestsOK
<1>3. lockerOut' \in Seq(LockerSent)
  <2>1. Releases(rs) \in Seq(LockerSent)
    BY <1>2, ReleasesType
  <2> QED
    BY <2>1 DEF UnInhibit, LockerInv, LockerTypeOK
<1>4. LockerTypeOK'
  BY <1>1, <1>3, DropKeeps DEF LockerInv, LockerTypeOK, UnInhibit
<1>5. LockAgrees'
  BY <1>1, DropKeeps DEF LockerInv, LockAgrees, UnInhibit
<1> QED
  BY <1>1, <1>4, <1>5, DropKeeps DEF LockerInv

LEMMA ServiceUnregisteredKeeps ==
  ASSUME LockerInv, NEW name \in Apps, serviceUnregistered(name)
  PROVE  LockerInv'
<1> DEFINE rs == {r \in requests : r.dbusid = name}
<1>1. requests' = requests \ rs /\ ksld' = Dropped(rs) /\ UNCHANGED nextCookie
  BY DEF serviceUnregistered
<1>2. rs \in SUBSET Request /\ IsFiniteSet(rs)
  BY FS_Subset DEF LockerInv, LockerTypeOK, RequestsOK
<1>3. lockerOut' \in Seq(LockerSent)
  <2>1. Releases(rs) \in Seq(LockerSent)
    BY <1>2, ReleasesType
  <2>2. [kind |-> "RemoveMatch", service |-> name] \in LockerSent
    BY DEF LockerSent
  <2>3. lockerOut \in Seq(LockerSent)
    BY DEF LockerInv, LockerTypeOK
  <2>4. lockerOut' = lockerOut
          \o (IF name \in lockerWatched
              THEN <<[kind |-> "RemoveMatch", service |-> name]>> ELSE << >>)
          \o Releases(rs)
    BY DEF serviceUnregistered
  <2> QED
    BY <2>1, <2>2, <2>3, <2>4
<1>4. LockerTypeOK'
  BY <1>1, <1>3, DropKeeps DEF LockerInv, LockerTypeOK, serviceUnregistered
<1>5. LockAgrees'
  BY <1>1, DropKeeps DEF LockerInv, LockAgrees, serviceUnregistered
<1> QED
  BY <1>1, <1>4, <1>5, DropKeeps DEF LockerInv

(* What the greeter, the timers and the user do. *)
LEMMA GreeterReadyKeeps ==
  ASSUME LockerInv, GreeterReady
  PROVE  LockerInv'
<1> USE DEF LockerInv, GreeterReady, sendLockReplies, interfaceVars
<1>1. ksld \in Ksld /\ ksld.lockState # "Unlocked"
  BY DEF LockerTypeOK, LockAgrees
<1>2. /\ ksld' \in Ksld /\ ksld'.lockState = "Locked" /\ ksld'.greeter = "ready"
      /\ ksld'.inhibitCounter = ksld.inhibitCounter
  BY <1>1 DEF Ksld, LockState
<1>3. lockerOut' \in Seq(LockerSent) /\ lockReplies' = << >>
  <2>1. LockAnswers \in Seq(LockerSent)
    BY AnswersType
  <2> QED
    BY <2>1 DEF LockerTypeOK
<1>4. LockerTypeOK'
  BY <1>2, <1>3 DEF LockerTypeOK
<1>5. RequestsOK'
  BY <1>2 DEF RequestsOK, CounterIsRequests
<1>6. LockAgrees'
  BY <1>2, <1>3 DEF LockAgrees
<1> QED
  BY <1>4, <1>5, <1>6

LEMMA GreeterSucceedsKeeps ==
  ASSUME LockerInv, GreeterSucceeds
  PROVE  LockerInv'
<1> USE DEF LockerInv, GreeterSucceeds, sendLockReplies, interfaceVars
<1>1. ksld \in Ksld
  BY DEF LockerTypeOK
<1>2. /\ ksld' \in Ksld /\ ksld'.lockState = "Unlocked" /\ ksld'.greeter = "none"
      /\ ~ksld'.graceTimeKill /\ ksld'.inhibitCounter = ksld.inhibitCounter
  BY <1>1 DEF Ksld, LockState, doUnlock, endGraceTime
<1>3. lockerOut' \in Seq(LockerSent) /\ lockReplies' = << >>
  <2>1. LockAnswers \in Seq(LockerSent)
    BY AnswersType
  <2> QED
    BY <2>1 DEF LockerTypeOK
<1>4. LockerTypeOK'
  BY <1>2, <1>3 DEF LockerTypeOK
<1>5. RequestsOK'
  BY <1>2 DEF RequestsOK, CounterIsRequests
<1>6. LockAgrees'
  BY <1>2, <1>3 DEF LockAgrees
<1> QED
  BY <1>4, <1>5, <1>6

LEMMA GreeterFailsKeeps ==
  ASSUME LockerInv, NEW started, GreeterFails(started)
  PROVE  LockerInv'
<1> USE ScreenLockerAssumption DEF LockerInv, GreeterFails, interfaceVars
<1>1. ksld \in Ksld /\ ksld.lockState # "Unlocked"
  BY DEF LockerTypeOK, LockAgrees
<1>2. /\ ksld' \in Ksld /\ ksld'.lockState = ksld.lockState
      /\ ksld'.inhibitCounter = ksld.inhibitCounter
  BY <1>1 DEF Ksld, startLockProcess
<1>3. greeterFailures' \in 0 .. MaxFailures /\ greeterFailures' > 0
  BY DEF LockerTypeOK
<1>4. LockerTypeOK'
  BY <1>2, <1>3 DEF LockerTypeOK
<1>5. RequestsOK'
  BY <1>2 DEF RequestsOK, CounterIsRequests
<1>6. LockAgrees'
  BY <1>1, <1>2, <1>3 DEF LockAgrees
<1> QED
  BY <1>4, <1>5, <1>6

LEMMA IdleTimeoutKeeps ==
  ASSUME LockerInv, NEW grabbed, NEW started, IdleTimeout(grabbed, started)
  PROVE  LockerInv'
<1> USE DEF LockerInv, IdleTimeout, interfaceVars
<1> DEFINE begun == beginGraceTime(ksld)
           k == lock(begun, grabbed, started)
<1>1. ksld \in Ksld /\ ksld.greeter = "none" /\ ~ksld.graceTimeKill /\ lockReplies = << >>
  BY DEF LockerTypeOK, LockAgrees
<1>2. /\ begun \in Ksld /\ begun.lockState = "Unlocked" /\ begun.greeter = "none"
      /\ ~begun.graceTimeKill /\ begun.inhibitCounter = ksld.inhibitCounter
  BY <1>1 DEF Ksld, beginGraceTime
<1> HIDE DEF begun
<1>3. /\ k \in Ksld /\ k.inhibitCounter = ksld.inhibitCounter /\ ~k.graceTimeKill
      /\ k.lockState = "Unlocked" <=> k.greeter = "none"
  BY <1>2, LockType
<1>4. ksld' = k
  BY DEF begun
<1> HIDE DEF k
<1>5. LockerTypeOK'
  BY <1>3, <1>4 DEF LockerTypeOK
<1>6. RequestsOK'
  BY <1>3, <1>4 DEF RequestsOK, CounterIsRequests
<1>7. LockAgrees'
  BY <1>1, <1>3, <1>4 DEF LockAgrees
<1> QED
  BY <1>5, <1>6, <1>7

LEMMA EndGraceTimeKeeps ==
  ASSUME LockerInv, EndGraceTime
  PROVE  LockerInv'
<1> USE DEF LockerInv, EndGraceTime, interfaceVars
<1>1. ksld \in Ksld
  BY DEF LockerTypeOK
<1>2. /\ ksld' \in Ksld /\ ksld'.lockState = ksld.lockState /\ ksld'.greeter = ksld.greeter
      /\ ksld'.graceTimeKill = ksld.graceTimeKill
      /\ ksld'.inhibitCounter = ksld.inhibitCounter
  BY <1>1 DEF Ksld, endGraceTime
<1>3. LockerTypeOK'
  BY <1>2 DEF LockerTypeOK
<1>4. RequestsOK' /\ LockAgrees'
  BY <1>2 DEF RequestsOK, CounterIsRequests, LockAgrees
<1> QED
  BY <1>3, <1>4

LEMMA ActivityKeeps ==
  ASSUME LockerInv, Activity
  PROVE  LockerInv'
<1> USE DEF LockerInv, Activity, interfaceVars
<1>1. ksld \in Ksld
  BY DEF LockerTypeOK
<1>2. /\ ksld' \in Ksld /\ ksld'.lockState = ksld.lockState /\ ksld'.greeter = ksld.greeter
      /\ ksld'.inhibitCounter = ksld.inhibitCounter
  BY <1>1 DEF Ksld
<1>3. LockerTypeOK'
  BY <1>2 DEF LockerTypeOK
<1>4. RequestsOK' /\ LockAgrees'
  BY <1>2 DEF RequestsOK, CounterIsRequests, LockAgrees
<1> QED
  BY <1>3, <1>4

LEMMA SentKeeps ==
  ASSUME LockerInv, lockerOut # << >>, lockerOut' = Tail(lockerOut),
         UNCHANGED <<ksld, lockGrace, greeterFailures, requests, nextCookie, lockReplies,
                     lockerWatched, inhibiting>>
  PROVE  LockerInv'
<1>1. LockerTypeOK'
  BY DEF LockerInv, LockerTypeOK
<1>2. RequestsOK' /\ LockAgrees'
  BY DEF LockerInv, RequestsOK, CounterIsRequests, LockAgrees
<1> QED
  BY <1>1, <1>2 DEF LockerInv

LEMMA LockerStands ==
  ASSUME LockerInv, UNCHANGED lockerVars
  PROVE  LockerInv'
<1>1. LockerTypeOK'
  BY DEF LockerInv, LockerTypeOK, lockerVars
<1>2. RequestsOK' /\ LockAgrees'
  BY DEF LockerInv, RequestsOK, CounterIsRequests, LockAgrees, lockerVars
<1> QED
  BY <1>1, <1>2 DEF LockerInv

------------------------------------------------------------------------------
(* The types of the rest: the applications, the bus and kded.  Each lemma  *)
(* also says which party the action leaves alone.                          *)

RestTypeOK == AppTypeOK /\ BusTypeOK /\ KdedTypeOK

Inv == AgentInv /\ LockerInv /\ RestTypeOK

LEMMA AppCalls ==
  ASSUME RestTypeOK, NEW a \in Apps,
         \/ AppInhibits(a) \/ AppUnInhibits(a) \/ AppLocks(a)
         \/ AppAddsInhibition(a) \/ AppReleases(a) \/ AppForcesAll(a)
  PROVE  RestTypeOK' /\ UNCHANGED <<agentVars, lockerVars>>
<1> USE SessionAssumption DEF RestTypeOK, MayCall, Event
<1>1. UNCHANGED <<agentVars, lockerVars, kdedVars, alive, lockerGrants, agentGrants,
                  matches, agentReply, lost>>
  BY DEF AppInhibits, AppUnInhibits, AppLocks, AppAddsInhibition, AppReleases,
         AppForcesAll, CallUnchanged
<1>2. events' \in 0 .. MaxEvents
  BY DEF AppInhibits, AppUnInhibits, AppLocks, AppAddsInhibition, AppReleases,
         AppForcesAll, AppTypeOK
<1>3. waiting' \subseteq Apps
  BY DEF AppInhibits, AppUnInhibits, AppLocks, AppAddsInhibition, AppReleases,
         AppForcesAll, AppTypeOK
<1>4. agentQueue' \in Seq(AgentMessage) /\ lockerQueue' \in Seq(LockerMessage)
  <2>1. agentQueue \in Seq(AgentMessage) /\ lockerQueue \in Seq(LockerMessage)
    BY DEF BusTypeOK
  <2>2. CASE AppInhibits(a)
    <3>1. [kind |-> "Inhibit", from |-> a] \in LockerMessage
      BY DEF LockerMessage
    <3> QED
      BY <2>1, <2>2, <3>1 DEF AppInhibits, CallsLocker
  <2>3. CASE AppUnInhibits(a)
    <3>1. PICK c \in lockerGrants[a] :
            CallsLocker([kind |-> "UnInhibit", from |-> a, cookie |-> c])
      BY <2>3 DEF AppUnInhibits
    <3>2. [kind |-> "UnInhibit", from |-> a, cookie |-> c] \in LockerMessage
      BY DEF LockerMessage, AppTypeOK
    <3> QED
      BY <2>1, <3>1, <3>2 DEF CallsLocker
  <2>4. CASE AppLocks(a)
    <3>1. [kind |-> "Lock", from |-> a] \in LockerMessage
      BY DEF LockerMessage
    <3> QED
      BY <2>1, <2>4, <3>1 DEF AppLocks, CallsLocker
  <2>5. CASE AppAddsInhibition(a)
    <3>1. PICK types \in AppTypes :
            CallsAgent([kind |-> "AddInhibition", from |-> a, types |-> types])
      BY <2>5 DEF AppAddsInhibition
    <3>2. [kind |-> "AddInhibition", from |-> a, types |-> types] \in AgentMessage
      BY DEF AgentMessage
    <3> QED
      BY <2>1, <3>1, <3>2 DEF CallsAgent
  <2>6. CASE AppReleases(a)
    <3>1. PICK c \in agentGrants[a] :
            CallsAgent([kind |-> "ReleaseInhibition", from |-> a, cookie |-> c])
      BY <2>6 DEF AppReleases
    <3>2. [kind |-> "ReleaseInhibition", from |-> a, cookie |-> c] \in AgentMessage
      BY DEF AgentMessage, AppTypeOK
    <3> QED
      BY <2>1, <3>1, <3>2 DEF CallsAgent
  <2>7. CASE AppForcesAll(a)
    <3>1. [kind |-> "ForceUnInhibitAll", from |-> a] \in AgentMessage
      BY DEF AgentMessage
    <3> QED
      BY <2>1, <2>7, <3>1 DEF AppForcesAll, CallsAgent
  <2> QED
    BY <2>2, <2>3, <2>4, <2>5, <2>6, <2>7
<1> QED
  BY <1>1, <1>2, <1>3, <1>4 DEF AppTypeOK, BusTypeOK, KdedTypeOK, kdedVars

LEMMA AppEnds ==
  ASSUME RestTypeOK, NEW a \in Apps, AppGoes(a)
  PROVE  RestTypeOK' /\ UNCHANGED <<agentVars, lockerVars>>
<1> USE SessionAssumption DEF RestTypeOK, AppGoes, Event
<1> DEFINE gone == [kind |-> "Gone", from |-> a]
<1>1. gone \in AgentMessage /\ gone \in LockerMessage
  BY DEF AgentMessage, LockerMessage
<1>2. agentQueue' \in Seq(AgentMessage)
  <2>1. agentQueue' = Append(agentQueue, gone) \/ agentQueue' = agentQueue
    BY Zenon
  <2> QED
    BY <1>1, <2>1 DEF BusTypeOK
<1>3. lockerQueue' \in Seq(LockerMessage)
  <2>1. lockerQueue' = Append(lockerQueue, gone) \/ lockerQueue' = lockerQueue
    BY Zenon
  <2> QED
    BY <1>1, <2>1 DEF BusTypeOK
<1>4. AppTypeOK'
  BY DEF AppTypeOK
<1> QED
  BY <1>2, <1>3, <1>4 DEF BusTypeOK, KdedTypeOK, kdedVars

LEMMA MatchedType ==
  ASSUME matches \subseteq {Agent, Locker} \X Services, NEW w \in {Agent, Locker}, NEW m,
         m.kind = "AddMatch" => m.service \in Services, Matched(w, m)
  PROVE  matches' \subseteq {Agent, Locker} \X Services
BY DEF Matched

LEMMA AgentSendsType ==
  ASSUME RestTypeOK, AgentSends
  PROVE  RestTypeOK' /\ UNCHANGED <<agentVars, lockerVars>>
<1> USE SessionAssumption DEF RestTypeOK
<1> DEFINE m == Head(agentOut)
<1>1. agentOut \in Seq(AgentSent) /\ agentOut # << >>
  BY DEF AgentSends, KdedTypeOK
<1>2. m \in AgentSent /\ agentOut' = Tail(agentOut) /\ agentOut' \in Seq(AgentSent)
  BY <1>1 DEF AgentSends
<1>3. /\ m.kind = "AddMatch" => m.service \in Services
      /\ m.kind = "Return" => m.to \in Services /\ m.cookie \in Cookies
  BY <1>2 DEF AgentSent
<1>4. matches' \subseteq {Agent, Locker} \X Services
  <2>1. Matched(Agent, m)
    BY DEF AgentSends
  <2> QED
    BY <1>3, <2>1, MatchedType DEF BusTypeOK
<1>5. lockerQueue' \in Seq(LockerMessage)
  <2>1. [kind |-> "Lock", from |-> Agent] \in LockerMessage
    BY DEF LockerMessage
  <2> QED
    BY <2>1 DEF AgentSends, BusTypeOK
<1>6. agentReply' \in {<< >>} \cup {<<c>> : c \in Cookies \cup {0}} /\ lost' \subseteq Cookies
  <2>1. agentReply' = agentReply \/ (m.kind = "Return" /\ agentReply' = <<m.cookie>>)
    BY DEF AgentSends
  <2>2. lost' = lost \/ (m.kind = "Return" /\ lost' = lost \cup {m.cookie})
    BY DEF AgentSends
  <2> QED
    BY <1>3, <2>1, <2>2 DEF BusTypeOK
<1>7. AppTypeOK'
  <2>1. UNCHANGED <<alive, lockerGrants, events>>
    BY DEF AgentSends
  <2>2. CASE m.kind = "Return" /\ m.to \in alive
    <3>1. /\ agentGrants' = [agentGrants EXCEPT ![m.to] = @ \cup {m.cookie}]
          /\ waiting' = waiting \ {m.to}
      BY <2>2 DEF AgentSends
    <3> QED
      BY <1>3, <2>1, <2>2, <3>1 DEF AppTypeOK
  <2>3. CASE ~(m.kind = "Return" /\ m.to \in alive)
    <3>1. UNCHANGED <<agentGrants, waiting>>
      BY <2>3 DEF AgentSends
    <3> QED
      BY <2>1, <3>1 DEF AppTypeOK
  <2> QED
    BY <2>2, <2>3
<1>8. UNCHANGED <<agentVars, lockerVars, forcing, forced, locksAnswered, restarts,
                  agentQueue>>
  BY DEF AgentSends
<1> QED
  BY <1>2, <1>4, <1>5, <1>6, <1>7, <1>8 DEF BusTypeOK, KdedTypeOK

LEMMA LockerSendsType ==
  ASSUME RestTypeOK, LockerInv, LockerSends
  PROVE  RestTypeOK' /\ LockerInv' /\ UNCHANGED agentVars
<1> USE SessionAssumption DEF RestTypeOK
<1> DEFINE m == Head(lockerOut)
<1>1. lockerOut \in Seq(LockerSent) /\ lockerOut # << >>
  BY DEF LockerSends, LockerInv, LockerTypeOK
<1>2. m \in LockerSent
  BY <1>1
<1>3. /\ m.kind = "AddMatch" => m.service \in Services
      /\ m.kind = "Return" => m.to \in Apps /\ m.cookie \in Serial
      /\ m.kind = "AddInhibition" => m.serial \in Serial
      /\ m.kind = "ReleaseInhibition" => m.cookie \in Cookies
  BY <1>2 DEF LockerSent
<1>4. matches' \subseteq {Agent, Locker} \X Services
  <2>1. Matched(Locker, m)
    BY DEF LockerSends
  <2> QED
    BY <1>3, <2>1, MatchedType DEF BusTypeOK
<1>5. agentQueue' \in Seq(AgentMessage)
  <2> DEFINE adds == [kind |-> "AddInhibition", from |-> Locker,
                      types |-> {"ChangeScreenSettings"}, serial |-> m.serial]
             releases == [kind |-> "ReleaseInhibition", from |-> Locker, cookie |-> m.cookie]
  <2>1. agentQueue' = CASE m.kind = "AddInhibition" -> Append(agentQueue, adds)
                        [] m.kind = "ReleaseInhibition" -> Append(agentQueue, releases)
                        [] OTHER -> agentQueue
    BY DEF LockerSends
  <2>2. CASE m.kind = "AddInhibition"
    <3>1. adds \in AgentMessage
      BY <1>3, <2>2 DEF AgentMessage, Policies
    <3>2. agentQueue' = Append(agentQueue, adds)
      BY <2>1, <2>2, Zenon
    <3> QED
      BY <3>1, <3>2 DEF BusTypeOK
  <2>3. CASE m.kind = "ReleaseInhibition"
    <3>1. releases \in AgentMessage
      BY <1>3, <2>3 DEF AgentMessage
    <3>2. m.kind # "AddInhibition"
      BY <2>3
    <3>3. agentQueue' = Append(agentQueue, releases)
      BY <2>1, <2>3, <3>2
    <3> QED
      BY <3>1, <3>3 DEF BusTypeOK
  <2>4. CASE m.kind # "AddInhibition" /\ m.kind # "ReleaseInhibition"
    BY <2>1, <2>4 DEF BusTypeOK
  <2> QED
    BY <2>2, <2>3, <2>4
<1>6. AppTypeOK'
  <2>1. UNCHANGED <<alive, agentGrants, events>> /\ waiting' \subseteq waiting
    BY DEF LockerSends
  <2>2. lockerGrants' \in [Apps -> SUBSET Serial]
    <3>1. CASE m.kind = "Return" /\ m.to \in alive
      <4>1. lockerGrants' = [lockerGrants EXCEPT ![m.to] = @ \cup {m.cookie}]
        BY <3>1 DEF LockerSends
      <4> QED
        BY <1>3, <3>1, <4>1 DEF AppTypeOK
    <3>2. CASE ~(m.kind = "Return" /\ m.to \in alive)
      BY <3>2 DEF LockerSends, AppTypeOK
    <3> QED
      BY <3>1, <3>2
  <2> QED
    BY <2>1, <2>2 DEF AppTypeOK
<1>7. KdedTypeOK'
  <2>1. \/ locksAnswered' = locksAnswered + 1 /\ forcing' \in BOOLEAN
        \/ UNCHANGED <<locksAnswered, forcing>>
    BY DEF LockerSends
  <2>2. UNCHANGED <<agentOut, forced, restarts>>
    BY DEF LockerSends
  <2> QED
    BY <2>1, <2>2 DEF KdedTypeOK
<1>8. LockerInv'
  <2>1. /\ lockerOut' = Tail(lockerOut)
        /\ UNCHANGED <<ksld, lockGrace, greeterFailures, requests, nextCookie, lockReplies,
                       lockerWatched, inhibiting>>
    BY DEF LockerSends, interfaceVars
  <2> QED
    BY <1>1, <2>1, SentKeeps
<1>9. UNCHANGED <<agentVars, lockerQueue, agentReply, lost>>
  BY DEF LockerSends
<1> QED
  BY <1>4, <1>5, <1>6, <1>7, <1>8, <1>9 DEF BusTypeOK

(* What kded sends when it stops to watch names. *)
LEMMA RemoveMatchesType ==
  ASSUME AgentTypeOK
  PROVE  RemoveMatches \in Seq(AgentSent)
<1> DEFINE S == watched \ watched'
           gone == SetToSeq(S)
<1>1. IsFiniteSet(S) /\ S \subseteq Services
  <2>1. IsFiniteSet(Apps \cup {Locker})
    BY SessionAssumption, FS_AddElement
  <2>2. S \subseteq Apps \cup {Locker}
    BY SessionAssumption DEF AgentTypeOK
  <2> QED
    BY <2>1, <2>2, FS_Subset, SessionAssumption
<1>2. gone \in Seq(S)
  BY <1>1, SomeOrder
<1>3. RemoveMatches = [i \in DOMAIN gone |-> [kind |-> "RemoveMatch", service |-> gone[i]]]
  BY DEF RemoveMatches
<1>4. \A i \in DOMAIN gone : gone[i] \in S
  BY <1>2
<1> HIDE DEF gone
<1>5. \A i \in DOMAIN gone : RemoveMatches[i] \in AgentSent
  BY <1>1, <1>3, <1>4 DEF AgentSent
<1> QED
  BY <1>2, <1>3, <1>5, MappedSeq

LEMMA TwoMore ==
  ASSUME NEW S, NEW s \in Seq(S), NEW x \in S, NEW y \in S
  PROVE  s \o <<x>> \o <<y>> \in Seq(S) /\ s \o << >> \o <<y>> \in Seq(S)
OBVIOUS

LEMMA AgentAddsType ==
  ASSUME Inv, AgentAdds
  PROVE  /\ RestTypeOK' /\ UNCHANGED lockerVars
         /\ \E types \in SUBSET Policies, s \in Services : AddInhibition(types, s)
<1> USE SessionAssumption DEF Inv, RestTypeOK, AgentAdds, AgentTakes
<1> DEFINE m == Head(agentQueue)
<1>1. agentQueue \in Seq(AgentMessage) /\ agentQueue # << >> /\ agentQueue' = Tail(agentQueue)
      /\ m.kind = "AddInhibition"
  BY DEF BusTypeOK
<1>2. m \in AgentMessage
  BY <1>1
<1>3. m.from \in Services /\ m.types \in SUBSET Policies
      /\ (m.from = Locker => m.serial \in Serial)
  BY <1>1, <1>2 DEF AgentMessage
<1>4. AddInhibition(m.types, m.from)
  BY SMTT(30)
<1>5. agentOut' \in Seq(AgentSent)
  <2> DEFINE match == [kind |-> "AddMatch", service |-> m.from]
             answer == [kind |-> "Return", to |-> m.from, cookie |-> lastCookie',
                        serial |-> IF m.from = Locker THEN m.serial ELSE 0]
  <2>1. lastCookie' \in Cookies
    BY <1>4, PolicyAgentAssumption DEF AddInhibition, AgentInv, AgentTypeOK, Cookies
  <2>2. match \in AgentSent
    BY <1>3 DEF AgentSent
  <2>3. answer \in AgentSent
    <3>1. (IF m.from = Locker THEN m.serial ELSE 0) \in Serial
      BY <1>3, ScreenLockerAssumption DEF Serial
    <3> QED
      BY <1>3, <2>1, <3>1 DEF AgentSent
  <2>4. \/ agentOut' = agentOut \o << >> \o <<answer>>
        \/ agentOut' = agentOut \o <<match>> \o <<answer>>
    BY Zenon
  <2>5. agentOut \in Seq(AgentSent)
    BY DEF KdedTypeOK
  <2> HIDE DEF match, answer
  <2> QED
    BY <2>2, <2>3, <2>4, <2>5, TwoMore
<1>6. AgentUnchanged
  OBVIOUS
<1>7. RestTypeOK'
  BY <1>1, <1>5, <1>6 DEF AgentUnchanged, AppTypeOK, BusTypeOK, KdedTypeOK, appVars
<1> QED
  BY <1>3, <1>4, <1>6, <1>7 DEF AgentUnchanged

LEMMA AgentTakesType ==
  ASSUME Inv, NEW kind, AgentTakes(kind), AgentUnchanged, agentOut' = agentOut \o RemoveMatches
  PROVE  RestTypeOK' /\ UNCHANGED lockerVars /\ Head(agentQueue) \in AgentMessage
<1> USE DEF Inv, RestTypeOK
<1>1. RemoveMatches \in Seq(AgentSent)
  BY RemoveMatchesType DEF AgentInv
<1>2. agentOut' \in Seq(AgentSent)
  BY <1>1 DEF KdedTypeOK
<1>3. agentQueue' \in Seq(AgentMessage) /\ Head(agentQueue) \in AgentMessage
  BY DEF AgentTakes, BusTypeOK
<1> QED
  BY <1>2, <1>3 DEF AgentUnchanged, AppTypeOK, BusTypeOK, KdedTypeOK, appVars

(* What kded handles, seen from its agent. *)
LEMMA AgentHandlesStep ==
  ASSUME Inv, AgentHandles
  PROVE  RestTypeOK' /\ UNCHANGED lockerVars /\ AgentNext
<1> USE SessionAssumption
<1>1. CASE AgentAdds
  BY <1>1, AgentAddsType DEF AgentNext
<1>2. CASE AgentReleases
  <2>1. /\ RestTypeOK' /\ UNCHANGED lockerVars
        /\ Head(agentQueue) \in AgentMessage
        /\ Head(agentQueue).kind = "ReleaseInhibition"
    BY <1>2, AgentTakesType DEF AgentReleases, AgentTakes
  <2>2. Head(agentQueue).cookie \in Cookies
    BY <2>1 DEF AgentMessage
  <2> QED
    BY <1>2, <2>1, <2>2 DEF AgentReleases, AgentNext
<1>3. CASE AgentReleasesAll
  BY <1>3, AgentTakesType DEF AgentReleasesAll, AgentNext
<1>4. CASE AgentHearsOfEnd
  <2>1. /\ RestTypeOK' /\ UNCHANGED lockerVars
        /\ Head(agentQueue) \in AgentMessage /\ Head(agentQueue).kind = "Gone"
    BY <1>4, AgentTakesType DEF AgentHearsOfEnd, AgentTakes
  <2>2. Head(agentQueue).from \in Services
    BY <2>1 DEF AgentMessage
  <2> QED
    BY <1>4, <2>1, <2>2 DEF AgentHearsOfEnd, AgentNext
<1> QED
  BY <1>1, <1>2, <1>3, <1>4 DEF AgentHandles

LEMMA AgentForcesLockType ==
  ASSUME RestTypeOK, AgentForcesLock
  PROVE  RestTypeOK' /\ UNCHANGED <<agentVars, lockerVars>>
<1> USE SessionAssumption DEF RestTypeOK, AgentForcesLock
<1>1. agentOut' \in Seq(AgentSent)
  <2>1. [kind |-> "Lock"] \in AgentSent
    BY DEF AgentSent
  <2> QED
    BY <2>1 DEF KdedTypeOK
<1>2. forced' \in 0 .. MaxForced /\ events' \in 0 .. MaxEvents
  BY DEF KdedTypeOK, AppTypeOK, Event
<1> QED
  BY <1>1, <1>2 DEF AppTypeOK, BusTypeOK, KdedTypeOK, appVars, busVars

LEMMA AgentTimesOutType ==
  ASSUME RestTypeOK, AgentTimesOut
  PROVE  RestTypeOK' /\ UNCHANGED <<agentVars, lockerVars>>
BY DEF RestTypeOK, AgentTimesOut, AppTypeOK, BusTypeOK, KdedTypeOK, appVars, busVars

LEMMA AgentRestartsType ==
  ASSUME RestTypeOK, AgentRestarts
  PROVE  RestTypeOK' /\ UNCHANGED lockerVars /\ AgentRestart
<1> USE SessionAssumption DEF RestTypeOK, AgentRestarts
<1>1. restarts' \in 0 .. MaxRestarts /\ events' \in 0 .. MaxEvents
  BY DEF KdedTypeOK, AppTypeOK, Event
<1>2. waiting' \subseteq Apps /\ matches' \subseteq {Agent, Locker} \X Services
  BY DEF AppTypeOK, BusTypeOK
<1>3. agentReply' \in {<< >>} \cup {<<c>> : c \in Cookies \cup {0}}
  <2>1. agentReply' = <<0>> \/ agentReply' = agentReply
    BY Zenon
  <2> QED
    BY <2>1 DEF BusTypeOK
<1>4. agentQueue' \in Seq(AgentMessage)
  OBVIOUS
<1> QED
  BY <1>1, <1>2, <1>3, <1>4 DEF AppTypeOK, BusTypeOK, KdedTypeOK

(* What ksmserver handles. *)
LEMMA LockerTakesType ==
  ASSUME RestTypeOK, NEW kind, LockerTakes(kind), LockerUnchanged
  PROVE  RestTypeOK' /\ UNCHANGED agentVars /\ Head(lockerQueue) \in LockerMessage
<1> USE DEF RestTypeOK
<1>1. lockerQueue' \in Seq(LockerMessage) /\ Head(lockerQueue) \in LockerMessage
  BY DEF LockerTakes, BusTypeOK
<1> QED
  BY <1>1 DEF LockerUnchanged, AppTypeOK, BusTypeOK, KdedTypeOK, appVars, kdedVars

LEMMA LockerHandlesStep ==
  ASSUME RestTypeOK, LockerInv, LockerHandles
  PROVE  RestTypeOK' /\ LockerInv' /\ UNCHANGED agentVars
<1> USE SessionAssumption
<1> DEFINE m == Head(lockerQueue)
<1>1. CASE LockerInhibits
  <2>1. RestTypeOK' /\ UNCHANGED agentVars /\ m \in LockerMessage /\ m.kind = "Inhibit"
    BY <1>1, LockerTakesType DEF LockerInhibits, LockerTakes
  <2>2. m.from \in Apps
    BY <2>1 DEF LockerMessage
  <2> QED
    BY <1>1, <2>1, <2>2, InhibitKeeps DEF LockerInhibits
<1>2. CASE LockerUnInhibits
  <2>1. RestTypeOK' /\ UNCHANGED agentVars
    BY <1>2, LockerTakesType DEF LockerUnInhibits
  <2> QED
    BY <1>2, <2>1, UnInhibitKeeps DEF LockerUnInhibits
<1>3. CASE LockerLocks
  <2>1. RestTypeOK' /\ UNCHANGED agentVars /\ m \in LockerMessage /\ m.kind = "Lock"
    BY <1>3, LockerTakesType DEF LockerLocks, LockerTakes
  <2>2. m.from \in Apps \cup {Agent, NoCaller}
    BY <2>1 DEF LockerMessage
  <2> QED
    BY <1>3, <2>1, <2>2, LockKeeps DEF LockerLocks
<1>4. CASE LockerHearsOfEnd
  <2>1. RestTypeOK' /\ UNCHANGED agentVars /\ m \in LockerMessage /\ m.kind = "Gone"
    BY <1>4, LockerTakesType DEF LockerHearsOfEnd, LockerTakes
  <2>2. m.from \in Apps
    BY <2>1 DEF LockerMessage
  <2> QED
    BY <1>4, <2>1, <2>2, ServiceUnregisteredKeeps DEF LockerHearsOfEnd
<1> QED
  BY <1>1, <1>2, <1>3, <1>4 DEF LockerHandles

LEMMA LockerIsAnsweredStep ==
  ASSUME RestTypeOK, LockerInv, LockerIsAnswered
  PROVE  RestTypeOK' /\ LockerInv' /\ UNCHANGED agentVars
<1> USE DEF RestTypeOK
<1>1. Head(agentReply) \in Cookies \cup {0}
  BY DEF LockerIsAnswered, BusTypeOK
<1>2. LockerInv'
  BY <1>1, InhibitReturnsKeeps DEF LockerIsAnswered
<1>3. RestTypeOK' /\ UNCHANGED agentVars
  BY DEF LockerIsAnswered, AppTypeOK, BusTypeOK, KdedTypeOK, appVars, kdedVars
<1> QED
  BY <1>2, <1>3

LEMMA LockerTimesOutStep ==
  ASSUME RestTypeOK, LockerInv, LockerTimesOut
  PROVE  RestTypeOK' /\ LockerInv' /\ UNCHANGED agentVars
<1>1. LockerInv'
  BY InhibitReturnsKeeps DEF LockerTimesOut
<1>2. RestTypeOK' /\ UNCHANGED agentVars
  BY DEF LockerTimesOut, RestTypeOK, AppTypeOK, BusTypeOK, KdedTypeOK, appVars, busVars,
         kdedVars
<1> QED
  BY <1>1, <1>2

LockerAlone ==
  \/ LockerGreeterReady \/ LockerGreeterSucceeds \/ LockerGreeterFails
  \/ LockerIdleTimeout \/ LockerGraceEnds \/ LockerActivity \/ LockerShortcut

LEMMA LockerAloneStep ==
  ASSUME RestTypeOK, LockerInv, LockerAlone
  PROVE  RestTypeOK' /\ LockerInv' /\ UNCHANGED agentVars
<1> USE SessionAssumption
<1>1. OthersUnchanged
  BY DEF LockerAlone, LockerGreeterReady, LockerGreeterSucceeds, LockerGreeterFails,
         LockerIdleTimeout, LockerGraceEnds, LockerActivity, LockerShortcut
<1>2. events' \in 0 .. MaxEvents
  BY DEF LockerAlone, LockerGreeterReady, LockerGreeterSucceeds, LockerGreeterFails,
         LockerIdleTimeout, LockerGraceEnds, LockerActivity, LockerShortcut, Event,
         RestTypeOK, AppTypeOK
<1>3. RestTypeOK' /\ UNCHANGED agentVars
  BY <1>1, <1>2
  DEF OthersUnchanged, RestTypeOK, AppTypeOK, BusTypeOK, KdedTypeOK, appVars, busVars, kdedVars
<1>4. LockerInv'
  <2>1. CASE LockerGreeterReady
    BY <2>1, GreeterReadyKeeps DEF LockerGreeterReady
  <2>2. CASE LockerGreeterSucceeds
    BY <2>2, GreeterSucceedsKeeps DEF LockerGreeterSucceeds
  <2>3. CASE LockerGreeterFails
    BY <2>3, GreeterFailsKeeps DEF LockerGreeterFails
  <2>4. CASE LockerIdleTimeout
    BY <2>4, IdleTimeoutKeeps DEF LockerIdleTimeout
  <2>5. CASE LockerGraceEnds
    BY <2>5, EndGraceTimeKeeps DEF LockerGraceEnds
  <2>6. CASE LockerActivity
    BY <2>6, ActivityKeeps DEF LockerActivity
  <2>7. CASE LockerShortcut
    BY <2>7, LockKeeps DEF LockerShortcut, LockShortcut
  <2> QED
    BY <2>1, <2>2, <2>3, <2>4, <2>5, <2>6, <2>7 DEF LockerAlone
<1> QED
  BY <1>3, <1>4

------------------------------------------------------------------------------
(* Every step keeps the invariant, and is a step of the agent or leaves it *)
(* alone.                                                                  *)
LEMMA InvStep ==
  ASSUME Inv, [Next]_vars
  PROVE  Inv' /\ [AgentNext]_agentVars
<1>1. CASE AgentHandles
  <2>1. RestTypeOK' /\ UNCHANGED lockerVars /\ AgentNext
    BY <1>1, AgentHandlesStep
  <2> QED
    BY <2>1, AgentInvStep, LockerStands DEF Inv
<1>2. CASE AgentRestarts
  <2>1. RestTypeOK' /\ UNCHANGED lockerVars /\ AgentNext
    BY <1>2, AgentRestartsType DEF Inv, AgentNext
  <2> QED
    BY <2>1, AgentInvStep, LockerStands DEF Inv
<1>3. CASE \/ LockerHandles \/ LockerIsAnswered \/ LockerTimesOut \/ LockerAlone
           \/ LockerSends
  <2>1. RestTypeOK' /\ LockerInv' /\ UNCHANGED agentVars
    BY <1>3, LockerHandlesStep, LockerIsAnsweredStep, LockerTimesOutStep, LockerAloneStep,
       LockerSendsType DEF Inv
  <2> QED
    BY <2>1, AgentInvStep DEF Inv
<1>4. CASE \/ \E a \in Apps : \/ AppInhibits(a) \/ AppUnInhibits(a) \/ AppLocks(a)
                             \/ AppAddsInhibition(a) \/ AppReleases(a) \/ AppForcesAll(a)
                             \/ AppGoes(a)
           \/ AgentSends \/ AgentForcesLock \/ AgentTimesOut
  <2>1. RestTypeOK' /\ UNCHANGED <<agentVars, lockerVars>>
    BY <1>4, AppCalls, AppEnds, AgentSendsType, AgentForcesLockType, AgentTimesOutType DEF Inv
  <2> QED
    BY <2>1, AgentInvStep, LockerStands DEF Inv
<1>5. CASE UNCHANGED vars
  <2>1. UNCHANGED <<agentVars, lockerVars, appVars, busVars, kdedVars, events>>
    BY <1>5 DEF vars
  <2>2. RestTypeOK'
    BY <2>1 DEF Inv, RestTypeOK, AppTypeOK, BusTypeOK, KdedTypeOK, appVars, busVars, kdedVars
  <2> QED
    BY <2>1, <2>2, AgentInvStep, LockerStands DEF Inv
<1> QED
  BY <1>1, <1>2, <1>3, <1>4, <1>5 DEF Next, AgentHandles, LockerHandles, LockerAlone

LEMMA InvStart ==
  ASSUME Init
  PROVE  Inv
<1> USE SessionAssumption, ScreenLockerAssumption DEF Init
<1>1. AgentInv
  BY AgentStarts DEF AgentInit
<1>2. LockerTypeOK /\ LockAgrees
  BY DEF LockerInit, LockerTypeOK, LockAgrees, Ksld, LockState, Serial
<1>3. RequestsOK
  BY FS_EmptySet DEF LockerInit, RequestsOK, CounterIsRequests
<1>4. AppTypeOK
  BY DEF AppTypeOK
<1>5. BusTypeOK
  BY DEF BusTypeOK
<1>6. KdedTypeOK
  <2>1. 0 \in 0 .. MaxForced /\ 0 \in 0 .. MaxRestarts
    OBVIOUS
  <2>2. agentOut \in Seq(AgentSent)
    <3>1. agentOut = << >>
      OBVIOUS
    <3> QED
      BY <3>1
  <2>3. forcing \in BOOLEAN
    BY Zenon
  <2>4. forced = 0 /\ restarts = 0
    OBVIOUS
  <2> QED
    BY <2>1, <2>2, <2>3, <2>4 DEF KdedTypeOK
<1> QED
  BY <1>1, <1>2, <1>3, <1>4, <1>5, <1>6 DEF Inv, LockerInv, RestTypeOK

LEMMA InvHolds == Spec => []Inv
  BY InvStart, InvStep, PTL DEF Spec

(* The variables of the agent, the locker, the applications, the bus and   *)
(* kded, and the messages under way, are of their types.                   *)
THEOREM TypeCorrect == Spec => []TypeOK
<1>1. Inv => TypeOK
  BY DEF Inv, AgentInv, LockerInv, RestTypeOK, TypeOK
<1> QED
  BY <1>1, InvHolds, PTL

(* The agent on the bus, whatever is sent to it and however late, is an    *)
(* agent as PolicyAgent specifies it.                                      *)
THEOREM ImplementsAgent == Spec => AgentSpec
<1>1. Init => AgentInit
  BY DEF Init
<1> QED
  BY <1>1, InvHolds, InvStep, PTL DEF Spec, AgentSpec

(* So its tables agree on the bus too.                                     *)
THEOREM TablesStayAgreed == Spec => []TablesAgree
  BY ImplementsAgent, AgentTablesAgree, PTL

(* And its listeners know what is unavailable.                             *)
THEOREM AnnouncedStaysTrue == Spec => []AnnouncedIsTrue
  BY ImplementsAgent, AgentAnnouncesTruth, PTL

(* The counter that holds off the automatic lock is the number of requests *)
(* the locker keeps.                                                       *)
THEOREM CounterCounts == Spec => []CounterIsRequests
<1>1. Inv => CounterIsRequests
  BY DEF Inv, LockerInv, RequestsOK
<1> QED
  BY <1>1, InvHolds, PTL

(* When the session is unlocked no greeter runs, replies to Lock are held  *)
(* back only while the lock is acquired, and a lock without a greeter is   *)
(* one whose greeter has failed.                                           *)
THEOREM LockStaysAgreed == Spec => []LockAgrees
<1>1. Inv => LockAgrees
  BY DEF Inv, LockerInv
<1> QED
  BY <1>1, InvHolds, PTL

------------------------------------------------------------------------------
(* Queues.  M and P are sets of messages.                                  *)

Has(s, M) == \E i \in 1 .. Len(s) : s[i] \in M
Once(s, M) == \A i, j \in 1 .. Len(s) : s[i] \in M /\ s[j] \in M => i = j

(* After every message of M comes one of P.                                *)
Followed(s, M, P) ==
  \A i \in 1 .. Len(s) : s[i] \in M => \E j \in i + 1 .. Len(s) : s[j] \in P

LEMMA TailFacts ==
  ASSUME NEW S, NEW s \in Seq(S), s # << >>, NEW M, NEW P
  PROVE  /\ Has(s, M) <=> Head(s) \in M \/ Has(Tail(s), M)
         /\ Once(s, M) => Once(Tail(s), M) /\ ~(Head(s) \in M /\ Has(Tail(s), M))
         /\ Followed(s, M, P) => /\ Followed(Tail(s), M, P)
                                 /\ Head(s) \in M => Has(Tail(s), P)
<1> DEFINE t == Tail(s)
<1>1. /\ t \in Seq(S) /\ Len(s) \in Nat \ {0} /\ Len(t) = Len(s) - 1
      /\ Head(s) = s[1] /\ \A i \in 1 .. Len(t) : t[i] = s[i + 1]
  OBVIOUS
<1> HIDE DEF t
<1>2. \A i \in 1 .. Len(s) : i = 1 \/ i - 1 \in 1 .. Len(t)
  BY <1>1
<1>3. \A i \in 1 .. Len(t) : i + 1 \in 1 .. Len(s) /\ i + 1 # 1
  BY <1>1
<1>4. \A i \in 1 .. Len(s) : i # 1 => t[i - 1] = s[i]
  BY <1>1
<1>5. 1 \in 1 .. Len(s)
  BY <1>1
<1>6. Has(s, M) <=> Head(s) \in M \/ Has(t, M)
  BY <1>1, <1>2, <1>3, <1>4, <1>5 DEF Has
<1>7. Once(s, M) => Once(t, M) /\ ~(Head(s) \in M /\ Has(t, M))
  BY <1>1, <1>3, <1>5 DEF Has, Once
<1>8. ASSUME Followed(s, M, P) PROVE Followed(t, M, P)
  <2> SUFFICES ASSUME NEW i \in 1 .. Len(t), t[i] \in M
               PROVE  \E j \in i + 1 .. Len(t) : t[j] \in P
    BY DEF Followed
  <2>1. i + 1 \in 1 .. Len(s) /\ s[i + 1] \in M
    BY <1>1, <1>3
  <2>2. PICK j \in i + 1 + 1 .. Len(s) : s[j] \in P
    BY <1>8, <2>1 DEF Followed
  <2>3. j - 1 \in i + 1 .. Len(t) /\ t[j - 1] = s[j]
    BY <1>1, <2>2
  <2> QED
    BY <2>2, <2>3
<1>9. ASSUME Followed(s, M, P), Head(s) \in M PROVE Has(t, P)
  <2>1. PICK j \in 1 + 1 .. Len(s) : s[j] \in P
    BY <1>1, <1>5, <1>9 DEF Followed
  <2>2. j - 1 \in 1 .. Len(t) /\ t[j - 1] = s[j]
    BY <1>1, <2>1
  <2> QED
    BY <2>1, <2>2 DEF Has
<1> QED
  BY <1>6, <1>7, <1>8, <1>9 DEF t

LEMMA ConcatFacts ==
  ASSUME NEW S, NEW s \in Seq(S), NEW t \in Seq(S), NEW M, NEW P
  PROVE  /\ Has(s \o t, M) <=> Has(s, M) \/ Has(t, M)
         /\ Once(s, M) /\ Once(t, M) /\ ~(Has(s, M) /\ Has(t, M)) => Once(s \o t, M)
         /\ Followed(t, M, P) /\ (Followed(s, M, P) \/ Has(t, P)) => Followed(s \o t, M, P)
<1> DEFINE u == s \o t
           m == Len(s)
           n == Len(t)
<1>1. /\ m \in Nat /\ n \in Nat /\ u \in Seq(S) /\ Len(u) = m + n
      /\ \A i \in 1 .. m : u[i] = s[i]
      /\ \A i \in 1 .. n : u[i + m] = t[i]
  OBVIOUS
<1> HIDE DEF u, m, n
<1>2. \A i \in 1 .. m + n : i \in 1 .. m \/ (i - m \in 1 .. n /\ i = i - m + m)
  BY <1>1
<1>3. /\ \A i \in 1 .. m : i \in 1 .. m + n
      /\ \A i \in 1 .. n : i + m \in 1 .. m + n /\ i + m \notin 1 .. m
  BY <1>1
<1>4. Has(u, M) <=> Has(s, M) \/ Has(t, M)
  <2>1. ASSUME Has(u, M) PROVE Has(s, M) \/ Has(t, M)
    <3>1. PICK i \in 1 .. m + n : u[i] \in M
      BY <1>1, <2>1 DEF Has
    <3>2. CASE i \in 1 .. m
      BY <1>1, <3>1, <3>2 DEF Has, m
    <3>3. CASE i \notin 1 .. m
      <4>1. i - m \in 1 .. n /\ t[i - m] = u[i]
        BY <1>1, <1>2, <3>3
      <4> QED
        BY <3>1, <4>1 DEF Has, n
    <3> QED
      BY <3>2, <3>3
  <2>2. ASSUME Has(s, M) PROVE Has(u, M)
    BY <1>1, <1>3, <2>2 DEF Has, m
  <2>3. ASSUME Has(t, M) PROVE Has(u, M)
    <3>1. PICK i \in 1 .. n : t[i] \in M
      BY <2>3 DEF Has, n
    <3>2. i + m \in 1 .. Len(u) /\ u[i + m] \in M
      BY <1>1, <1>3, <3>1
    <3> QED
      BY <3>2 DEF Has
  <2> QED
    BY <2>1, <2>2, <2>3
<1>5. ASSUME Once(s, M), Once(t, M), ~(Has(s, M) /\ Has(t, M)) PROVE Once(u, M)
  <2> SUFFICES ASSUME NEW i \in 1 .. m + n, NEW j \in 1 .. m + n, u[i] \in M, u[j] \in M
               PROVE  i = j
    BY <1>1 DEF Once
  <2>1. CASE i \in 1 .. m /\ j \in 1 .. m
    BY <1>1, <1>5, <2>1 DEF Once, m
  <2>2. CASE i \notin 1 .. m /\ j \notin 1 .. m
    <3>1. i - m \in 1 .. n /\ j - m \in 1 .. n /\ t[i - m] = u[i] /\ t[j - m] = u[j]
      BY <1>1, <1>2, <2>2
    <3>2. i - m = j - m
      BY <1>5, <3>1 DEF Once, n
    <3> QED
      BY <1>1, <3>2
  <2>3. CASE i \in 1 .. m /\ j \notin 1 .. m
    <3>1. j - m \in 1 .. n /\ t[j - m] = u[j]
      BY <1>1, <1>2, <2>3
    <3> QED
      BY <1>1, <1>5, <2>3, <3>1 DEF Has, m, n
  <2>4. CASE i \notin 1 .. m /\ j \in 1 .. m
    <3>1. i - m \in 1 .. n /\ t[i - m] = u[i]
      BY <1>1, <1>2, <2>4
    <3> QED
      BY <1>1, <1>5, <2>4, <3>1 DEF Has, m, n
  <2> QED
    BY <2>1, <2>2, <2>3, <2>4
<1>6. ASSUME Followed(t, M, P), Followed(s, M, P) \/ Has(t, P) PROVE Followed(u, M, P)
  <2> SUFFICES ASSUME NEW i \in 1 .. m + n, u[i] \in M
               PROVE  \E j \in i + 1 .. m + n : u[j] \in P
    BY <1>1 DEF Followed
  <2>1. CASE i \in 1 .. m /\ Followed(s, M, P)
    <3>1. PICK j \in i + 1 .. m : s[j] \in P
      BY <1>1, <2>1 DEF Followed, m
    <3>2. j \in i + 1 .. m + n /\ u[j] = s[j]
      BY <1>1, <2>1, <3>1
    <3> QED
      BY <3>1, <3>2
  <2>2. CASE i \in 1 .. m /\ Has(t, P)
    <3>1. PICK j \in 1 .. n : t[j] \in P
      BY <2>2 DEF Has, n
    <3>2. j + m \in i + 1 .. m + n /\ u[j + m] = t[j]
      BY <1>1, <2>2, <3>1
    <3> QED
      BY <3>1, <3>2
  <2>3. CASE i \notin 1 .. m
    <3>1. i - m \in 1 .. n /\ t[i - m] \in M
      BY <1>1, <1>2, <2>3
    <3>2. PICK j \in i - m + 1 .. n : t[j] \in P
      BY <1>6, <3>1 DEF Followed, n
    <3>3. j \in 1 .. n /\ j + m \in i + 1 .. m + n
      BY <1>1, <3>1, <3>2
    <3> QED
      BY <1>1, <3>2, <3>3
  <2> QED
    BY <1>6, <2>1, <2>2, <2>3
<1> QED
  BY <1>4, <1>5, <1>6 DEF u

(* The empty queue and the queue of one message.                           *)
LEMMA ShortQueues ==
  ASSUME NEW M, NEW P
  PROVE  /\ ~Has(<< >>, M) /\ Once(<< >>, M) /\ Followed(<< >>, M, P)
         /\ \A m : /\ Has(<<m>>, M) <=> m \in M
                   /\ Once(<<m>>, M)
                   /\ m \notin M => Followed(<<m>>, M, P)
BY DEF Has, Once, Followed

LEMMA AppendFacts ==
  ASSUME NEW S, NEW s \in Seq(S), NEW m \in S, NEW M, NEW P
  PROVE  /\ Has(Append(s, m), M) <=> Has(s, M) \/ m \in M
         /\ Once(s, M) /\ ~(m \in M /\ Has(s, M)) => Once(Append(s, m), M)
         /\ m \notin M /\ (Followed(s, M, P) \/ m \in P) => Followed(Append(s, m), M, P)
<1> DEFINE t == <<m>>
<1>1. Append(s, m) = s \o t /\ t \in Seq(S)
  OBVIOUS
<1>2. /\ Has(t, M) <=> m \in M
      /\ Has(t, P) <=> m \in P
      /\ Once(t, M)
      /\ m \notin M => Followed(t, M, P)
  BY ShortQueues
<1> HIDE DEF t
<1>3. /\ Has(s \o t, M) <=> Has(s, M) \/ Has(t, M)
      /\ Once(s, M) /\ Once(t, M) /\ ~(Has(s, M) /\ Has(t, M)) => Once(s \o t, M)
      /\ Followed(t, M, P) /\ (Followed(s, M, P) \/ Has(t, P)) => Followed(s \o t, M, P)
  BY <1>1, ConcatFacts
<1> QED
  BY <1>1, <1>2, <1>3

------------------------------------------------------------------------------
(* Whose cookies are under way.  As long as kded is not restarted a cookie *)
(* belongs to the service it was given to, or to none once it is released. *)

Owned(c, s) == c <= lastCookie /\ cookieToBusService[c] \in {s, NoService}

OwnReturns == {m \in AgentSent : m.kind = "Return" => Owned(m.cookie, m.to)}

OwnReleases ==
  {m \in AgentMessage : m.kind = "ReleaseInhibition" => Owned(m.cookie, m.from)}

OwnDrops == {m \in LockerSent : m.kind = "ReleaseInhibition" => Owned(m.cookie, Locker)}

AppsOwn == \A a \in Apps : \A c \in agentGrants[a] : Owned(c, a)

LockerOwns ==
  /\ \A r \in requests : r.powerdevilcookie # 0 => Owned(r.powerdevilcookie, Locker)
  /\ \A c \in Cookies : agentReply = <<c>> => Owned(c, Locker)
  /\ lockerOut \in Seq(OwnDrops)

AllOwn ==
  /\ AppsOwn /\ LockerOwns
  /\ agentOut \in Seq(OwnReturns) /\ agentQueue \in Seq(OwnReleases)

OwnInv == restarts = 0 => AllOwn

(* A step of the agent that is not its restart.                            *)
AgentGoesOn ==
  \/ \E types \in SUBSET Policies, s \in Services : AddInhibition(types, s)
  \/ \E cookies : Release(cookies)
  \/ UNCHANGED agentVars

LEMMA OwnedLasts ==
  ASSUME AgentTypeOK, AgentGoesOn, NEW c \in Cookies, NEW s, Owned(c, s)
  PROVE  Owned(c, s)'
<1> USE PolicyAgentAssumption DEF Owned, AgentTypeOK, Cookies
<1>1. CASE \E types \in SUBSET Policies, t \in Services : AddInhibition(types, t)
  <2>1. PICK types \in SUBSET Policies, t \in Services : AddInhibition(types, t)
    BY <1>1
  <2>2. lastCookie' = lastCookie + 1 /\ c # lastCookie + 1
        /\ cookieToBusService' = [cookieToBusService EXCEPT ![lastCookie + 1] = t]
    BY <2>1 DEF AddInhibition
  <2> QED
    BY <2>2
<1>2. CASE \E cookies : Release(cookies)
  <2>1. PICK cookies : Release(cookies)
    BY <1>2
  <2>2. lastCookie' = lastCookie
        /\ cookieToBusService' = [d \in Cookies |-> IF d \in cookies THEN NoService
                                                   ELSE cookieToBusService[d]]
    BY <2>1 DEF Release
  <2> QED
    BY <2>2
<1>3. CASE UNCHANGED agentVars
  BY <1>3 DEF agentVars
<1> QED
  BY <1>1, <1>2, <1>3 DEF AgentGoesOn

LEMMA SeqGrows ==
  ASSUME NEW S, NEW T, S \subseteq T, NEW s \in Seq(S)
  PROVE  s \in Seq(T)
OBVIOUS

(* What was owned before such a step is owned after it.                    *)
LEMMA OwnedMessages ==
  ASSUME AgentTypeOK, AgentGoesOn
  PROVE  /\ \A s \in Seq(OwnReturns) : s \in Seq(OwnReturns')
         /\ \A s \in Seq(OwnReleases) : s \in Seq(OwnReleases')
         /\ \A s \in Seq(OwnDrops) : s \in Seq(OwnDrops')
<1>1. \A c \in Cookies : \A s : Owned(c, s) => Owned(c, s)'
  BY OwnedLasts
<1>2. OwnReturns \subseteq OwnReturns'
  <2> SUFFICES ASSUME NEW m \in OwnReturns PROVE m \in OwnReturns'
    OBVIOUS
  <2>1. m \in AgentSent /\ (m.kind = "Return" => m.cookie \in Cookies /\ Owned(m.cookie, m.to))
    BY DEF OwnReturns, AgentSent
  <2> QED
    BY <1>1, <2>1 DEF OwnReturns
<1>3. OwnReleases \subseteq OwnReleases'
  <2> SUFFICES ASSUME NEW m \in OwnReleases PROVE m \in OwnReleases'
    OBVIOUS
  <2>1. m \in AgentMessage
        /\ (m.kind = "ReleaseInhibition" => m.cookie \in Cookies /\ Owned(m.cookie, m.from))
    BY DEF OwnReleases, AgentMessage
  <2> QED
    BY <1>1, <2>1 DEF OwnReleases
<1>4. OwnDrops \subseteq OwnDrops'
  <2> SUFFICES ASSUME NEW m \in OwnDrops PROVE m \in OwnDrops'
    OBVIOUS
  <2>1. m \in LockerSent
        /\ (m.kind = "ReleaseInhibition" => m.cookie \in Cookies /\ Owned(m.cookie, Locker))
    BY DEF OwnDrops, LockerSent
  <2> QED
    BY <1>1, <2>1 DEF OwnDrops
<1> QED
  BY <1>2, <1>3, <1>4, SeqGrows

LEMMA OwnersStay ==
  ASSUME Inv, AgentGoesOn, AllOwn, UNCHANGED <<agentGrants, requests, agentReply, lockerOut>>
  PROVE  AppsOwn' /\ LockerOwns'
<1> USE DEF Inv, AgentInv, AllOwn
<1>1. \A c \in Cookies : \A s : Owned(c, s) => Owned(c, s)'
  BY OwnedLasts
<1>2. AppsOwn'
  BY <1>1 DEF AppsOwn, RestTypeOK, AppTypeOK
<1>3. \A r \in requests : r.powerdevilcookie # 0 => Owned(r.powerdevilcookie, Locker)'
  BY <1>1 DEF LockerOwns, LockerInv, LockerTypeOK, Request
<1>4. \A c \in Cookies : agentReply = <<c>> => Owned(c, Locker)'
  BY <1>1 DEF LockerOwns
<1>5. lockerOut' \in Seq(OwnDrops')
  BY OwnedMessages DEF LockerOwns
<1> QED
  BY <1>2, <1>3, <1>4, <1>5 DEF LockerOwns

(* The applications release what they were given.                          *)
LEMMA AppCallsOwn ==
  ASSUME Inv, AllOwn, NEW a \in Apps,
         \/ AppInhibits(a) \/ AppUnInhibits(a) \/ AppLocks(a)
         \/ AppAddsInhibition(a) \/ AppReleases(a) \/ AppForcesAll(a)
  PROVE  AllOwn'
<1> USE DEF Inv, AllOwn
<1>1. /\ UNCHANGED <<agentVars, lockerVars, kdedVars, agentGrants, agentReply>>
  BY DEF AppInhibits, AppUnInhibits, AppLocks, AppAddsInhibition, AppReleases,
         AppForcesAll, CallUnchanged
<1>2. AgentGoesOn /\ UNCHANGED <<agentGrants, requests, agentReply, lockerOut, agentOut>>
  BY <1>1 DEF AgentGoesOn, lockerVars, kdedVars
<1>3. agentOut' \in Seq(OwnReturns')
  BY <1>2, OwnedMessages DEF AgentInv
<1>4. agentQueue' \in Seq(OwnReleases)
  <2>1. CASE AppInhibits(a) \/ AppUnInhibits(a) \/ AppLocks(a)
    BY <2>1 DEF AppInhibits, AppUnInhibits, AppLocks, CallsLocker
  <2>2. CASE AppAddsInhibition(a)
    <3>1. PICK types \in AppTypes :
            CallsAgent([kind |-> "AddInhibition", from |-> a, types |-> types])
      BY <2>2 DEF AppAddsInhibition
    <3>2. [kind |-> "AddInhibition", from |-> a, types |-> types] \in OwnReleases
      BY SessionAssumption DEF OwnReleases, AgentMessage
    <3> QED
      BY <3>1, <3>2 DEF CallsAgent
  <2>3. CASE AppReleases(a)
    <3>1. PICK c \in agentGrants[a] :
            CallsAgent([kind |-> "ReleaseInhibition", from |-> a, cookie |-> c])
      BY <2>3 DEF AppReleases
    <3>2. [kind |-> "ReleaseInhibition", from |-> a, cookie |-> c] \in OwnReleases
      BY SessionAssumption DEF OwnReleases, AgentMessage, AppsOwn, RestTypeOK, AppTypeOK
    <3> QED
      BY <3>1, <3>2 DEF CallsAgent
  <2>4. CASE AppForcesAll(a)
    <3>1. [kind |-> "ForceUnInhibitAll", from |-> a] \in OwnReleases
      BY DEF OwnReleases, AgentMessage
    <3> QED
      BY <2>4, <3>1 DEF AppForcesAll, CallsAgent
  <2> QED
    BY <2>1, <2>2, <2>3, <2>4
<1>5. agentQueue' \in Seq(OwnReleases')
  BY <1>2, <1>4, OwnedMessages DEF AgentInv
<1> QED
  BY <1>2, <1>3, <1>5, OwnersStay

LEMMA AppEndsOwn ==
  ASSUME Inv, AllOwn, NEW a \in Apps, AppGoes(a)
  PROVE  AllOwn'
<1> USE DEF Inv, AllOwn
<1>1. AgentGoesOn /\ UNCHANGED <<agentGrants, requests, agentReply, lockerOut, agentOut>>
  BY DEF AppGoes, AgentGoesOn, lockerVars, kdedVars
<1>2. agentQueue' \in Seq(OwnReleases)
  <2>1. [kind |-> "Gone", from |-> a] \in OwnReleases
    BY DEF OwnReleases, AgentMessage
  <2>2. agentQueue' = Append(agentQueue, [kind |-> "Gone", from |-> a])
        \/ agentQueue' = agentQueue
    BY Zenon DEF AppGoes
  <2> QED
    BY <2>1, <2>2
<1> QED
  BY <1>1, <1>2, OwnedMessages, OwnersStay DEF AgentInv

(* The agent's answers come to those they are for.                         *)
LEMMA AgentSendsOwn ==
  ASSUME Inv, AllOwn, AgentSends
  PROVE  AllOwn'
<1> USE DEF Inv, AllOwn
<1> DEFINE m == Head(agentOut)
<1>1. UNCHANGED <<agentVars, lockerVars, agentQueue>> /\ agentOut' = Tail(agentOut)
      /\ agentOut # << >>
  BY DEF AgentSends
<1>2. AgentGoesOn /\ UNCHANGED <<requests, lockerOut>>
  BY <1>1 DEF AgentGoesOn, lockerVars
<1>3. m \in OwnReturns /\ agentOut' \in Seq(OwnReturns)
  BY <1>1
<1>4. \A c, s : Owned(c, s)' <=> Owned(c, s)
  BY <1>1 DEF agentVars, Owned
<1>5. AppsOwn'
  <2>1. CASE m.kind = "Return" /\ m.to \in alive
    <3>1. agentGrants' = [agentGrants EXCEPT ![m.to] = @ \cup {m.cookie}]
      BY <2>1 DEF AgentSends
    <3>2. Owned(m.cookie, m.to)
      BY <1>3, <2>1 DEF OwnReturns
    <3> QED
      BY <1>4, <3>1, <3>2 DEF AppsOwn, RestTypeOK, AppTypeOK
  <2>2. CASE ~(m.kind = "Return" /\ m.to \in alive)
    <3>1. UNCHANGED agentGrants
      BY <2>2 DEF AgentSends
    <3> QED
      BY <1>4, <3>1 DEF AppsOwn
  <2> QED
    BY <2>1, <2>2
<1>6. LockerOwns'
  <2>1. ASSUME NEW c \in Cookies, agentReply' = <<c>> PROVE Owned(c, Locker)
    <3>1. CASE m.kind = "Return" /\ m.to = Locker /\ Awaited(m.serial)
      <4>1. agentReply' = <<m.cookie>>
        BY <3>1 DEF AgentSends
      <4> QED
        BY <1>3, <2>1, <3>1, <4>1 DEF OwnReturns
    <3>2. CASE ~(m.kind = "Return" /\ m.to = Locker /\ Awaited(m.serial))
      <4>1. UNCHANGED agentReply
        BY <3>2 DEF AgentSends
      <4> QED
        BY <2>1, <4>1 DEF LockerOwns
    <3> QED
      BY <3>1, <3>2
  <2>2. lockerOut' \in Seq(OwnDrops')
    BY <1>2, OwnedMessages DEF LockerOwns, AgentInv
  <2> QED
    BY <1>2, <1>4, <2>1, <2>2 DEF LockerOwns
<1>7. agentOut' \in Seq(OwnReturns') /\ agentQueue' \in Seq(OwnReleases')
  BY <1>1, <1>2, <1>3, OwnedMessages DEF AgentInv
<1> QED
  BY <1>5, <1>6, <1>7

(* What the locker drops reaches the agent as the locker's.                *)
LEMMA LockerSendsOwn ==
  ASSUME Inv, AllOwn, LockerSends
  PROVE  AllOwn'
<1> USE DEF Inv, AllOwn
<1> DEFINE m == Head(lockerOut)
<1>1. UNCHANGED <<agentVars, agentGrants, requests, agentReply, agentOut>>
      /\ lockerOut' = Tail(lockerOut) /\ lockerOut # << >>
  BY DEF LockerSends, interfaceVars
<1>2. AgentGoesOn
  BY <1>1 DEF AgentGoesOn
<1>3. m \in OwnDrops /\ lockerOut' \in Seq(OwnDrops)
  BY <1>1 DEF LockerOwns
<1>4. \A c, s : Owned(c, s)' <=> Owned(c, s)
  BY <1>1 DEF agentVars, Owned
<1>5. agentQueue' \in Seq(OwnReleases)
  <2> DEFINE adds == [kind |-> "AddInhibition", from |-> Locker,
                      types |-> {"ChangeScreenSettings"}, serial |-> m.serial]
             releases == [kind |-> "ReleaseInhibition", from |-> Locker, cookie |-> m.cookie]
  <2>1. agentQueue' = CASE m.kind = "AddInhibition" -> Append(agentQueue, adds)
                        [] m.kind = "ReleaseInhibition" -> Append(agentQueue, releases)
                        [] OTHER -> agentQueue
    BY DEF LockerSends
  <2>2. CASE m.kind = "AddInhibition"
    <3>1. adds \in OwnReleases
      BY <1>3, <2>2, SessionAssumption
      DEF AgentMessage, OwnReleases, OwnDrops, LockerSent, Policies
    <3>2. agentQueue' = Append(agentQueue, adds)
      BY <2>1, <2>2, Zenon
    <3> QED
      BY <3>1, <3>2
  <2>3. CASE m.kind = "ReleaseInhibition"
    <3>1. releases \in OwnReleases
      BY <1>3, <2>3, SessionAssumption DEF AgentMessage, OwnReleases, OwnDrops, LockerSent
    <3>2. m.kind # "AddInhibition"
      BY <2>3
    <3>3. agentQueue' = Append(agentQueue, releases)
      BY <2>1, <2>3, <3>2
    <3> QED
      BY <3>1, <3>3
  <2>4. CASE m.kind # "AddInhibition" /\ m.kind # "ReleaseInhibition"
    BY <2>1, <2>4
  <2> QED
    BY <2>2, <2>3, <2>4
<1>6. AppsOwn' /\ LockerOwns'
  <2>1. lockerOut' \in Seq(OwnDrops')
    BY <1>2, <1>3, OwnedMessages DEF AgentInv
  <2> QED
    BY <1>1, <1>4, <2>1 DEF AppsOwn, LockerOwns
<1>7. agentOut' \in Seq(OwnReturns') /\ agentQueue' \in Seq(OwnReleases')
  BY <1>1, <1>2, <1>5, OwnedMessages DEF AgentInv
<1> QED
  BY <1>6, <1>7

LEMMA AgentAddsOwn ==
  ASSUME Inv, AllOwn, AgentAdds
  PROVE  AllOwn'
<1> USE DEF Inv, AllOwn
<1> DEFINE m == Head(agentQueue)
           match == [kind |-> "AddMatch", service |-> m.from]
           answer == [kind |-> "Return", to |-> m.from, cookie |-> lastCookie',
                      serial |-> IF m.from = Locker THEN m.serial ELSE 0]
<1>1. agentQueue # << >> /\ agentQueue' = Tail(agentQueue) /\ m.kind = "AddInhibition"
      /\ AddInhibition(m.types, m.from) /\ AgentUnchanged
  BY DEF AgentAdds, AgentTakes
<1>2. m \in AgentMessage /\ m.from \in Services /\ m.types \in SUBSET Policies
      /\ (m.from = Locker => m.serial \in Serial)
  <2>1. m \in AgentMessage
    BY <1>1 DEF RestTypeOK, BusTypeOK
  <2> QED
    BY <1>1, <2>1, SessionAssumption DEF AgentMessage
<1>3. AgentGoesOn /\ UNCHANGED <<agentGrants, requests, agentReply, lockerOut>>
  BY <1>1, <1>2 DEF AgentGoesOn, AgentUnchanged, lockerVars, appVars
<1>4. lastCookie' \in Cookies /\ cookieToBusService'[lastCookie'] = m.from
      /\ lastCookie' <= lastCookie'
  <2>1. lastCookie' = lastCookie + 1 /\ lastCookie < MaxCookie
        /\ cookieToBusService' = [cookieToBusService EXCEPT ![lastCookie + 1] = m.from]
    BY <1>1 DEF AddInhibition
  <2> QED
    BY <2>1, PolicyAgentAssumption DEF AgentInv, AgentTypeOK, Cookies
<1>5. match \in OwnReturns'
  BY <1>2 DEF OwnReturns, AgentSent
<1>6. answer \in OwnReturns'
  <2>1. (IF m.from = Locker THEN m.serial ELSE 0) \in Serial
    BY <1>2, ScreenLockerAssumption DEF Serial
  <2>2. answer \in AgentSent
    BY <1>2, <1>4, <2>1 DEF AgentSent
  <2> QED
    BY <1>4, <2>2 DEF OwnReturns, Owned
<1>7. \/ agentOut' = agentOut \o << >> \o <<answer>>
      \/ agentOut' = agentOut \o <<match>> \o <<answer>>
  BY Zenon DEF AgentAdds
<1> HIDE DEF match, answer
<1>8. agentOut' \in Seq(OwnReturns')
  <2>1. agentOut \in Seq(OwnReturns')
    BY <1>3, OwnedMessages DEF AgentInv
  <2> QED
    BY <1>5, <1>6, <1>7, <2>1, TwoMore
<1>9. agentQueue' \in Seq(OwnReleases')
  <2>1. agentQueue' \in Seq(OwnReleases)
    BY <1>1
  <2> QED
    BY <1>3, <2>1, OwnedMessages DEF AgentInv
<1> QED
  BY <1>3, <1>8, <1>9, OwnersStay

LEMMA AgentTakesOwn ==
  ASSUME Inv, AllOwn, AgentReleases \/ AgentReleasesAll \/ AgentHearsOfEnd
  PROVE  AllOwn'
<1> USE DEF Inv, AllOwn
<1>1. AgentUnchanged /\ agentOut' = agentOut \o RemoveMatches
      /\ agentQueue # << >> /\ agentQueue' = Tail(agentQueue)
  BY DEF AgentReleases, AgentReleasesAll, AgentHearsOfEnd, AgentTakes
<1>2. AgentGoesOn
  BY DEF AgentGoesOn, AgentReleases, AgentReleasesAll, AgentHearsOfEnd,
         ReleaseInhibition, releaseAllInhibitions, onServiceUnregistered
<1>3. UNCHANGED <<agentGrants, requests, agentReply, lockerOut>>
  BY <1>1 DEF AgentUnchanged, lockerVars, appVars
<1>4. RemoveMatches \in Seq(OwnReturns')
  <2> DEFINE gone == SetToSeq(watched \ watched')
  <2>1. RemoveMatches \in Seq(AgentSent)
    BY RemoveMatchesType DEF AgentInv
  <2>2. RemoveMatches = [i \in DOMAIN gone |-> [kind |-> "RemoveMatch", service |-> gone[i]]]
    BY DEF RemoveMatches
  <2> HIDE DEF gone
  <2>3. \A i \in DOMAIN RemoveMatches : RemoveMatches[i] \in OwnReturns'
    <3>1. \A i \in DOMAIN RemoveMatches : RemoveMatches[i] \in AgentSent
      BY <2>1
    <3>2. \A i \in DOMAIN RemoveMatches : RemoveMatches[i].kind = "RemoveMatch"
      BY <2>2
    <3> QED
      BY <3>1, <3>2 DEF OwnReturns
  <2>4. Len(RemoveMatches) \in Nat /\ RemoveMatches \in [1 .. Len(RemoveMatches) -> AgentSent]
        /\ DOMAIN RemoveMatches = 1 .. Len(RemoveMatches)
    BY <2>1
  <2>5. RemoveMatches \in [1 .. Len(RemoveMatches) -> OwnReturns']
    BY <2>3, <2>4
  <2> QED
    BY <2>4, <2>5
<1>5. agentOut' \in Seq(OwnReturns')
  <2>1. agentOut \in Seq(OwnReturns')
    BY <1>2, OwnedMessages DEF AgentInv
  <2> QED
    BY <1>1, <1>4, <2>1
<1>6. agentQueue' \in Seq(OwnReleases')
  <2>1. agentQueue' \in Seq(OwnReleases)
    BY <1>1
  <2> QED
    BY <1>2, <2>1, OwnedMessages DEF AgentInv
<1> QED
  BY <1>2, <1>3, <1>5, <1>6, OwnersStay

(* The agent is left alone, and so are the messages to and from it.        *)
LEMMA LockerOwnSteps ==
  ASSUME AllOwn, UNCHANGED <<agentVars, agentGrants, agentOut, agentQueue>>, LockerOwns'
  PROVE  AllOwn'
<1>1. \A c, s : Owned(c, s)' <=> Owned(c, s)
  BY DEF agentVars, Owned
<1>2. OwnReturns' = OwnReturns /\ OwnReleases' = OwnReleases
  BY <1>1 DEF OwnReturns, OwnReleases
<1> QED
  BY <1>1, <1>2 DEF AllOwn, AppsOwn

LEMMA OtherMessagesOwn ==
  ASSUME UNCHANGED agentVars
  PROVE  /\ OwnDrops' = OwnDrops
         /\ \A m \in LockerSent : m.kind # "ReleaseInhibition" => m \in OwnDrops
         /\ \A c : Owned(c, Locker)' <=> Owned(c, Locker)
BY DEF OwnDrops, Owned, agentVars

(* The locker keeps the cookie it was answered.                            *)
LEMMA ReturnsOwn ==
  ASSUME Inv, LockerOwns, UNCHANGED agentVars, inhibiting # NoCaller,
         NEW c \in Cookies \cup {0}, c # 0 => Owned(c, Locker), InhibitReturns(c),
         agentReply' \in {agentReply, << >>}
  PROVE  LockerOwns'
<1> USE DEF Inv
<1> DEFINE r == [cookie |-> nextCookie, dbusid |-> inhibiting, powerdevilcookie |-> c]
           match == [kind |-> "AddMatch", service |-> inhibiting]
           answer == Answer(inhibiting, nextCookie)
<1>1. nextCookie \in Serial /\ inhibiting \in Apps
  BY DEF LockerInv, LockerTypeOK
<1>2. match \in LockerSent /\ answer \in LockerSent
      /\ match.kind # "ReleaseInhibition" /\ answer.kind # "ReleaseInhibition"
  BY <1>1 DEF Answer, LockerSent
<1>3. match \in OwnDrops /\ answer \in OwnDrops
  BY <1>2, OtherMessagesOwn
<1>4. \/ lockerOut' = lockerOut \o << >> \o <<answer>>
      \/ lockerOut' = lockerOut \o <<match>> \o <<answer>>
  BY Zenon DEF InhibitReturns
<1>5. requests' = requests \cup {r}
  BY DEF InhibitReturns
<1> HIDE DEF match, answer
<1>6. lockerOut' \in Seq(OwnDrops)
  BY <1>3, <1>4, TwoMore DEF LockerOwns
<1>7. \A q \in requests' : q.powerdevilcookie # 0 => Owned(q.powerdevilcookie, Locker)
  BY <1>5 DEF LockerOwns
<1>8. \A d \in Cookies : agentReply' = <<d>> => Owned(d, Locker)
  <2>1. \A d : << >> # <<d>>
    OBVIOUS
  <2> QED
    BY <2>1 DEF LockerOwns
<1> QED
  BY <1>6, <1>7, <1>8, OtherMessagesOwn DEF LockerOwns

LEMMA ReleasesOwnCookies ==
  ASSUME LockerInv, LockerOwns, NEW rs \in SUBSET requests
  PROVE  Releases(rs) \in Seq(OwnDrops)
<1> DEFINE S == {r \in rs : r.powerdevilcookie # 0}
           backed == SetToSeq(S)
<1>1. IsFiniteSet(rs) /\ rs \in SUBSET Request /\ IsFiniteSet(S)
  BY FS_Subset DEF LockerInv, LockerTypeOK, RequestsOK
<1>2. Releases(rs) \in Seq(LockerSent)
  BY <1>1, ReleasesType
<1>3. backed \in Seq(S)
  BY <1>1, SomeOrder
<1>4. Releases(rs) = [i \in DOMAIN backed |-> [kind |-> "ReleaseInhibition",
                                              cookie |-> backed[i].powerdevilcookie]]
  BY DEF Releases
<1>5. \A i \in DOMAIN backed : backed[i] \in S
  BY <1>3
<1> HIDE DEF backed
<1>6. DOMAIN Releases(rs) = DOMAIN backed /\ DOMAIN Releases(rs) = 1 .. Len(Releases(rs))
      /\ Len(Releases(rs)) \in Nat /\ \A i \in DOMAIN backed : Releases(rs)[i] \in LockerSent
  BY <1>2, <1>4
<1>7. \A i \in DOMAIN backed : Releases(rs)[i] \in OwnDrops
  <2> SUFFICES ASSUME NEW i \in DOMAIN backed PROVE Releases(rs)[i] \in OwnDrops
    OBVIOUS
  <2>1. Releases(rs)[i].cookie = backed[i].powerdevilcookie
    BY <1>4
  <2>2. Owned(backed[i].powerdevilcookie, Locker)
    BY <1>5 DEF LockerOwns
  <2> QED
    BY <1>6, <2>1, <2>2 DEF OwnDrops
<1>8. Releases(rs) \in [1 .. Len(Releases(rs)) -> OwnDrops]
  BY <1>4, <1>6, <1>7
<1> QED
  BY <1>6, <1>8

(* Whatever else the locker does, its requests are among those it had, and *)
(* what it sends are answers, calls and the releases of requests.          *)
LEMMA LockerHandlesOwn ==
  ASSUME Inv, LockerOwns, UNCHANGED <<agentVars, agentReply>>, LockerHandles
  PROVE  LockerOwns'
<1> USE DEF Inv
<1> DEFINE m == Head(lockerQueue)
<1>1. ASSUME requests' \subseteq requests, lockerOut' \in Seq(OwnDrops) PROVE LockerOwns'
  BY <1>1, OtherMessagesOwn DEF LockerOwns
<1>2. CASE LockerInhibits
  <2>1. [kind |-> "AddInhibition", serial |-> nextCookie] \in OwnDrops
    BY OtherMessagesOwn DEF LockerSent, LockerInv, LockerTypeOK
  <2> QED
    BY <1>1, <1>2, <2>1 DEF LockerInhibits, Inhibit, LockerOwns
<1>3. CASE LockerUnInhibits
  <2> DEFINE rs == {r \in requests : r.cookie = m.cookie}
  <2>1. requests' \subseteq requests /\ lockerOut' = lockerOut \o Releases(rs)
    BY <1>3 DEF LockerUnInhibits, UnInhibit
  <2>2. Releases(rs) \in Seq(OwnDrops)
    BY ReleasesOwnCookies
  <2> QED
    BY <1>1, <2>1, <2>2 DEF LockerOwns
<1>4. CASE LockerLocks
  <2>1. PICK grabbed, started \in BOOLEAN : Lock(m.from, grabbed, started)
    BY <1>4 DEF LockerLocks
  <2>2. m \in LockerMessage /\ m.kind = "Lock"
    BY <1>4, LockerTakesType DEF LockerLocks, LockerTakes
  <2>3. LockDone(m.from) \in OwnDrops
    <3>1. LockDone(m.from) \in LockerSent /\ LockDone(m.from).kind # "ReleaseInhibition"
      BY <2>2 DEF LockerMessage, LockerSent, LockDone
    <3> QED
      BY <3>1, OtherMessagesOwn
  <2>4. UNCHANGED requests
        /\ lockerOut' \in {lockerOut, Append(lockerOut, LockDone(m.from))}
    BY <2>1 DEF Lock, interfaceVars
  <2> QED
    BY <1>1, <2>3, <2>4 DEF LockerOwns
<1>5. CASE LockerHearsOfEnd
  <2> DEFINE rs == {r \in requests : r.dbusid = m.from}
             match == [kind |-> "RemoveMatch", service |-> m.from]
  <2>1. m \in LockerMessage /\ m.kind = "Gone"
    BY <1>5, LockerTakesType DEF LockerHearsOfEnd, LockerTakes
  <2>2. requests' \subseteq requests
        /\ lockerOut' = lockerOut \o (IF m.from \in lockerWatched THEN <<match>> ELSE << >>)
                                  \o Releases(rs)
    BY <1>5 DEF LockerHearsOfEnd, serviceUnregistered
  <2>3. match \in OwnDrops
    BY <2>1, OtherMessagesOwn DEF LockerMessage, LockerSent
  <2>4. Releases(rs) \in Seq(OwnDrops)
    BY ReleasesOwnCookies
  <2> QED
    BY <1>1, <2>2, <2>3, <2>4 DEF LockerOwns
<1> QED
  BY <1>2, <1>3, <1>4, <1>5 DEF LockerHandles

LEMMA LockerAloneOwn ==
  ASSUME Inv, LockerOwns, UNCHANGED <<agentVars, agentReply>>, LockerAlone
  PROVE  LockerOwns'
<1> USE DEF Inv
<1>1. requests' = requests
  BY DEF LockerAlone, LockerGreeterReady, LockerGreeterSucceeds, LockerGreeterFails,
         LockerIdleTimeout, LockerGraceEnds, LockerActivity, LockerShortcut, GreeterReady,
         GreeterSucceeds, GreeterFails, IdleTimeout, EndGraceTime, Activity, LockShortcut,
         Lock, interfaceVars
<1>2. lockerOut' \in {lockerOut, lockerOut \o LockAnswers}
  BY DEF LockerAlone, LockerGreeterReady, LockerGreeterSucceeds, LockerGreeterFails,
         LockerIdleTimeout, LockerGraceEnds, LockerActivity, LockerShortcut, GreeterReady,
         GreeterSucceeds, GreeterFails, IdleTimeout, EndGraceTime, Activity, LockShortcut,
         Lock, sendLockReplies
<1>3. LockAnswers \in Seq(OwnDrops)
  <2>1. LockAnswers \in Seq(LockerSent)
    BY AnswersType DEF LockerInv
  <2>2. \A i \in DOMAIN LockAnswers : LockAnswers[i].kind = "LockDone"
    BY DEF LockAnswers, LockDone
  <2>3. Len(LockAnswers) \in Nat /\ DOMAIN LockAnswers = 1 .. Len(LockAnswers)
        /\ \A i \in DOMAIN LockAnswers : LockAnswers[i] \in LockerSent
    BY <2>1
  <2>4. \A i \in DOMAIN LockAnswers : LockAnswers[i] \in OwnDrops
    BY <2>2, <2>3, OtherMessagesOwn
  <2>5. LockAnswers = [i \in DOMAIN LockAnswers |-> LockAnswers[i]]
    BY DEF LockAnswers
  <2>6. LockAnswers \in [1 .. Len(LockAnswers) -> OwnDrops]
    BY <2>3, <2>4, <2>5
  <2> QED
    BY <2>3, <2>6
<1>4. lockerOut' \in Seq(OwnDrops)
  <2>1. lockerOut \in Seq(OwnDrops)
    BY DEF LockerOwns
  <2>2. lockerOut \o LockAnswers \in Seq(OwnDrops)
    BY <1>3, <2>1
  <2> QED
    BY <1>2, <2>1, <2>2
<1> QED
  BY <1>1, <1>4, OtherMessagesOwn DEF LockerOwns

LEMMA OwnStep ==
  ASSUME Inv, OwnInv, [Next]_vars
  PROVE  OwnInv'
<1> USE SessionAssumption
<1>1. CASE AgentRestarts
  <2>1. restarts' # 0
    BY <1>1 DEF AgentRestarts, Inv, RestTypeOK, KdedTypeOK
  <2> QED
    BY <2>1 DEF OwnInv
<1>2. ASSUME ~AgentRestarts PROVE restarts' = restarts
  BY <1>2
  DEF Next, AppInhibits, AppUnInhibits, AppLocks, AppAddsInhibition, AppReleases,
      AppForcesAll, AppGoes, CallUnchanged, AgentSends, AgentAdds, AgentReleases,
      AgentReleasesAll, AgentHearsOfEnd, AgentForcesLock, AgentTimesOut, LockerSends,
      LockerInhibits, LockerUnInhibits, LockerLocks, LockerHearsOfEnd, LockerIsAnswered,
      LockerTimesOut, LockerGreeterReady, LockerGreeterSucceeds, LockerGreeterFails,
      LockerIdleTimeout, LockerGraceEnds, LockerActivity, LockerShortcut, kdedVars,
      AgentUnchanged, LockerUnchanged, OthersUnchanged, vars
<1>3. ASSUME ~AgentRestarts, AllOwn PROVE AllOwn'
  <2>1. CASE \E a \in Apps : \/ AppInhibits(a) \/ AppUnInhibits(a) \/ AppLocks(a)
                             \/ AppAddsInhibition(a) \/ AppReleases(a) \/ AppForcesAll(a)
                             \/ AppGoes(a)
    BY <1>3, <2>1, AppCallsOwn, AppEndsOwn
  <2>2. CASE AgentSends \/ LockerSends \/ AgentAdds
    BY <1>3, <2>2, AgentSendsOwn, LockerSendsOwn, AgentAddsOwn
  <2>3. CASE AgentReleases \/ AgentReleasesAll \/ AgentHearsOfEnd
    BY <1>3, <2>3, AgentTakesOwn
  <2>4. CASE AgentForcesLock
    <3>1. AgentGoesOn /\ UNCHANGED <<agentGrants, requests, agentReply, lockerOut, agentQueue>>
      BY <2>4 DEF AgentForcesLock, AgentGoesOn, lockerVars, appVars, busVars
    <3>2. AppsOwn' /\ LockerOwns'
      BY <1>3, <3>1, OwnersStay
    <3>3. agentOut' \in Seq(OwnReturns)
      <4>1. [kind |-> "Lock"] \in OwnReturns
        BY DEF OwnReturns, AgentSent
      <4> QED
        BY <1>3, <2>4, <4>1 DEF AgentForcesLock, AllOwn
    <3> QED
      BY <1>3, <3>1, <3>2, <3>3, OwnedMessages DEF AllOwn, Inv, AgentInv
  <2>5. CASE LockerHandles \/ LockerAlone
    <3>1. UNCHANGED <<agentVars, agentReply, agentGrants, agentOut, agentQueue>>
      BY <2>5 DEF LockerHandles, LockerInhibits, LockerUnInhibits, LockerLocks,
                  LockerHearsOfEnd, LockerUnchanged, LockerAlone, LockerGreeterReady,
                  LockerGreeterSucceeds, LockerGreeterFails, LockerIdleTimeout,
                  LockerGraceEnds, LockerActivity, LockerShortcut, OthersUnchanged,
                  kdedVars, appVars, busVars
    <3>2. LockerOwns'
      BY <1>3, <2>5, <3>1, LockerHandlesOwn, LockerAloneOwn DEF AllOwn
    <3> QED
      BY <1>3, <3>1, <3>2, LockerOwnSteps
  <2>6. CASE LockerIsAnswered
    <3>1. /\ UNCHANGED <<agentVars, agentGrants, agentOut, agentQueue>>
          /\ inhibiting # NoCaller /\ InhibitReturns(Head(agentReply))
          /\ agentReply # << >> /\ agentReply' = << >>
      BY <2>6 DEF LockerIsAnswered, kdedVars, appVars
    <3>2. PICK c \in Cookies \cup {0} : agentReply = <<c>>
      BY <3>1 DEF Inv, RestTypeOK, BusTypeOK
    <3>3. Head(agentReply) = c /\ (c # 0 => Owned(c, Locker))
      BY <1>3, <3>2 DEF AllOwn, LockerOwns
    <3>4. LockerOwns'
      BY <1>3, <3>1, <3>3, ReturnsOwn DEF AllOwn
    <3> QED
      BY <1>3, <3>1, <3>4, LockerOwnSteps
  <2>7. CASE LockerTimesOut
    <3>1. /\ UNCHANGED <<agentVars, agentGrants, agentOut, agentQueue, agentReply>>
          /\ inhibiting # NoCaller /\ InhibitReturns(0)
      BY <2>7 DEF LockerTimesOut, kdedVars, appVars, busVars
    <3>2. LockerOwns'
      BY <1>3, <3>1, ReturnsOwn DEF AllOwn
    <3> QED
      BY <1>3, <3>1, <3>2, LockerOwnSteps
  <2>8. CASE AgentTimesOut \/ UNCHANGED vars
    <3>1. UNCHANGED <<agentVars, requests, agentReply, lockerOut, agentGrants, agentOut,
                      agentQueue>>
      BY <2>8 DEF AgentTimesOut, vars, lockerVars, kdedVars, appVars, busVars
    <3>2. LockerOwns'
      BY <1>3, <3>1, OtherMessagesOwn DEF AllOwn, LockerOwns
    <3> QED
      BY <1>3, <3>1, <3>2, LockerOwnSteps
  <2> QED
    BY <1>3, <2>1, <2>2, <2>3, <2>4, <2>5, <2>6, <2>7, <2>8
    DEF Next, LockerHandles, LockerAlone
<1> QED
  BY <1>1, <1>2, <1>3 DEF OwnInv

LEMMA OwnStart ==
  ASSUME Init
  PROVE  OwnInv
<1>1. AppsOwn /\ LockerOwns
  BY DEF Init, LockerInit, AppsOwn, LockerOwns
<1>2. agentOut \in Seq(OwnReturns) /\ agentQueue \in Seq(OwnReleases)
  BY DEF Init
<1> QED
  BY <1>1, <1>2 DEF OwnInv, AllOwn

(* As long as kded has not been restarted, an inhibition is released only  *)
(* by the service that added it.                                           *)
THEOREM OwnReleased == Spec => []ReleasesOwn
<1>1. OwnInv => ReleasesOwn
  <2> SUFFICES ASSUME AllOwn, NEW i \in DOMAIN agentQueue,
                      agentQueue[i].kind = "ReleaseInhibition"
               PROVE  cookieToBusService[agentQueue[i].cookie]
                        \in {agentQueue[i].from, NoService}
    BY DEF OwnInv, ReleasesOwn
  <2>1. agentQueue[i] \in OwnReleases
    BY DEF AllOwn
  <2> QED
    BY <2>1 DEF OwnReleases, Owned
<1> QED
  BY <1>1, InvHolds, OwnStart, OwnStep, InvStep, PTL DEF Spec

------------------------------------------------------------------------------
(* What is sent when a table is cleared: a match is removed for each name  *)
(* that is watched no longer, a cookie released for each request that is   *)
(* dropped, an answer sent to each caller that was kept waiting.           *)

(* The order of SetToSeq leaves out nothing.                               *)
LEMMA WholeOrder ==
  ASSUME NEW S, IsFiniteSet(S)
  PROVE  \A x \in S : \E i \in DOMAIN SetToSeq(S) : SetToSeq(S)[i] = x
<1> DEFINE N == Cardinality(S)
           f == SetToSeq(S)
<1>1. ExistsBijection(1 .. N, S) /\ N \in Nat
  BY FS_CardinalityType
<1>2. PICK g \in Bijection(1 .. N, S) : TRUE
  BY <1>1 DEF ExistsBijection
<1>3. f \in Injection(1 .. N, S)
  BY <1>2 DEF SetToSeq, IsInjective, Bijection, Injection, Surjection
<1>4. Cardinality(1 .. N) = N
  BY <1>1, FS_Interval
<1> HIDE DEF f
<1>5. f \in Surjection(1 .. N, S)
  BY <1>3, <1>4, FS_Injection
<1> QED
  BY <1>5 DEF Surjection, f

LEMMA RemoveMatchesAre ==
  ASSUME AgentTypeOK
  PROVE  /\ RemoveMatches \in Seq(AgentSent)
         /\ \A i \in 1 .. Len(RemoveMatches) :
              /\ RemoveMatches[i].kind = "RemoveMatch"
              /\ RemoveMatches[i].service \in watched \ watched'
<1> DEFINE S == watched \ watched'
           gone == SetToSeq(S)
<1>1. RemoveMatches \in Seq(AgentSent)
  BY RemoveMatchesType
<1>2. IsFiniteSet(S)
  <2>1. IsFiniteSet(Apps \cup {Locker})
    BY SessionAssumption, FS_AddElement
  <2>2. S \subseteq Apps \cup {Locker}
    BY SessionAssumption DEF AgentTypeOK
  <2> QED
    BY <2>1, <2>2, FS_Subset
<1>3. gone \in Seq(S)
  BY <1>2, SomeOrder
<1>4. RemoveMatches = [i \in DOMAIN gone |-> [kind |-> "RemoveMatch", service |-> gone[i]]]
  BY DEF RemoveMatches
<1>5. \A i \in DOMAIN gone : gone[i] \in S
  BY <1>3
<1>6. DOMAIN RemoveMatches = 1 .. Len(RemoveMatches)
  BY <1>1
<1> HIDE DEF gone
<1> QED
  BY <1>1, <1>4, <1>5, <1>6

LEMMA ReleasesAre ==
  ASSUME LockerInv, NEW rs \in SUBSET requests
  PROVE  /\ Releases(rs) \in Seq(LockerSent)
         /\ \A i \in 1 .. Len(Releases(rs)) : Releases(rs)[i].kind = "ReleaseInhibition"
         /\ \A r \in rs : r.powerdevilcookie # 0 =>
              \E i \in 1 .. Len(Releases(rs)) :
                Releases(rs)[i].cookie = r.powerdevilcookie
<1> DEFINE S == {r \in rs : r.powerdevilcookie # 0}
           backed == SetToSeq(S)
<1>1. IsFiniteSet(rs) /\ rs \in SUBSET Request /\ IsFiniteSet(S)
  BY FS_Subset DEF LockerInv, LockerTypeOK, RequestsOK
<1>2. Releases(rs) \in Seq(LockerSent)
  BY <1>1, ReleasesType
<1>3. Releases(rs) = [i \in DOMAIN backed |-> [kind |-> "ReleaseInhibition",
                                              cookie |-> backed[i].powerdevilcookie]]
  BY DEF Releases
<1>4. \A r \in S : \E i \in DOMAIN backed : backed[i] = r
  BY <1>1, WholeOrder
<1> HIDE DEF backed
<1>5. DOMAIN Releases(rs) = 1 .. Len(Releases(rs)) /\ DOMAIN Releases(rs) = DOMAIN backed
  BY <1>2, <1>3
<1> QED
  BY <1>2, <1>3, <1>4, <1>5

LEMMA LockAnswersAre ==
  ASSUME LockerTypeOK
  PROVE  /\ LockAnswers \in Seq(LockerSent) /\ Len(LockAnswers) = Len(lockReplies)
         /\ \A i \in 1 .. Len(LockAnswers) : LockAnswers[i] = LockDone(lockReplies[i])
<1>1. LockAnswers \in Seq(LockerSent)
  BY AnswersType
<1>2. lockReplies \in Seq(Apps \cup {Agent})
  BY DEF LockerTypeOK
<1>3. Len(lockReplies) \in Nat /\ DOMAIN lockReplies = 1 .. Len(lockReplies)
  BY <1>2
<1>4. DOMAIN LockAnswers = 1 .. Len(lockReplies)
  BY <1>3 DEF LockAnswers
<1>5. Len(LockAnswers) \in Nat /\ DOMAIN LockAnswers = 1 .. Len(LockAnswers)
  BY <1>1
<1>6. Len(LockAnswers) = Len(lockReplies)
  BY <1>3, <1>4, <1>5
<1> QED
  BY <1>1, <1>3, <1>4, <1>6 DEF LockAnswers

------------------------------------------------------------------------------
(* A queue that gained none of some messages, and lost some perhaps.       *)

Quiet(t, s, M) == (Has(t, M) => Has(s, M)) /\ (Once(s, M) => Once(t, M))

LEMMA QuietSame == \A s, M : Quiet(s, s, M)
BY DEF Quiet

LEMMA QuietTail ==
  ASSUME NEW S, NEW s \in Seq(S), s # << >>
  PROVE  \A M : Quiet(Tail(s), s, M)
BY TailFacts DEF Quiet

LEMMA QuietAppend ==
  ASSUME NEW S, NEW s \in Seq(S), NEW m \in S
  PROVE  \A M : m \notin M => Quiet(Append(s, m), s, M)
BY AppendFacts DEF Quiet

LEMMA NoneHas ==
  ASSUME NEW M, NEW t, \A i \in 1 .. Len(t) : t[i] \notin M
  PROVE  ~Has(t, M) /\ Once(t, M)
BY DEF Has, Once

LEMMA QuietConcat ==
  ASSUME NEW S, NEW s \in Seq(S), NEW t \in Seq(S)
  PROVE  \A M : (\A i \in 1 .. Len(t) : t[i] \notin M) => Quiet(s \o t, s, M)
<1> SUFFICES ASSUME NEW M, \A i \in 1 .. Len(t) : t[i] \notin M PROVE Quiet(s \o t, s, M)
  OBVIOUS
<1>1. ~Has(t, M) /\ Once(t, M)
  BY NoneHas
<1> QED
  BY <1>1, ConcatFacts DEF Quiet

LEMMA QuietTwoMore ==
  ASSUME NEW S, NEW s \in Seq(S), NEW x \in S, NEW y \in S
  PROVE  \A M : y \notin M =>
           /\ Quiet(s \o << >> \o <<y>>, s, M)
           /\ x \notin M => Quiet(s \o <<x>> \o <<y>>, s, M)
<1>1. /\ s \o << >> \o <<y>> = Append(s, y)
      /\ s \o <<x>> \o <<y>> = Append(Append(s, x), y)
      /\ Append(s, x) \in Seq(S)
  OBVIOUS
<1>2. \A M : y \notin M => Quiet(Append(s, y), s, M)
  BY QuietAppend
<1>3. \A M : x \notin M => Quiet(Append(s, x), s, M)
  BY QuietAppend
<1>4. \A M : y \notin M => Quiet(Append(Append(s, x), y), Append(s, x), M)
  BY <1>1, QuietAppend
<1> QED
  BY <1>1, <1>2, <1>3, <1>4 DEF Quiet

------------------------------------------------------------------------------
(* The calls of Interface::Inhibit to the agent.  Each has a serial, the   *)
(* value of nextCookie when it was made, and is in one place: asked by the *)
(* locker, heard by kded, or answered by kded.                             *)

Asked(n) == {m \in LockerSent : m.kind = "AddInhibition" /\ m.serial = n}

Heard(n) ==
  {m \in AgentMessage : m.kind = "AddInhibition" /\ m.from = Locker /\ m.serial = n}

Answered(n) == {m \in AgentSent : m.kind = "Return" /\ m.to = Locker /\ m.serial = n}

NotAsked(n) ==
  /\ ~Has(lockerOut, Asked(n)) /\ ~Has(agentQueue, Heard(n))
  /\ ~Has(agentOut, Answered(n))

AskedOnce(n) ==
  /\ Once(lockerOut, Asked(n)) /\ Once(agentQueue, Heard(n))
  /\ Once(agentOut, Answered(n))
  /\ Has(lockerOut, Asked(n)) => ~Has(agentQueue, Heard(n)) /\ ~Has(agentOut, Answered(n))
  /\ Has(agentQueue, Heard(n)) => ~Has(agentOut, Answered(n))

(* The call that is waited for is made once, and once it is answered       *)
(* nothing of it is under way; no other call is waited for.                *)
SerialInv ==
  /\ AskedOnce(nextCookie)
  /\ agentReply # << >> => NotAsked(nextCookie)
  /\ inhibiting = NoCaller => agentReply = << >> /\ NotAsked(nextCookie)
  /\ \A n \in Serial : n > nextCookie => NotAsked(n)

QuietSerials ==
  \A n \in Serial :
    /\ Quiet(lockerOut', lockerOut, Asked(n)) /\ Quiet(agentQueue', agentQueue, Heard(n))
    /\ Quiet(agentOut', agentOut, Answered(n))

LEMMA QuietCalls ==
  ASSUME QuietSerials, NEW n \in Serial
  PROVE  /\ NotAsked(n) => NotAsked(n)'
         /\ AskedOnce(n) => AskedOnce(n)'
BY DEF QuietSerials, Quiet, NotAsked, AskedOnce

LEMMA SerialQuiet ==
  ASSUME Inv, SerialInv, QuietSerials, UNCHANGED <<nextCookie, inhibiting, agentReply>>
  PROVE  SerialInv'
<1>1. nextCookie \in Serial
  BY DEF Inv, LockerInv, LockerTypeOK
<1>2. /\ NotAsked(nextCookie) => NotAsked(nextCookie)'
      /\ AskedOnce(nextCookie) => AskedOnce(nextCookie)'
      /\ \A n \in Serial : NotAsked(n) => NotAsked(n)'
  <2>1. \A n \in Serial : /\ NotAsked(n) => NotAsked(n)'
                          /\ AskedOnce(n) => AskedOnce(n)'
    BY QuietCalls
  <2> QED
    BY <1>1, <2>1
<1> QED
  BY <1>1, <1>2 DEF SerialInv

(* The queues are of their types.                                          *)
LEMMA Queues ==
  ASSUME Inv
  PROVE  /\ lockerOut \in Seq(LockerSent) /\ agentOut \in Seq(AgentSent)
         /\ agentQueue \in Seq(AgentMessage) /\ lockerQueue \in Seq(LockerMessage)
         /\ lockReplies \in Seq(Apps \cup {Agent})
BY DEF Inv, LockerInv, LockerTypeOK, RestTypeOK, BusTypeOK, KdedTypeOK

LEMMA AppCallsSerial ==
  ASSUME Inv, SerialInv, NEW a \in Apps,
         \/ AppInhibits(a) \/ AppUnInhibits(a) \/ AppLocks(a)
         \/ AppAddsInhibition(a) \/ AppReleases(a) \/ AppForcesAll(a)
  PROVE  SerialInv'
<1> USE SessionAssumption
<1>1. UNCHANGED <<nextCookie, inhibiting, agentReply, lockerOut, agentOut>>
  BY DEF AppInhibits, AppUnInhibits, AppLocks, AppAddsInhibition, AppReleases,
         AppForcesAll, CallUnchanged, lockerVars, kdedVars
<1>2. \A n \in Serial : Quiet(agentQueue', agentQueue, Heard(n))
  <2>1. ASSUME NEW msg \in AgentMessage, msg.from # Locker, CallsAgent(msg)
        PROVE  \A n \in Serial : Quiet(agentQueue', agentQueue, Heard(n))
    <3>1. \A n : msg \notin Heard(n)
      BY <2>1 DEF Heard
    <3> QED
      BY <2>1, <3>1, Queues, QuietAppend DEF CallsAgent
  <2>2. CASE AppInhibits(a) \/ AppUnInhibits(a) \/ AppLocks(a)
    BY <2>2, QuietSame DEF AppInhibits, AppUnInhibits, AppLocks, CallsLocker
  <2>3. CASE AppAddsInhibition(a)
    <3>1. PICK types \in AppTypes :
            CallsAgent([kind |-> "AddInhibition", from |-> a, types |-> types])
      BY <2>3 DEF AppAddsInhibition
    <3>2. [kind |-> "AddInhibition", from |-> a, types |-> types] \in AgentMessage
      BY DEF AgentMessage
    <3> QED
      BY <2>1, <3>1, <3>2
  <2>4. CASE AppReleases(a)
    <3>1. PICK c \in agentGrants[a] :
            CallsAgent([kind |-> "ReleaseInhibition", from |-> a, cookie |-> c])
      BY <2>4 DEF AppReleases
    <3>2. [kind |-> "ReleaseInhibition", from |-> a, cookie |-> c] \in AgentMessage
      BY DEF AgentMessage, Inv, RestTypeOK, AppTypeOK
    <3> QED
      BY <2>1, <3>1, <3>2
  <2>5. CASE AppForcesAll(a)
    <3>1. [kind |-> "ForceUnInhibitAll", from |-> a] \in AgentMessage
      BY DEF AgentMessage
    <3> QED
      BY <2>1, <2>5, <3>1 DEF AppForcesAll
  <2> QED
    BY <2>2, <2>3, <2>4, <2>5
<1>3. QuietSerials
  BY <1>1, <1>2, QuietSame DEF QuietSerials
<1> QED
  BY <1>1, <1>3, SerialQuiet

LEMMA AppEndsSerial ==
  ASSUME Inv, SerialInv, NEW a \in Apps, AppGoes(a)
  PROVE  SerialInv'
<1> DEFINE gone == [kind |-> "Gone", from |-> a]
<1>1. UNCHANGED <<nextCookie, inhibiting, agentReply, lockerOut, agentOut>>
  BY DEF AppGoes, lockerVars, kdedVars
<1>2. gone \in AgentMessage /\ \A n : gone \notin Heard(n)
  BY DEF AgentMessage, Heard
<1>3. agentQueue' = Append(agentQueue, gone) \/ agentQueue' = agentQueue
  BY Zenon DEF AppGoes
<1> HIDE DEF gone
<1>4. \A n : Quiet(agentQueue', agentQueue, Heard(n))
  BY <1>2, <1>3, Queues, QuietAppend, QuietSame
<1> QED
  BY <1>1, <1>4, QuietSame, SerialQuiet DEF QuietSerials

LEMMA AgentTakesSerial ==
  ASSUME Inv, SerialInv, AgentReleases \/ AgentReleasesAll \/ AgentHearsOfEnd
  PROVE  SerialInv'
<1>1. /\ UNCHANGED <<nextCookie, inhibiting, agentReply, lockerOut>>
      /\ agentQueue # << >> /\ agentQueue' = Tail(agentQueue)
      /\ agentOut' = agentOut \o RemoveMatches
  BY DEF AgentReleases, AgentReleasesAll, AgentHearsOfEnd, AgentTakes, AgentUnchanged,
         lockerVars
<1>2. RemoveMatches \in Seq(AgentSent)
      /\ \A n : \A i \in 1 .. Len(RemoveMatches) : RemoveMatches[i] \notin Answered(n)
  BY RemoveMatchesAre DEF Inv, AgentInv, Answered
<1>3. \A n : Quiet(agentOut', agentOut, Answered(n))
  BY <1>1, <1>2, Queues, QuietConcat
<1>4. \A n : Quiet(agentQueue', agentQueue, Heard(n))
  BY <1>1, Queues, QuietTail
<1> QED
  BY <1>1, <1>3, <1>4, QuietSame, SerialQuiet DEF QuietSerials

LEMMA LockerDropsSerial ==
  ASSUME Inv, SerialInv,
         LockerUnInhibits \/ LockerLocks \/ LockerHearsOfEnd \/ LockerAlone
  PROVE  SerialInv'
<1> DEFINE m == Head(lockerQueue)
<1>1. UNCHANGED <<agentReply, agentQueue, agentOut>>
  BY DEF LockerUnInhibits, LockerLocks, LockerHearsOfEnd, LockerAlone, LockerUnchanged,
         OthersUnchanged, LockerGreeterReady, LockerGreeterSucceeds, LockerGreeterFails,
         LockerIdleTimeout, LockerGraceEnds, LockerActivity, LockerShortcut, kdedVars,
         busVars
<1>2. UNCHANGED <<nextCookie, inhibiting>>
  BY DEF LockerUnInhibits, UnInhibit, LockerLocks, Lock, LockerHearsOfEnd,
         serviceUnregistered, LockerAlone, LockerGreeterReady,
         LockerGreeterSucceeds, LockerGreeterFails, LockerIdleTimeout, LockerGraceEnds,
         LockerActivity, LockerShortcut, GreeterReady, GreeterSucceeds, GreeterFails,
         IdleTimeout, EndGraceTime, Activity, LockShortcut, interfaceVars
<1>3. \A n : Quiet(lockerOut', lockerOut, Asked(n))
  <2>1. ASSUME NEW rs \in SUBSET requests
        PROVE  /\ Releases(rs) \in Seq(LockerSent)
               /\ \A n : \A i \in 1 .. Len(Releases(rs)) : Releases(rs)[i] \notin Asked(n)
    BY ReleasesAre DEF Inv, Asked
  <2>2. CASE LockerUnInhibits
    <3> DEFINE rs == {r \in requests : r.cookie = m.cookie}
    <3>1. lockerOut' = lockerOut \o Releases(rs)
      BY <2>2 DEF LockerUnInhibits, UnInhibit
    <3> QED
      BY <2>1, <3>1, Queues, QuietConcat
  <2>3. CASE LockerLocks
    <3>1. PICK grabbed, started \in BOOLEAN : Lock(m.from, grabbed, started)
      BY <2>3 DEF LockerLocks
    <3>2. m \in LockerMessage /\ m.kind = "Lock"
      BY <2>3, LockerTakesType DEF LockerLocks, LockerTakes, Inv
    <3>3. LockDone(m.from) \in LockerSent /\ \A n : LockDone(m.from) \notin Asked(n)
      BY <3>2 DEF LockerMessage, LockerSent, LockDone, Asked
    <3>4. lockerOut' = lockerOut \/ lockerOut' = Append(lockerOut, LockDone(m.from))
      BY <3>1 DEF Lock
    <3> QED
      BY <3>3, <3>4, Queues, QuietAppend, QuietSame
  <2>4. CASE LockerHearsOfEnd
    <3> DEFINE rs == {r \in requests : r.dbusid = m.from}
               match == [kind |-> "RemoveMatch", service |-> m.from]
    <3>1. m \in LockerMessage /\ m.kind = "Gone"
      BY <2>4, LockerTakesType DEF LockerHearsOfEnd, LockerTakes, Inv
    <3>2. lockerOut' = lockerOut \o (IF m.from \in lockerWatched THEN <<match>> ELSE << >>)
                                 \o Releases(rs)
      BY <2>4 DEF LockerHearsOfEnd, serviceUnregistered
    <3>3. match \in LockerSent /\ \A n : match \notin Asked(n)
      BY <3>1 DEF LockerMessage, LockerSent, Asked
    <3>4. PICK s : s = lockerOut \o (IF m.from \in lockerWatched THEN <<match>> ELSE << >>)
      OBVIOUS
    <3>5. s \in Seq(LockerSent) /\ (s = lockerOut \/ s = Append(lockerOut, match))
      BY <3>3, <3>4, Queues
    <3>6. \A n : Quiet(s, lockerOut, Asked(n))
      BY <3>3, <3>5, Queues, QuietAppend, QuietSame
    <3>7. \A n : Quiet(s \o Releases(rs), s, Asked(n))
      BY <2>1, <3>5, QuietConcat
    <3> QED
      BY <3>2, <3>4, <3>6, <3>7 DEF Quiet
  <2>5. CASE LockerAlone
    <3>1. lockerOut' = lockerOut \/ lockerOut' = lockerOut \o LockAnswers
      BY <2>5
      DEF LockerAlone, LockerGreeterReady, LockerGreeterSucceeds, LockerGreeterFails,
          LockerIdleTimeout, LockerGraceEnds, LockerActivity, LockerShortcut, GreeterReady,
          GreeterSucceeds, GreeterFails, IdleTimeout, EndGraceTime, Activity, LockShortcut,
          Lock, sendLockReplies
    <3>2. LockAnswers \in Seq(LockerSent)
          /\ \A n : \A i \in 1 .. Len(LockAnswers) : LockAnswers[i] \notin Asked(n)
      <4>1. LockerTypeOK
        BY DEF Inv, LockerInv
      <4>2. \A i \in 1 .. Len(LockAnswers) : LockAnswers[i] = LockDone(lockReplies[i])
        BY <4>1, LockAnswersAre
      <4>3. \A x : LockDone(x).kind = "LockDone"
        BY DEF LockDone
      <4> QED
        BY <4>1, <4>2, <4>3, LockAnswersAre DEF Asked
    <3> QED
      BY <3>1, <3>2, Queues, QuietConcat, QuietSame
  <2> QED
    BY <2>2, <2>3, <2>4, <2>5
<1> QED
  BY <1>1, <1>2, <1>3, QuietSame, SerialQuiet DEF QuietSerials

(* The bus takes the answer of the agent: if it is the one that is waited  *)
(* for it is the only one.                                                 *)
LEMMA AgentSendsSerial ==
  ASSUME Inv, SerialInv, AgentSends
  PROVE  SerialInv'
<1> DEFINE m == Head(agentOut)
<1>1. /\ UNCHANGED <<nextCookie, inhibiting, lockerOut, agentQueue>>
      /\ agentOut # << >> /\ agentOut' = Tail(agentOut)
  BY DEF AgentSends, lockerVars
<1>2. agentOut \in Seq(AgentSent) /\ m \in AgentSent /\ nextCookie \in Serial
  BY <1>1 DEF Inv, LockerInv, LockerTypeOK, RestTypeOK, KdedTypeOK
<1>3. QuietSerials
  BY <1>1, Queues, QuietTail, QuietSame DEF QuietSerials
<1>4. CASE m.kind = "Return" /\ m.to = Locker /\ Awaited(m.serial)
  <2>1. m \in Answered(nextCookie) /\ inhibiting # NoCaller
    BY <1>2, <1>4 DEF Awaited, Answered
  <2>2. Has(agentOut, Answered(nextCookie)) /\ ~Has(agentOut', Answered(nextCookie))
    BY <1>1, <1>2, <2>1, TailFacts DEF SerialInv, AskedOnce
  <2>3. NotAsked(nextCookie)'
    BY <1>1, <2>2 DEF SerialInv, AskedOnce, NotAsked
  <2>4. /\ AskedOnce(nextCookie) => AskedOnce(nextCookie)'
        /\ \A n \in Serial : NotAsked(n) => NotAsked(n)'
    <3>1. \A n \in Serial : /\ NotAsked(n) => NotAsked(n)'
                            /\ AskedOnce(n) => AskedOnce(n)'
      BY <1>3, QuietCalls
    <3> QED
      BY <1>1, <1>2, <3>1
  <2> QED
    BY <1>1, <2>1, <2>3, <2>4 DEF SerialInv
<1>5. CASE ~(m.kind = "Return" /\ m.to = Locker /\ Awaited(m.serial))
  <2>1. UNCHANGED agentReply
    BY <1>5 DEF AgentSends
  <2> QED
    BY <1>1, <1>3, <2>1, SerialQuiet
<1> QED
  BY <1>4, <1>5

(* The bus takes the call.                                                 *)
LEMMA LockerSendsSerial ==
  ASSUME Inv, SerialInv, LockerSends
  PROVE  SerialInv'
<1> DEFINE m == Head(lockerOut)
           adds == [kind |-> "AddInhibition", from |-> Locker,
                    types |-> {"ChangeScreenSettings"}, serial |-> m.serial]
           releases == [kind |-> "ReleaseInhibition", from |-> Locker, cookie |-> m.cookie]
<1>1. /\ UNCHANGED <<nextCookie, inhibiting, agentReply, agentOut>>
      /\ lockerOut # << >> /\ lockerOut' = Tail(lockerOut)
  BY DEF LockerSends, interfaceVars
<1>2. lockerOut \in Seq(LockerSent) /\ m \in LockerSent /\ nextCookie \in Serial
  BY <1>1 DEF Inv, LockerInv, LockerTypeOK
<1>3. agentQueue' = CASE m.kind = "AddInhibition" -> Append(agentQueue, adds)
                      [] m.kind = "ReleaseInhibition" -> Append(agentQueue, releases)
                      [] OTHER -> agentQueue
  BY DEF LockerSends
<1>4. \A n : /\ Quiet(lockerOut', lockerOut, Asked(n))
             /\ Quiet(agentOut', agentOut, Answered(n))
  BY <1>1, <1>2, QuietTail, QuietSame
<1>5. CASE m.kind = "AddInhibition"
  <2>1. agentQueue' = Append(agentQueue, adds)
    BY <1>3, <1>5, Zenon
  <2>2. m.serial \in Serial /\ m \in Asked(m.serial) /\ \A n : n # m.serial => adds \notin Heard(n)
    BY <1>2, <1>5 DEF LockerSent, Asked, Heard
  <2>3. adds \in AgentMessage
    BY <2>2 DEF AgentMessage, Policies
  <2> DEFINE k == m.serial
  <2> HIDE DEF adds
  <2>4. \A n \in Serial : n # k => Quiet(agentQueue', agentQueue, Heard(n))
    BY <2>1, <2>2, <2>3, Queues, QuietAppend
  <2>5. \A n \in Serial : n # k => (NotAsked(n) => NotAsked(n)')
    BY <1>4, <2>4 DEF Quiet, NotAsked, AskedOnce
  <2>6. Has(lockerOut, Asked(k))
    BY <1>1, <1>2, <2>2, TailFacts
  <2>7. CASE k = nextCookie
    <3>1. ~NotAsked(nextCookie) /\ ~Has(agentQueue, Heard(nextCookie))
          /\ ~Has(agentOut, Answered(nextCookie))
      BY <2>6, <2>7 DEF SerialInv, NotAsked, AskedOnce
    <3>2. ~Has(lockerOut', Asked(nextCookie)) /\ Once(lockerOut', Asked(nextCookie))
      BY <1>1, <1>2, <2>2, <2>7, TailFacts DEF SerialInv, AskedOnce
    <3>3. Once(agentQueue', Heard(nextCookie))
      BY <2>1, <2>3, <3>1, Queues, AppendFacts DEF SerialInv, AskedOnce
    <3>4. AskedOnce(nextCookie)'
      BY <1>1, <3>1, <3>2, <3>3 DEF SerialInv, AskedOnce
    <3>5. agentReply = << >> /\ inhibiting # NoCaller
      BY <3>1 DEF SerialInv
    <3>6. ASSUME NEW n \in Serial, n > nextCookie PROVE NotAsked(n)'
      <4>1. n # k /\ NotAsked(n)
        BY <1>2, <2>7, <3>6 DEF SerialInv, Serial
      <4> QED
        BY <2>5, <4>1
    <3> QED
      BY <1>1, <3>4, <3>5, <3>6 DEF SerialInv
  <2>8. CASE k # nextCookie
    <3>1. ~(k > nextCookie)
      BY <2>2, <2>6 DEF SerialInv, NotAsked
    <3>2. /\ Quiet(lockerOut', lockerOut, Asked(nextCookie))
          /\ Quiet(agentQueue', agentQueue, Heard(nextCookie))
          /\ Quiet(agentOut', agentOut, Answered(nextCookie))
      BY <1>2, <1>4, <2>4, <2>8
    <3>3. /\ NotAsked(nextCookie) => NotAsked(nextCookie)'
          /\ AskedOnce(nextCookie) => AskedOnce(nextCookie)'
      BY <1>1, <3>2 DEF Quiet, NotAsked, AskedOnce
    <3>4. ASSUME NEW n \in Serial, n > nextCookie PROVE NotAsked(n)'
      <4>1. n # k /\ NotAsked(n)
        BY <3>1, <3>4 DEF SerialInv
      <4> QED
        BY <2>5, <4>1
    <3> QED
      BY <1>1, <3>3, <3>4 DEF SerialInv
  <2> QED
    BY <2>7, <2>8
<1>6. CASE m.kind = "ReleaseInhibition"
  <2>1. agentQueue' = Append(agentQueue, releases)
    BY <1>3, <1>6
  <2>2. releases \in AgentMessage /\ \A n : releases \notin Heard(n)
    BY <1>2, <1>6, SessionAssumption DEF AgentMessage, LockerSent, Heard
  <2>3. \A n : Quiet(agentQueue', agentQueue, Heard(n))
    BY <2>1, <2>2, Queues, QuietAppend
  <2> QED
    BY <1>1, <1>4, <2>3, SerialQuiet DEF QuietSerials
<1>7. CASE m.kind # "AddInhibition" /\ m.kind # "ReleaseInhibition"
  <2>1. agentQueue' = agentQueue
    BY <1>3, <1>7
  <2> QED
    BY <1>1, <1>4, <2>1, QuietSame, SerialQuiet DEF QuietSerials
<1> QED
  BY <1>5, <1>6, <1>7


(* kded answers the call.                                                  *)
LEMMA AgentAddsSerial ==
  ASSUME Inv, SerialInv, AgentAdds
  PROVE  SerialInv'
<1> DEFINE m == Head(agentQueue)
           match == [kind |-> "AddMatch", service |-> m.from]
           k == IF m.from = Locker THEN m.serial ELSE 0
           answer == [kind |-> "Return", to |-> m.from, cookie |-> lastCookie',
                      serial |-> k]
<1>1. /\ agentQueue # << >> /\ agentQueue' = Tail(agentQueue) /\ m.kind = "AddInhibition"
      /\ AddInhibition(m.types, m.from)
      /\ UNCHANGED <<nextCookie, inhibiting, agentReply, lockerOut>>
  BY DEF AgentAdds, AgentTakes, AgentUnchanged, lockerVars
<1>2. m \in AgentMessage /\ nextCookie \in Serial
  BY <1>1 DEF Inv, LockerInv, LockerTypeOK, RestTypeOK, BusTypeOK
<1>3. m.from \in Services /\ k \in Serial /\ (m.from = Locker => m \in Heard(k))
  BY <1>1, <1>2, SessionAssumption, ScreenLockerAssumption DEF AgentMessage, Heard, Serial
<1>4. lastCookie' \in Cookies
  BY <1>1, PolicyAgentAssumption
  DEF AddInhibition, Inv, AgentInv, AgentTypeOK, Cookies
<1>5. match \in AgentSent /\ answer \in AgentSent /\ match.kind # "Return"
      /\ answer.to = m.from /\ answer.serial = k
  BY <1>3, <1>4 DEF AgentSent
<1>6. \/ agentOut' = agentOut \o << >> \o <<answer>>
      \/ agentOut' = agentOut \o <<match>> \o <<answer>>
  BY Zenon DEF AgentAdds
<1>7. \A n : Quiet(agentQueue', agentQueue, Heard(n))
  BY <1>1, Queues, QuietTail
<1>8. \A n : match \notin Answered(n)
  BY <1>5 DEF Answered
<1> HIDE DEF match, answer, k
<1>9. \A n : answer \notin Answered(n) => Quiet(agentOut', agentOut, Answered(n))
  BY <1>5, <1>6, <1>8, Queues, QuietTwoMore
<1>10. CASE m.from # Locker
  <2>1. \A n : answer \notin Answered(n)
    BY <1>5, <1>10 DEF Answered
  <2> QED
    BY <1>1, <1>7, <1>9, <2>1, QuietSame, SerialQuiet DEF QuietSerials
<1>11. CASE m.from = Locker
  <2>1. \A n : n # k => answer \notin Answered(n)
    BY <1>5 DEF Answered
  <2>2. \A n : n # k => Quiet(agentOut', agentOut, Answered(n))
    BY <1>9, <2>1
  <2>3. \A n : n # k /\ NotAsked(n) => NotAsked(n)'
    BY <1>1, <1>7, <2>2 DEF Quiet, NotAsked
  <2>4. Has(agentQueue, Heard(k))
    BY <1>1, <1>3, <1>11, Queues, TailFacts
  <2>5. CASE k = nextCookie
    <3>1. ~Has(lockerOut, Asked(nextCookie)) /\ ~Has(agentOut, Answered(nextCookie))
          /\ ~NotAsked(nextCookie)
      BY <2>4, <2>5 DEF SerialInv, AskedOnce, NotAsked
    <3>2. ~Has(agentQueue', Heard(nextCookie)) /\ Once(agentQueue', Heard(nextCookie))
      BY <1>1, <1>3, <1>11, <2>5, Queues, TailFacts DEF SerialInv, AskedOnce
    <3>3. Once(agentOut', Answered(nextCookie))
      <4>1. PICK s \in Seq(AgentSent) : /\ Quiet(s, agentOut, Answered(nextCookie))
                                        /\ agentOut' = Append(s, answer)
        <5>1. Quiet(Append(agentOut, match), agentOut, Answered(nextCookie))
          BY <1>5, <1>8, Queues, QuietAppend
        <5>2. Append(agentOut, match) \in Seq(AgentSent)
              /\ \/ agentOut' = Append(agentOut, answer)
                 \/ agentOut' = Append(Append(agentOut, match), answer)
          BY <1>5, <1>6, Queues, SMTT(30)
        <5> QED
          BY <5>1, <5>2, Queues, QuietSame
      <4>2. ~Has(s, Answered(nextCookie)) /\ Once(s, Answered(nextCookie))
        BY <3>1, <4>1 DEF Quiet, SerialInv, AskedOnce
      <4> QED
        BY <1>5, <4>1, <4>2, AppendFacts
    <3>4. AskedOnce(nextCookie)'
      BY <1>1, <3>1, <3>2, <3>3 DEF SerialInv, AskedOnce
    <3>5. agentReply = << >> /\ inhibiting # NoCaller
      BY <3>1 DEF SerialInv
    <3>6. ASSUME NEW n \in Serial, n > nextCookie PROVE NotAsked(n)'
      <4>1. n # k /\ NotAsked(n)
        BY <1>2, <2>5, <3>6 DEF SerialInv, Serial
      <4> QED
        BY <2>3, <4>1
    <3> QED
      BY <1>1, <3>4, <3>5, <3>6 DEF SerialInv
  <2>6. CASE k # nextCookie
    <3>1. ~(k > nextCookie)
      BY <1>3, <2>4 DEF SerialInv, NotAsked
    <3>2. /\ Quiet(agentQueue', agentQueue, Heard(nextCookie))
          /\ Quiet(agentOut', agentOut, Answered(nextCookie))
      BY <1>7, <2>2, <2>6
    <3>3. /\ NotAsked(nextCookie) => NotAsked(nextCookie)'
          /\ AskedOnce(nextCookie) => AskedOnce(nextCookie)'
      BY <1>1, <3>2 DEF Quiet, NotAsked, AskedOnce
    <3>4. ASSUME NEW n \in Serial, n > nextCookie PROVE NotAsked(n)'
      <4>1. n # k /\ NotAsked(n)
        BY <3>1, <3>4 DEF SerialInv
      <4> QED
        BY <2>3, <4>1
    <3> QED
      BY <1>1, <3>3, <3>4 DEF SerialInv
  <2> QED
    BY <2>5, <2>6
<1> QED
  BY <1>10, <1>11

(* kded goes: the bus answers for it.                                      *)
LEMMA AgentRestartsSerial ==
  ASSUME Inv, SerialInv, AgentRestarts
  PROVE  SerialInv'
<1>1. /\ UNCHANGED <<nextCookie, inhibiting, lockerOut, agentOut>>
      /\ agentQueue' = << >> /\ agentOut = << >>
  BY DEF AgentRestarts, lockerVars
<1>2. nextCookie \in Serial
  BY DEF Inv, LockerInv, LockerTypeOK
<1>3. \A n : Quiet(agentQueue', agentQueue, Heard(n))
  BY <1>1, ShortQueues DEF Quiet
<1>4. QuietSerials
  BY <1>1, <1>3, QuietSame DEF QuietSerials
<1>5. CASE \E i \in DOMAIN agentQueue : /\ agentQueue[i].kind = "AddInhibition"
                                        /\ agentQueue[i].from = Locker
                                        /\ Awaited(agentQueue[i].serial)
  <2>1. PICK i \in DOMAIN agentQueue : /\ agentQueue[i].kind = "AddInhibition"
                                       /\ agentQueue[i].from = Locker
                                       /\ Awaited(agentQueue[i].serial)
    BY <1>5
  <2>2. i \in 1 .. Len(agentQueue) /\ agentQueue[i] \in Heard(nextCookie)
        /\ inhibiting # NoCaller
    BY <2>1, Queues DEF Awaited, Heard
  <2>3. Has(agentQueue, Heard(nextCookie))
    BY <2>2 DEF Has
  <2>4. NotAsked(nextCookie)'
    <3>1. ~Has(lockerOut, Asked(nextCookie)) /\ ~Has(agentOut, Answered(nextCookie))
      BY <2>3 DEF SerialInv, AskedOnce
    <3>2. ~Has(agentQueue', Heard(nextCookie))
      BY <1>1, ShortQueues
    <3> QED
      BY <1>1, <3>1, <3>2 DEF NotAsked
  <2>5. AskedOnce(nextCookie)' /\ \A n \in Serial : NotAsked(n) => NotAsked(n)'
    <3>1. \A n \in Serial : /\ NotAsked(n) => NotAsked(n)'
                            /\ AskedOnce(n) => AskedOnce(n)'
      BY <1>4, QuietCalls
    <3> QED
      BY <1>1, <1>2, <3>1 DEF SerialInv
  <2> QED
    BY <1>1, <2>2, <2>4, <2>5 DEF SerialInv
<1>6. CASE ~(\E i \in DOMAIN agentQueue : /\ agentQueue[i].kind = "AddInhibition"
                                          /\ agentQueue[i].from = Locker
                                          /\ Awaited(agentQueue[i].serial))
  <2>1. UNCHANGED agentReply
    BY <1>6, Zenon DEF AgentRestarts
  <2> QED
    BY <1>1, <1>4, <2>1, SerialQuiet
<1> QED
  BY <1>5, <1>6

LEMMA AgentForcesLockSerial ==
  ASSUME Inv, SerialInv, AgentForcesLock
  PROVE  SerialInv'
<1>1. /\ UNCHANGED <<nextCookie, inhibiting, agentReply, lockerOut, agentQueue>>
      /\ agentOut' = Append(agentOut, [kind |-> "Lock"])
  BY DEF AgentForcesLock, lockerVars, busVars
<1>2. [kind |-> "Lock"] \in AgentSent /\ \A n : [kind |-> "Lock"] \notin Answered(n)
  BY DEF AgentSent, Answered
<1>3. \A n : Quiet(agentOut', agentOut, Answered(n))
  BY <1>1, <1>2, Queues, QuietAppend
<1> QED
  BY <1>1, <1>3, QuietSame, SerialQuiet DEF QuietSerials

(* The locker calls, when no call of it is waited for.                     *)
LEMMA LockerInhibitsSerial ==
  ASSUME Inv, SerialInv, LockerInhibits
  PROVE  SerialInv'
<1> DEFINE call == [kind |-> "AddInhibition", serial |-> nextCookie]
<1>1. /\ inhibiting = NoCaller /\ lockerOut' = Append(lockerOut, call)
      /\ UNCHANGED <<nextCookie, agentReply, agentQueue, agentOut>>
      /\ inhibiting' = Head(lockerQueue).from
  BY DEF LockerInhibits, Inhibit, LockerTakes, Idle, LockerUnchanged, kdedVars
<1>2. nextCookie \in Serial /\ call \in LockerSent
  BY DEF Inv, LockerInv, LockerTypeOK, LockerSent
<1>3. agentReply = << >> /\ NotAsked(nextCookie)
  BY <1>1 DEF SerialInv
<1>4. AskedOnce(nextCookie)'
  <2> HIDE DEF call
  <2>1. Once(lockerOut', Asked(nextCookie))
    <3>1. ~Has(lockerOut, Asked(nextCookie)) /\ Once(lockerOut, Asked(nextCookie))
      BY <1>3 DEF NotAsked, SerialInv, AskedOnce
    <3>2. Once(Append(lockerOut, call), Asked(nextCookie))
      BY <1>2, <3>1, Queues, AppendFacts
    <3> QED
      BY <1>1, <3>2
  <2> QED
    BY <1>1, <1>3, <2>1 DEF SerialInv, AskedOnce, NotAsked
<1>5. ASSUME NEW n \in Serial, n > nextCookie PROVE NotAsked(n)'
  <2>1. n # nextCookie /\ NotAsked(n)
    BY <1>2, <1>5 DEF SerialInv, Serial
  <2>2. call \notin Asked(n)
    BY <2>1 DEF Asked
  <2>3. Quiet(lockerOut', lockerOut, Asked(n))
    BY <1>1, <1>2, <2>2, Queues, QuietAppend
  <2> QED
    BY <1>1, <2>1, <2>3 DEF NotAsked, Quiet
<1>6. inhibiting' # NoCaller
  <2>1. Head(lockerQueue) \in LockerMessage /\ Head(lockerQueue).kind = "Inhibit"
    BY LockerTakesType DEF LockerInhibits, LockerTakes, Inv
  <2> QED
    BY <1>1, <2>1, SessionAssumption DEF LockerMessage
<1> QED
  BY <1>1, <1>3, <1>4, <1>5, <1>6 DEF SerialInv

(* The answer has come, or is given up: the next call has the next serial. *)
LEMMA ReturnsSerial ==
  ASSUME Inv, SerialInv, LockerIsAnswered \/ LockerTimesOut
  PROVE  SerialInv'
<1> DEFINE match == [kind |-> "AddMatch", service |-> inhibiting]
           answer == Answer(inhibiting, nextCookie)
<1>1. /\ inhibiting # NoCaller /\ UNCHANGED <<agentQueue, agentOut>>
      /\ agentReply' = << >>
      /\ \E c : InhibitReturns(c)
  BY DEF LockerIsAnswered, LockerTimesOut, kdedVars, busVars
<1>2. /\ nextCookie' = nextCookie + 1 /\ inhibiting' = NoCaller
      /\ \/ lockerOut' = lockerOut \o << >> \o <<answer>>
         \/ lockerOut' = lockerOut \o <<match>> \o <<answer>>
  BY <1>1, Zenon DEF InhibitReturns
<1>3. nextCookie \in Serial /\ nextCookie < MaxInhibits /\ inhibiting \in Apps
  BY <1>1 DEF Inv, LockerInv, LockerTypeOK
<1>4. match \in LockerSent /\ answer \in LockerSent
      /\ \A n : match \notin Asked(n) /\ answer \notin Asked(n)
  BY <1>3 DEF LockerSent, Answer, Asked
<1> HIDE DEF match, answer
<1>5. \A n : Quiet(lockerOut', lockerOut, Asked(n))
  BY <1>2, <1>4, Queues, QuietTwoMore
<1>6. nextCookie + 1 \in Serial /\ nextCookie + 1 > nextCookie
  BY <1>3, ScreenLockerAssumption DEF Serial
<1>7. ASSUME NEW n \in Serial, n > nextCookie
      PROVE  /\ ~Has(lockerOut', Asked(n)) /\ ~Has(agentQueue', Heard(n))
             /\ ~Has(agentOut', Answered(n))
  BY <1>1, <1>5, <1>7 DEF SerialInv, NotAsked, Quiet
<1>8. NotAsked(nextCookie)'
  BY <1>2, <1>6, <1>7 DEF NotAsked
<1>9. AskedOnce(nextCookie)'
  <2>1. \A s, M : ~Has(s, M) => Once(s, M)
    BY DEF Has, Once
  <2> QED
    BY <1>8, <2>1 DEF NotAsked, AskedOnce
<1>10. ASSUME NEW n \in Serial, n > nextCookie' PROVE NotAsked(n)'
  <2>1. n > nextCookie
    BY <1>2, <1>3, <1>10 DEF Serial
  <2> QED
    BY <1>7, <2>1 DEF NotAsked
<1> QED
  BY <1>1, <1>2, <1>8, <1>9, <1>10 DEF SerialInv

LEMMA SerialStep ==
  ASSUME Inv, SerialInv, [Next]_vars
  PROVE  SerialInv'
<1>1. CASE UNCHANGED vars \/ AgentTimesOut
  <2>1. UNCHANGED <<nextCookie, inhibiting, agentReply, lockerOut, agentQueue, agentOut>>
    BY <1>1 DEF vars, lockerVars, busVars, kdedVars, AgentTimesOut
  <2> QED
    BY <2>1, QuietSame, SerialQuiet DEF QuietSerials
<1> QED
  BY <1>1, AppCallsSerial, AppEndsSerial, AgentTakesSerial, LockerDropsSerial,
     AgentSendsSerial, LockerSendsSerial, AgentAddsSerial, AgentRestartsSerial,
     AgentForcesLockSerial, LockerInhibitsSerial, ReturnsSerial
  DEF Next, LockerAlone

LEMMA SerialStart ==
  ASSUME Init
  PROVE  SerialInv
BY ShortQueues DEF Init, LockerInit, SerialInv, NotAsked, AskedOnce

------------------------------------------------------------------------------
(* Where the locker's cookies are. *)

Returned(c) == {m \in AgentSent : m.kind = "Return" /\ m.to = Locker /\ m.cookie = c}

Released(c) ==
  {m \in AgentMessage : m.kind = "ReleaseInhibition" /\ m.from = Locker /\ m.cookie = c}

Drops(c) == {m \in LockerSent : m.kind = "ReleaseInhibition" /\ m.cookie = c}

Requested(c) == \E r \in requests : r.powerdevilcookie = c

Accounted(c) ==
  \/ Requested(c) \/ agentReply = <<c>> \/ c \in lost
  \/ Has(agentOut, Returned(c)) \/ Has(agentQueue, Released(c)) \/ Has(lockerOut, Drops(c))

AllAccounted == \A c \in cookiesOf(Locker) : Accounted(c)

LEMMA AccountedIsProperty ==
  ASSUME Inv
  PROVE  LockerCookiesAccounted <=> AllAccounted
<1> SUFFICES ASSUME NEW c
             PROVE  /\ InAgentOut(c) <=> Has(agentOut, Returned(c))
                    /\ InAgentQueue(c) <=> Has(agentQueue, Released(c))
                    /\ InLockerOut(c) <=> Has(lockerOut, Drops(c))
  BY DEF LockerCookiesAccounted, AllAccounted, Accounted, Requested
<1>1. InAgentOut(c) <=> Has(agentOut, Returned(c))
  BY Queues DEF InAgentOut, Has, Returned
<1>2. InAgentQueue(c) <=> Has(agentQueue, Released(c))
  BY Queues DEF InAgentQueue, Has, Released
<1>3. InLockerOut(c) <=> Has(lockerOut, Drops(c))
  BY Queues DEF InLockerOut, Has, Drops
<1> QED
  BY <1>1, <1>2, <1>3

LEMMA HasMore ==
  ASSUME NEW S, NEW s \in Seq(S)
  PROVE  /\ \A t \in Seq(S) : \A M : Has(s, M) => Has(s \o t, M)
         /\ \A m \in S : \A M : Has(s, M) => Has(Append(s, m), M)
BY ConcatFacts, AppendFacts

LEMMA TwoMoreAre ==
  ASSUME NEW S, NEW s \in Seq(S), NEW x \in S, NEW y \in S
  PROVE  /\ s \o << >> \o <<y>> = Append(s, y)
         /\ s \o <<x>> \o <<y>> = Append(Append(s, x), y)
OBVIOUS

(* What leaves the agent's table before c does leaves c accounted for.     *)
LEMMA CookiesLeft ==
  ASSUME Inv, NEW cookies, Release(cookies), NEW c \in cookiesOf(Locker)'
  PROVE  c \in cookiesOf(Locker) /\ c \notin cookies
<1>1. c \in Cookies /\ cookieToBusService'[c] = Locker
  BY DEF cookiesOf
<1>2. cookieToBusService'[c] = IF c \in cookies THEN NoService ELSE cookieToBusService[c]
  BY <1>1 DEF Release
<1>3. Locker # NoService
  BY SessionAssumption, PolicyAgentAssumption
<1> QED
  BY <1>1, <1>2, <1>3 DEF cookiesOf

LEMMA SameAgentCookies ==
  ASSUME UNCHANGED agentVars
  PROVE  cookiesOf(Locker)' = cookiesOf(Locker)
BY DEF agentVars, cookiesOf

(* No cookie leaves its place.                                             *)
StaysPut(c) ==
  /\ Requested(c) => Requested(c)'
  /\ agentReply = <<c>> => agentReply' = <<c>>
  /\ c \in lost => c \in lost'
  /\ Has(agentOut, Returned(c)) => Has(agentOut', Returned(c))
  /\ Has(agentQueue, Released(c)) => Has(agentQueue', Released(c))
  /\ Has(lockerOut, Drops(c)) => Has(lockerOut', Drops(c))

LEMMA AccountedStays ==
  ASSUME AllAccounted, UNCHANGED agentVars, \A c \in Cookies : StaysPut(c)
  PROVE  AllAccounted'
<1> SUFFICES ASSUME NEW c \in cookiesOf(Locker)' PROVE Accounted(c)'
  BY DEF AllAccounted
<1>1. c \in cookiesOf(Locker) /\ c \in Cookies
  BY SameAgentCookies DEF cookiesOf
<1> QED
  BY <1>1 DEF AllAccounted, Accounted, StaysPut

LEMMA AppCallsAccounted ==
  ASSUME Inv, AllAccounted, NEW a \in Apps,
         \/ AppInhibits(a) \/ AppUnInhibits(a) \/ AppLocks(a)
         \/ AppAddsInhibition(a) \/ AppReleases(a) \/ AppForcesAll(a)
         \/ AppGoes(a)
  PROVE  AllAccounted'
<1>1. UNCHANGED <<agentVars, requests, agentReply, lost, lockerOut, agentOut>>
  BY DEF AppInhibits, AppUnInhibits, AppLocks, AppAddsInhibition, AppReleases,
         AppForcesAll, AppGoes, CallUnchanged, lockerVars, kdedVars
<1>2. agentQueue' = agentQueue \/ \E m : agentQueue' = Append(agentQueue, m)
  <2>1. CASE AppGoes(a)
    BY <2>1, Zenon DEF AppGoes
  <2>2. CASE AppInhibits(a) \/ AppUnInhibits(a) \/ AppLocks(a)
    BY <2>2 DEF AppInhibits, AppUnInhibits, AppLocks, CallsLocker
  <2>3. CASE AppAddsInhibition(a) \/ AppReleases(a) \/ AppForcesAll(a)
    BY <2>3 DEF AppAddsInhibition, AppReleases, AppForcesAll, CallsAgent
  <2> QED
    BY <2>1, <2>2, <2>3
<1>3. agentQueue' \in Seq(AgentMessage)
  BY AppCalls, AppEnds DEF Inv, RestTypeOK, BusTypeOK
<1>4. \A M : Has(agentQueue, M) => Has(agentQueue', M)
  <2>1. CASE agentQueue' = agentQueue
    BY <2>1
  <2>2. CASE \E m : agentQueue' = Append(agentQueue, m)
    <3>1. PICK m : agentQueue' = Append(agentQueue, m)
      BY <2>2
    <3>2. m \in AgentMessage
      <4>1. Len(agentQueue) + 1 \in 1 .. Len(agentQueue')
            /\ agentQueue'[Len(agentQueue) + 1] = m
        BY <3>1, Queues
      <4> QED
        BY <1>3, <4>1
    <3> QED
      BY <3>1, <3>2, Queues, HasMore
  <2> QED
    BY <1>2, <2>1, <2>2
<1>5. \A c : StaysPut(c)
  BY <1>1, <1>4 DEF StaysPut, Requested
<1> QED
  BY <1>1, <1>5, AccountedStays

(* A new cookie is in the answer; the call it answers names none.          *)
LEMMA AgentAddsAccounted ==
  ASSUME Inv, AllAccounted, AgentAdds
  PROVE  AllAccounted'
<1> DEFINE m == Head(agentQueue)
           match == [kind |-> "AddMatch", service |-> m.from]
           answer == [kind |-> "Return", to |-> m.from, cookie |-> lastCookie',
                      serial |-> IF m.from = Locker THEN m.serial ELSE 0]
<1>1. /\ agentQueue # << >> /\ agentQueue' = Tail(agentQueue) /\ m.kind = "AddInhibition"
      /\ AddInhibition(m.types, m.from)
      /\ UNCHANGED <<requests, agentReply, lost, lockerOut>>
  BY DEF AgentAdds, AgentTakes, AgentUnchanged, lockerVars
<1>2. m \in AgentMessage
  BY <1>1, Queues
<1>3. /\ m.from \in Services
      /\ (IF m.from = Locker THEN m.serial ELSE 0) \in Serial
  BY <1>1, <1>2, SessionAssumption, ScreenLockerAssumption DEF AgentMessage, Serial
<1>4. lastCookie' \in Cookies /\ lastCookie' = lastCookie + 1
      /\ cookieToBusService' = [cookieToBusService EXCEPT ![lastCookie + 1] = m.from]
  BY <1>1, PolicyAgentAssumption DEF AddInhibition, Inv, AgentInv, AgentTypeOK, Cookies
<1>5. match \in AgentSent /\ answer \in AgentSent
      /\ (m.from = Locker => answer \in Returned(lastCookie'))
  BY <1>3, <1>4 DEF AgentSent, Returned
<1>6. \/ agentOut' = agentOut \o << >> \o <<answer>>
      \/ agentOut' = agentOut \o <<match>> \o <<answer>>
  BY Zenon DEF AgentAdds
<1> HIDE DEF match, answer
<1>7. PICK s \in Seq(AgentSent) : agentOut' = Append(s, answer)
                                  /\ \A M : Has(agentOut, M) => Has(s, M)
  <2>1. /\ Append(agentOut, match) \in Seq(AgentSent)
        /\ \A M : Has(agentOut, M) => Has(Append(agentOut, match), M)
    BY <1>5, Queues, HasMore
  <2>2. \/ agentOut' = Append(agentOut, answer)
        \/ agentOut' = Append(Append(agentOut, match), answer)
    <3>1. /\ agentOut \o << >> \o <<answer>> = Append(agentOut, answer)
          /\ agentOut \o <<match>> \o <<answer>> = Append(Append(agentOut, match), answer)
      BY <1>5, Queues, TwoMoreAre
    <3> QED
      BY <1>6, <3>1, Zenon
  <2> QED
    BY <2>1, <2>2, Queues
<1>8. \A M : \/ Has(agentOut, M) \/ answer \in M => Has(agentOut', M)
  BY <1>5, <1>7, AppendFacts
<1>9. \A c : Has(agentQueue, Released(c)) => Has(agentQueue', Released(c))
  <2>1. \A c : m \notin Released(c)
    BY <1>1 DEF Released
  <2> QED
    BY <1>1, <2>1, Queues, TailFacts
<1> SUFFICES ASSUME NEW c \in cookiesOf(Locker)' PROVE Accounted(c)'
  BY DEF AllAccounted
<1>10. CASE c = lastCookie'
  <2>1. m.from = Locker
    BY <1>4, <1>10 DEF cookiesOf, Inv, AgentInv, AgentTypeOK
  <2>2. Has(agentOut', Returned(c))
    BY <1>5, <1>8, <1>10, <2>1
  <2> QED
    BY <2>2 DEF Accounted
<1>11. CASE c # lastCookie'
  <2>1. c \in cookiesOf(Locker)
    BY <1>4, <1>11 DEF cookiesOf, Inv, AgentInv, AgentTypeOK
  <2> QED
    BY <1>1, <1>8, <1>9, <2>1 DEF AllAccounted, Accounted, Requested
<1> QED
  BY <1>10, <1>11

(* What kded takes from its queue and forgets is not c's release.          *)
LEMMA AgentTakesAccounted ==
  ASSUME Inv, AllAccounted, AgentReleases \/ AgentReleasesAll \/ AgentHearsOfEnd
  PROVE  AllAccounted'
<1> DEFINE m == Head(agentQueue)
<1>1. /\ UNCHANGED <<requests, agentReply, lost, lockerOut>>
      /\ agentQueue # << >> /\ agentQueue' = Tail(agentQueue)
      /\ agentOut' = agentOut \o RemoveMatches
  BY DEF AgentReleases, AgentReleasesAll, AgentHearsOfEnd, AgentTakes, AgentUnchanged,
         lockerVars
<1>2. PICK cookies : /\ Release(cookies)
                     /\ m.kind = "ReleaseInhibition" => cookies = {m.cookie}
  BY DEF AgentReleases, AgentReleasesAll, AgentHearsOfEnd, AgentTakes,
         ReleaseInhibition, releaseAllInhibitions, onServiceUnregistered
<1>3. \A M : Has(agentOut, M) => Has(agentOut', M)
  <2>1. RemoveMatches \in Seq(AgentSent)
    BY RemoveMatchesAre DEF Inv, AgentInv
  <2> QED
    BY <1>1, <2>1, Queues, HasMore
<1> SUFFICES ASSUME NEW c \in cookiesOf(Locker)' PROVE Accounted(c)'
  BY DEF AllAccounted
<1>4. c \in cookiesOf(Locker) /\ c \notin cookies
  BY <1>2, CookiesLeft
<1>5. m \notin Released(c)
  BY <1>2, <1>4 DEF Released
<1>6. Has(agentQueue, Released(c)) => Has(agentQueue', Released(c))
  BY <1>1, <1>5, Queues, TailFacts
<1> QED
  BY <1>1, <1>3, <1>4, <1>6 DEF AllAccounted, Accounted, Requested

(* The bus hands the answer over; it never covers another that ksmserver   *)
(* has not read yet.                                                       *)
LEMMA AgentSendsAccounted ==
  ASSUME Inv, SerialInv, AllAccounted, AgentSends
  PROVE  AllAccounted'
<1> DEFINE m == Head(agentOut)
<1>1. /\ UNCHANGED <<agentVars, requests, lockerOut, agentQueue>>
      /\ agentOut # << >> /\ agentOut' = Tail(agentOut) /\ m \in AgentSent
  BY Queues DEF AgentSends, lockerVars
<1>2. \A c : c \in lost => c \in lost'
  BY DEF AgentSends
<1>3. \A M : Has(agentOut, M) => m \in M \/ Has(agentOut', M)
  BY <1>1, Queues, TailFacts
<1>4. CASE m.kind = "Return" /\ m.to = Locker /\ Awaited(m.serial)
  <2>1. agentReply' = <<m.cookie>>
    BY <1>4 DEF AgentSends
  <2>2. m \in Answered(nextCookie)
    BY <1>1, <1>4 DEF Awaited, Answered
  <2>3. agentReply = << >>
    BY <1>1, <2>2, Queues, TailFacts DEF SerialInv, NotAsked
  <2>4. \A c : m \in Returned(c) => agentReply' = <<c>>
    BY <2>1 DEF Returned
  <2>5. \A c : agentReply # <<c>>
    BY <2>3
  <2> SUFFICES ASSUME NEW c \in cookiesOf(Locker)' PROVE Accounted(c)'
    BY DEF AllAccounted
  <2>6. c \in cookiesOf(Locker)
    BY <1>1, SameAgentCookies
  <2> QED
    BY <1>1, <1>2, <1>3, <2>4, <2>5, <2>6 DEF AllAccounted, Accounted, Requested
<1>5. CASE ~(m.kind = "Return" /\ m.to = Locker /\ Awaited(m.serial))
  <2>1. UNCHANGED agentReply
    BY <1>5 DEF AgentSends
  <2>2. \A c : m \in Returned(c) => c \in lost'
    BY <1>5 DEF Returned, AgentSends
  <2> SUFFICES ASSUME NEW c \in cookiesOf(Locker)' PROVE Accounted(c)'
    BY DEF AllAccounted
  <2>3. c \in cookiesOf(Locker)
    BY <1>1, SameAgentCookies
  <2> QED
    BY <1>1, <1>2, <1>3, <2>1, <2>2, <2>3 DEF AllAccounted, Accounted, Requested
<1> QED
  BY <1>4, <1>5

(* The bus hands the release over.                                         *)
LEMMA LockerSendsAccounted ==
  ASSUME Inv, AllAccounted, LockerSends
  PROVE  AllAccounted'
<1> DEFINE m == Head(lockerOut)
           adds == [kind |-> "AddInhibition", from |-> Locker,
                    types |-> {"ChangeScreenSettings"}, serial |-> m.serial]
           releases == [kind |-> "ReleaseInhibition", from |-> Locker, cookie |-> m.cookie]
<1>1. /\ UNCHANGED <<agentVars, requests, agentReply, lost, agentOut>>
      /\ lockerOut # << >> /\ lockerOut' = Tail(lockerOut) /\ m \in LockerSent
  BY Queues DEF LockerSends, interfaceVars
<1>2. agentQueue' = CASE m.kind = "AddInhibition" -> Append(agentQueue, adds)
                      [] m.kind = "ReleaseInhibition" -> Append(agentQueue, releases)
                      [] OTHER -> agentQueue
  BY DEF LockerSends
<1>3. \A M : Has(lockerOut, M) => m \in M \/ Has(lockerOut', M)
  BY <1>1, Queues, TailFacts
<1>4. /\ \A M : Has(agentQueue, M) => Has(agentQueue', M)
      /\ \A c : m \in Drops(c) => Has(agentQueue', Released(c))
  <2>1. CASE m.kind = "AddInhibition"
    <3>1. agentQueue' = Append(agentQueue, adds)
      BY <1>2, <2>1, Zenon
    <3>2. adds \in AgentMessage
      BY <1>1, <2>1 DEF LockerSent, AgentMessage, Policies
    <3>3. \A c : m \notin Drops(c)
      BY <2>1 DEF Drops
    <3> HIDE DEF adds
    <3> QED
      BY <3>1, <3>2, <3>3, Queues, HasMore
  <2>2. CASE m.kind = "ReleaseInhibition"
    <3>1. agentQueue' = Append(agentQueue, releases)
      BY <1>2, <2>2
    <3>2. releases \in AgentMessage
      BY <1>1, <2>2, SessionAssumption DEF LockerSent, AgentMessage
    <3>3. \A c : m \in Drops(c) => releases \in Released(c)
      BY <3>2 DEF Drops, Released
    <3> HIDE DEF releases
    <3>4. \A M : Has(agentQueue, M) \/ releases \in M => Has(agentQueue', M)
      BY <3>1, <3>2, Queues, AppendFacts
    <3> QED
      BY <3>3, <3>4
  <2>3. CASE m.kind # "AddInhibition" /\ m.kind # "ReleaseInhibition"
    <3>1. agentQueue' = agentQueue
      BY <1>2, <2>3
    <3>2. \A c : m \notin Drops(c)
      BY <2>3 DEF Drops
    <3> QED
      BY <3>1, <3>2
  <2> QED
    BY <2>1, <2>2, <2>3
<1> SUFFICES ASSUME NEW c \in cookiesOf(Locker)' PROVE Accounted(c)'
  BY DEF AllAccounted
<1>5. c \in cookiesOf(Locker)
  BY <1>1, SameAgentCookies
<1> QED
  BY <1>1, <1>3, <1>4, <1>5 DEF AllAccounted, Accounted, Requested

LEMMA AgentRestartsAccounted ==
  ASSUME AgentRestarts
  PROVE  AllAccounted'
<1>1. Locker # NoService
  BY SessionAssumption, PolicyAgentAssumption
<1>2. \A c \in Cookies : cookieToBusService'[c] = NoService
  BY DEF AgentRestarts, AgentRestart
<1> QED
  BY <1>1, <1>2 DEF AllAccounted, cookiesOf

(* A request that is dropped leaves its release behind.                    *)
LEMMA LockerDropsAccounted ==
  ASSUME Inv, AllAccounted, UNCHANGED <<agentVars, agentReply, lost, agentOut, agentQueue>>,
         NEW rs \in SUBSET requests, requests' = requests \ rs,
         NEW s \in Seq(LockerSent), \A M : Has(lockerOut, M) => Has(s, M),
         lockerOut' = s \o Releases(rs)
  PROVE  AllAccounted'
<1>1. /\ Releases(rs) \in Seq(LockerSent)
      /\ \A i \in 1 .. Len(Releases(rs)) : Releases(rs)[i].kind = "ReleaseInhibition"
      /\ \A r \in rs : r.powerdevilcookie # 0 =>
           \E i \in 1 .. Len(Releases(rs)) : Releases(rs)[i].cookie = r.powerdevilcookie
  BY ReleasesAre DEF Inv
<1>2. \A M : Has(s, M) \/ Has(Releases(rs), M) => Has(lockerOut', M)
  BY <1>1, ConcatFacts
<1>3. \A r \in rs : r.powerdevilcookie # 0 =>
        Has(Releases(rs), Drops(r.powerdevilcookie))
  <2> SUFFICES ASSUME NEW r \in rs, r.powerdevilcookie # 0
               PROVE  Has(Releases(rs), Drops(r.powerdevilcookie))
    OBVIOUS
  <2>1. PICK i \in 1 .. Len(Releases(rs)) : Releases(rs)[i].cookie = r.powerdevilcookie
    BY <1>1
  <2>2. Releases(rs)[i] \in LockerSent
    BY <1>1, <2>1
  <2> QED
    BY <1>1, <2>1, <2>2 DEF Has, Drops
<1> SUFFICES ASSUME NEW c \in cookiesOf(Locker)' PROVE Accounted(c)'
  BY DEF AllAccounted
<1>4. c \in cookiesOf(Locker) /\ c # 0
  BY SameAgentCookies DEF cookiesOf, Cookies
<1>5. Requested(c) => Requested(c)' \/ Has(lockerOut', Drops(c))
  <2> SUFFICES ASSUME NEW r \in requests, r.powerdevilcookie = c
               PROVE  Requested(c)' \/ Has(lockerOut', Drops(c))
    BY DEF Requested
  <2>1. CASE r \in rs
    BY <1>2, <1>3, <1>4, <2>1
  <2>2. CASE r \notin rs
    BY <2>2 DEF Requested
  <2> QED
    BY <2>1, <2>2
<1> QED
  BY <1>2, <1>4, <1>5 DEF AllAccounted, Accounted

LEMMA LockerHandlesAccounted ==
  ASSUME Inv, AllAccounted, LockerHandles
  PROVE  AllAccounted'
<1> DEFINE m == Head(lockerQueue)
<1>1. UNCHANGED <<agentVars, agentReply, lost, agentOut, agentQueue>>
  BY DEF LockerHandles, LockerInhibits, LockerUnInhibits, LockerLocks, LockerHearsOfEnd,
         LockerUnchanged, kdedVars
<1>2. CASE LockerInhibits
  <2>1. /\ UNCHANGED requests
        /\ lockerOut' = Append(lockerOut, [kind |-> "AddInhibition", serial |-> nextCookie])
    BY <1>2 DEF LockerInhibits, Inhibit
  <2>2. [kind |-> "AddInhibition", serial |-> nextCookie] \in LockerSent
    BY DEF LockerSent, Inv, LockerInv, LockerTypeOK
  <2>3. \A M : Has(lockerOut, M) => Has(lockerOut', M)
    BY <2>1, <2>2, Queues, HasMore
  <2> QED
    BY <1>1, <2>1, <2>3, AccountedStays DEF StaysPut, Requested
<1>3. CASE LockerUnInhibits
  <2> DEFINE rs == {r \in requests : r.cookie = m.cookie}
  <2>1. requests' = requests \ rs /\ lockerOut' = lockerOut \o Releases(rs)
    BY <1>3 DEF LockerUnInhibits, UnInhibit
  <2>2. rs \in SUBSET requests
    OBVIOUS
  <2> HIDE DEF rs
  <2> QED
    BY <1>1, <2>1, <2>2, Queues, LockerDropsAccounted
<1>4. CASE LockerLocks
  <2>1. PICK grabbed, started \in BOOLEAN : Lock(m.from, grabbed, started)
    BY <1>4 DEF LockerLocks
  <2>2. m \in LockerMessage /\ m.kind = "Lock"
    BY <1>4, LockerTakesType DEF LockerLocks, LockerTakes, Inv
  <2>3. LockDone(m.from) \in LockerSent
    BY <2>2 DEF LockerMessage, LockerSent, LockDone
  <2>4. UNCHANGED requests
        /\ (lockerOut' = lockerOut \/ lockerOut' = Append(lockerOut, LockDone(m.from)))
    BY <2>1 DEF Lock, interfaceVars
  <2>5. \A M : Has(lockerOut, M) => Has(lockerOut', M)
    BY <2>3, <2>4, Queues, HasMore
  <2> QED
    BY <1>1, <2>4, <2>5, AccountedStays DEF StaysPut, Requested
<1>5. CASE LockerHearsOfEnd
  <2> DEFINE rs == {r \in requests : r.dbusid = m.from}
             match == [kind |-> "RemoveMatch", service |-> m.from]
             first == IF m.from \in lockerWatched THEN <<match>> ELSE << >>
  <2>1. m \in LockerMessage /\ m.kind = "Gone"
    BY <1>5, LockerTakesType DEF LockerHearsOfEnd, LockerTakes, Inv
  <2>2. requests' = requests \ rs /\ lockerOut' = lockerOut \o first \o Releases(rs)
    BY <1>5 DEF LockerHearsOfEnd, serviceUnregistered
  <2>3. rs \in SUBSET requests
    OBVIOUS
  <2>4. first \in Seq(LockerSent)
    BY <2>1, SMTT(30) DEF LockerMessage, LockerSent
  <2> HIDE DEF rs, first
  <2>5. lockerOut \o first \in Seq(LockerSent)
        /\ \A M : Has(lockerOut, M) => Has(lockerOut \o first, M)
    BY <2>4, Queues, HasMore
  <2> QED
    BY <1>1, <2>2, <2>3, <2>5, LockerDropsAccounted
<1> QED
  BY <1>2, <1>3, <1>4, <1>5 DEF LockerHandles

LEMMA LockerAloneAccounted ==
  ASSUME Inv, AllAccounted, LockerAlone
  PROVE  AllAccounted'
<1>1. UNCHANGED <<agentVars, requests, agentReply, lost, agentOut, agentQueue>>
  BY DEF LockerAlone, LockerGreeterReady, LockerGreeterSucceeds, LockerGreeterFails,
         LockerIdleTimeout, LockerGraceEnds, LockerActivity, LockerShortcut, GreeterReady,
         GreeterSucceeds, GreeterFails, IdleTimeout, EndGraceTime, Activity, LockShortcut,
         Lock, interfaceVars, OthersUnchanged, kdedVars, busVars
<1>2. lockerOut' = lockerOut \/ lockerOut' = lockerOut \o LockAnswers
  BY DEF LockerAlone, LockerGreeterReady, LockerGreeterSucceeds, LockerGreeterFails,
         LockerIdleTimeout, LockerGraceEnds, LockerActivity, LockerShortcut, GreeterReady,
         GreeterSucceeds, GreeterFails, IdleTimeout, EndGraceTime, Activity, LockShortcut,
         Lock, sendLockReplies
<1>3. LockAnswers \in Seq(LockerSent)
  BY AnswersType DEF Inv, LockerInv
<1>4. \A M : Has(lockerOut, M) => Has(lockerOut', M)
  BY <1>2, <1>3, Queues, HasMore
<1> QED
  BY <1>1, <1>4, AccountedStays DEF StaysPut, Requested

(* The answer that ksmserver reads becomes a request of its; it gives up   *)
(* only when there is none to read.                                        *)
LEMMA ReturnsAccounted ==
  ASSUME Inv, AllAccounted, LockerIsAnswered \/ LockerTimesOut
  PROVE  AllAccounted'
<1> DEFINE match == [kind |-> "AddMatch", service |-> inhibiting]
           answer == Answer(inhibiting, nextCookie)
<1>1. /\ inhibiting # NoCaller
      /\ UNCHANGED <<agentVars, lost, agentQueue, agentOut>>
  BY DEF LockerIsAnswered, LockerTimesOut, kdedVars, busVars
<1>2. PICK k : /\ InhibitReturns(k)
               /\ \A c : agentReply = <<c>> => k = c
  BY DEF LockerIsAnswered, LockerTimesOut
<1>3. /\ \/ lockerOut' = lockerOut \o << >> \o <<answer>>
         \/ lockerOut' = lockerOut \o <<match>> \o <<answer>>
      /\ requests' = requests \cup {[cookie |-> nextCookie, dbusid |-> inhibiting,
                                     powerdevilcookie |-> k]}
  BY <1>2, Zenon DEF InhibitReturns
<1>4. inhibiting \in Apps /\ nextCookie \in Serial
  BY <1>1 DEF Inv, LockerInv, LockerTypeOK
<1>5. match \in LockerSent /\ answer \in LockerSent
  BY <1>4 DEF LockerSent, Answer
<1> HIDE DEF match, answer
<1>6. \A M : Has(lockerOut, M) => Has(lockerOut', M)
  <2>1. \/ lockerOut' = Append(lockerOut, answer)
        \/ lockerOut' = Append(Append(lockerOut, match), answer)
    <3>1. /\ lockerOut \o << >> \o <<answer>> = Append(lockerOut, answer)
          /\ lockerOut \o <<match>> \o <<answer>> = Append(Append(lockerOut, match), answer)
      BY <1>5, Queues, TwoMoreAre
    <3> QED
      BY <1>3, <3>1, Zenon
  <2>2. Append(lockerOut, match) \in Seq(LockerSent)
    BY <1>5, Queues
  <2> QED
    BY <1>5, <2>1, <2>2, Queues, HasMore
<1>7. \A c : agentReply = <<c>> \/ Requested(c) => Requested(c)'
  <2> DEFINE new == [cookie |-> nextCookie, dbusid |-> inhibiting, powerdevilcookie |-> k]
  <2>1. new \in requests' /\ new.powerdevilcookie = k /\ \A r \in requests : r \in requests'
    BY <1>3
  <2> HIDE DEF new
  <2> QED
    BY <1>2, <2>1 DEF Requested
<1> SUFFICES ASSUME NEW c \in cookiesOf(Locker)' PROVE Accounted(c)'
  BY DEF AllAccounted
<1>8. c \in cookiesOf(Locker)
  BY <1>1, SameAgentCookies
<1> QED
  BY <1>1, <1>6, <1>7, <1>8 DEF AllAccounted, Accounted

LEMMA AccountedStep ==
  ASSUME Inv, SerialInv, AllAccounted, [Next]_vars
  PROVE  AllAccounted'
<1>1. CASE UNCHANGED vars \/ AgentTimesOut
  <2>1. UNCHANGED <<agentVars, requests, agentReply, lost, lockerOut, agentQueue, agentOut>>
    BY <1>1 DEF vars, lockerVars, busVars, kdedVars, AgentTimesOut
  <2> QED
    BY <2>1, AccountedStays DEF StaysPut, Requested
<1>2. CASE AgentForcesLock
  <2>1. /\ UNCHANGED <<agentVars, requests, agentReply, lost, lockerOut, agentQueue>>
        /\ agentOut' = Append(agentOut, [kind |-> "Lock"])
    BY <1>2 DEF AgentForcesLock, lockerVars, busVars
  <2>2. [kind |-> "Lock"] \in AgentSent
    BY DEF AgentSent
  <2>3. \A M : Has(agentOut, M) => Has(agentOut', M)
    BY <2>1, <2>2, Queues, HasMore
  <2> QED
    BY <2>1, <2>3, AccountedStays DEF StaysPut, Requested
<1> QED
  BY <1>1, <1>2, AppCallsAccounted, AgentAddsAccounted, AgentTakesAccounted,
     AgentSendsAccounted, LockerSendsAccounted, AgentRestartsAccounted,
     LockerHandlesAccounted, LockerAloneAccounted, ReturnsAccounted
  DEF Next, LockerHandles, LockerAlone

LEMMA AccountedStart ==
  ASSUME Init
  PROVE  AllAccounted
<1>1. Locker # NoService
  BY SessionAssumption, PolicyAgentAssumption
<1> QED
  BY <1>1 DEF Init, AgentInit, AllAccounted, cookiesOf

LEMMA SerialHolds == Spec => [](Inv /\ SerialInv)
  BY InvHolds, SerialStart, SerialStep, InvStep, PTL DEF Spec

(* No inhibition that the agent holds for the locker is forgotten: it is   *)
(* one of a request of the locker, or its cookie or its release is under   *)
(* way, or ksmserver had given up waiting for it.                          *)
THEOREM LockerAccounts == Spec => []LockerCookiesAccounted
<1>1. ASSUME Inv PROVE AllAccounted <=> LockerCookiesAccounted
  BY <1>1, AccountedIsProperty
<1> QED
  BY <1>1, SerialHolds, AccountedStart, AccountedStep, PTL DEF Spec

------------------------------------------------------------------------------
(* The call of an application is in one place, and with it what it waits   *)
(* for; a service's match precedes the answer of the call that led to it.  *)

AddsFrom(a) == {m \in AgentMessage : m.kind = "AddInhibition" /\ m.from = a}

Returns(a) == {m \in AgentSent : m.kind = "Return" /\ m.to = a}

CallsOf(a) == {m \in LockerMessage : m.kind \in {"Inhibit", "Lock"} /\ m.from = a}

Ends(a) == {m \in LockerMessage : m.kind = "Gone" /\ m.from = a}

Answers(a) == {m \in LockerSent : m.kind \in {"Return", "LockDone"} /\ m.to = a}

AgentMatch(a) == {m \in AgentSent : m.kind = "AddMatch" /\ m.service = a}

AgentUnmatch(a) == {m \in AgentSent : m.kind = "RemoveMatch" /\ m.service = a}

LockerMatch(a) == {m \in LockerSent : m.kind = "AddMatch" /\ m.service = a}

LockerUnmatch(a) == {m \in LockerSent : m.kind = "RemoveMatch" /\ m.service = a}

CallAt(a, p) ==
  /\ Has(agentQueue, AddsFrom(a)) => p = "agentQueue"
  /\ Has(agentOut, Returns(a)) => p = "agentOut"
  /\ Has(lockerQueue, CallsOf(a)) => p = "lockerQueue"
  /\ inhibiting = a => p = "inhibiting"
  /\ Has(lockReplies, {a}) => p = "lockReplies"
  /\ Has(lockerOut, Answers(a)) => p = "lockerOut"
  /\ a \notin waiting => p = "nowhere"

OneCall(a) ==
  /\ \E p : CallAt(a, p)
  /\ Once(agentQueue, AddsFrom(a)) /\ Once(agentOut, Returns(a))
  /\ Once(lockerQueue, CallsOf(a)) /\ Once(lockReplies, {a})
  /\ Once(lockerOut, Answers(a))

AgentWatches(a) ==
  /\ a \in watched => /\ <<Agent, a>> \in matches \/ Has(agentOut, AgentMatch(a))
                      /\ Followed(agentOut, AgentUnmatch(a), AgentMatch(a))
  /\ Followed(agentOut, AgentMatch(a), Returns(a))

LockerWatches(a) ==
  /\ a \in lockerWatched => <<Locker, a>> \in matches \/ Has(lockerOut, LockerMatch(a))
  /\ Followed(lockerOut, LockerMatch(a), Answers(a))
  /\ ~Has(lockerQueue, Ends(a)) /\ ~Has(lockerOut, LockerUnmatch(a))

RequestsWatched == \A r \in requests : r.dbusid \in lockerWatched

WatchInv ==
  /\ \A a \in alive : OneCall(a) /\ AgentWatches(a) /\ LockerWatches(a)
  /\ RequestsWatched

(* The invariant implies the property: an application whose match is still *)
(* under way waits for the answer behind it.                               *)
LEMMA FollowedHas ==
  ASSUME NEW S, NEW s \in Seq(S), NEW M, NEW P, Followed(s, M, P), Has(s, M)
  PROVE  Has(s, P)
<1>1. PICK i \in 1 .. Len(s) : s[i] \in M
  BY DEF Has
<1>2. PICK j \in i + 1 .. Len(s) : s[j] \in P
  BY <1>1 DEF Followed
<1>3. Len(s) \in Nat
  OBVIOUS
<1>4. j \in 1 .. Len(s)
  BY <1>1, <1>2, <1>3
<1> QED
  BY <1>2, <1>4 DEF Has

LEMMA WatchIsProperty ==
  ASSUME Inv, WatchInv
  PROVE  AnsweredIsWatched
<1> SUFFICES ASSUME NEW a \in alive, a \notin waiting
             PROVE  /\ cookiesOf(a) # {} => <<Agent, a>> \in matches
                    /\ (\E r \in requests : r.dbusid = a) => <<Locker, a>> \in matches
  BY DEF AnsweredIsWatched
<1>1. OneCall(a) /\ AgentWatches(a) /\ LockerWatches(a)
  BY DEF WatchInv
<1>2. ~Has(agentOut, Returns(a)) /\ ~Has(lockerOut, Answers(a))
  BY <1>1 DEF OneCall, CallAt
<1>3. ~Has(agentOut, AgentMatch(a))
  BY <1>1, <1>2, Queues, FollowedHas DEF AgentWatches
<1>4. ~Has(lockerOut, LockerMatch(a))
  BY <1>1, <1>2, Queues, FollowedHas DEF LockerWatches
<1>5. cookiesOf(a) # {} => a \in watched
  <2>1. a # NoService
    BY SessionAssumption, PolicyAgentAssumption DEF Inv, RestTypeOK, AppTypeOK
  <2> QED
    BY <2>1 DEF Inv, AgentInv, TablesAgree, cookiesOf
<1>6. (\E r \in requests : r.dbusid = a) => a \in lockerWatched
  BY DEF WatchInv, RequestsWatched
<1> QED
  BY <1>1, <1>3, <1>4, <1>5, <1>6 DEF AgentWatches, LockerWatches

(* Steps that have nothing to do with a call of an application, with its   *)
(* match at the agent, or with its match at the locker.                    *)
QuietCall(a) ==
  /\ Quiet(agentQueue', agentQueue, AddsFrom(a)) /\ Quiet(agentOut', agentOut, Returns(a))
  /\ Quiet(lockerQueue', lockerQueue, CallsOf(a)) /\ Quiet(lockReplies', lockReplies, {a})
  /\ Quiet(lockerOut', lockerOut, Answers(a))
  /\ inhibiting' = a => inhibiting = a
  /\ a \in waiting => a \in waiting'

(* Messages are added to a queue, but none of M.                           *)
Longer(t, s, M, P) ==
  /\ Has(s, P) => Has(t, P)
  /\ Followed(s, M, P) => Followed(t, M, P)

QuietAgent(a) ==
  /\ Longer(agentOut', agentOut, AgentUnmatch(a), AgentMatch(a))
  /\ Longer(agentOut', agentOut, AgentMatch(a), Returns(a))
  /\ a \in watched' => a \in watched
  /\ <<Agent, a>> \in matches => <<Agent, a>> \in matches'

QuietLocker(a) ==
  /\ Has(lockerOut, LockerMatch(a)) => Has(lockerOut', LockerMatch(a))
  /\ Followed(lockerOut, LockerMatch(a), Answers(a))
       => Followed(lockerOut', LockerMatch(a), Answers(a))
  /\ Has(lockerOut', LockerUnmatch(a)) => Has(lockerOut, LockerUnmatch(a))
  /\ Has(lockerQueue', Ends(a)) => Has(lockerQueue, Ends(a))
  /\ a \in lockerWatched' => a \in lockerWatched
  /\ <<Locker, a>> \in matches => <<Locker, a>> \in matches'

LEMMA CallStays ==
  ASSUME NEW a, OneCall(a), QuietCall(a)
  PROVE  OneCall(a)'
<1>1. PICK p : CallAt(a, p)
  BY DEF OneCall
<1>2. CallAt(a, p)'
  BY <1>1 DEF CallAt, QuietCall, Quiet
<1> QED
  BY <1>2 DEF OneCall, QuietCall, Quiet

LEMMA AgentMatchStays ==
  ASSUME NEW a, AgentWatches(a), QuietAgent(a)
  PROVE  AgentWatches(a)'
BY DEF AgentWatches, QuietAgent, Longer

LEMMA LockerMatchStays ==
  ASSUME NEW a, LockerWatches(a), QuietLocker(a)
  PROVE  LockerWatches(a)'
BY DEF LockerWatches, QuietLocker

LEMMA LongerSame == \A s, M, P : Longer(s, s, M, P)
BY DEF Longer

LEMMA LongerConcat ==
  ASSUME NEW S, NEW s \in Seq(S), NEW t \in Seq(S)
  PROVE  \A M, P : (\A i \in 1 .. Len(t) : t[i] \notin M) => Longer(s \o t, s, M, P)
<1> SUFFICES ASSUME NEW M, NEW P, \A i \in 1 .. Len(t) : t[i] \notin M
             PROVE  Longer(s \o t, s, M, P)
  OBVIOUS
<1>1. Followed(t, M, P)
  BY DEF Followed
<1> QED
  BY <1>1, ConcatFacts DEF Longer

LEMMA LongerAppend ==
  ASSUME NEW S, NEW s \in Seq(S), NEW m \in S
  PROVE  \A M, P : m \notin M => Longer(Append(s, m), s, M, P)
BY AppendFacts DEF Longer


(* What neither queue of kded nor of ksmserver is concerned in.            *)
LEMMA OthersQuiet ==
  ASSUME UNCHANGED <<agentOut, lockerOut, watched, lockerWatched, matches>>, NEW a,
         Has(lockerQueue', Ends(a)) => Has(lockerQueue, Ends(a))
  PROVE  QuietAgent(a) /\ QuietLocker(a)
BY LongerSame DEF QuietAgent, QuietLocker

(* An application calls when it waits for nothing.                         *)
LEMMA AppCallsWatch ==
  ASSUME Inv, WatchInv, NEW b \in Apps,
         \/ AppInhibits(b) \/ AppUnInhibits(b) \/ AppLocks(b)
         \/ AppAddsInhibition(b) \/ AppReleases(b) \/ AppForcesAll(b)
  PROVE  WatchInv'
<1>1. /\ UNCHANGED <<alive, agentOut, lockerOut, watched, lockerWatched, matches, requests,
                     lockReplies, inhibiting>>
      /\ b \notin waiting /\ waiting \subseteq waiting' /\ b \in alive
  BY DEF AppInhibits, AppUnInhibits, AppLocks, AppAddsInhibition, AppReleases,
         AppForcesAll, CallUnchanged, MayCall, agentVars, lockerVars, kdedVars
<1>2. RequestsWatched'
  BY <1>1 DEF WatchInv, RequestsWatched
<1>3. \/ \E msg \in LockerMessage :
           /\ CallsLocker(msg) /\ msg.kind # "Gone" /\ msg.from = b
           /\ msg.kind \in {"Inhibit", "Lock"} => b \in waiting'
      \/ \E msg \in AgentMessage :
           /\ CallsAgent(msg) /\ msg.from = b
           /\ msg.kind = "AddInhibition" => b \in waiting'
  <2>1. CASE AppInhibits(b)
    <3>1. [kind |-> "Inhibit", from |-> b] \in LockerMessage
      BY DEF LockerMessage
    <3> QED
      BY <2>1, <3>1 DEF AppInhibits
  <2>2. CASE AppUnInhibits(b)
    <3>1. PICK c \in lockerGrants[b] :
            CallsLocker([kind |-> "UnInhibit", from |-> b, cookie |-> c])
      BY <2>2 DEF AppUnInhibits
    <3>2. [kind |-> "UnInhibit", from |-> b, cookie |-> c] \in LockerMessage
      BY DEF LockerMessage, Inv, RestTypeOK, AppTypeOK
    <3> QED
      BY <3>1, <3>2
  <2>3. CASE AppLocks(b)
    <3>1. [kind |-> "Lock", from |-> b] \in LockerMessage
      BY DEF LockerMessage
    <3> QED
      BY <2>3, <3>1 DEF AppLocks
  <2>4. CASE AppAddsInhibition(b)
    <3>1. PICK types \in AppTypes :
            CallsAgent([kind |-> "AddInhibition", from |-> b, types |-> types])
      BY <2>4 DEF AppAddsInhibition
    <3>2. [kind |-> "AddInhibition", from |-> b, types |-> types] \in AgentMessage
      BY SessionAssumption DEF AgentMessage
    <3>3. b \in waiting'
      BY <2>4 DEF AppAddsInhibition
    <3> QED
      BY <3>1, <3>2, <3>3
  <2>5. CASE AppReleases(b)
    <3>1. PICK c \in agentGrants[b] :
            CallsAgent([kind |-> "ReleaseInhibition", from |-> b, cookie |-> c])
      BY <2>5 DEF AppReleases
    <3>2. [kind |-> "ReleaseInhibition", from |-> b, cookie |-> c] \in AgentMessage
      BY SessionAssumption DEF AgentMessage, Inv, RestTypeOK, AppTypeOK
    <3> QED
      BY <3>1, <3>2
  <2>6. CASE AppForcesAll(b)
    <3>1. [kind |-> "ForceUnInhibitAll", from |-> b] \in AgentMessage
      BY DEF AgentMessage
    <3> QED
      BY <2>6, <3>1 DEF AppForcesAll
  <2> QED
    BY <2>1, <2>2, <2>3, <2>4, <2>5, <2>6
<1> SUFFICES ASSUME NEW a \in alive
             PROVE  OneCall(a)' /\ AgentWatches(a)' /\ LockerWatches(a)'
  BY <1>1, <1>2 DEF WatchInv
<1>4. OneCall(a) /\ AgentWatches(a) /\ LockerWatches(a)
  BY DEF WatchInv
<1>5. CASE \E msg \in LockerMessage :
             /\ CallsLocker(msg) /\ msg.kind # "Gone" /\ msg.from = b
             /\ msg.kind \in {"Inhibit", "Lock"} => b \in waiting'
  <2>1. PICK msg \in LockerMessage :
               /\ CallsLocker(msg) /\ msg.kind # "Gone" /\ msg.from = b
               /\ msg.kind \in {"Inhibit", "Lock"} => b \in waiting'
    BY <1>5
  <2>2. lockerQueue' = Append(lockerQueue, msg) /\ UNCHANGED agentQueue
    BY <2>1 DEF CallsLocker
  <2>3. Has(lockerQueue', Ends(a)) => Has(lockerQueue, Ends(a))
    BY <2>1, <2>2, Queues, AppendFacts DEF Ends
  <2>4. QuietAgent(a) /\ QuietLocker(a)
    BY <1>1, <2>3, OthersQuiet
  <2>5. CASE msg \notin CallsOf(a)
    <3>1. Quiet(lockerQueue', lockerQueue, CallsOf(a))
      BY <2>2, <2>5, Queues, QuietAppend
    <3>2. QuietCall(a)
      BY <1>1, <2>2, <3>1, QuietSame DEF QuietCall
    <3> QED
      BY <1>4, <2>4, <3>2, CallStays, AgentMatchStays, LockerMatchStays
  <2>6. CASE msg \in CallsOf(a)
    <3>1. a = b /\ a \in waiting' /\ a \notin waiting
      BY <1>1, <2>1, <2>6 DEF CallsOf
    <3>2. CallAt(a, "nowhere")
      BY <1>4, <3>1 DEF OneCall, CallAt
    <3>3. Once(lockerQueue', CallsOf(a))
      <4>1. ~Has(lockerQueue, CallsOf(a)) /\ Once(lockerQueue, CallsOf(a))
        BY <1>4, <3>2 DEF CallAt, OneCall
      <4> QED
        BY <2>2, <4>1, Queues, AppendFacts
    <3>4. CallAt(a, "lockerQueue")'
      BY <1>1, <2>2, <3>1, <3>2 DEF CallAt
    <3>5. OneCall(a)'
      BY <1>1, <1>4, <2>2, <3>3, <3>4 DEF OneCall
    <3> QED
      BY <1>4, <2>4, <3>5, AgentMatchStays, LockerMatchStays
  <2> QED
    BY <2>5, <2>6
<1>6. CASE \E msg \in AgentMessage :
             /\ CallsAgent(msg) /\ msg.from = b
             /\ msg.kind = "AddInhibition" => b \in waiting'
  <2>1. PICK msg \in AgentMessage :
               /\ CallsAgent(msg) /\ msg.from = b
               /\ msg.kind = "AddInhibition" => b \in waiting'
    BY <1>6
  <2>2. agentQueue' = Append(agentQueue, msg) /\ UNCHANGED lockerQueue
    BY <2>1 DEF CallsAgent
  <2>3. QuietAgent(a) /\ QuietLocker(a)
    BY <1>1, <2>2, OthersQuiet
  <2>4. CASE msg \notin AddsFrom(a)
    <3>1. Quiet(agentQueue', agentQueue, AddsFrom(a))
      BY <2>2, <2>4, Queues, QuietAppend
    <3>2. QuietCall(a)
      BY <1>1, <2>2, <3>1, QuietSame DEF QuietCall
    <3> QED
      BY <1>4, <2>3, <3>2, CallStays, AgentMatchStays, LockerMatchStays
  <2>5. CASE msg \in AddsFrom(a)
    <3>1. a = b /\ a \in waiting' /\ a \notin waiting
      BY <1>1, <2>1, <2>5 DEF AddsFrom
    <3>2. CallAt(a, "nowhere")
      BY <1>4, <3>1 DEF OneCall, CallAt
    <3>3. Once(agentQueue', AddsFrom(a))
      <4>1. ~Has(agentQueue, AddsFrom(a)) /\ Once(agentQueue, AddsFrom(a))
        BY <1>4, <3>2 DEF CallAt, OneCall
      <4> QED
        BY <2>2, <4>1, Queues, AppendFacts
    <3>4. CallAt(a, "agentQueue")'
      BY <1>1, <2>2, <3>1, <3>2 DEF CallAt
    <3>5. OneCall(a)'
      BY <1>1, <1>4, <2>2, <3>3, <3>4 DEF OneCall
    <3> QED
      BY <1>4, <2>3, <3>5, AgentMatchStays, LockerMatchStays
  <2> QED
    BY <2>4, <2>5
<1> QED
  BY <1>3, <1>5, <1>6

(* One that goes is not asked about any more.                              *)
LEMMA AppEndsWatch ==
  ASSUME Inv, WatchInv, NEW b \in Apps, AppGoes(b)
  PROVE  WatchInv'
<1> DEFINE gone == [kind |-> "Gone", from |-> b]
<1>1. /\ UNCHANGED <<agentOut, lockerOut, watched, lockerWatched, matches, requests,
                     lockReplies, inhibiting>>
      /\ alive' = alive \ {b} /\ waiting' = waiting \ {b}
  BY DEF AppGoes, agentVars, lockerVars, kdedVars
<1>2. RequestsWatched'
  BY <1>1 DEF WatchInv, RequestsWatched
<1> SUFFICES ASSUME NEW a \in alive, a # b
             PROVE  OneCall(a)' /\ AgentWatches(a)' /\ LockerWatches(a)'
  BY <1>1, <1>2 DEF WatchInv
<1>3. OneCall(a) /\ AgentWatches(a) /\ LockerWatches(a)
  BY DEF WatchInv
<1>4. /\ agentQueue' = agentQueue \/ agentQueue' = Append(agentQueue, gone)
      /\ lockerQueue' = lockerQueue \/ lockerQueue' = Append(lockerQueue, gone)
  BY Zenon DEF AppGoes
<1>5. gone \in AgentMessage /\ gone \in LockerMessage
      /\ gone \notin AddsFrom(a) /\ gone \notin CallsOf(a) /\ gone \notin Ends(a)
  BY DEF AgentMessage, LockerMessage, AddsFrom, CallsOf, Ends
<1> HIDE DEF gone
<1>6. /\ Quiet(agentQueue', agentQueue, AddsFrom(a))
      /\ Quiet(lockerQueue', lockerQueue, CallsOf(a))
      /\ Quiet(lockerQueue', lockerQueue, Ends(a))
  BY <1>4, <1>5, Queues, QuietAppend, QuietSame
<1>7. QuietCall(a)
  BY <1>1, <1>6, QuietSame DEF QuietCall
<1>8. QuietAgent(a) /\ QuietLocker(a)
  BY <1>1, <1>6, OthersQuiet DEF Quiet
<1> QED
  BY <1>3, <1>7, <1>8, CallStays, AgentMatchStays, LockerMatchStays


LEMMA MatchedKeeps ==
  ASSUME NEW w, NEW m, Matched(w, m)
  PROVE  /\ \A v, a : \/ <<v, a>> \in matches => <<v, a>> \in matches'
                      \/ w = v /\ m.kind = "RemoveMatch" /\ m.service = a
         /\ \A a \in alive : m.kind = "AddMatch" /\ m.service = a => <<w, a>> \in matches'
BY DEF Matched

LEMMA AppsOnly ==
  ASSUME Inv, NEW a \in alive
  PROVE  a \in Apps /\ a # Agent /\ a # Locker /\ a # NoCaller /\ Agent # Locker
BY SessionAssumption DEF Inv, RestTypeOK, AppTypeOK

(* The bus takes a message of kded: an answer ends a call, a match is in   *)
(* effect, and one that is removed is made again behind.                   *)
LEMMA AgentSendsWatch ==
  ASSUME Inv, WatchInv, AgentSends
  PROVE  WatchInv'
<1> DEFINE m == Head(agentOut)
           locks == [kind |-> "Lock", from |-> Agent]
<1>1. /\ UNCHANGED <<alive, agentQueue, lockerOut, watched, lockerWatched, requests,
                     lockReplies, inhibiting>>
      /\ agentOut # << >> /\ agentOut' = Tail(agentOut) /\ m \in AgentSent
      /\ Matched(Agent, m)
  BY Queues DEF AgentSends, agentVars, lockerVars
<1>2. lockerQueue' = lockerQueue \/ lockerQueue' = Append(lockerQueue, locks)
  BY DEF AgentSends
<1>3. RequestsWatched'
  BY <1>1 DEF WatchInv, RequestsWatched
<1> SUFFICES ASSUME NEW a \in alive
             PROVE  OneCall(a)' /\ AgentWatches(a)' /\ LockerWatches(a)'
  BY <1>1, <1>3 DEF WatchInv
<1>4. OneCall(a) /\ AgentWatches(a) /\ LockerWatches(a)
  BY DEF WatchInv
<1>5. a \in Apps /\ a # Agent /\ a # Locker /\ a # NoCaller /\ Agent # Locker
  BY AppsOnly
<1>6. /\ Quiet(lockerQueue', lockerQueue, CallsOf(a))
      /\ Quiet(lockerQueue', lockerQueue, Ends(a))
  <2>1. locks \in LockerMessage /\ locks \notin CallsOf(a) /\ locks \notin Ends(a)
    BY <1>5 DEF LockerMessage, CallsOf, Ends
  <2> HIDE DEF locks
  <2> QED
    BY <1>2, <2>1, Queues, QuietAppend, QuietSame
<1>7. /\ Quiet(agentOut', agentOut, Returns(a))
      /\ \A M : Has(agentOut, M) => m \in M \/ Has(agentOut', M)
      /\ \A M, P : Followed(agentOut, M, P) => /\ Followed(agentOut', M, P)
                                               /\ m \in M => Has(agentOut', P)
  BY <1>1, Queues, QuietTail, TailFacts
<1>8. LockerWatches(a)'
  <2>1. <<Locker, a>> \in matches => <<Locker, a>> \in matches'
    BY <1>1, <1>5, MatchedKeeps
  <2>2. QuietLocker(a)
    BY <1>1, <1>6, <2>1 DEF QuietLocker, Quiet
  <2> QED
    BY <1>4, <2>2, LockerMatchStays
<1>9. AgentWatches(a)'
  <2>1. CASE m \in AgentMatch(a)
    <3>1. <<Agent, a>> \in matches'
      BY <1>1, <2>1, MatchedKeeps DEF AgentMatch
    <3> QED
      BY <1>1, <1>4, <1>7, <3>1 DEF AgentWatches
  <2>2. CASE m \in AgentUnmatch(a)
    BY <1>1, <1>4, <1>7, <2>2 DEF AgentWatches
  <2>3. CASE m \notin AgentMatch(a) /\ m \notin AgentUnmatch(a)
    <3>1. <<Agent, a>> \in matches => <<Agent, a>> \in matches'
      BY <1>1, <2>3, MatchedKeeps DEF AgentUnmatch
    <3> QED
      BY <1>1, <1>4, <1>7, <2>3, <3>1 DEF AgentWatches
  <2> QED
    BY <2>1, <2>2, <2>3
<1>10. OneCall(a)'
  <2>1. CASE m \in Returns(a)
    <3>1. waiting' = waiting \ {a}
      BY <1>1, <2>1 DEF AgentSends, Returns
    <3>2. CallAt(a, "agentOut")
      <4>1. Has(agentOut, Returns(a))
        BY <1>1, <2>1, Queues, TailFacts
      <4> QED
        BY <1>4, <4>1 DEF OneCall, CallAt
    <3>3. ~Has(agentOut', Returns(a)) /\ Once(agentOut', Returns(a))
      BY <1>1, <1>4, <2>1, Queues, TailFacts DEF OneCall
    <3>4. ~Has(lockerQueue', CallsOf(a)) /\ Once(lockerQueue', CallsOf(a))
      BY <1>4, <1>6, <3>2 DEF Quiet, CallAt, OneCall
    <3>5. CallAt(a, "nowhere")'
      BY <1>1, <3>1, <3>2, <3>3, <3>4 DEF CallAt
    <3> QED
      BY <1>1, <1>4, <3>3, <3>4, <3>5 DEF OneCall
  <2>2. CASE m \notin Returns(a)
    <3>1. a \in waiting => a \in waiting'
      <4>1. CASE m.kind = "Return" /\ m.to \in alive
        <5>1. waiting' = waiting \ {m.to} /\ m.to # a
          BY <1>1, <2>2, <4>1 DEF AgentSends, Returns
        <5> QED
          BY <5>1
      <4>2. CASE ~(m.kind = "Return" /\ m.to \in alive)
        BY <4>2 DEF AgentSends
      <4> QED
        BY <4>1, <4>2
    <3>2. QuietCall(a)
      BY <1>1, <1>6, <1>7, <3>1, QuietSame DEF QuietCall
    <3> QED
      BY <1>4, <3>2, CallStays
  <2> QED
    BY <2>1, <2>2
<1> QED
  BY <1>8, <1>9, <1>10

(* The bus takes a message of ksmserver.                                   *)
LEMMA LockerSendsWatch ==
  ASSUME Inv, WatchInv, LockerSends
  PROVE  WatchInv'
<1> DEFINE m == Head(lockerOut)
           adds == [kind |-> "AddInhibition", from |-> Locker,
                    types |-> {"ChangeScreenSettings"}, serial |-> m.serial]
           releases == [kind |-> "ReleaseInhibition", from |-> Locker, cookie |-> m.cookie]
<1>1. /\ UNCHANGED <<alive, lockerQueue, agentOut, watched, lockerWatched, requests,
                     lockReplies, inhibiting>>
      /\ lockerOut # << >> /\ lockerOut' = Tail(lockerOut) /\ m \in LockerSent
      /\ Matched(Locker, m)
      /\ waiting' = IF m.kind \in {"Return", "LockDone"} THEN waiting \ {m.to} ELSE waiting
  BY Queues DEF LockerSends, agentVars, interfaceVars
<1>2. agentQueue' = CASE m.kind = "AddInhibition" -> Append(agentQueue, adds)
                      [] m.kind = "ReleaseInhibition" -> Append(agentQueue, releases)
                      [] OTHER -> agentQueue
  BY DEF LockerSends
<1>3. RequestsWatched'
  BY <1>1 DEF WatchInv, RequestsWatched
<1> SUFFICES ASSUME NEW a \in alive
             PROVE  OneCall(a)' /\ AgentWatches(a)' /\ LockerWatches(a)'
  BY <1>1, <1>3 DEF WatchInv
<1>4. OneCall(a) /\ AgentWatches(a) /\ LockerWatches(a)
  BY DEF WatchInv
<1>5. a \in Apps /\ a # Agent /\ a # Locker /\ a # NoCaller /\ Agent # Locker
  BY AppsOnly
<1>6. Quiet(agentQueue', agentQueue, AddsFrom(a))
  <2>1. CASE m.kind = "AddInhibition"
    <3>1. agentQueue' = Append(agentQueue, adds)
      BY <1>2, <2>1, Zenon
    <3>2. adds \in AgentMessage /\ adds \notin AddsFrom(a)
      BY <1>1, <1>5, <2>1 DEF LockerSent, AgentMessage, Policies, AddsFrom
    <3> HIDE DEF adds
    <3> QED
      BY <3>1, <3>2, Queues, QuietAppend
  <2>2. CASE m.kind = "ReleaseInhibition"
    <3>1. agentQueue' = Append(agentQueue, releases)
      BY <1>2, <2>2
    <3>2. releases \in AgentMessage /\ releases \notin AddsFrom(a)
      BY <1>1, <2>2, SessionAssumption DEF LockerSent, AgentMessage, AddsFrom
    <3> HIDE DEF releases
    <3> QED
      BY <3>1, <3>2, Queues, QuietAppend
  <2>3. CASE m.kind # "AddInhibition" /\ m.kind # "ReleaseInhibition"
    BY <1>2, <2>3, QuietSame
  <2> QED
    BY <2>1, <2>2, <2>3
<1>7. /\ Quiet(lockerOut', lockerOut, Answers(a))
      /\ Quiet(lockerOut', lockerOut, LockerUnmatch(a))
      /\ \A M : Has(lockerOut, M) <=> m \in M \/ Has(lockerOut', M)
      /\ \A M, P : Followed(lockerOut, M, P) => Followed(lockerOut', M, P)
  BY <1>1, Queues, QuietTail, TailFacts
<1>8. AgentWatches(a)'
  <2>1. <<Agent, a>> \in matches => <<Agent, a>> \in matches'
    BY <1>1, <1>5, MatchedKeeps
  <2> QED
    BY <1>1, <1>4, <2>1 DEF AgentWatches
<1>9. LockerWatches(a)'
  <2>1. m \notin LockerUnmatch(a)
    BY <1>4, <1>7 DEF LockerWatches
  <2>2. <<Locker, a>> \in matches => <<Locker, a>> \in matches'
    BY <1>1, <2>1, MatchedKeeps DEF LockerUnmatch
  <2>3. m \in LockerMatch(a) => <<Locker, a>> \in matches'
    BY <1>1, MatchedKeeps DEF LockerMatch
  <2> QED
    BY <1>1, <1>4, <1>7, <2>2, <2>3 DEF LockerWatches, Quiet
<1>10. OneCall(a)'
  <2>1. CASE m \in Answers(a)
    <3>1. waiting' = waiting \ {a}
      BY <1>1, <2>1 DEF Answers
    <3>2. CallAt(a, "lockerOut")
      BY <1>4, <1>7, <2>1 DEF OneCall, CallAt
    <3>3. ~Has(lockerOut', Answers(a)) /\ Once(lockerOut', Answers(a))
      BY <1>1, <1>4, <2>1, Queues, TailFacts DEF OneCall
    <3>4. ~Has(agentQueue', AddsFrom(a)) /\ Once(agentQueue', AddsFrom(a))
      BY <1>4, <1>6, <3>2 DEF Quiet, CallAt, OneCall
    <3>5. CallAt(a, "nowhere")'
      BY <1>1, <3>1, <3>2, <3>3, <3>4 DEF CallAt
    <3> QED
      BY <1>1, <1>4, <3>3, <3>4, <3>5 DEF OneCall
  <2>2. CASE m \notin Answers(a)
    <3>1. a \in waiting => a \in waiting'
      BY <1>1, <2>2 DEF Answers
    <3>2. QuietCall(a)
      BY <1>1, <1>6, <1>7, <3>1, QuietSame DEF QuietCall
    <3> QED
      BY <1>4, <3>2, CallStays
  <2> QED
    BY <2>1, <2>2
<1> QED
  BY <1>8, <1>9, <1>10


(* kded takes a call: it answers it, behind the match if it makes one.     *)
LEMMA AgentAddsWatch ==
  ASSUME Inv, WatchInv, AgentAdds
  PROVE  WatchInv'
<1> DEFINE m == Head(agentQueue)
           match == [kind |-> "AddMatch", service |-> m.from]
           answer == [kind |-> "Return", to |-> m.from, cookie |-> lastCookie',
                      serial |-> IF m.from = Locker THEN m.serial ELSE 0]
           s == IF m.from \in watched THEN agentOut ELSE Append(agentOut, match)
<1>1. /\ UNCHANGED <<alive, waiting, lockerQueue, lockerOut, lockerWatched, requests,
                     lockReplies, inhibiting, matches>>
      /\ agentQueue # << >> /\ agentQueue' = Tail(agentQueue) /\ m \in AgentMessage
      /\ m.kind = "AddInhibition" /\ watched' = watched \cup {m.from}
      /\ AddInhibition(m.types, m.from)
  BY Queues DEF AgentAdds, AgentTakes, AgentUnchanged, lockerVars, appVars, AddInhibition
<1>2. /\ m.from \in Services
      /\ (IF m.from = Locker THEN m.serial ELSE 0) \in Serial
  BY <1>1, SessionAssumption, ScreenLockerAssumption DEF AgentMessage, Serial
<1>3. lastCookie' \in Cookies
  BY <1>1, PolicyAgentAssumption DEF AddInhibition, Inv, AgentInv, AgentTypeOK, Cookies
<1>4. match \in AgentSent /\ answer \in AgentSent
      /\ match.kind = "AddMatch" /\ match.service = m.from
      /\ answer.kind = "Return" /\ answer.to = m.from
  BY <1>2, <1>3 DEF AgentSent
<1>5. s \in Seq(AgentSent) /\ agentOut' = Append(s, answer)
  <2>1. /\ m.from \in watched => agentOut' = agentOut \o << >> \o <<answer>>
        /\ m.from \notin watched => agentOut' = agentOut \o <<match>> \o <<answer>>
    BY Zenon DEF AgentAdds
  <2> HIDE DEF match, answer
  <2>2. /\ agentOut \o << >> \o <<answer>> = Append(agentOut, answer)
        /\ agentOut \o <<match>> \o <<answer>> = Append(Append(agentOut, match), answer)
    BY <1>4, Queues, TwoMoreAre
  <2>3. Append(agentOut, match) \in Seq(AgentSent)
    BY <1>4, Queues
  <2> QED
    BY <2>1, <2>2, <2>3, Queues
<1>6. RequestsWatched'
  BY <1>1 DEF WatchInv, RequestsWatched
<1> SUFFICES ASSUME NEW a \in alive
             PROVE  OneCall(a)' /\ AgentWatches(a)' /\ LockerWatches(a)'
  BY <1>1, <1>6 DEF WatchInv
<1>7. OneCall(a) /\ AgentWatches(a) /\ LockerWatches(a)
  BY DEF WatchInv
<1>8. /\ match \notin Returns(a) /\ match \notin AgentUnmatch(a)
      /\ answer \notin AgentMatch(a) /\ answer \notin AgentUnmatch(a)
      /\ match \in AgentMatch(a) <=> m.from = a
      /\ answer \in Returns(a) <=> m.from = a
      /\ m \in AddsFrom(a) <=> m.from = a
  BY <1>1, <1>4 DEF Returns, AgentMatch, AgentUnmatch, AddsFrom
<1> HIDE DEF match, answer
<1>9. Quiet(s, agentOut, Returns(a))
  BY <1>4, <1>8, Queues, QuietAppend, QuietSame
<1>10. Quiet(agentQueue', agentQueue, AddsFrom(a))
  BY <1>1, Queues, QuietTail
<1>11. LockerWatches(a)'
  BY <1>1, <1>7 DEF LockerWatches
<1>12. Longer(s, agentOut, AgentUnmatch(a), AgentMatch(a))
  BY <1>4, <1>8, Queues, LongerAppend, LongerSame
<1>13. CASE m.from # a
  <2>1. Longer(s, agentOut, AgentMatch(a), Returns(a))
    BY <1>4, <1>8, <1>13, Queues, LongerAppend, LongerSame
  <2> HIDE DEF s
  <2>2. /\ Longer(agentOut', s, AgentMatch(a), Returns(a))
        /\ Longer(agentOut', s, AgentUnmatch(a), AgentMatch(a))
    BY <1>4, <1>5, <1>8, LongerAppend
  <2>3. QuietAgent(a)
    BY <1>1, <1>12, <1>13, <2>1, <2>2 DEF QuietAgent, Longer
  <2>4. Quiet(agentOut', s, Returns(a))
    BY <1>4, <1>5, <1>8, <1>13, QuietAppend
  <2>5. QuietCall(a)
    BY <1>1, <1>9, <1>10, <2>4, QuietSame DEF QuietCall, Quiet
  <2> QED
    BY <1>7, <1>11, <2>3, <2>5, CallStays, AgentMatchStays
<1>14. CASE m.from = a
  <2>1. AgentWatches(a)'
    <3>1. Followed(agentOut', AgentMatch(a), Returns(a))
      BY <1>4, <1>5, <1>8, <1>14, AppendFacts
    <3>2. Longer(agentOut', s, AgentUnmatch(a), AgentMatch(a))
      BY <1>4, <1>5, <1>8, LongerAppend
    <3>3. /\ Followed(s, AgentUnmatch(a), AgentMatch(a))
          /\ <<Agent, a>> \in matches \/ Has(s, AgentMatch(a))
      <4>1. CASE a \in watched
        BY <1>7, <1>12, <4>1 DEF AgentWatches, Longer
      <4>2. CASE a \notin watched
        BY <1>4, <1>8, <1>14, <4>2, Queues, AppendFacts
      <4> QED
        BY <4>1, <4>2
    <3> HIDE DEF s
    <3> QED
      BY <1>1, <3>1, <3>2, <3>3 DEF AgentWatches, Longer
  <2>2. CallAt(a, "agentQueue")
    <3>1. Has(agentQueue, AddsFrom(a))
      BY <1>1, <1>8, <1>14, Queues, TailFacts
    <3> QED
      BY <1>7, <3>1 DEF OneCall, CallAt
  <2>3. ~Has(agentQueue', AddsFrom(a)) /\ Once(agentQueue', AddsFrom(a))
    BY <1>1, <1>7, <1>8, <1>14, Queues, TailFacts DEF OneCall
  <2>4. Once(agentOut', Returns(a))
    <3>1. ~Has(s, Returns(a)) /\ Once(s, Returns(a))
      BY <1>7, <1>9, <2>2 DEF Quiet, CallAt, OneCall
    <3> QED
      BY <1>4, <1>5, <3>1, AppendFacts
  <2>5. CallAt(a, "agentOut")'
    BY <1>1, <2>2, <2>3 DEF CallAt
  <2>6. OneCall(a)'
    BY <1>1, <1>7, <2>3, <2>4, <2>5 DEF OneCall
  <2> QED
    BY <1>11, <2>1, <2>6
<1> QED
  BY <1>13, <1>14

(* kded stops to watch a service when nothing of it is left.               *)
LEMMA AgentTakesWatch ==
  ASSUME Inv, WatchInv, AgentReleases \/ AgentReleasesAll \/ AgentHearsOfEnd
  PROVE  WatchInv'
<1>1. /\ UNCHANGED <<alive, waiting, lockerQueue, lockerOut, lockerWatched, requests,
                     lockReplies, inhibiting, matches>>
      /\ agentQueue # << >> /\ agentQueue' = Tail(agentQueue)
      /\ agentOut' = agentOut \o RemoveMatches
  BY DEF AgentReleases, AgentReleasesAll, AgentHearsOfEnd, AgentTakes, AgentUnchanged,
         lockerVars, appVars
<1>2. watched' \subseteq watched
  BY DEF AgentReleases, AgentReleasesAll, AgentHearsOfEnd, ReleaseInhibition,
         releaseAllInhibitions, onServiceUnregistered, Release
<1>3. RemoveMatches \in Seq(AgentSent)
      /\ \A i \in 1 .. Len(RemoveMatches) :
           /\ RemoveMatches[i].kind = "RemoveMatch"
           /\ RemoveMatches[i].service \in watched \ watched'
  BY RemoveMatchesAre DEF Inv, AgentInv
<1>4. RequestsWatched'
  BY <1>1 DEF WatchInv, RequestsWatched
<1> SUFFICES ASSUME NEW a \in alive
             PROVE  OneCall(a)' /\ AgentWatches(a)' /\ LockerWatches(a)'
  BY <1>1, <1>4 DEF WatchInv
<1>5. OneCall(a) /\ AgentWatches(a) /\ LockerWatches(a)
  BY DEF WatchInv
<1>6. LockerWatches(a)'
  BY <1>1, <1>5 DEF LockerWatches
<1>7. \A i \in 1 .. Len(RemoveMatches) :
        /\ RemoveMatches[i] \notin Returns(a) /\ RemoveMatches[i] \notin AgentMatch(a)
        /\ a \in watched' => RemoveMatches[i] \notin AgentUnmatch(a)
  BY <1>3 DEF Returns, AgentMatch, AgentUnmatch
<1>8. Quiet(agentOut', agentOut, Returns(a))
  BY <1>1, <1>3, <1>7, Queues, QuietConcat
<1>9. /\ Longer(agentOut', agentOut, AgentMatch(a), Returns(a))
      /\ a \in watched' => Longer(agentOut', agentOut, AgentUnmatch(a), AgentMatch(a))
  BY <1>1, <1>3, <1>7, Queues, LongerConcat
<1>10. AgentWatches(a)'
  BY <1>1, <1>2, <1>5, <1>9 DEF AgentWatches, Longer
<1>11. QuietCall(a)
  BY <1>1, <1>8, Queues, QuietTail, QuietSame DEF QuietCall
<1> QED
  BY <1>5, <1>6, <1>10, <1>11, CallStays

LEMMA AgentForcesLockWatch ==
  ASSUME Inv, WatchInv, AgentForcesLock
  PROVE  WatchInv'
<1> DEFINE locks == [kind |-> "Lock"]
<1>1. /\ UNCHANGED <<alive, waiting, agentQueue, lockerQueue, lockerOut, watched,
                     lockerWatched, requests, lockReplies, inhibiting, matches>>
      /\ agentOut' = Append(agentOut, locks)
  BY DEF AgentForcesLock, agentVars, lockerVars, appVars, busVars
<1>2. locks \in AgentSent /\ locks.kind = "Lock"
  BY DEF AgentSent
<1> HIDE DEF locks
<1>3. RequestsWatched'
  BY <1>1 DEF WatchInv, RequestsWatched
<1> SUFFICES ASSUME NEW a \in alive
             PROVE  OneCall(a)' /\ AgentWatches(a)' /\ LockerWatches(a)'
  BY <1>1, <1>3 DEF WatchInv
<1>4. OneCall(a) /\ AgentWatches(a) /\ LockerWatches(a)
  BY DEF WatchInv
<1>5. locks \notin Returns(a) /\ locks \notin AgentMatch(a) /\ locks \notin AgentUnmatch(a)
  BY <1>2 DEF Returns, AgentMatch, AgentUnmatch
<1>6. QuietCall(a)
  BY <1>1, <1>2, <1>5, Queues, QuietAppend, QuietSame DEF QuietCall
<1>7. QuietAgent(a)
  BY <1>1, <1>2, <1>5, Queues, LongerAppend DEF QuietAgent
<1>8. LockerWatches(a)'
  BY <1>1, <1>4 DEF LockerWatches
<1> QED
  BY <1>4, <1>6, <1>7, <1>8, CallStays, AgentMatchStays

(* kded goes: whoever it had not answered is answered by the bus.          *)
LEMMA AgentRestartsWatch ==
  ASSUME Inv, WatchInv, AgentRestarts
  PROVE  WatchInv'
<1> DEFINE Queued(b) == \E i \in DOMAIN agentQueue :
                          /\ agentQueue[i].kind = "AddInhibition"
                          /\ agentQueue[i].from = b
<1>1. /\ UNCHANGED <<alive, lockerQueue, agentOut, lockerOut, lockerWatched, requests,
                     lockReplies, inhibiting>>
      /\ agentQueue' = << >> /\ watched' = {}
      /\ matches' = {x \in matches : x[1] # Agent}
      /\ waiting' = waiting \ {b \in waiting : Queued(b)}
  BY DEF AgentRestarts, AgentRestart, lockerVars
<1>2. RequestsWatched'
  BY <1>1 DEF WatchInv, RequestsWatched
<1> SUFFICES ASSUME NEW a \in alive
             PROVE  OneCall(a)' /\ AgentWatches(a)' /\ LockerWatches(a)'
  BY <1>1, <1>2 DEF WatchInv
<1>3. OneCall(a) /\ AgentWatches(a) /\ LockerWatches(a)
  BY DEF WatchInv
<1>4. Agent # Locker
  BY AppsOnly
<1>5. AgentWatches(a)'
  BY <1>1, <1>3 DEF AgentWatches
<1>6. <<Locker, a>> \in matches => <<Locker, a>> \in matches'
  BY <1>1, <1>4
<1>7. LockerWatches(a)'
  BY <1>1, <1>3, <1>6 DEF LockerWatches
<1>8. ~Has(agentQueue', AddsFrom(a)) /\ Once(agentQueue', AddsFrom(a))
  BY <1>1, ShortQueues
<1>9. CASE Queued(a)
  <2>1. PICK i \in DOMAIN agentQueue : /\ agentQueue[i].kind = "AddInhibition"
                                       /\ agentQueue[i].from = a
    BY <1>9
  <2>2. i \in 1 .. Len(agentQueue) /\ agentQueue[i] \in AddsFrom(a)
    BY <2>1, Queues DEF AddsFrom
  <2>3. CallAt(a, "agentQueue")
    BY <1>3, <2>2 DEF OneCall, CallAt, Has
  <2>4. CallAt(a, "nowhere")'
    BY <1>1, <1>8, <2>3 DEF CallAt
  <2> QED
    BY <1>1, <1>3, <1>5, <1>7, <1>8, <2>4 DEF OneCall
<1>10. CASE ~Queued(a)
  <2>1. a \in waiting => a \in waiting'
    BY <1>1, <1>10
  <2>2. QuietCall(a)
    BY <1>1, <1>8, <2>1, QuietSame DEF QuietCall, Quiet
  <2> QED
    BY <1>3, <1>5, <1>7, <2>2, CallStays
<1> QED
  BY <1>9, <1>10


(* ksmserver passes a call of Inhibit on and waits, or drops requests.     *)
LEMMA LockerPassesWatch ==
  ASSUME Inv, WatchInv, LockerInhibits
  PROVE  WatchInv'
<1> DEFINE m == Head(lockerQueue)
           asks == [kind |-> "AddInhibition", serial |-> nextCookie]
<1>1. /\ UNCHANGED <<alive, waiting, agentQueue, agentOut, watched, lockerWatched, requests,
                     lockReplies, matches>>
      /\ lockerQueue # << >> /\ lockerQueue' = Tail(lockerQueue) /\ m \in LockerMessage
      /\ m.kind = "Inhibit" /\ inhibiting = NoCaller /\ inhibiting' = m.from
      /\ lockerOut' = Append(lockerOut, asks)
  BY Queues DEF LockerInhibits, LockerTakes, Idle, LockerUnchanged, Inhibit, agentVars,
                kdedVars, appVars
<1>2. asks \in LockerSent /\ asks.kind = "AddInhibition"
  BY DEF LockerSent, Inv, LockerInv, LockerTypeOK
<1> HIDE DEF asks
<1>3. RequestsWatched'
  BY <1>1 DEF WatchInv, RequestsWatched
<1> SUFFICES ASSUME NEW a \in alive
             PROVE  OneCall(a)' /\ AgentWatches(a)' /\ LockerWatches(a)'
  BY <1>1, <1>3 DEF WatchInv
<1>4. OneCall(a) /\ AgentWatches(a) /\ LockerWatches(a)
  BY DEF WatchInv
<1>5. a # NoCaller
  BY AppsOnly
<1>6. asks \notin Answers(a) /\ asks \notin LockerMatch(a) /\ asks \notin LockerUnmatch(a)
  BY <1>2 DEF Answers, LockerMatch, LockerUnmatch
<1>7. /\ Quiet(lockerOut', lockerOut, Answers(a))
      /\ Quiet(lockerOut', lockerOut, LockerUnmatch(a))
      /\ Longer(lockerOut', lockerOut, LockerMatch(a), Answers(a))
      /\ Has(lockerOut, LockerMatch(a)) => Has(lockerOut', LockerMatch(a))
  BY <1>1, <1>2, <1>6, Queues, QuietAppend, LongerAppend, AppendFacts
<1>8. AgentWatches(a)'
  BY <1>1, <1>4 DEF AgentWatches
<1>9. Quiet(lockerQueue', lockerQueue, Ends(a))
      /\ Quiet(lockerQueue', lockerQueue, CallsOf(a))
  BY <1>1, Queues, QuietTail
<1>10. QuietLocker(a)
  BY <1>1, <1>7, <1>9 DEF QuietLocker, Longer, Quiet
<1>11. OneCall(a)'
  <2>1. CASE m.from # a
    <3>1. QuietCall(a)
      BY <1>1, <1>7, <1>9, <2>1, QuietSame DEF QuietCall
    <3> QED
      BY <1>4, <3>1, CallStays
  <2>2. CASE m.from = a
    <3>1. m \in CallsOf(a)
      BY <1>1, <2>2 DEF CallsOf
    <3>2. CallAt(a, "lockerQueue")
      <4>1. Has(lockerQueue, CallsOf(a))
        BY <1>1, <3>1, Queues, TailFacts
      <4> QED
        BY <1>4, <4>1 DEF OneCall, CallAt
    <3>3. ~Has(lockerQueue', CallsOf(a)) /\ Once(lockerQueue', CallsOf(a))
      BY <1>1, <1>4, <3>1, Queues, TailFacts DEF OneCall
    <3>4. ~Has(lockerOut', Answers(a)) /\ Once(lockerOut', Answers(a))
      BY <1>4, <1>7, <3>2 DEF Quiet, CallAt, OneCall
    <3>5. CallAt(a, "inhibiting")'
      BY <1>1, <3>2, <3>3, <3>4 DEF CallAt
    <3> QED
      BY <1>1, <1>4, <3>3, <3>4, <3>5 DEF OneCall
  <2> QED
    BY <2>1, <2>2
<1> QED
  BY <1>4, <1>8, <1>10, <1>11, LockerMatchStays

(* Messages to the agent concern no application.                           *)
LEMMA ReleasesWatch ==
  ASSUME Inv, NEW rs \in SUBSET requests, NEW s \in Seq(LockerSent)
  PROVE  \A a : /\ Quiet(s \o Releases(rs), s, Answers(a))
                /\ Quiet(s \o Releases(rs), s, LockerUnmatch(a))
                /\ Longer(s \o Releases(rs), s, LockerMatch(a), Answers(a))
                /\ Has(s, LockerMatch(a)) => Has(s \o Releases(rs), LockerMatch(a))
<1>1. /\ Releases(rs) \in Seq(LockerSent)
      /\ \A i \in 1 .. Len(Releases(rs)) : Releases(rs)[i].kind = "ReleaseInhibition"
  BY ReleasesAre DEF Inv
<1> SUFFICES ASSUME NEW a
             PROVE  /\ Quiet(s \o Releases(rs), s, Answers(a))
                    /\ Quiet(s \o Releases(rs), s, LockerUnmatch(a))
                    /\ Longer(s \o Releases(rs), s, LockerMatch(a), Answers(a))
                    /\ Has(s, LockerMatch(a)) => Has(s \o Releases(rs), LockerMatch(a))
  OBVIOUS
<1>2. \A i \in 1 .. Len(Releases(rs)) :
        /\ Releases(rs)[i] \notin Answers(a) /\ Releases(rs)[i] \notin LockerMatch(a)
        /\ Releases(rs)[i] \notin LockerUnmatch(a)
  BY <1>1 DEF Answers, LockerMatch, LockerUnmatch
<1> QED
  BY <1>1, <1>2, QuietConcat, LongerConcat, ConcatFacts

LEMMA LockerUnInhibitsWatch ==
  ASSUME Inv, WatchInv, LockerUnInhibits
  PROVE  WatchInv'
<1> DEFINE m == Head(lockerQueue)
           rs == {r \in requests : r.cookie = m.cookie}
<1>1. /\ UNCHANGED <<alive, waiting, agentQueue, agentOut, watched, lockerWatched,
                     lockReplies, matches, inhibiting>>
      /\ lockerQueue # << >> /\ lockerQueue' = Tail(lockerQueue)
      /\ requests' = requests \ rs /\ lockerOut' = lockerOut \o Releases(rs)
  BY DEF LockerUnInhibits, LockerTakes, LockerUnchanged, UnInhibit, agentVars, kdedVars,
         appVars
<1>2. rs \in SUBSET requests
  OBVIOUS
<1> HIDE DEF rs
<1>3. RequestsWatched'
  BY <1>1 DEF WatchInv, RequestsWatched
<1> SUFFICES ASSUME NEW a \in alive
             PROVE  OneCall(a)' /\ AgentWatches(a)' /\ LockerWatches(a)'
  BY <1>1, <1>3 DEF WatchInv
<1>4. OneCall(a) /\ AgentWatches(a) /\ LockerWatches(a)
  BY DEF WatchInv
<1>5. /\ Quiet(lockerOut', lockerOut, Answers(a))
      /\ Quiet(lockerOut', lockerOut, LockerUnmatch(a))
      /\ Longer(lockerOut', lockerOut, LockerMatch(a), Answers(a))
      /\ Has(lockerOut, LockerMatch(a)) => Has(lockerOut', LockerMatch(a))
  BY <1>1, <1>2, Queues, ReleasesWatch
<1>6. Quiet(lockerQueue', lockerQueue, Ends(a))
      /\ Quiet(lockerQueue', lockerQueue, CallsOf(a))
  BY <1>1, Queues, QuietTail
<1>7. QuietCall(a)
  BY <1>1, <1>5, <1>6, QuietSame DEF QuietCall
<1>8. QuietLocker(a)
  BY <1>1, <1>5, <1>6 DEF QuietLocker, Longer, Quiet
<1>9. AgentWatches(a)'
  BY <1>1, <1>4 DEF AgentWatches
<1> QED
  BY <1>4, <1>7, <1>8, <1>9, CallStays, LockerMatchStays

(* ksmserver hears of the end of an application only after it went.        *)
LEMMA LockerHearsWatch ==
  ASSUME Inv, WatchInv, LockerHearsOfEnd
  PROVE  WatchInv'
<1> DEFINE m == Head(lockerQueue)
           rs == {r \in requests : r.dbusid = m.from}
           match == [kind |-> "RemoveMatch", service |-> m.from]
           first == IF m.from \in lockerWatched THEN <<match>> ELSE << >>
           s == lockerOut \o first
<1>1. /\ UNCHANGED <<alive, waiting, agentQueue, agentOut, watched,
                     lockReplies, matches, inhibiting>>
      /\ lockerQueue # << >> /\ lockerQueue' = Tail(lockerQueue) /\ m \in LockerMessage
      /\ m.kind = "Gone" /\ lockerWatched' = lockerWatched \ {m.from}
      /\ requests' = requests \ rs /\ lockerOut' = s \o Releases(rs)
  BY Queues DEF LockerHearsOfEnd, LockerTakes, LockerUnchanged, serviceUnregistered,
                agentVars, kdedVars, appVars
<1>2. rs \in SUBSET requests
  OBVIOUS
<1>3. match \in LockerSent /\ match.kind = "RemoveMatch" /\ match.service = m.from
  BY <1>1 DEF LockerMessage, LockerSent
<1>4. RequestsWatched'
  BY <1>1 DEF WatchInv, RequestsWatched
<1> SUFFICES ASSUME NEW a \in alive
             PROVE  OneCall(a)' /\ AgentWatches(a)' /\ LockerWatches(a)'
  BY <1>1, <1>4 DEF WatchInv
<1>5. OneCall(a) /\ AgentWatches(a) /\ LockerWatches(a)
  BY DEF WatchInv
<1>6. m.from # a
  <2>1. m \notin Ends(a)
    BY <1>1, <1>5, Queues, TailFacts DEF LockerWatches
  <2> QED
    BY <1>1, <2>1 DEF Ends
<1>7. /\ match \notin Answers(a) /\ match \notin LockerMatch(a)
      /\ match \notin LockerUnmatch(a)
  BY <1>3, <1>6 DEF Answers, LockerMatch, LockerUnmatch
<1> HIDE DEF rs, match
<1>8. first \in Seq(LockerSent)
      /\ \A i \in 1 .. Len(first) : first[i] = match
  BY <1>3
<1> HIDE DEF first
<1>9. s \in Seq(LockerSent)
  BY <1>8, Queues
<1>10. /\ Quiet(s, lockerOut, Answers(a))
       /\ Quiet(s, lockerOut, LockerUnmatch(a))
       /\ Longer(s, lockerOut, LockerMatch(a), Answers(a))
       /\ Has(lockerOut, LockerMatch(a)) => Has(s, LockerMatch(a))
  BY <1>7, <1>8, Queues, QuietConcat, LongerConcat, ConcatFacts
<1> HIDE DEF s
<1>11. /\ Quiet(lockerOut', s, Answers(a))
       /\ Quiet(lockerOut', s, LockerUnmatch(a))
       /\ Longer(lockerOut', s, LockerMatch(a), Answers(a))
       /\ Has(s, LockerMatch(a)) => Has(lockerOut', LockerMatch(a))
  BY <1>1, <1>2, <1>9, ReleasesWatch
<1>12. Quiet(lockerQueue', lockerQueue, Ends(a))
       /\ Quiet(lockerQueue', lockerQueue, CallsOf(a))
  BY <1>1, Queues, QuietTail
<1>13. Quiet(lockerOut', lockerOut, Answers(a))
  BY <1>10, <1>11 DEF Quiet
<1>14. QuietCall(a)
  BY <1>1, <1>12, <1>13, QuietSame DEF QuietCall
<1>15. QuietLocker(a)
  BY <1>1, <1>10, <1>11, <1>12 DEF QuietLocker, Longer, Quiet
<1>16. AgentWatches(a)'
  BY <1>1, <1>5 DEF AgentWatches
<1> QED
  BY <1>5, <1>14, <1>15, <1>16, CallStays, LockerMatchStays


(* Lock is answered at once, or later.                                     *)
LEMMA LockerLocksWatch ==
  ASSUME Inv, WatchInv, LockerLocks
  PROVE  WatchInv'
<1> DEFINE m == Head(lockerQueue)
           done == LockDone(m.from)
<1>1. /\ UNCHANGED <<alive, waiting, agentQueue, agentOut, watched, lockerWatched, requests,
                     matches, inhibiting>>
      /\ lockerQueue # << >> /\ lockerQueue' = Tail(lockerQueue) /\ m \in LockerMessage
      /\ m.kind = "Lock"
  BY Queues DEF LockerLocks, LockerTakes, LockerUnchanged, Lock, interfaceVars, agentVars,
                kdedVars, appVars
<1>2. /\ m.from \in Apps \cup {Agent}
      /\ done \in LockerSent /\ done.kind = "LockDone" /\ done.to = m.from
  BY <1>1 DEF LockerMessage, LockerSent, LockDone
<1>3. \/ lockReplies' = Append(lockReplies, m.from) /\ UNCHANGED lockerOut
      \/ lockerOut' = Append(lockerOut, done) /\ UNCHANGED lockReplies
  <2>1. m.from # NoCaller
    BY <1>2, SessionAssumption
  <2> QED
    BY <2>1 DEF LockerLocks, Lock
<1> HIDE DEF done
<1>4. RequestsWatched'
  BY <1>1 DEF WatchInv, RequestsWatched
<1> SUFFICES ASSUME NEW a \in alive
             PROVE  OneCall(a)' /\ AgentWatches(a)' /\ LockerWatches(a)'
  BY <1>1, <1>4 DEF WatchInv
<1>5. OneCall(a) /\ AgentWatches(a) /\ LockerWatches(a)
  BY DEF WatchInv
<1>6. /\ done \in Answers(a) <=> m.from = a
      /\ done \notin LockerMatch(a) /\ done \notin LockerUnmatch(a)
      /\ m \in CallsOf(a) <=> m.from = a
  BY <1>1, <1>2 DEF Answers, LockerMatch, LockerUnmatch, CallsOf
<1>7. /\ Quiet(lockerOut', lockerOut, LockerUnmatch(a))
      /\ Longer(lockerOut', lockerOut, LockerMatch(a), Answers(a))
      /\ Has(lockerOut, LockerMatch(a)) => Has(lockerOut', LockerMatch(a))
  BY <1>2, <1>3, <1>6, Queues, QuietAppend, QuietSame, LongerAppend, LongerSame, AppendFacts,
     ZenonT(40)
<1>8. Quiet(lockerQueue', lockerQueue, Ends(a))
      /\ Quiet(lockerQueue', lockerQueue, CallsOf(a))
  BY <1>1, Queues, QuietTail
<1>9. QuietLocker(a)
  BY <1>1, <1>7, <1>8 DEF QuietLocker, Longer, Quiet
<1>10. AgentWatches(a)'
  BY <1>1, <1>5 DEF AgentWatches
<1>11. OneCall(a)'
  <2>1. CASE m.from # a
    <3>1. Quiet(lockReplies', lockReplies, {a})
      BY <1>2, <1>3, <2>1, Queues, QuietAppend, QuietSame
    <3>2. Quiet(lockerOut', lockerOut, Answers(a))
      BY <1>2, <1>3, <1>6, <2>1, Queues, QuietAppend, QuietSame
    <3>3. QuietCall(a)
      BY <1>1, <1>8, <3>1, <3>2, QuietSame DEF QuietCall
    <3> QED
      BY <1>5, <3>3, CallStays
  <2>2. CASE m.from = a
    <3>1. CallAt(a, "lockerQueue")
      <4>1. Has(lockerQueue, CallsOf(a))
        BY <1>1, <1>6, <2>2, Queues, TailFacts
      <4> QED
        BY <1>5, <4>1 DEF OneCall, CallAt
    <3>2. ~Has(lockerQueue', CallsOf(a)) /\ Once(lockerQueue', CallsOf(a))
      BY <1>1, <1>5, <1>6, <2>2, Queues, TailFacts DEF OneCall
    <3>3. CASE lockReplies' = Append(lockReplies, m.from) /\ UNCHANGED lockerOut
      <4>1. Once(lockReplies', {a})
        <5>1. ~Has(lockReplies, {a}) /\ Once(lockReplies, {a})
          BY <1>5, <3>1 DEF CallAt, OneCall
        <5>2. lockReplies \in Seq(Apps \cup {Agent}) /\ a \in Apps \cup {Agent}
          BY <1>2, <2>2, Queues
        <5>3. Once(Append(lockReplies, a), {a})
          BY <5>1, <5>2, AppendFacts
        <5> QED
          BY <2>2, <3>3, <5>3
      <4>2. CallAt(a, "lockReplies")'
        BY <1>1, <3>1, <3>2, <3>3 DEF CallAt
      <4> QED
        BY <1>1, <1>5, <3>2, <3>3, <4>1, <4>2 DEF OneCall
    <3>4. CASE lockerOut' = Append(lockerOut, done) /\ UNCHANGED lockReplies
      <4>1. Once(lockerOut', Answers(a))
        <5>1. ~Has(lockerOut, Answers(a)) /\ Once(lockerOut, Answers(a))
          BY <1>5, <3>1 DEF CallAt, OneCall
        <5> QED
          BY <1>2, <3>4, <5>1, Queues, AppendFacts
      <4>2. CallAt(a, "lockerOut")'
        BY <1>1, <3>1, <3>2, <3>4 DEF CallAt
      <4> QED
        BY <1>1, <1>5, <3>2, <3>4, <4>1, <4>2 DEF OneCall
    <3> QED
      BY <1>3, <3>3, <3>4
  <2> QED
    BY <2>1, <2>2
<1> QED
  BY <1>5, <1>9, <1>10, <1>11, LockerMatchStays

(* The greeter, the timers and the user: whoever waited for the lock is    *)
(* answered.                                                               *)
LEMMA LockerAloneWatch ==
  ASSUME Inv, WatchInv, LockerAlone
  PROVE  WatchInv'
<1>1. UNCHANGED <<alive, waiting, agentQueue, lockerQueue, agentOut, watched, lockerWatched,
                  requests, matches, inhibiting>>
  BY DEF LockerAlone, LockerGreeterReady, LockerGreeterSucceeds, LockerGreeterFails,
         LockerIdleTimeout, LockerGraceEnds, LockerActivity, LockerShortcut, GreeterReady,
         GreeterSucceeds, GreeterFails, IdleTimeout, EndGraceTime, Activity, LockShortcut,
         Lock, interfaceVars, OthersUnchanged, agentVars, kdedVars, busVars, appVars
<1>2. \/ UNCHANGED <<lockReplies, lockerOut>>
      \/ sendLockReplies
  BY DEF LockerAlone, LockerGreeterReady, LockerGreeterSucceeds, LockerGreeterFails,
         LockerIdleTimeout, LockerGraceEnds, LockerActivity, LockerShortcut, GreeterReady,
         GreeterSucceeds, GreeterFails, IdleTimeout, EndGraceTime, Activity, LockShortcut,
         Lock
<1>3. RequestsWatched'
  BY <1>1 DEF WatchInv, RequestsWatched
<1> SUFFICES ASSUME NEW a \in alive
             PROVE  OneCall(a)' /\ AgentWatches(a)' /\ LockerWatches(a)'
  BY <1>1, <1>3 DEF WatchInv
<1>4. OneCall(a) /\ AgentWatches(a) /\ LockerWatches(a)
  BY DEF WatchInv
<1>5. AgentWatches(a)'
  BY <1>1, <1>4 DEF AgentWatches
<1>6. CASE UNCHANGED <<lockReplies, lockerOut>>
  <2>1. LockerWatches(a)'
    BY <1>1, <1>4, <1>6 DEF LockerWatches
  <2>2. QuietCall(a)
    BY <1>1, <1>6, QuietSame DEF QuietCall
  <2> QED
    BY <1>4, <1>5, <2>1, <2>2, CallStays
<1>7. CASE sendLockReplies
  <2>1. lockerOut' = lockerOut \o LockAnswers /\ lockReplies' = << >>
    BY <1>7 DEF sendLockReplies
  <2>2. /\ LockAnswers \in Seq(LockerSent) /\ Len(LockAnswers) = Len(lockReplies)
        /\ \A i \in 1 .. Len(LockAnswers) : LockAnswers[i] = LockDone(lockReplies[i])
    BY LockAnswersAre DEF Inv, LockerInv
  <2>3. \A i \in 1 .. Len(LockAnswers) :
          /\ LockAnswers[i] \notin LockerMatch(a) /\ LockAnswers[i] \notin LockerUnmatch(a)
          /\ LockAnswers[i] \in Answers(a) <=> lockReplies[i] = a
    <3> SUFFICES ASSUME NEW i \in 1 .. Len(LockAnswers)
                 PROVE  /\ LockAnswers[i] \notin LockerMatch(a)
                        /\ LockAnswers[i] \notin LockerUnmatch(a)
                        /\ LockAnswers[i] \in Answers(a) <=> lockReplies[i] = a
      OBVIOUS
    <3>1. LockAnswers[i].kind = "LockDone" /\ LockAnswers[i].to = lockReplies[i]
      <4>1. \A x : LockDone(x).kind = "LockDone" /\ LockDone(x).to = x
        BY DEF LockDone
      <4> QED
        BY <2>2, <4>1, Zenon
    <3>2. LockAnswers[i] \in LockerSent
      BY <2>2
    <3> QED
      BY <3>1, <3>2 DEF Answers, LockerMatch, LockerUnmatch
  <2>4. /\ Has(LockAnswers, Answers(a)) <=> Has(lockReplies, {a})
        /\ Once(lockReplies, {a}) => Once(LockAnswers, Answers(a))
    BY <2>2, <2>3 DEF Has, Once
  <2>5. QuietLocker(a)
    <3>1. /\ Quiet(lockerOut', lockerOut, LockerUnmatch(a))
          /\ Longer(lockerOut', lockerOut, LockerMatch(a), Answers(a))
          /\ Has(lockerOut, LockerMatch(a)) => Has(lockerOut', LockerMatch(a))
      BY <2>1, <2>2, <2>3, Queues, QuietConcat, LongerConcat, ConcatFacts
    <3> QED
      BY <1>1, <3>1 DEF QuietLocker, Longer, Quiet
  <2>6. ~Has(lockReplies', {a}) /\ Once(lockReplies', {a})
    BY <2>1, ShortQueues
  <2>7. OneCall(a)'
    <3>1. CASE ~Has(lockReplies, {a})
      <4>1. \A i \in 1 .. Len(LockAnswers) : LockAnswers[i] \notin Answers(a)
        BY <2>4, <3>1 DEF Has
      <4>2. Quiet(lockerOut', lockerOut, Answers(a))
        BY <2>1, <2>2, <4>1, Queues, QuietConcat
      <4>3. QuietCall(a)
        BY <1>1, <2>6, <4>2, QuietSame DEF QuietCall, Quiet
      <4> QED
        BY <1>4, <4>3, CallStays
    <3>2. CASE Has(lockReplies, {a})
      <4>1. CallAt(a, "lockReplies")
        BY <1>4, <3>2 DEF OneCall, CallAt
      <4>2. Once(lockerOut', Answers(a))
        <5>1. ~Has(lockerOut, Answers(a)) /\ Once(lockerOut, Answers(a))
              /\ Once(LockAnswers, Answers(a))
          BY <1>4, <2>4, <4>1 DEF CallAt, OneCall
        <5> QED
          BY <2>1, <2>2, <5>1, Queues, ConcatFacts
      <4>3. CallAt(a, "lockerOut")'
        BY <1>1, <2>6, <4>1 DEF CallAt
      <4> QED
        BY <1>1, <1>4, <2>6, <4>2, <4>3 DEF OneCall
    <3> QED
      BY <3>1, <3>2
  <2> QED
    BY <1>4, <1>5, <2>5, <2>7, LockerMatchStays
<1> QED
  BY <1>2, <1>6, <1>7

(* The call of the agent returns or runs out of time: the caller of        *)
(* Inhibit is answered, behind the match if ksmserver makes one.           *)
LEMMA ReturnsWatch ==
  ASSUME Inv, WatchInv, LockerIsAnswered \/ LockerTimesOut
  PROVE  WatchInv'
<1> DEFINE match == [kind |-> "AddMatch", service |-> inhibiting]
           answer == Answer(inhibiting, nextCookie)
           s == IF inhibiting \in lockerWatched THEN lockerOut ELSE Append(lockerOut, match)
<1>1. PICK k : InhibitReturns(k)
  BY DEF LockerIsAnswered, LockerTimesOut
<1>2. /\ UNCHANGED <<alive, waiting, lockerQueue, agentQueue, agentOut, watched,
                     lockReplies, matches>>
      /\ lockerWatched' = lockerWatched \cup {inhibiting}
      /\ inhibiting # NoCaller /\ inhibiting' = NoCaller
      /\ requests' = requests \cup {[cookie |-> nextCookie, dbusid |-> inhibiting,
                                     powerdevilcookie |-> k]}
  BY <1>1 DEF LockerIsAnswered, LockerTimesOut, InhibitReturns, agentVars, kdedVars, appVars,
              busVars
<1>3. inhibiting \in Apps /\ nextCookie \in Serial
  BY <1>2 DEF Inv, LockerInv, LockerTypeOK
<1>4. match \in LockerSent /\ answer \in LockerSent
      /\ match.kind = "AddMatch" /\ match.service = inhibiting
      /\ answer.kind = "Return" /\ answer.to = inhibiting
  BY <1>3 DEF LockerSent, Answer
<1>5. s \in Seq(LockerSent) /\ lockerOut' = Append(s, answer)
  <2>1. /\ inhibiting \in lockerWatched => lockerOut' = lockerOut \o << >> \o <<answer>>
        /\ inhibiting \notin lockerWatched =>
             lockerOut' = lockerOut \o <<match>> \o <<answer>>
    BY <1>1, Zenon DEF InhibitReturns
  <2> HIDE DEF match, answer
  <2>2. /\ lockerOut \o << >> \o <<answer>> = Append(lockerOut, answer)
        /\ lockerOut \o <<match>> \o <<answer>> = Append(Append(lockerOut, match), answer)
    BY <1>4, Queues, TwoMoreAre
  <2>3. Append(lockerOut, match) \in Seq(LockerSent)
    BY <1>4, Queues
  <2> QED
    BY <2>1, <2>2, <2>3, Queues
<1>6. RequestsWatched'
  BY <1>2 DEF WatchInv, RequestsWatched
<1> SUFFICES ASSUME NEW a \in alive
             PROVE  OneCall(a)' /\ AgentWatches(a)' /\ LockerWatches(a)'
  BY <1>2, <1>6 DEF WatchInv
<1>7. OneCall(a) /\ AgentWatches(a) /\ LockerWatches(a)
  BY DEF WatchInv
<1>8. /\ match \notin Answers(a) /\ match \notin LockerUnmatch(a)
      /\ answer \notin LockerMatch(a) /\ answer \notin LockerUnmatch(a)
      /\ match \in LockerMatch(a) <=> inhibiting = a
      /\ answer \in Answers(a) <=> inhibiting = a
  BY <1>4 DEF Answers, LockerMatch, LockerUnmatch
<1>9. a # NoCaller
  BY AppsOnly
<1> HIDE DEF match, answer
<1>10. /\ Quiet(s, lockerOut, Answers(a)) /\ Quiet(s, lockerOut, LockerUnmatch(a))
       /\ Has(lockerOut, LockerMatch(a)) => Has(s, LockerMatch(a))
       /\ inhibiting = a => a \in lockerWatched \/ Has(s, LockerMatch(a))
       /\ inhibiting # a => Longer(s, lockerOut, LockerMatch(a), Answers(a))
  BY <1>4, <1>8, Queues, QuietAppend, QuietSame, LongerAppend, LongerSame, AppendFacts
<1> HIDE DEF s
<1>11. /\ Quiet(lockerOut', s, LockerUnmatch(a))
       /\ Has(s, LockerMatch(a)) => Has(lockerOut', LockerMatch(a))
  BY <1>4, <1>5, <1>8, QuietAppend, AppendFacts
<1>12. AgentWatches(a)'
  BY <1>2, <1>7 DEF AgentWatches
<1>13. CASE inhibiting # a
  <2>1. /\ Quiet(lockerOut', s, Answers(a))
        /\ Longer(lockerOut', s, LockerMatch(a), Answers(a))
    BY <1>4, <1>5, <1>8, <1>13, QuietAppend, LongerAppend
  <2>2. QuietLocker(a)
    BY <1>2, <1>10, <1>11, <1>13, <2>1 DEF QuietLocker, Longer, Quiet
  <2>3. Quiet(lockerOut', lockerOut, Answers(a))
    BY <1>10, <2>1 DEF Quiet
  <2>4. QuietCall(a)
    BY <1>2, <1>9, <2>3, QuietSame DEF QuietCall
  <2> QED
    BY <1>7, <1>12, <2>2, <2>4, CallStays, LockerMatchStays
<1>14. CASE inhibiting = a
  <2>1. Followed(lockerOut', LockerMatch(a), Answers(a))
    BY <1>4, <1>5, <1>8, <1>14, AppendFacts
  <2>2. LockerWatches(a)'
    BY <1>2, <1>7, <1>10, <1>11, <1>14, <2>1 DEF LockerWatches, Quiet
  <2>3. CallAt(a, "inhibiting")
    BY <1>7, <1>14 DEF OneCall, CallAt
  <2>4. Once(lockerOut', Answers(a))
    <3>1. ~Has(s, Answers(a)) /\ Once(s, Answers(a))
      BY <1>7, <1>10, <2>3 DEF Quiet, CallAt, OneCall
    <3> QED
      BY <1>4, <1>5, <3>1, AppendFacts
  <2>5. CallAt(a, "lockerOut")'
    BY <1>2, <1>9, <2>3 DEF CallAt
  <2>6. OneCall(a)'
    BY <1>2, <1>7, <2>4, <2>5 DEF OneCall
  <2> QED
    BY <1>12, <2>2, <2>6
<1> QED
  BY <1>13, <1>14

LEMMA WatchStep ==
  ASSUME Inv, WatchInv, [Next]_vars
  PROVE  WatchInv'
<1>1. CASE UNCHANGED vars \/ AgentTimesOut
  <2>1. UNCHANGED <<alive, waiting, agentQueue, lockerQueue, agentOut, lockerOut, watched,
                    lockerWatched, requests, lockReplies, inhibiting, matches>>
    BY <1>1 DEF vars, AgentTimesOut, agentVars, lockerVars, appVars, busVars, kdedVars
  <2> QED
    BY <2>1 DEF WatchInv, OneCall, CallAt, AgentWatches, LockerWatches, RequestsWatched
<1> QED
  BY <1>1, AppCallsWatch, AppEndsWatch, AgentSendsWatch, LockerSendsWatch, AgentAddsWatch,
     AgentTakesWatch, AgentForcesLockWatch, AgentRestartsWatch, LockerPassesWatch,
     LockerUnInhibitsWatch, LockerLocksWatch, LockerHearsWatch, ReturnsWatch,
     LockerAloneWatch
  DEF Next, LockerAlone

LEMMA WatchStart ==
  ASSUME Init
  PROVE  WatchInv
<1> SUFFICES ASSUME NEW a \in alive
             PROVE  OneCall(a) /\ AgentWatches(a) /\ LockerWatches(a) /\ RequestsWatched
  BY DEF WatchInv, RequestsWatched, Init, LockerInit
<1>1. /\ agentQueue = << >> /\ agentOut = << >> /\ lockerQueue = << >> /\ lockReplies = << >>
      /\ lockerOut = << >> /\ inhibiting = NoCaller /\ watched = {} /\ lockerWatched = {}
      /\ requests = {} /\ a \in Apps
  BY DEF Init, AgentInit, LockerInit
<1>2. a # NoCaller
  BY <1>1, SessionAssumption
<1>3. CallAt(a, "nowhere")
  BY <1>1, <1>2, ShortQueues DEF CallAt
<1> QED
  BY <1>1, <1>3, ShortQueues DEF OneCall, AgentWatches, LockerWatches, RequestsWatched

(* An application that has had its answer is watched as long as an         *)
(* inhibition of its is kept, by the agent and by the locker.              *)
THEOREM AnsweredStaysWatched == Spec => []AnsweredIsWatched
<1>1. ASSUME Inv, WatchInv PROVE AnsweredIsWatched
  BY <1>1, WatchIsProperty
<1> QED
  BY <1>1, InvHolds, WatchStart, WatchStep, PTL DEF Spec
==============================================================================
