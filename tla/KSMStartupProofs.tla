--------------------------- MODULE KSMStartupProofs ---------------------------
(***************************************************************************)
(* No startup gets stuck for want of a timer: StartupDriven and            *)
(* TimerMeansHeldUp hold for any saved sessions, any clients that suspend   *)
(* the startup, and sub-sessions restored at any time.                     *)
(*                                                                         *)
(* They are proved together with what they lean on: that the timer of the  *)
(* suspension never runs for nobody, so that a phase that finds itself free *)
(* leaves none running, and that applications are restored only out of a    *)
(* saved session whose entries are all there.  Then the startup is shown to *)
(* take no step that StartupSequence does not allow.                        *)
(***************************************************************************)
EXTENDS KSMStartup, TLAPS

WMBounded == wm # "kwin" => wmShots <= 1

RestoringFromSaved ==
  /\ restoreTimer => /\ state \in {"Restoring", "RestoringSubSession"}
                     /\ ~startupSuspendTimeoutTimer
  /\ sessionGroup = "" => ~restoreTimer /\ lastIdStarted = NoId
  /\ sessionGroup # "" => appsToStart <= Len(Saved[sessionGroup])

(* The parts of TypeOK that a phase's slot and tryRestoreNext change. *)
PhaseType ==
  /\ state \in States
  /\ startupSuspendTimeoutTimer \in BOOLEAN
  /\ phaseOver \in BOOLEAN
  /\ kcminitSignals \in BOOLEAN
  /\ kcmShots \subseteq KcmShots
  /\ waitAutoStart2 \in BOOLEAN
  /\ waitKcmInit2 \in BOOLEAN

AppsType ==
  /\ appsToStart \in Nat
  /\ lastAppStarted \in Nat
  /\ lastIdStarted \in Id \cup {NoId}
  /\ restoreTimer \in BOOLEAN
  /\ launched \subseteq Id
  /\ starts \in [DOMAIN Saved["Session"] -> Nat]

TypeInv == TypeOK /\ WMBounded /\ RestoringFromSaved

KcmTimed ==
  /\ state = "KcmInitPhase1" => ~phaseOver
  /\ state = "FinishingStartup" /\ waitKcmInit2 =>
       kcmShots \cap {"phase2Now", "phase2Timeout"} # {}

Driven == StartupDriven /\ TimerMeansHeldUp /\ KcmTimed

------------------------------------------------------------------------------
(* Types. *)

LEMMA SavedType ==
  ASSUME NEW group \in {"Session", "SubSession"}
  PROVE  /\ Saved[group] \in Seq([id : Id, restart : BOOLEAN])
         /\ Len(Saved[group]) \in Nat
         /\ \A i \in 1 .. Len(Saved[group]) : Saved[group][i].id \in Id
  <1> DEFINE Entries == [id : Id, restart : BOOLEAN]
             saved == Saved[group]
  <1>1. saved \in Seq(Entries)
    BY ConstantsAssumption
  <1>2. \A entry \in Entries : entry.id \in Id
    OBVIOUS
  <1> HIDE DEF Entries, saved
  <1>3. /\ Len(saved) \in Nat
        /\ \A i \in 1 .. Len(saved) : saved[i] \in Entries
    BY <1>1
  <1>4. \A i \in 1 .. Len(saved) : saved[i].id \in Id
    BY <1>2, <1>3
  <1> QED BY <1>1, <1>3, <1>4 DEF Entries, saved

LEMMA ToStartType ==
  ASSUME NEW from \in Nat, NEW upto \in Nat,
         sessionGroup' \in {"Session", "SubSession"},
         upto <= Len(Saved[sessionGroup']),
         NEW next \in ToStart(from, upto)
  PROVE  next \in Nat /\ Saved[sessionGroup'][next].id \in Id
  <1> DEFINE saved == Saved[sessionGroup']
  <1>1. /\ Len(saved) \in Nat
        /\ \A i \in 1 .. Len(saved) : saved[i].id \in Id
    BY SavedType
  <1>2. next \in (from + 1) .. upto
    BY DEF ToStart
  <1> HIDE DEF saved
  <1>3. next \in 1 .. Len(saved)
    BY <1>1, <1>2 DEF saved
  <1> QED BY <1>1, <1>3 DEF saved

(* The two ends of a phase's slot. *)
LEMMA AutoStart2Type ==
  ASSUME TypeOK, NEW count, NEW timer \in BOOLEAN, AutoStart2(count, timer)
  PROVE  PhaseType'
  BY DEF AutoStart2, HeldUp, Free, TypeOK, PhaseType, States, KcmShots, kcmVars

LEMMA RestoreType ==
  ASSUME TypeOK, NEW st \in {"Restoring", "RestoringSubSession"},
         NEW from \in Nat, NEW upto \in Nat, NEW count,
         sessionGroup' \in {"Session", "SubSession"},
         upto <= Len(Saved[sessionGroup']),
         TryRestoreNext(st, from, upto, count)
  PROVE  /\ PhaseType' /\ AppsType' /\ RestoringFromSaved'
         /\ launched \subseteq launched'
  <1>1. Len(Saved[sessionGroup']) \in Nat
    BY SavedType
  <1>2. CASE \E next \in ToStart(from, upto) :
               /\ state' = st
               /\ appsToStart' = upto
               /\ lastAppStarted' = next
               /\ lastIdStarted' = Saved[sessionGroup'][next].id
               /\ launched' = launched \cup {lastIdStarted'}
               /\ starts' = IF sessionGroup' = "Session"
                              THEN [starts EXCEPT ![next] = @ + 1] ELSE starts
               /\ restoreTimer' = TRUE
               /\ startupSuspendTimeoutTimer' = FALSE
               /\ phaseOver' = FALSE
               /\ UNCHANGED kcmVars
    <2>1. PICK next \in ToStart(from, upto) :
               /\ lastAppStarted' = next
               /\ lastIdStarted' = Saved[sessionGroup'][next].id
               /\ starts' = IF sessionGroup' = "Session"
                              THEN [starts EXCEPT ![next] = @ + 1] ELSE starts
      BY <1>2
    <2>2. lastAppStarted' \in Nat /\ lastIdStarted' \in Id
      BY <2>1, ToStartType
    <2>3. /\ state' = st
          /\ appsToStart' = upto
          /\ launched' = launched \cup {lastIdStarted'}
          /\ restoreTimer' = TRUE
          /\ startupSuspendTimeoutTimer' = FALSE
          /\ phaseOver' = FALSE
          /\ UNCHANGED kcmVars
      BY <1>2
    <2>4. starts' \in [DOMAIN Saved["Session"] -> Nat]
      <3>1. starts \in [DOMAIN Saved["Session"] -> Nat]
        BY DEF TypeOK
      <3>2. starts' = [starts EXCEPT ![next] = @ + 1] \/ starts' = starts
        BY <2>1
      <3> QED BY <3>1, <3>2
    <2> QED BY <2>2, <2>3, <2>4
            DEF TypeOK, PhaseType, AppsType, States, kcmVars, RestoringFromSaved
  <1>3. CASE /\ appsToStart' = 0
             /\ lastAppStarted' = IF from < upto THEN upto ELSE from
             /\ lastIdStarted' = NoId
             /\ restoreTimer' = FALSE
             /\ UNCHANGED <<launched, starts>>
             /\ \/ st = "Restoring" /\ AutoStart2(count, FALSE)
                \/ /\ state' = "Idle"
                   /\ startupSuspendTimeoutTimer' = FALSE
                   /\ phaseOver' = FALSE
                   /\ UNCHANGED kcmVars
    <2>1. PhaseType'
      <3>1. CASE st = "Restoring" /\ AutoStart2(count, FALSE)
        BY <3>1, AutoStart2Type
      <3>2. CASE /\ state' = "Idle"
                 /\ startupSuspendTimeoutTimer' = FALSE
                 /\ phaseOver' = FALSE
                 /\ UNCHANGED kcmVars
        BY <3>2 DEF TypeOK, PhaseType, States, kcmVars
      <3> QED BY <1>3, <3>1, <3>2
    <2>2. /\ appsToStart' = 0
          /\ lastIdStarted' = NoId
          /\ restoreTimer' = FALSE
          /\ launched' = launched
          /\ starts' = starts
      BY <1>3
    <2>3. lastAppStarted' \in Nat
      BY <1>3
    <2>4. RestoringFromSaved'
      <3> DEFINE length == Len(Saved[sessionGroup'])
      <3> HIDE DEF length
      <3>1. appsToStart' <= length
        BY <1>1, <2>2 DEF length
      <3> QED BY <2>2, <3>1 DEF RestoringFromSaved, length
    <2> QED BY <2>1, <2>2, <2>3, <2>4 DEF TypeOK, AppsType
  <1> QED BY <1>2, <1>3 DEF TryRestoreNext

(* A phase's slot, called in the state it is for. *)
Slot(count, timer) ==
  \/ state = "LaunchingWM" /\ AutoStart0(count, timer)
  \/ state = "AutoStart0" /\ AutoStart0Done(count, timer)
  \/ state = "AutoStart1" /\ AutoStart1Done(count, timer)
  \/ /\ state = "Restoring"
     /\ ~restoreTimer
     /\ AutoStart2(count, timer)
     /\ UNCHANGED appVars

LEMMA SlotType ==
  ASSUME TypeInv, NEW count, NEW timer \in BOOLEAN, Slot(count, timer),
         sessionGroup' = sessionGroup
  PROVE  /\ PhaseType' /\ AppsType' /\ RestoringFromSaved'
         /\ launched \subseteq launched'
  <1> USE DEF TypeInv
  <1>1. CASE state = "LaunchingWM" /\ AutoStart0(count, timer)
    BY <1>1 DEF AutoStart0, HeldUp, Free, TypeOK, PhaseType, AppsType, States,
                kcmVars, appVars, RestoringFromSaved
  <1>2. CASE state = "AutoStart0" /\ AutoStart0Done(count, timer)
    BY <1>2 DEF AutoStart0Done, RunPhase1, HeldUp, Free, TypeOK, PhaseType,
                AppsType, States, KcmShots, appVars, RestoringFromSaved
  <1>3. CASE state = "AutoStart1" /\ AutoStart1Done(count, timer)
    <2>1. CASE HeldUp(count) /\ UNCHANGED <<state, kcmVars, appVars>>
      BY <1>3, <2>1 DEF HeldUp, TypeOK, PhaseType, AppsType, States, kcmVars,
                        appVars, RestoringFromSaved
    <2>2. CASE /\ sessionGroup # ""
               /\ TryRestoreNext("Restoring", 0, appsToStart, count)
      <3>1. PICK upto \in Nat : upto = appsToStart
        BY DEF TypeOK
      <3>2. /\ sessionGroup' \in {"Session", "SubSession"}
            /\ upto <= Len(Saved[sessionGroup'])
        BY <2>2, <3>1 DEF TypeOK, RestoringFromSaved
      <3>3. PICK st \in {"Restoring"}, from \in {0} :
              TryRestoreNext(st, from, upto, count)
        BY <2>2, <3>1 DEF TryRestoreNext, ToStart
      <3> QED BY <3>2, <3>3, RestoreType
    <2>3. CASE /\ sessionGroup = ""
               /\ AutoStart2(count, timer)
               /\ lastAppStarted' = 0
               /\ lastIdStarted' = NoId
               /\ UNCHANGED <<appsToStart, restoreTimer, launched, starts>>
      <3>1. PhaseType'
        BY <2>3, AutoStart2Type
      <3> QED BY <1>3, <2>3, <3>1 DEF TypeOK, AppsType, RestoringFromSaved
    <2> QED BY <1>3, <2>1, <2>2, <2>3 DEF AutoStart1Done
  <1>4. CASE /\ state = "Restoring"
             /\ ~restoreTimer
             /\ AutoStart2(count, timer)
             /\ UNCHANGED appVars
    <2>1. PhaseType'
      BY <1>4, AutoStart2Type
    <2> QED BY <1>4, <2>1 DEF TypeOK, AppsType, appVars, RestoringFromSaved
  <1> QED BY <1>1, <1>2, <1>3, <1>4 DEF Slot

LEMMA SlotCalled ==
  ASSUME TypeInv, sessionGroup' = sessionGroup,
         \/ Slot(startupSuspendCount, startupSuspendTimeoutTimer)
         \/ Slot(NobodySuspends, FALSE)
  PROVE  /\ PhaseType' /\ AppsType' /\ RestoringFromSaved'
         /\ launched \subseteq launched'
  <1>1. CASE Slot(startupSuspendCount, startupSuspendTimeoutTimer)
    <2>1. PICK count : count = startupSuspendCount
      OBVIOUS
    <2>2. PICK timer \in BOOLEAN : timer = startupSuspendTimeoutTimer
      BY DEF TypeInv, TypeOK
    <2>3. \/ state = "LaunchingWM" /\ AutoStart0(count, timer)
          \/ state = "AutoStart0" /\ AutoStart0Done(count, timer)
          \/ state = "AutoStart1" /\ AutoStart1Done(count, timer)
          \/ /\ state = "Restoring"
             /\ ~restoreTimer
             /\ AutoStart2(count, timer)
             /\ UNCHANGED appVars
      BY <1>1, <2>1, <2>2 DEF Slot
    <2>4. Slot(count, timer)
      BY <2>3 DEF Slot
    <2> QED BY <2>2, <2>4, SlotType
  <1>2. CASE Slot(NobodySuspends, FALSE)
    <2>1. PICK timer \in BOOLEAN : timer = FALSE
      OBVIOUS
    <2>2. Slot(NobodySuspends, timer)
      BY <1>2, <2>1, Zenon
    <2> QED BY <2>2, SlotType
  <1> QED BY <1>1, <1>2

(* tryRestoreNext goes on with the saved session it is at. *)
LEMMA RestoreCalled ==
  ASSUME TypeInv, sessionGroup' = sessionGroup, sessionGroup # "",
         state \in {"Restoring", "RestoringSubSession"},
         TryRestoreNext(state, lastAppStarted, appsToStart, startupSuspendCount)
  PROVE  /\ PhaseType' /\ AppsType' /\ RestoringFromSaved'
         /\ launched \subseteq launched'
  <1>1. PICK st \in {"Restoring", "RestoringSubSession"}, from \in Nat, upto \in Nat :
          st = state /\ from = lastAppStarted /\ upto = appsToStart
    BY DEF TypeInv, TypeOK
  <1> PICK count : count = startupSuspendCount
    OBVIOUS
  <1>2. TryRestoreNext(st, from, upto, count)
    BY <1>1 DEF TryRestoreNext, ToStart, AutoStart2, HeldUp, Free
  <1>3. /\ sessionGroup' \in {"Session", "SubSession"}
        /\ upto <= Len(Saved[sessionGroup'])
    BY <1>1 DEF TypeInv, TypeOK, RestoringFromSaved
  <1>4. TypeOK
    BY DEF TypeInv
  <1>5. /\ PhaseType' /\ AppsType' /\ RestoringFromSaved'
        /\ launched \subseteq launched'
    BY ONLY <1>1, <1>2, <1>3, <1>4, RestoreType
  <1> QED BY <1>5

LEMMA TypeInit == Init => TypeInv
  <1> SUFFICES ASSUME Init PROVE TypeInv
    OBVIOUS
  <1>1. Len(Saved["Session"]) \in Nat
    BY SavedType
  <1>2. startupSuspendCount \in [App -> 0 .. MaxSuspend]
    <2>1. MaxSuspend \in Nat /\ 0 \in 0 .. MaxSuspend
      BY ConstantsAssumption
    <2>2. startupSuspendCount = [a \in App |-> 0]
      BY DEF Init, NobodySuspends
    <2> QED BY <2>1, <2>2
  <1>3. appsToStart \in Nat /\ (sessionGroup # "" => appsToStart <= Len(Saved[sessionGroup]))
    <2> DEFINE length == Len(Saved["Session"])
    <2> HIDE DEF length
    <2>1. CASE sessionGroup = ""
      BY <2>1 DEF Init
    <2>2. CASE sessionGroup = "Session"
      <3>1. appsToStart = length
        BY <2>2 DEF Init, length
      <3>2. length \in Nat
        BY <1>1 DEF length
      <3>3. appsToStart <= length
        BY <3>1, <3>2
      <3> QED BY <2>2, <3>1, <3>2, <3>3 DEF length
    <2> QED BY <2>1, <2>2 DEF Init
  <1>4. wmShots = 1
    BY DEF Init
  <1>5. TypeOK
    <2>1. /\ state \in States
          /\ wm \in {InitialWM, "kwin"}
          /\ wmRunning \in BOOLEAN
          /\ startupSuspendTimeoutTimer \in BOOLEAN
          /\ phaseOver \in BOOLEAN
          /\ kcminitSignals \in BOOLEAN
      BY DEF Init, States
    <2>2. /\ kcmShots \subseteq KcmShots
          /\ waitAutoStart2 \in BOOLEAN
          /\ waitKcmInit2 \in BOOLEAN
          /\ sessionGroup \in {"Session", "SubSession", ""}
      BY DEF Init
    <2>3. /\ lastIdStarted \in Id \cup {NoId}
          /\ restoreTimer \in BOOLEAN
          /\ launched \subseteq Id
          /\ registered \subseteq launched
          /\ starts \in [DOMAIN Saved["Session"] -> Nat]
      BY DEF Init
    <2>4. lastAppStarted \in Nat
      BY DEF Init
    <2>5. wmShots \in 0 .. 2
      BY <1>4
    <2> QED BY <1>2, <1>3, <2>1, <2>2, <2>3, <2>4, <2>5 DEF TypeOK
  <1>6. RestoringFromSaved
    BY <1>3 DEF Init, RestoringFromSaved
  <1> QED BY <1>4, <1>5, <1>6 DEF TypeInv, WMBounded

(* What remains to be typed when a slot or tryRestoreNext has been called. *)
LEMMA RestUntouched ==
  ASSUME TypeInv, PhaseType', AppsType', RestoringFromSaved',
         launched \subseteq launched', registered' \subseteq launched',
         wm' = wm, wmRunning' = wmRunning,
         wmShots' \in 0 .. 2, WMBounded',
         startupSuspendCount' \in [App -> 0 .. MaxSuspend],
         sessionGroup' \in {"Session", "SubSession", ""}
  PROVE  TypeInv'
  <1>1. wmShots \in 0 .. 2 /\ wm \in {InitialWM, "kwin"} /\ wmRunning \in BOOLEAN
    BY DEF TypeInv, TypeOK
  <1>3. TypeOK'
    BY <1>1 DEF TypeOK, PhaseType, AppsType
  <1> QED BY <1>3 DEF TypeInv

LEMMA WMTypes ==
  ASSUME TypeInv, WMTimeout \/ WMIdentified \/ WMProcessChange
  PROVE  TypeInv'
  <1>1. CASE WMTimeout
    <2>1. wmShots' \in 0 .. 2 /\ WMBounded'
      <3>1. wmShots \in 0 .. 2 /\ (wm # "kwin" => wmShots <= 1)
        BY DEF TypeInv, TypeOK, WMBounded
      <3>2. wmShots > 0 /\ wmShots' = wmShots - 1 /\ wm' = wm
        BY <1>1 DEF WMTimeout
      <3>3. wmShots' \in 0 .. 2 /\ (wmShots <= 1 => wmShots' <= 1)
        BY <3>1, <3>2
      <3> QED BY <3>1, <3>2, <3>3 DEF WMBounded
    <2>2. /\ wm' = wm /\ wmRunning' = wmRunning
          /\ UNCHANGED <<startupSuspendCount, registered>>
          /\ sessionGroup' = sessionGroup
      BY <1>1 DEF WMTimeout
    <2>3. /\ PhaseType' /\ AppsType' /\ RestoringFromSaved'
          /\ launched \subseteq launched'
      <3>1. CASE state = "LaunchingWM"
        <4>1. Slot(startupSuspendCount, startupSuspendTimeoutTimer)
          BY <1>1, <3>1 DEF WMTimeout, Slot
        <4> QED BY <2>2, <4>1, SlotCalled
      <3>2. CASE state # "LaunchingWM"
        BY <1>1, <2>2, <3>2 DEF WMTimeout, TypeInv, TypeOK, PhaseType, AppsType,
                                RestoringFromSaved, kcmVars, appVars
      <3> QED BY <3>1, <3>2
    <2> QED BY <2>1, <2>2, <2>3, RestUntouched DEF TypeInv, TypeOK
  <1>2. CASE WMIdentified
    <2>1. /\ wm' = wm /\ wmRunning' = wmRunning /\ wmShots' = wmShots
          /\ UNCHANGED <<startupSuspendCount, registered>>
          /\ sessionGroup' = sessionGroup
      BY <1>2 DEF WMIdentified, wmVars
    <2>2. Slot(startupSuspendCount, startupSuspendTimeoutTimer)
      BY <1>2 DEF WMIdentified, Slot
    <2>3. /\ PhaseType' /\ AppsType' /\ RestoringFromSaved'
          /\ launched \subseteq launched'
      BY <2>1, <2>2, SlotCalled
    <2>4. wmShots' \in 0 .. 2 /\ WMBounded'
      BY <2>1 DEF TypeInv, TypeOK, WMBounded
    <2> QED BY <2>1, <2>3, <2>4, RestUntouched DEF TypeInv, TypeOK
  <1>3. CASE WMProcessChange
    <2>1. UNCHANGED <<state, suspendVars, kcmVars, sessionGroup, appVars, registered>>
      BY <1>3 DEF WMProcessChange
    <2>2. /\ wm' \in {InitialWM, "kwin"}
          /\ wmRunning' \in BOOLEAN
          /\ wmShots' \in 0 .. 2
          /\ WMBounded'
      <3>1. /\ wmShots \in 0 .. 2
            /\ wm # "kwin" => wmShots <= 1
            /\ wm \in {InitialWM, "kwin"}
            /\ wmRunning \in BOOLEAN
        BY DEF TypeInv, TypeOK, WMBounded
      <3>2. CASE state = "LaunchingWM" /\ wm # "kwin"
        <4>1. wm' = "kwin" /\ wmRunning' = wmRunning
          BY <1>3, <3>2 DEF WMProcessChange
        <4>2. wmShots' = wmShots + 1 /\ wmShots <= 1
          BY <1>3, <3>1, <3>2 DEF WMProcessChange
        <4>3. wmShots' \in 0 .. 2
          BY <3>1, <4>2
        <4> QED BY <3>1, <4>1, <4>3 DEF WMBounded
      <3>3. CASE ~(state = "LaunchingWM" /\ wm # "kwin")
        BY <1>3, <3>1, <3>3 DEF WMProcessChange, WMBounded
      <3> QED BY <3>2, <3>3
    <2> QED BY <2>1, <2>2 DEF TypeInv, TypeOK, RestoringFromSaved, suspendVars,
                              kcmVars, appVars
  <1> QED BY <1>1, <1>2, <1>3

LEMMA SignalTypes ==
  ASSUME TypeInv, Signal
  PROVE  TypeInv'
  <1>1. CASE AutoStart0Signalled \/ AutoStart1Signalled
    <2>1. /\ wm' = wm /\ wmRunning' = wmRunning /\ wmShots' = wmShots
          /\ UNCHANGED <<startupSuspendCount, registered>>
          /\ sessionGroup' = sessionGroup
      BY <1>1 DEF AutoStart0Signalled, AutoStart1Signalled, wmVars
    <2>2. Slot(startupSuspendCount, startupSuspendTimeoutTimer)
      BY <1>1 DEF AutoStart0Signalled, AutoStart1Signalled, Slot
    <2>3. /\ PhaseType' /\ AppsType' /\ RestoringFromSaved'
          /\ launched \subseteq launched'
      BY <2>1, <2>2, SlotCalled
    <2>4. wmShots' \in 0 .. 2 /\ WMBounded'
      BY <2>1 DEF TypeInv, TypeOK, WMBounded
    <2> QED BY <2>1, <2>3, <2>4, RestUntouched DEF TypeInv, TypeOK
  <1>2. CASE KcmPhase1Signalled
    BY <1>2 DEF KcmPhase1Signalled, KcmPhase1Done, TypeInv, TypeOK, States,
                WMBounded, RestoringFromSaved, wmVars, suspendVars, appVars
  <1>3. CASE AutoStart2Signalled
    BY <1>3 DEF AutoStart2Signalled, FinishStartup, TypeInv, TypeOK, States,
                WMBounded, RestoringFromSaved, wmVars, suspendVars, appVars
  <1>4. CASE KcmPhase2Signalled
    BY <1>4 DEF KcmPhase2Signalled, KcmPhase2Done, FinishStartup, TypeInv, TypeOK,
                States, WMBounded, RestoringFromSaved, wmVars, suspendVars, appVars
  <1> QED BY <1>1, <1>2, <1>3, <1>4 DEF Signal

LEMMA KcmTimeoutTypes ==
  ASSUME TypeInv, KcmPhase1Timeout \/ KcmPhase2Timeout
  PROVE  TypeInv'
  <1>1. /\ UNCHANGED <<wmVars, suspendVars, sessionGroup, appVars, registered>>
        /\ state' = state \/ state' \in {"AutoStart1", "Idle"}
        /\ state' # state => state \in {"KcmInitPhase1", "FinishingStartup"}
    BY DEF KcmPhase1Timeout, KcmPhase1Done, KcmPhase2Timeout, KcmPhase2Done,
           FinishStartup
  <1>2. /\ kcmShots' \subseteq kcmShots
        /\ kcminitSignals' \in BOOLEAN
        /\ waitAutoStart2' \in BOOLEAN
        /\ waitKcmInit2' \in BOOLEAN
    BY DEF KcmPhase1Timeout, KcmPhase1Done, KcmPhase2Timeout, KcmPhase2Done,
           FinishStartup, TypeInv, TypeOK
  <1>3. TypeOK'
    BY <1>1, <1>2 DEF TypeInv, TypeOK, States, wmVars, suspendVars, appVars
  <1>4. WMBounded' /\ RestoringFromSaved'
    BY <1>1 DEF TypeInv, WMBounded, RestoringFromSaved, wmVars, suspendVars, appVars
  <1> QED BY <1>3, <1>4 DEF TypeInv

LEMMA ResumeInternalTypes ==
  ASSUME TypeInv, startupSuspendTimeoutTimer, ResumeStartupInternal
  PROVE  TypeInv'
  <1>1. /\ wm' = wm /\ wmRunning' = wmRunning /\ wmShots' = wmShots
        /\ registered' = registered
        /\ sessionGroup' = sessionGroup
        /\ startupSuspendCount' = NobodySuspends
    BY DEF ResumeStartupInternal, wmVars
  <1>2. ~restoreTimer
    BY DEF TypeInv, RestoringFromSaved
  <1>3. Slot(NobodySuspends, FALSE)
    BY <1>2 DEF ResumeStartupInternal, Slot
  <1>4. /\ PhaseType' /\ AppsType' /\ RestoringFromSaved'
        /\ launched \subseteq launched'
    BY <1>1, <1>3, SlotCalled
  <1>5. wmShots' \in 0 .. 2 /\ WMBounded'
    BY <1>1 DEF TypeInv, TypeOK, WMBounded
  <1>6. startupSuspendCount' \in [App -> 0 .. MaxSuspend]
    <2>1. 0 \in 0 .. MaxSuspend
      BY ConstantsAssumption
    <2> QED BY <1>1, <2>1 DEF NobodySuspends
  <1> QED BY <1>1, <1>4, <1>5, <1>6, RestUntouched DEF TypeInv, TypeOK

LEMMA SuspensionTypes ==
  ASSUME TypeInv,
         \/ StartupSuspendTimeout
         \/ \E a \in App : SuspendStartup(a) \/ ResumeStartup(a)
  PROVE  TypeInv'
  <1>1. CASE StartupSuspendTimeout
    BY <1>1, ResumeInternalTypes DEF StartupSuspendTimeout
  <1>2. ASSUME NEW a \in App, SuspendStartup(a)
        PROVE  TypeInv'
    <2>1. startupSuspendCount' \in [App -> 0 .. MaxSuspend]
      <3>1. MaxSuspend \in Nat /\ startupSuspendCount \in [App -> 0 .. MaxSuspend]
        BY ConstantsAssumption DEF TypeInv, TypeOK
      <3>2. /\ startupSuspendCount[a] < MaxSuspend
            /\ startupSuspendCount' = [startupSuspendCount EXCEPT ![a] = @ + 1]
        BY <1>2 DEF SuspendStartup
      <3> QED BY <3>1, <3>2
    <2>2. UNCHANGED <<state, wmVars, startupSuspendTimeoutTimer, phaseOver, kcmVars,
                      sessionGroup, appVars, registered>>
      BY <1>2 DEF SuspendStartup
    <2> QED BY <2>1, <2>2 DEF TypeInv, TypeOK, WMBounded, RestoringFromSaved,
                              wmVars, kcmVars, appVars
  <1>3. ASSUME NEW a \in App, ResumeStartup(a)
        PROVE  TypeInv'
    <2> DEFINE count == [startupSuspendCount EXCEPT ![a] = @ - 1]
    <2>1. CASE count = NobodySuspends /\ startupSuspendTimeoutTimer
      BY <1>3, <2>1, ResumeInternalTypes DEF ResumeStartup
    <2>2. CASE ~(count = NobodySuspends /\ startupSuspendTimeoutTimer)
      <3>1. startupSuspendCount' \in [App -> 0 .. MaxSuspend]
        <4>1. MaxSuspend \in Nat /\ startupSuspendCount \in [App -> 0 .. MaxSuspend]
          BY ConstantsAssumption DEF TypeInv, TypeOK
        <4>2. startupSuspendCount[a] > 0 /\ startupSuspendCount' = count
          BY <1>3, <2>2 DEF ResumeStartup
        <4> QED BY <4>1, <4>2
      <3>2. UNCHANGED <<state, wmVars, startupSuspendTimeoutTimer, phaseOver,
                        kcmVars, sessionGroup, appVars, registered>>
        BY <1>3, <2>2 DEF ResumeStartup
      <3> QED BY <3>1, <3>2 DEF TypeInv, TypeOK, WMBounded, RestoringFromSaved,
                                wmVars, kcmVars, appVars
    <2> QED BY <2>1, <2>2
  <1> QED BY <1>1, <1>2, <1>3

LEMMA RestoringTypes ==
  ASSUME TypeInv,
         \/ RestoreTimeout
         \/ RestoreSubSession
         \/ \E id \in Id : ClientRegistered(id) \/ ClientGone(id)
  PROVE  TypeInv'
  <1>1. /\ wm' = wm /\ wmRunning' = wmRunning /\ wmShots' = wmShots
        /\ startupSuspendCount' = startupSuspendCount
    BY DEF RestoreTimeout, RestoreSubSession, ClientRegistered, ClientGone, wmVars,
           suspendVars
  <1>2. wmShots' \in 0 .. 2 /\ WMBounded'
    BY <1>1 DEF TypeInv, TypeOK, WMBounded
  <1>3. startupSuspendCount' \in [App -> 0 .. MaxSuspend]
    BY <1>1 DEF TypeInv, TypeOK
  <1>4. CASE RestoreTimeout
    <2>1. /\ registered' = registered /\ sessionGroup' = sessionGroup
          /\ TryRestoreNext(state, lastAppStarted, appsToStart, startupSuspendCount)
      BY <1>4 DEF RestoreTimeout
    <2>2. sessionGroup # "" /\ state \in {"Restoring", "RestoringSubSession"}
      BY <1>4 DEF RestoreTimeout, TypeInv, RestoringFromSaved
    <2>3. /\ PhaseType' /\ AppsType' /\ RestoringFromSaved'
          /\ launched \subseteq launched'
      BY <2>1, <2>2, RestoreCalled
    <2> QED BY <1>1, <1>2, <1>3, <2>1, <2>3, RestUntouched DEF TypeInv, TypeOK
  <1>5. CASE RestoreSubSession
    <2>1. registered' = registered /\ sessionGroup' = "SubSession"
      BY <1>5 DEF RestoreSubSession
    <2>2. Len(Saved["SubSession"]) \in Nat
      BY SavedType
    <2>3. PICK st \in {"RestoringSubSession"}, from \in {0}, upto \in Nat :
            upto = Len(Saved["SubSession"])
      BY <2>2
    <2> PICK count : count = startupSuspendCount
      OBVIOUS
    <2>4. TryRestoreNext(st, from, upto, count)
      BY <1>5, <2>3 DEF RestoreSubSession, TryRestoreNext, ToStart
    <2>5. /\ sessionGroup' \in {"Session", "SubSession"}
          /\ upto <= Len(Saved[sessionGroup'])
      BY <2>1, <2>3
    <2>6. TypeOK
      BY DEF TypeInv
    <2>7. /\ PhaseType' /\ AppsType' /\ RestoringFromSaved'
          /\ launched \subseteq launched'
      BY ONLY <2>3, <2>4, <2>5, <2>6, RestoreType
    <2> QED BY <1>1, <1>2, <1>3, <2>1, <2>6, <2>7, RestUntouched DEF TypeOK
  <1>6. ASSUME NEW id \in Id, ClientRegistered(id)
        PROVE  TypeInv'
    <2>1. /\ registered' = registered \cup {id} /\ id \in launched
          /\ sessionGroup' = sessionGroup
      BY <1>6 DEF ClientRegistered
    <2>2. /\ PhaseType' /\ AppsType' /\ RestoringFromSaved'
          /\ launched \subseteq launched'
      <3>1. CASE id = lastIdStarted /\ state \in {"Restoring", "RestoringSubSession"}
        <4>1. sessionGroup # ""
          BY <3>1, ConstantsAssumption DEF TypeInv, RestoringFromSaved
        <4>2. TryRestoreNext(state, lastAppStarted, appsToStart, startupSuspendCount)
          BY <1>6, <3>1 DEF ClientRegistered
        <4> QED BY <2>1, <3>1, <4>1, <4>2, RestoreCalled
      <3>2. CASE ~(id = lastIdStarted /\ state \in {"Restoring", "RestoringSubSession"})
        <4>1. UNCHANGED <<state, startupSuspendTimeoutTimer, phaseOver, kcmVars,
                          appVars>>
          BY <1>6, <3>2 DEF ClientRegistered
        <4> QED BY <2>1, <4>1 DEF TypeInv, TypeOK, PhaseType, AppsType,
                                  RestoringFromSaved, kcmVars, appVars
      <3> QED BY <3>1, <3>2
    <2> QED BY <1>1, <1>2, <1>3, <2>1, <2>2, RestUntouched DEF TypeInv, TypeOK
  <1>7. ASSUME NEW id \in Id, ClientGone(id)
        PROVE  TypeInv'
    <2>1. UNCHANGED <<state, wmVars, suspendVars, kcmVars, sessionGroup, appVars>>
      BY <1>7 DEF ClientGone
    <2>2. registered' \subseteq registered
      BY <1>7 DEF ClientGone
    <2> QED BY <2>1, <2>2 DEF TypeInv, TypeOK, WMBounded, RestoringFromSaved, wmVars,
                              suspendVars, kcmVars, appVars
  <1> QED BY <1>4, <1>5, <1>6, <1>7

LEMMA TypeStep == TypeInv /\ [Next]_vars => TypeInv'
  <1> SUFFICES ASSUME TypeInv, [Next]_vars PROVE TypeInv'
    OBVIOUS
  <1>1. CASE WMIdentified \/ WMProcessChange \/ WMTimeout
    BY <1>1, WMTypes
  <1>2. CASE Signal
    BY <1>2, SignalTypes
  <1>3. CASE KcmPhase1Timeout \/ KcmPhase2Timeout
    BY <1>3, KcmTimeoutTypes
  <1>4. CASE StartupSuspendTimeout \/ \E a \in App : SuspendStartup(a) \/ ResumeStartup(a)
    BY <1>4, SuspensionTypes
  <1>5. CASE \/ RestoreTimeout
             \/ RestoreSubSession
             \/ \E id \in Id : ClientRegistered(id) \/ ClientGone(id)
    BY <1>5, RestoringTypes
  <1>6. CASE UNCHANGED vars
    BY <1>6 DEF vars, wmVars, suspendVars, kcmVars, appVars, TypeInv, TypeOK, WMBounded,
                RestoringFromSaved
  <1> QED BY <1>1, <1>2, <1>3, <1>4, <1>5, <1>6 DEF Next, Timer

LEMMA TypeAlways == Spec => []TypeInv
  BY TypeInit, TypeStep, PTL DEF Spec

(* Whatever the saved sessions hold and whoever suspends the startup, the     *)
(* state of the startup (startup.cpp) stays within its types; no more than   *)
(* two of launchWM's timers run at a time.                                   *)
THEOREM StartupTypeCorrect == Spec => []TypeOK
  BY TypeAlways, PTL DEF TypeInv

------------------------------------------------------------------------------
(* Something ends every phase. *)

LEMMA AutoStart2Driven ==
  ASSUME NEW count, NEW timer \in BOOLEAN, AutoStart2(count, timer),
         startupSuspendCount' = count,
         count = NobodySuspends => timer = FALSE
  PROVE  Driven'
  <1>1. CASE HeldUp(count)
    BY <1>1 DEF AutoStart2, HeldUp, Free, Driven, StartupDriven, TimerMeansHeldUp,
                KcmTimed
  <1>2. CASE Free(count, timer)
    <2>1. /\ state' = "FinishingStartup" /\ waitAutoStart2'
          /\ startupSuspendTimeoutTimer' = FALSE
          /\ kcmShots' \cap {"phase2Now", "phase2Timeout"} # {}
      BY <1>2 DEF AutoStart2, HeldUp, Free
    <2> QED BY <2>1 DEF Driven, StartupDriven, TimerMeansHeldUp, KcmTimed
  <1> QED BY <1>1, <1>2 DEF AutoStart2

LEMMA RestoreDriven ==
  ASSUME NEW st \in {"Restoring", "RestoringSubSession"}, NEW from, NEW upto,
         NEW count, TryRestoreNext(st, from, upto, count),
         startupSuspendCount' = count
  PROVE  Driven'
  <1>1. CASE state' = st /\ restoreTimer' = TRUE /\ startupSuspendTimeoutTimer' = FALSE
    BY <1>1 DEF Driven, StartupDriven, TimerMeansHeldUp, KcmTimed
  <1>2. CASE AutoStart2(count, FALSE)
    <2>1. PICK timer \in BOOLEAN : timer = FALSE
      OBVIOUS
    <2>2. AutoStart2(count, timer)
      BY <1>2, <2>1, Zenon
    <2> QED BY <2>1, <2>2, AutoStart2Driven
  <1>3. CASE state' = "Idle" /\ startupSuspendTimeoutTimer' = FALSE
    BY <1>3 DEF Driven, StartupDriven, TimerMeansHeldUp, KcmTimed
  <1> QED BY <1>1, <1>2, <1>3 DEF TryRestoreNext

LEMMA SlotDriven ==
  ASSUME NEW count, NEW timer \in BOOLEAN, Slot(count, timer),
         startupSuspendCount' = count,
         count = NobodySuspends => timer = FALSE
  PROVE  Driven'
  <1>1. CASE state = "LaunchingWM" /\ AutoStart0(count, timer)
    BY <1>1 DEF AutoStart0, HeldUp, Free, Driven, StartupDriven, TimerMeansHeldUp,
                KcmTimed
  <1>2. CASE state = "AutoStart0" /\ AutoStart0Done(count, timer)
    <2>1. CASE HeldUp(count) /\ state' = state
      BY <1>2, <2>1 DEF HeldUp, Driven, StartupDriven, TimerMeansHeldUp, KcmTimed
    <2>2. CASE Free(count, timer) /\ state' = "KcmInitPhase1" /\ RunPhase1
      <3>1. kcmShots' \cap {"phase1Now", "phase1Timeout"} # {}
        BY <2>2 DEF RunPhase1
      <3> QED BY <2>2, <3>1
              DEF Free, Driven, StartupDriven, TimerMeansHeldUp, KcmTimed
    <2> QED BY <1>2, <2>1, <2>2 DEF AutoStart0Done
  <1>3. CASE state = "AutoStart1" /\ AutoStart1Done(count, timer)
    <2>1. CASE HeldUp(count) /\ state' = state
      BY <1>3, <2>1 DEF HeldUp, Driven, StartupDriven, TimerMeansHeldUp, KcmTimed
    <2>2. CASE TryRestoreNext("Restoring", 0, appsToStart, count)
      <3>1. PICK upto : upto = appsToStart
        OBVIOUS
      <3>2. PICK st \in {"Restoring"}, from \in {0} :
              TryRestoreNext(st, from, upto, count)
        BY <2>2, <3>1 DEF TryRestoreNext, ToStart
      <3> QED BY <3>2, RestoreDriven
    <2>3. CASE AutoStart2(count, timer)
      BY <2>3, AutoStart2Driven
    <2> QED BY <1>3, <2>1, <2>2, <2>3 DEF AutoStart1Done
  <1>4. CASE AutoStart2(count, timer)
    BY <1>4, AutoStart2Driven
  <1> QED BY <1>1, <1>2, <1>3, <1>4 DEF Slot

LEMMA SlotCalledDriven ==
  ASSUME TypeInv, Driven, startupSuspendCount' = startupSuspendCount,
         Slot(startupSuspendCount, startupSuspendTimeoutTimer)
  PROVE  Driven'
  <1>1. PICK count : count = startupSuspendCount
    OBVIOUS
  <1>2. PICK timer \in BOOLEAN : timer = startupSuspendTimeoutTimer
    BY DEF TypeInv, TypeOK
  <1>3. \/ state = "LaunchingWM" /\ AutoStart0(count, timer)
        \/ state = "AutoStart0" /\ AutoStart0Done(count, timer)
        \/ state = "AutoStart1" /\ AutoStart1Done(count, timer)
        \/ /\ state = "Restoring"
           /\ ~restoreTimer
           /\ AutoStart2(count, timer)
           /\ UNCHANGED appVars
    BY <1>1, <1>2 DEF Slot
  <1>4. Slot(count, timer)
    BY <1>3 DEF Slot
  <1>5. count = NobodySuspends => timer = FALSE
    BY <1>1, <1>2 DEF Driven, TimerMeansHeldUp
  <1>6. startupSuspendCount' = count
    BY <1>1
  <1> QED BY ONLY <1>2, <1>4, <1>5, <1>6, SlotDriven

LEMMA RestoreCalledDriven ==
  ASSUME startupSuspendCount' = startupSuspendCount,
         state \in {"Restoring", "RestoringSubSession"},
         TryRestoreNext(state, lastAppStarted, appsToStart, startupSuspendCount)
  PROVE  Driven'
  <1>1. PICK st \in {"Restoring", "RestoringSubSession"} : st = state
    OBVIOUS
  <1>2. PICK from : from = lastAppStarted
    OBVIOUS
  <1>3. PICK upto : upto = appsToStart
    OBVIOUS
  <1>4. PICK count : count = startupSuspendCount
    OBVIOUS
  <1>5. TryRestoreNext(st, from, upto, count)
    BY <1>1, <1>2, <1>3, <1>4 DEF TryRestoreNext, ToStart, AutoStart2, HeldUp, Free
  <1>6. startupSuspendCount' = count
    BY <1>4
  <1> QED BY ONLY <1>1, <1>5, <1>6, RestoreDriven

LEMMA ResumeInternalDriven ==
  ASSUME TypeInv, startupSuspendTimeoutTimer, ResumeStartupInternal
  PROVE  Driven'
  <1>1. ~restoreTimer
    BY DEF TypeInv, RestoringFromSaved
  <1>2. Slot(NobodySuspends, FALSE) /\ startupSuspendCount' = NobodySuspends
    BY <1>1 DEF ResumeStartupInternal, Slot
  <1>3. PICK timer \in BOOLEAN : timer = FALSE
    OBVIOUS
  <1>4. Slot(NobodySuspends, timer)
    BY <1>2, <1>3, Zenon
  <1> QED BY <1>2, <1>3, <1>4, SlotDriven

LEMMA WMDriven ==
  ASSUME TypeInv, Driven, WMTimeout \/ WMIdentified \/ WMProcessChange
  PROVE  Driven'
  <1>1. CASE (WMTimeout /\ state = "LaunchingWM") \/ WMIdentified
    <2>1. startupSuspendCount' = startupSuspendCount
      BY <1>1 DEF WMTimeout, WMIdentified
    <2>2. Slot(startupSuspendCount, startupSuspendTimeoutTimer)
      BY <1>1 DEF WMTimeout, WMIdentified, Slot
    <2> QED BY <2>1, <2>2, SlotCalledDriven
  <1>2. CASE WMTimeout /\ state # "LaunchingWM"
    BY <1>2 DEF WMTimeout, Driven, StartupDriven, TimerMeansHeldUp, KcmTimed,
                kcmVars, appVars
  <1>3. CASE WMProcessChange
    <2>1. UNCHANGED <<state, suspendVars, kcmVars, appVars>>
      BY <1>3 DEF WMProcessChange
    <2>2. wmShots > 0 => wmShots' > 0
      <3>1. wmShots \in 0 .. 2
        BY DEF TypeInv, TypeOK
      <3>2. wmShots' = wmShots \/ wmShots' = wmShots + 1
        BY <1>3 DEF WMProcessChange
      <3> QED BY <3>1, <3>2
    <2> QED BY <2>1, <2>2 DEF Driven, StartupDriven, TimerMeansHeldUp, KcmTimed,
                              suspendVars, kcmVars, appVars
  <1> QED BY <1>1, <1>2, <1>3

LEMMA SignalDriven ==
  ASSUME TypeInv, Driven, Signal
  PROVE  Driven'
  <1>1. CASE AutoStart0Signalled \/ AutoStart1Signalled
    <2>1. startupSuspendCount' = startupSuspendCount
      BY <1>1 DEF AutoStart0Signalled, AutoStart1Signalled
    <2>2. Slot(startupSuspendCount, startupSuspendTimeoutTimer)
      BY <1>1 DEF AutoStart0Signalled, AutoStart1Signalled, Slot
    <2> QED BY <2>1, <2>2, SlotCalledDriven
  <1>2. CASE KcmPhase1Signalled
    BY <1>2 DEF KcmPhase1Signalled, KcmPhase1Done, Driven, StartupDriven,
                TimerMeansHeldUp, KcmTimed, suspendVars
  <1>3. CASE AutoStart2Signalled
    BY <1>3 DEF AutoStart2Signalled, FinishStartup, Driven, StartupDriven,
                TimerMeansHeldUp, KcmTimed, suspendVars
  <1>4. CASE KcmPhase2Signalled
    BY <1>4 DEF KcmPhase2Signalled, KcmPhase2Done, FinishStartup, Driven,
                StartupDriven, TimerMeansHeldUp, KcmTimed, suspendVars
  <1> QED BY <1>1, <1>2, <1>3, <1>4 DEF Signal

LEMMA KcmTimeoutDriven ==
  ASSUME Driven, KcmPhase1Timeout \/ KcmPhase2Timeout
  PROVE  Driven'
  <1>1. CASE KcmPhase1Timeout
    <2>1. kcmShots' \cap {"phase2Now", "phase2Timeout"}
            = kcmShots \cap {"phase2Now", "phase2Timeout"}
      BY <1>1 DEF KcmPhase1Timeout, KcmPhase1Done
    <2>2. /\ state' = IF state = "KcmInitPhase1" THEN "AutoStart1" ELSE state
          /\ UNCHANGED <<wmVars, suspendVars, kcminitSignals, waitAutoStart2,
                         waitKcmInit2, appVars>>
      BY <1>1 DEF KcmPhase1Timeout, KcmPhase1Done
    <2> QED BY <2>1, <2>2 DEF Driven, StartupDriven, TimerMeansHeldUp, KcmTimed,
                              wmVars, suspendVars, appVars
  <1>2. CASE KcmPhase2Timeout
    <2>1. kcmShots' \cap {"phase1Now", "phase1Timeout"}
            = kcmShots \cap {"phase1Now", "phase1Timeout"}
      BY <1>2 DEF KcmPhase2Timeout, KcmPhase2Done
    <2>2. UNCHANGED <<wmVars, suspendVars, appVars>>
      BY <1>2 DEF KcmPhase2Timeout, KcmPhase2Done
    <2>3. \/ /\ state = "FinishingStartup" /\ waitKcmInit2
             /\ FinishStartup(waitAutoStart2, FALSE)
          \/ /\ ~(state = "FinishingStartup" /\ waitKcmInit2)
             /\ UNCHANGED <<state, waitAutoStart2, waitKcmInit2>>
      BY <1>2 DEF KcmPhase2Timeout, KcmPhase2Done
    <2> QED BY <2>1, <2>2, <2>3 DEF Driven, StartupDriven, TimerMeansHeldUp,
                    KcmTimed, FinishStartup, wmVars, suspendVars, appVars
  <1> QED BY <1>1, <1>2

LEMMA SuspensionDriven ==
  ASSUME TypeInv, Driven,
         \/ StartupSuspendTimeout
         \/ \E a \in App : SuspendStartup(a) \/ ResumeStartup(a)
  PROVE  Driven'
  <1>1. CASE StartupSuspendTimeout
    BY <1>1, ResumeInternalDriven DEF StartupSuspendTimeout
  <1>2. ASSUME NEW a \in App, SuspendStartup(a)
        PROVE  Driven'
    <2>1. startupSuspendCount' # NobodySuspends
      <3>1. MaxSuspend \in Nat /\ startupSuspendCount \in [App -> 0 .. MaxSuspend]
        BY ConstantsAssumption DEF TypeInv, TypeOK
      <3>2. startupSuspendCount' = [startupSuspendCount EXCEPT ![a] = @ + 1]
        BY <1>2 DEF SuspendStartup
      <3>3. startupSuspendCount'[a] # 0
        BY <3>1, <3>2
      <3> QED BY <3>3 DEF NobodySuspends
    <2>2. UNCHANGED <<state, wmVars, startupSuspendTimeoutTimer, phaseOver, kcmVars,
                      appVars>>
      BY <1>2 DEF SuspendStartup
    <2> QED BY <2>1, <2>2 DEF Driven, StartupDriven, TimerMeansHeldUp, KcmTimed,
                              wmVars, kcmVars, appVars
  <1>3. ASSUME NEW a \in App, ResumeStartup(a)
        PROVE  Driven'
    <2> DEFINE count == [startupSuspendCount EXCEPT ![a] = @ - 1]
    <2>1. CASE count = NobodySuspends /\ startupSuspendTimeoutTimer
      BY <1>3, <2>1, ResumeInternalDriven DEF ResumeStartup
    <2>2. CASE ~(count = NobodySuspends /\ startupSuspendTimeoutTimer)
      <3>1. startupSuspendTimeoutTimer => startupSuspendCount' # NobodySuspends
        BY <1>3, <2>2 DEF ResumeStartup
      <3>2. UNCHANGED <<state, wmVars, startupSuspendTimeoutTimer, phaseOver,
                        kcmVars, appVars>>
        BY <1>3, <2>2 DEF ResumeStartup
      <3> QED BY <3>1, <3>2 DEF Driven, StartupDriven, TimerMeansHeldUp, KcmTimed,
                                wmVars, kcmVars, appVars
    <2> QED BY <2>1, <2>2
  <1> QED BY <1>1, <1>2, <1>3

LEMMA RestoringDriven ==
  ASSUME TypeInv, Driven,
         \/ RestoreTimeout
         \/ RestoreSubSession
         \/ \E id \in Id : ClientRegistered(id) \/ ClientGone(id)
  PROVE  Driven'
  <1>1. startupSuspendCount' = startupSuspendCount
    BY DEF RestoreTimeout, RestoreSubSession, ClientRegistered, ClientGone, suspendVars
  <1>2. CASE RestoreTimeout
    <2>1. state \in {"Restoring", "RestoringSubSession"}
      BY <1>2 DEF RestoreTimeout, TypeInv, RestoringFromSaved
    <2>2. TryRestoreNext(state, lastAppStarted, appsToStart, startupSuspendCount)
      BY <1>2 DEF RestoreTimeout
    <2> QED BY <1>1, <2>1, <2>2, RestoreCalledDriven
  <1>3. CASE RestoreSubSession
    <2>1. PICK st \in {"RestoringSubSession"} : TRUE
      OBVIOUS
    <2>2. PICK from : from = 0
      OBVIOUS
    <2>3. PICK upto : upto = Len(Saved["SubSession"])
      OBVIOUS
    <2>4. PICK count : count = startupSuspendCount
      OBVIOUS
    <2>5. TryRestoreNext(st, from, upto, count)
      BY <1>3, <2>1, <2>2, <2>3, <2>4
      DEF RestoreSubSession, TryRestoreNext, ToStart, AutoStart2, HeldUp, Free
    <2>6. startupSuspendCount' = count
      BY <1>1, <2>4
    <2> QED BY ONLY <2>1, <2>5, <2>6, RestoreDriven
  <1>4. ASSUME NEW id \in Id, ClientRegistered(id)
        PROVE  Driven'
    <2>1. CASE id = lastIdStarted /\ state \in {"Restoring", "RestoringSubSession"}
      <3>1. TryRestoreNext(state, lastAppStarted, appsToStart, startupSuspendCount)
        BY <1>4, <2>1 DEF ClientRegistered
      <3> QED BY <1>1, <2>1, <3>1, RestoreCalledDriven
    <2>2. CASE ~(id = lastIdStarted /\ state \in {"Restoring", "RestoringSubSession"})
      <3>1. UNCHANGED <<state, startupSuspendTimeoutTimer, phaseOver, wmVars, kcmVars,
                        appVars>>
        BY <1>4, <2>2 DEF ClientRegistered
      <3> QED BY <1>1, <3>1 DEF Driven, StartupDriven, TimerMeansHeldUp, KcmTimed,
                                wmVars, kcmVars, appVars
    <2> QED BY <2>1, <2>2
  <1>5. ASSUME NEW id \in Id, ClientGone(id)
        PROVE  Driven'
    BY <1>5 DEF ClientGone, Driven, StartupDriven, TimerMeansHeldUp, KcmTimed, wmVars,
                suspendVars, kcmVars, appVars
  <1> QED BY <1>2, <1>3, <1>4, <1>5

LEMMA DrivenInit == Init => Driven
  <1> SUFFICES ASSUME Init PROVE Driven
    OBVIOUS
  <1>1. state = "LaunchingWM" /\ startupSuspendTimeoutTimer = FALSE /\ wmShots = 1
    BY DEF Init
  <1>2. wmShots > 0
    BY <1>1
  <1> QED BY <1>1, <1>2 DEF Driven, StartupDriven, TimerMeansHeldUp, KcmTimed

LEMMA DrivenStep == TypeInv /\ Driven /\ [Next]_vars => Driven'
  <1> SUFFICES ASSUME TypeInv, Driven, [Next]_vars PROVE Driven'
    OBVIOUS
  <1>1. CASE WMIdentified \/ WMProcessChange \/ WMTimeout
    BY <1>1, WMDriven
  <1>2. CASE Signal
    BY <1>2, SignalDriven
  <1>3. CASE KcmPhase1Timeout \/ KcmPhase2Timeout
    BY <1>3, KcmTimeoutDriven
  <1>4. CASE StartupSuspendTimeout \/ \E a \in App : SuspendStartup(a) \/ ResumeStartup(a)
    BY <1>4, SuspensionDriven
  <1>5. CASE \/ RestoreTimeout
             \/ RestoreSubSession
             \/ \E id \in Id : ClientRegistered(id) \/ ClientGone(id)
    BY <1>5, RestoringDriven
  <1>6. CASE UNCHANGED vars
    BY <1>6 DEF vars, wmVars, suspendVars, kcmVars, appVars, Driven, StartupDriven,
                TimerMeansHeldUp, KcmTimed
  <1> QED BY <1>1, <1>2, <1>3, <1>4, <1>5, <1>6 DEF Next, Timer

LEMMA DrivenAlways == Spec => []Driven
  <1>1. Spec => []TypeInv
    BY TypeAlways
  <1> QED BY <1>1, DrivenInit, DrivenStep, PTL DEF Spec

(* In every phase of the startup a timer runs or a signal of klauncher is     *)
(* still connected that will end it: kcminit, the window manager, suspending  *)
(* clients and restored applications cannot stop the session from coming up.  *)
THEOREM StartupIsDriven == Spec => []StartupDriven
  BY DrivenAlways, PTL DEF Driven

(* The timer of suspendStartup fires only for the phase that was held up, and *)
(* never when everybody who suspended the startup has resumed it.             *)
THEOREM SuspensionResumesItsPhase == Spec => []TimerMeansHeldUp
  BY DrivenAlways, PTL DEF Driven

------------------------------------------------------------------------------
(* The startup implements StartupSequence, as long as sub-sessions are      *)
(* restored only by a server that is idle.                                  *)

Early == {"LaunchingWM", "AutoStart0", "KcmInitPhase1", "AutoStart1"}

Entries == DOMAIN Saved["Session"]

Length == Len(Saved["Session"])

(* An entry with the client's id was started. *)
WasStarted(id) == \E j \in Entries : starts[j] > 0 /\ Saved["Session"][j].id = id

(* tryRestoreNext has come as far as lastAppStarted, and goes on; whoever   *)
(* was started out of the session was started as one of its entries.        *)
InSequence ==
  /\ state \in Early =>
       /\ launched = {}
       /\ lastAppStarted = 0
       /\ sessionGroup = "Session" => appsToStart = Length
  /\ sessionGroup = "SubSession" => state \in {"Idle", "RestoringSubSession"}
  /\ state = "RestoringSubSession" => sessionGroup = "SubSession"
  /\ sessionGroup = "Session" =>
       /\ \A id \in launched : WasStarted(id)
       /\ \/ lastAppStarted = Length
          \/ state \in Early
          \/ /\ state = "Restoring" /\ restoreTimer
             /\ lastAppStarted <= Length /\ appsToStart = Length

(* The step of the startup that StartupSequence knows of. *)
PhaseOf == IF state \in {"Idle", "RestoringSubSession"} THEN "Up" ELSE state

SeenOf == IF sessionGroup = "Session" THEN lastAppStarted ELSE Length

StartupStep == [Startup!Next]_(Startup!vars)

LEMMA SessionType ==
  /\ Length \in Nat
  /\ Entries = 1 .. Length
  /\ Length' = Length /\ Entries' = Entries
<1>1. Saved["Session"] \in Seq([id : Id, restart : BOOLEAN])
  BY SavedType
<1> QED
  BY <1>1 DEF Length, Entries

LEMMA SameStep ==
  ASSUME PhaseOf' = PhaseOf, SeenOf' = SeenOf, starts' = starts
  PROVE  StartupStep
BY DEF StartupStep, PhaseOf, SeenOf, Length, Startup!vars

LEMMA PhaseStep ==
  ASSUME SeenOf' = SeenOf, starts' = starts,
         \/ state = "LaunchingWM" /\ state' = "AutoStart0"
         \/ state = "AutoStart0" /\ state' = "KcmInitPhase1"
         \/ state = "KcmInitPhase1" /\ state' = "AutoStart1"
         \/ state = "FinishingStartup" /\ state' = "Idle"
  PROVE  StartupStep
BY DEF StartupStep, PhaseOf, SeenOf, Length, Startup!Next, Startup!NextPhase,
       Startup!Follows

LEMMA StartStep ==
  ASSUME state \in {"AutoStart1", "Restoring"}, state' = "Restoring",
         NEW next \in Entries, next > SeenOf, Saved["Session"][next].restart,
         \A i \in Entries : i > SeenOf /\ i < next /\ Saved["Session"][i].restart =>
           WasStarted(Saved["Session"][i].id),
         SeenOf' = next,
         starts' = [starts EXCEPT ![next] = @ + 1]
  PROVE  StartupStep
<1>1. next \in Startup!Left
  BY DEF Startup!Left, Entries, SeenOf, Length
<1>2. \A i \in Startup!Left : i < next => Startup!Back(i)
  BY DEF Startup!Left, Startup!Back, WasStarted, Entries, SeenOf, Length
<1>3. Startup!StartNext
  BY <1>1, <1>2 DEF Startup!StartNext, SeenOf, Length
<1> QED
  BY <1>3 DEF StartupStep, Startup!Next, Startup!Restore

LEMMA SeenStep ==
  ASSUME state \in {"AutoStart1", "Restoring"},
         state' \in {"Restoring", "FinishingStartup"},
         \A i \in Entries : i > SeenOf /\ Saved["Session"][i].restart =>
           WasStarted(Saved["Session"][i].id),
         SeenOf' = Length, starts' = starts
  PROVE  StartupStep
<1>1. \A i \in Startup!Left : Startup!Back(i)
  BY DEF Startup!Left, Startup!Back, WasStarted, Entries, SeenOf, Length
<1>2. Startup!AllSeen
  BY <1>1 DEF Startup!AllSeen, SeenOf, Length
<1> QED
  BY <1>2 DEF StartupStep, Startup!Next, Startup!Restore

LEMMA SequenceInit == Init => InSequence /\ Startup!Init
<1> SUFFICES ASSUME Init PROVE InSequence /\ Startup!Init
  OBVIOUS
<1>1. /\ state = "LaunchingWM" /\ launched = {} /\ sessionGroup \in {"Session", ""}
      /\ lastAppStarted = 0 /\ starts = [i \in DOMAIN Saved["Session"] |-> 0]
      /\ sessionGroup = "Session" => appsToStart = Len(Saved["Session"])
  BY DEF Init
<1>2. InSequence
  BY <1>1 DEF InSequence, Early, Length
<1>3. Startup!Init
  BY <1>1 DEF Startup!Init
<1> QED
  BY <1>2, <1>3

(* tryRestoreNext in the saved session.                                     *)
LEMMA RestoreNextSteps ==
  ASSUME TypeInv,
         NEW from \in Nat, NEW upto \in Nat, NEW count,
         TryRestoreNext("Restoring", from, upto, count),
         sessionGroup = "Session", sessionGroup' = "Session",
         registered' \subseteq launched, upto <= Length,
         from = lastAppStarted, state \in {"AutoStart1", "Restoring"},
         \A id \in launched : WasStarted(id),
         upto = Length \/ from = Length, from <= Length
  PROVE  InSequence' /\ StartupStep
<1> DEFINE saved == Saved["Session"]
<1>1. Length \in Nat /\ Entries = 1 .. Length
  BY SessionType
<1>2. /\ \A i \in ToStart(from, upto) :
           i \in from + 1 .. upto /\ saved[i].restart
      /\ \A i \in from + 1 .. upto :
           saved[i].restart /\ i \notin ToStart(from, upto) => WasStarted(saved[i].id)
  BY DEF ToStart
<1>3. SeenOf = from
  BY DEF SeenOf
<1>4. starts \in [Entries -> Nat]
  BY DEF TypeInv, TypeOK, Entries
<1> HIDE DEF saved
<1>5. CASE \E next \in ToStart(from, upto) :
             /\ \A i \in ToStart(from, upto) : next <= i
             /\ state' = "Restoring"
             /\ appsToStart' = upto
             /\ lastAppStarted' = next
             /\ lastIdStarted' = Saved[sessionGroup'][next].id
             /\ launched' = launched \cup {lastIdStarted'}
             /\ starts' = IF sessionGroup' = "Session"
                            THEN [starts EXCEPT ![next] = @ + 1] ELSE starts
             /\ restoreTimer' = TRUE
  <2>1. PICK next \in ToStart(from, upto) :
             /\ \A i \in ToStart(from, upto) : next <= i
             /\ state' = "Restoring"
             /\ appsToStart' = upto
             /\ lastAppStarted' = next
             /\ launched' = launched \cup {saved[next].id}
             /\ starts' = [starts EXCEPT ![next] = @ + 1]
             /\ restoreTimer' = TRUE
    BY <1>5 DEF saved
  <2>2. next \in Entries /\ next \in from + 1 .. upto /\ saved[next].restart
    BY <1>1, <1>2
  <2>3. SeenOf' = next
    BY <2>1 DEF SeenOf
  <2>4. \A i \in Entries : i > SeenOf /\ i < next /\ saved[i].restart =>
          WasStarted(saved[i].id)
    <3> SUFFICES ASSUME NEW i \in Entries, i > from, i < next, saved[i].restart
                 PROVE  WasStarted(saved[i].id)
      BY <1>3
    <3>1. i \in from + 1 .. upto /\ ~(next <= i)
      BY <1>1, <2>2
    <3> QED
      BY <1>2, <2>1, <3>1
  <2>5. StartupStep
    <3>1. next > SeenOf /\ next <= Length
      BY <1>1, <1>3, <2>2
    <3>2. state' = "Restoring" /\ starts' = [starts EXCEPT ![next] = @ + 1]
      BY <2>1
    <3> QED
      BY <2>2, <2>3, <2>4, <3>1, <3>2, StartStep DEF saved
  <2>6. \A id \in launched' : WasStarted(id)'
    <3> SUFFICES ASSUME NEW id \in launched'
                 PROVE  \E j \in Entries : starts'[j] > 0 /\ saved[j].id = id
      BY SessionType DEF WasStarted, saved
    <3>1. CASE id \in launched
      <4>1. PICK j \in Entries : starts[j] > 0 /\ saved[j].id = id
        BY <3>1 DEF WasStarted, saved
      <4>2. starts'[j] > 0
        BY <1>4, <2>1, <4>1
      <4> QED
        BY <4>1, <4>2
    <3>2. CASE id = saved[next].id
      <4>1. starts'[next] > 0
        BY <1>4, <2>1, <2>2
      <4> QED
        BY <2>2, <3>2, <4>1
    <3> QED
      BY <2>1, <3>1, <3>2
  <2>7. upto = Length
    BY <1>1, <2>2
  <2>8. InSequence'
    BY <1>1, <2>1, <2>2, <2>6, <2>7, SessionType DEF InSequence, Early
  <2> QED
    BY <2>5, <2>8
<1>6. CASE /\ ToStart(from, upto) = {}
           /\ lastAppStarted' = IF from < upto THEN upto ELSE from
           /\ UNCHANGED <<launched, starts>>
           /\ AutoStart2(count, FALSE)
  <2>2. \A i \in Entries : i > SeenOf /\ saved[i].restart => WasStarted(saved[i].id)
    <3> SUFFICES ASSUME NEW i \in Entries, i > from, saved[i].restart
                 PROVE  WasStarted(saved[i].id)
      BY <1>3
    <3>1. i \in from + 1 .. upto
      BY <1>1
    <3> QED
      BY <1>2, <1>6, <3>1
  <2>3. lastAppStarted' = Length
    BY <1>6, <1>1
  <2>4. SeenOf' = Length
    BY <2>3 DEF SeenOf
  <2>5. state' \in {"Restoring", "FinishingStartup"}
    BY <1>6 DEF AutoStart2
  <2>6. StartupStep
    BY <1>6, <2>2, <2>4, <2>5, SeenStep DEF saved
  <2>7. \A id \in launched' : WasStarted(id)'
    BY <1>6, SessionType DEF WasStarted
  <2>8. InSequence'
    BY <2>3, <2>5, <2>7, SessionType DEF InSequence, Early
  <2> QED
    BY <2>6, <2>8
<1> QED
  BY <1>5, <1>6 DEF TryRestoreNext

(* A sub-session is restored when the startup is over.                     *)
LEMMA RestoreSubSteps ==
  ASSUME InSequence, NEW from, NEW upto, NEW count,
         TryRestoreNext("RestoringSubSession", from, upto, count),
         sessionGroup' = "SubSession", state \in {"Idle", "RestoringSubSession"},
         state = "RestoringSubSession" => sessionGroup = "SubSession"
  PROVE  InSequence' /\ StartupStep
<1>1. state' \in {"Idle", "RestoringSubSession"}
  BY DEF TryRestoreNext
<1>2. SeenOf' = SeenOf /\ PhaseOf' = PhaseOf
  BY <1>1, SessionType DEF SeenOf, PhaseOf, InSequence, Early
<1>3. starts' = starts
  BY DEF TryRestoreNext
<1>4. StartupStep
  BY <1>2, <1>3, SameStep
<1>5. InSequence'
  BY <1>1 DEF InSequence, Early
<1> QED
  BY <1>4, <1>5

(* What leaves the startup where it is. *)
LEMMA QuietSteps ==
  ASSUME InSequence, UNCHANGED <<state, sessionGroup, appVars>>
  PROVE  InSequence' /\ StartupStep
<1>1. SeenOf' = SeenOf /\ PhaseOf' = PhaseOf /\ starts' = starts
  BY SessionType DEF SeenOf, PhaseOf, appVars
<1>2. InSequence'
  BY SessionType DEF InSequence, WasStarted, Early, appVars
<1> QED
  BY <1>1, <1>2, SameStep

LEMMA SlotSteps ==
  ASSUME TypeInv, InSequence, NEW count, NEW timer \in BOOLEAN, Slot(count, timer),
         UNCHANGED <<sessionGroup, registered>>
  PROVE  InSequence' /\ StartupStep
<1>1. CASE \/ state = "LaunchingWM" /\ AutoStart0(count, timer)
           \/ state = "AutoStart0" /\ AutoStart0Done(count, timer)
  <2>1. /\ state' \in {state, IF state = "LaunchingWM" THEN "AutoStart0"
                              ELSE "KcmInitPhase1"}
        /\ UNCHANGED appVars
    BY <1>1 DEF AutoStart0, AutoStart0Done
  <2>2. SeenOf' = SeenOf /\ starts' = starts
    BY <2>1, SessionType DEF SeenOf, appVars
  <2>3. InSequence'
    <3>1. state \in Early /\ state' \in Early
      BY <1>1, <2>1 DEF Early
    <3> QED
      BY <2>1, <3>1, SessionType DEF InSequence, WasStarted, Early, appVars
  <2>4. StartupStep
    <3>1. CASE state' = state
      BY <2>2, <3>1, SameStep DEF PhaseOf
    <3>2. CASE state' # state
      BY <1>1, <2>1, <2>2, <3>2, PhaseStep
    <3> QED
      BY <3>1, <3>2
  <2> QED
    BY <2>3, <2>4
<1>2. CASE state = "AutoStart1" /\ AutoStart1Done(count, timer)
  <2>1. /\ launched = {} /\ lastAppStarted = 0
        /\ sessionGroup = "Session" => appsToStart = Length
        /\ sessionGroup \in {"Session", ""} /\ registered \subseteq launched
        /\ appsToStart \in Nat
    BY <1>2 DEF InSequence, Early, TypeInv, TypeOK
  <2>2. CASE UNCHANGED <<state, kcmVars, appVars>>
    BY <2>2, QuietSteps
  <2>3. CASE /\ count = NobodySuspends /\ sessionGroup # ""
             /\ TryRestoreNext("Restoring", 0, appsToStart, count)
    <3>1. PICK upto \in Nat, from \in Nat : upto = appsToStart /\ from = 0
      BY <2>1
    <3>2. TryRestoreNext("Restoring", from, upto, count)
      BY <2>3, <3>1 DEF TryRestoreNext, ToStart
    <3>3. /\ sessionGroup = "Session" /\ sessionGroup' = "Session"
          /\ registered' \subseteq launched /\ from = lastAppStarted
      BY <2>1, <2>3, <3>1
    <3>5. upto = Length /\ upto <= Length /\ from <= Length
      BY <2>1, <3>1, <3>3, SessionType
    <3>4. \A id \in launched : WasStarted(id)
      BY <2>1
    <3> QED
      BY <1>2, <3>2, <3>3, <3>4, <3>5, RestoreNextSteps
  <2>4. CASE /\ sessionGroup = "" /\ count = NobodySuspends
             /\ AutoStart2(count, timer) /\ UNCHANGED <<launched, starts>>
    <3>1. state' \in {"Restoring", "FinishingStartup"}
      BY <2>4 DEF AutoStart2
    <3>2. SeenOf = Length /\ SeenOf' = Length
      BY <2>4, SessionType DEF SeenOf
    <3>3. \A i \in Entries : ~(i > SeenOf)
      BY <3>2, SessionType
    <3>4. StartupStep
      BY <1>2, <2>4, <3>1, <3>2, <3>3, SeenStep
    <3>5. InSequence'
      BY <2>4, <3>1 DEF InSequence, Early
    <3> QED
      BY <3>4, <3>5
  <2> QED
    BY <1>2, <2>2, <2>3, <2>4 DEF AutoStart1Done
<1>3. CASE /\ state = "Restoring" /\ ~restoreTimer
           /\ AutoStart2(count, timer) /\ UNCHANGED appVars
  <2>1. state' \in {"Restoring", "FinishingStartup"}
    BY <1>3 DEF AutoStart2
  <2>2. sessionGroup \in {"Session", ""}
        /\ (sessionGroup = "Session" => lastAppStarted = Length)
    BY <1>3 DEF InSequence, Early, TypeInv, TypeOK
  <2>3. SeenOf = Length /\ SeenOf' = Length /\ starts' = starts
    BY <1>3, <2>2, SessionType DEF SeenOf, appVars
  <2>4. \A i \in Entries : ~(i > SeenOf)
    BY <2>3, SessionType
  <2>5. InSequence'
    BY <1>3, <2>1, <2>2, SessionType DEF InSequence, WasStarted, Early, appVars
  <2>6. StartupStep
    BY <1>3, <2>1, <2>3, <2>4, SeenStep
  <2> QED
    BY <2>5, <2>6
<1> QED
  BY <1>1, <1>2, <1>3 DEF Slot

LEMMA SlotCalledSteps ==
  ASSUME TypeInv, InSequence, UNCHANGED <<sessionGroup, registered>>,
         \/ Slot(startupSuspendCount, startupSuspendTimeoutTimer)
         \/ Slot(NobodySuspends, FALSE)
  PROVE  InSequence' /\ StartupStep
<1>1. CASE Slot(startupSuspendCount, startupSuspendTimeoutTimer)
  <2>1. PICK count : count = startupSuspendCount
    OBVIOUS
  <2>2. PICK timer \in BOOLEAN : timer = startupSuspendTimeoutTimer
    BY DEF TypeInv, TypeOK
  <2>3. \/ state = "LaunchingWM" /\ AutoStart0(count, timer)
        \/ state = "AutoStart0" /\ AutoStart0Done(count, timer)
        \/ state = "AutoStart1" /\ AutoStart1Done(count, timer)
        \/ /\ state = "Restoring"
           /\ ~restoreTimer
           /\ AutoStart2(count, timer)
           /\ UNCHANGED appVars
    BY <1>1, <2>1, <2>2 DEF Slot
  <2>4. Slot(count, timer)
    BY <2>3 DEF Slot
  <2> QED
    BY <2>4, SlotSteps
<1>2. CASE Slot(NobodySuspends, FALSE)
  <2>1. PICK timer \in BOOLEAN : timer = FALSE
    OBVIOUS
  <2>2. Slot(NobodySuspends, timer)
    BY <1>2, <2>1, Zenon
  <2> QED
    BY <2>2, SlotSteps
<1> QED
  BY <1>1, <1>2

LEMMA RestoreCalledSteps ==
  ASSUME TypeInv, InSequence, UNCHANGED sessionGroup, sessionGroup # "",
         registered' \subseteq launched,
         state \in {"Restoring", "RestoringSubSession"},
         TryRestoreNext(state, lastAppStarted, appsToStart, startupSuspendCount)
  PROVE  InSequence' /\ StartupStep
<1>1. PICK from \in Nat, upto \in Nat : from = lastAppStarted /\ upto = appsToStart
  BY DEF TypeInv, TypeOK
<1> PICK count : count = startupSuspendCount
  OBVIOUS
<1>2. CASE state = "Restoring"
  <2>1. PICK st : st = "Restoring" /\ TryRestoreNext(st, from, upto, count)
    BY <1>1, <1>2 DEF TryRestoreNext, ToStart, AutoStart2, HeldUp, Free
  <2>2. TryRestoreNext("Restoring", from, upto, count)
    BY <2>1, Zenon
  <2>3. sessionGroup = "Session" /\ sessionGroup' = "Session"
    BY <1>2 DEF InSequence, TypeInv, TypeOK
  <2>4. upto <= Length
    BY <1>1, <2>3 DEF TypeInv, RestoringFromSaved, Length
  <2>5. /\ \A id \in launched : WasStarted(id)
        /\ upto = Length \/ from = Length
        /\ from <= Length
    BY <1>1, <1>2, <2>3, SessionType DEF InSequence, Early
  <2> QED
    BY <1>1, <1>2, <2>2, <2>3, <2>4, <2>5, RestoreNextSteps
<1>3. CASE state = "RestoringSubSession"
  <2>1. PICK st : st = "RestoringSubSession" /\ TryRestoreNext(st, from, upto, count)
    BY <1>1, <1>3 DEF TryRestoreNext, ToStart, AutoStart2, HeldUp, Free
  <2>2. TryRestoreNext("RestoringSubSession", from, upto, count)
    BY <2>1, Zenon
  <2>3. sessionGroup = "SubSession" /\ sessionGroup' = "SubSession"
    BY <1>3 DEF InSequence
  <2> QED
    BY <1>3, <2>2, <2>3, RestoreSubSteps
<1> QED
  BY <1>2, <1>3

(* kcminit's phases end. *)
LEMMA PhaseEnds ==
  ASSUME InSequence, UNCHANGED <<sessionGroup, appVars>>,
         \/ state = "KcmInitPhase1" /\ state' = "AutoStart1"
         \/ state = "FinishingStartup" /\ state' = "Idle"
  PROVE  InSequence' /\ StartupStep
<1>1. SeenOf' = SeenOf /\ starts' = starts
  BY SessionType DEF SeenOf, appVars
<1>2. InSequence'
  BY SessionType DEF InSequence, WasStarted, Early, appVars
<1> QED
  BY <1>1, <1>2, PhaseStep

LEMMA SequenceStep ==
  ASSUME TypeInv, InSequence, SubSessions # "any", [Next]_vars
  PROVE  InSequence' /\ StartupStep
<1>1. CASE \/ WMTimeout /\ state = "LaunchingWM"
           \/ WMIdentified \/ AutoStart0Signalled \/ AutoStart1Signalled
  <2>1. UNCHANGED <<sessionGroup, registered>>
        /\ Slot(startupSuspendCount, startupSuspendTimeoutTimer)
    BY <1>1 DEF WMIdentified, WMTimeout, AutoStart0Signalled, AutoStart1Signalled, Slot
  <2> QED
    BY <2>1, SlotCalledSteps
<1>2. CASE \/ WMTimeout /\ state # "LaunchingWM"
           \/ WMProcessChange
           \/ \E id \in Id : ClientGone(id)
           \/ \E a \in App : SuspendStartup(a)
  BY <1>2, QuietSteps DEF WMProcessChange, WMTimeout, ClientGone, SuspendStartup
<1>3. CASE KcmPhase1Signalled \/ KcmPhase1Timeout
  <2>1. PICK shots : KcmPhase1Done(shots)
    BY <1>3 DEF KcmPhase1Signalled, KcmPhase1Timeout
  <2>2. CASE state = "KcmInitPhase1"
    BY <2>1, <2>2, PhaseEnds DEF KcmPhase1Done
  <2>3. CASE state # "KcmInitPhase1"
    BY <2>1, <2>3, QuietSteps DEF KcmPhase1Done
  <2> QED
    BY <2>2, <2>3
<1>4. CASE AutoStart2Signalled \/ KcmPhase2Signalled \/ KcmPhase2Timeout
  <2>1. /\ UNCHANGED <<sessionGroup, appVars>>
        /\ \/ state' = state
           \/ state = "FinishingStartup" /\ state' = "Idle"
    BY <1>4 DEF AutoStart2Signalled, KcmPhase2Signalled, KcmPhase2Timeout, KcmPhase2Done,
                FinishStartup
  <2> QED
    BY <2>1, PhaseEnds, QuietSteps
<1>5. CASE StartupSuspendTimeout \/ \E a \in App : ResumeStartup(a)
  <2>1. CASE startupSuspendTimeoutTimer /\ ResumeStartupInternal
    <3>1. ~restoreTimer
      BY <2>1 DEF TypeInv, RestoringFromSaved
    <3>2. UNCHANGED <<sessionGroup, registered>> /\ Slot(NobodySuspends, FALSE)
      BY <2>1, <3>1 DEF ResumeStartupInternal, Slot
    <3> QED
      BY <3>2, SlotCalledSteps
  <2>2. CASE ~(startupSuspendTimeoutTimer /\ ResumeStartupInternal)
    <3>1. UNCHANGED <<state, sessionGroup, appVars>>
      BY <1>5, <2>2 DEF StartupSuspendTimeout, ResumeStartup
    <3> QED
      BY <3>1, QuietSteps
  <2> QED
    BY <2>1, <2>2
<1>6. CASE RestoreTimeout
  <2>1. /\ state \in {"Restoring", "RestoringSubSession"} /\ sessionGroup # ""
        /\ UNCHANGED <<sessionGroup, registered>>
        /\ TryRestoreNext(state, lastAppStarted, appsToStart, startupSuspendCount)
    BY <1>6 DEF RestoreTimeout, TypeInv, RestoringFromSaved
  <2>2. registered' \subseteq launched
    BY <2>1 DEF TypeInv, TypeOK
  <2> QED
    BY <2>1, <2>2, RestoreCalledSteps
<1>7. CASE RestoreSubSession
  <2>1. PICK from, upto, count :
          /\ from = 0 /\ upto = Len(Saved["SubSession"]) /\ count = startupSuspendCount
    OBVIOUS
  <2>2. PICK st : st = "RestoringSubSession"
    OBVIOUS
  <2>3. TryRestoreNext(st, from, upto, count)
    BY <1>7, <2>1, <2>2
    DEF RestoreSubSession, TryRestoreNext, ToStart, AutoStart2, HeldUp, Free
  <2>4. TryRestoreNext("RestoringSubSession", from, upto, count)
    BY <2>2, <2>3, Zenon
  <2>5. state = "Idle" /\ sessionGroup' = "SubSession"
    BY <1>7, ConstantsAssumption DEF RestoreSubSession
  <2> QED
    BY <2>4, <2>5, RestoreSubSteps
<1>8. ASSUME NEW id \in Id, ClientRegistered(id)
      PROVE  InSequence' /\ StartupStep
  <2>1. UNCHANGED sessionGroup /\ registered' \subseteq launched
    BY <1>8 DEF ClientRegistered, TypeInv, TypeOK
  <2>2. CASE id = lastIdStarted /\ state \in {"Restoring", "RestoringSubSession"}
    <3>1. TryRestoreNext(state, lastAppStarted, appsToStart, startupSuspendCount)
      BY <1>8, <2>2 DEF ClientRegistered
    <3>2. sessionGroup # ""
      BY <1>8, <2>2, ConstantsAssumption DEF TypeInv, RestoringFromSaved
    <3> QED
      BY <2>1, <2>2, <3>1, <3>2, RestoreCalledSteps
  <2>3. CASE ~(id = lastIdStarted /\ state \in {"Restoring", "RestoringSubSession"})
    BY <1>8, <2>3, QuietSteps DEF ClientRegistered
  <2> QED
    BY <2>2, <2>3
<1>9. CASE UNCHANGED vars
  BY <1>9, QuietSteps DEF vars
<1> QED
  BY <1>1, <1>2, <1>3, <1>4, <1>5, <1>6, <1>7, <1>8, <1>9 DEF Next, Signal, Timer

(* The startup runs through all its phases in turn, and between autostart 1 *)
(* and 2 it starts the applications of the saved session in their order,    *)
(* each once and none left out, if sub-sessions are restored only by a      *)
(* server that is idle.                                                     *)
THEOREM StartupInSequence ==
  ASSUME SubSessions # "any"
  PROVE  Spec => Startup!Init /\ [][Startup!Next]_(Startup!vars)
<1>1. ASSUME TypeInv, InSequence, [Next]_vars
      PROVE  InSequence' /\ StartupStep
  BY <1>1, SequenceStep
<1>2. StartupStep <=> [Startup!Next]_(Startup!vars)
  BY DEF StartupStep
<1> QED
  BY <1>1, <1>2, TypeAlways, SequenceInit, PTL DEF Spec
==============================================================================
