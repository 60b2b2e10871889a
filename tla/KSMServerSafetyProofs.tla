------------------------ MODULE KSMServerSafetyProofs ------------------------
(***************************************************************************)
(* The safety properties of KSMServer, for any clients, window managers    *)
(* and requests, proved from its type correctness.                         *)
(***************************************************************************)
EXTENDS KSMServerProofs

(* What keeps a save going: valid pointers, an armed timer or a client that  *)
(* talks to the user, and nobody waiting for its turn in vain.  The three    *)
(* are preserved together, by the same case analysis of the handlers.        *)
Driven == NoDanglingClient /\ ProtectionArmed /\ InteractionServed

LEMMA ListsKept ==
  ASSUME TypeOK, Driven, NEW st, NEW wait, Complete(st, wait, clientsToSave, clientsToKill)
  PROVE  clientsToSave' \subseteq clients /\ clientsToKill' \subseteq clientsToSave'
  <1>1. shots \in ShotsType
    BY DEF TypeOK, ShotsType
  <1>2. \/ clientsToSave' = clientsToSave /\ clientsToKill' = clientsToKill
        \/ clientsToSave' = {} /\ clientsToKill' = {}
    BY <1>1, CompleteEffect
  <1> QED BY <1>2 DEF Driven, NoDanglingClient

LEMMA BeginShutdownDriven ==
  ASSUME TypeOK, Driven, BeginShutdown
  PROVE  Driven'
  BY DEF BeginShutdown, Driven, NoDanglingClient, ProtectionArmed,
         InteractionServed, TypeOK, StartProtection, ResetState, listVars,
         clientVars

LEMMA RequestDriven ==
  ASSUME TypeOK, Driven, Request \/ PendingShutdownTimeout
  PROVE  Driven'
  <1>1. ASSUME NEW confirm, Shutdown(confirm)
        PROVE  Driven'
    <2>1. CASE BeginShutdown
      BY <2>1, BeginShutdownDriven
    <2>2. CASE ~BeginShutdown
      BY <1>1, <2>2
      DEF Shutdown, ShutdownIgnored, ShutdownNotNow, ShutdownAsks,
          ShutdownAtOnce, serverVars, clientVars, flagVars, listVars, Driven,
          NoDanglingClient, ProtectionArmed, InteractionServed
    <2> QED BY <2>1, <2>2
  <1>2. CASE LogoutRequested \/ PendingShutdownTimeout
    BY <1>1, <1>2 DEF LogoutRequested, PendingShutdownTimeout
  <1>3. CASE DialogAnswered
    <2>1. CASE BeginShutdown
      BY <2>1, BeginShutdownDriven
    <2>2. CASE ~BeginShutdown
      BY <1>3, <2>2
      DEF DialogAnswered, clientVars, flagVars, listVars, Driven,
          NoDanglingClient, ProtectionArmed, InteractionServed
    <2> QED BY <2>1, <2>2
  <1>4. CASE SaveCurrentSession
    BY <1>4
    DEF SaveCurrentSession, listVars, clientVars, Driven, NoDanglingClient,
        ProtectionArmed, InteractionServed
  <1>5. ASSUME NEW close \in SUBSET registered,
               NEW only \in SUBSET (registered \ close),
               SaveSubSession(close, only)
        PROVE  Driven'
    <2>1. Complete("ClosingSubSession", waitForPhase2 \ (close \cup only),
                   clientsToSave \cup close \cup only, clientsToKill \cup close)
      BY <1>5 DEF SaveSubSession
    <2>2. shots \in ShotsType
      BY DEF TypeOK, ShotsType
    <2>3. /\ state' # "Shutdown"
          /\ \/ /\ clientsToSave' = clientsToSave \cup close \cup only
                /\ clientsToKill' = clientsToKill \cup close
             \/ clientsToSave' = {} /\ clientsToKill' = {}
      BY <2>1, <2>2, CompleteEffect
    <2> QED
      BY <1>5, <2>3
      DEF SaveSubSession, StartProtection, clientVars, Driven, TypeOK,
          NoDanglingClient, ProtectionArmed, InteractionServed
  <1>6. CASE RestoreSubSession \/ SubSessionRestored
    BY <1>6
    DEF RestoreSubSession, SubSessionRestored, allButState, listVars,
        clientVars, flagVars, timerVars, Driven, NoDanglingClient,
        ProtectionArmed, InteractionServed
  <1>7. ASSUME NEW p \in Program, WMChanged(p)
        PROVE  Driven'
    BY <1>7
    DEF WMChanged, listVars, clientVars, flagVars, timerVars, Driven,
        NoDanglingClient, ProtectionArmed, InteractionServed
  <1> QED BY <1>2, <1>3, <1>4, <1>5, <1>6, <1>7 DEF Request

LEMMA AnswerDriven ==
  ASSUME TypeOK, Driven, NEW c \in Client,
         SaveYourselfDone(c) \/ SaveYourselfDoneIdle(c)
           \/ Phase2Request(c)
  PROVE  Driven'
  <1>1. shots \in ShotsType
    BY DEF TypeOK, ShotsType
  <1>2. CASE SaveYourselfDone(c)
    <2>1. Complete(state, waitForPhase2, clientsToSave, clientsToKill)
      BY <1>2 DEF SaveYourselfDone
    <2>2. state' \in {"Shutdown", "ClosingSubSession"} => state' = state
      BY <1>1, <2>1, CompleteEffect
    <2>3. /\ clientsToSave' \subseteq clients
          /\ clientsToKill' \subseteq clientsToSave'
      BY <2>1, ListsKept
    <2> QED
      BY <1>2, <2>2, <2>3
      DEF SaveYourselfDone, StartProtection, clientVars, Driven,
          NoDanglingClient, ProtectionArmed, InteractionServed
  <1>3. CASE SaveYourselfDoneIdle(c)
    BY <1>3
    DEF SaveYourselfDoneIdle, serverVars, listVars,
        clientVars, flagVars, timerVars, Driven, NoDanglingClient,
        ProtectionArmed, InteractionServed
  <1>4. CASE Phase2Request(c)
    <2>1. Complete(state, waitForPhase2 \cup {c}, clientsToSave, clientsToKill)
      BY <1>4 DEF Phase2Request
    <2>2. state' \in {"Shutdown", "ClosingSubSession"} => state' = state
      BY <1>1, <2>1, CompleteEffect
    <2>3. /\ clientsToSave' \subseteq clients
          /\ clientsToKill' \subseteq clientsToSave'
      BY <2>1, ListsKept
    <2> QED
      BY <1>4, <2>2, <2>3
      DEF Phase2Request, clientVars, Driven, NoDanglingClient,
          ProtectionArmed, InteractionServed
  <1> QED BY <1>2, <1>3, <1>4

LEMMA ConnectionDriven ==
  ASSUME TypeOK, Driven, NEW c \in Client,
         NewClient(c) \/ RegisterClient(c) \/ ClientSetProgram(c)
           \/ ClientSaveRequest(c)
  PROVE  Driven'
  BY DEF NewClient, RegisterClient, ClientSetProgram, ClientSaveRequest,
         serverVars, listVars, clientVars, flagVars, timerVars, Driven,
         NoDanglingClient, ProtectionArmed, InteractionServed

LEMMA InteractionDriven ==
  ASSUME TypeOK, Driven, NEW c \in Client,
         InteractRequest(c) \/ InteractDoneStray(c) \/ InteractDone(c)
           \/ CancelShutdown(c)
  PROVE  Driven'
  <1>1. ASSUME NEW pending \in SUBSET clients, NEW inter,
               clients' = clients, state' = state, UNCHANGED listVars,
               HandlePendingInteractions(pending, inter)
        PROVE  Driven'
    <2>1. clients' \subseteq Client
      BY <1>1 DEF TypeOK
    <2>2. /\ clientInteracting' \in clients' \cup {NoClient}
          /\ clientInteracting' = NoClient =>
               protectionTimer' = TRUE /\ pending \cap clients' = {}
          /\ pendingInteraction' \subseteq pending
      BY <1>1, <2>1, HandleEffect, Zenon
    <2> QED
      BY <1>1, <2>2
      DEF listVars, Driven, NoDanglingClient, ProtectionArmed, InteractionServed
  <1>2. CASE InteractRequest(c) /\ clientInteracting = NoClient
    <2> DEFINE queued == state \in {"Shutdown", "ClosingSubSession"}
               pending == IF queued THEN pendingInteraction \cup {c}
                                    ELSE pendingInteraction
               inter == IF queued THEN interacting ELSE interacting \cup {c}
    <2>1. /\ HandlePendingInteractions(pending, inter)
          /\ pending \subseteq clients
          /\ clients' = clients /\ state' = state /\ UNCHANGED listVars
      BY <1>2 DEF InteractRequest, TypeOK, clientVars, listVars
    <2> HIDE DEF pending, inter
    <2> QED BY <1>1, <2>1
  <1>3. CASE InteractRequest(c) /\ clientInteracting # NoClient
    BY <1>3
    DEF InteractRequest, clientVars, listVars, Driven, NoDanglingClient,
        ProtectionArmed, InteractionServed
  <1>4. CASE InteractDoneStray(c)
    BY <1>4
    DEF InteractDoneStray, serverVars, clientVars, listVars, flagVars,
        timerVars, Driven, NoDanglingClient, ProtectionArmed, InteractionServed
  <1>5. CASE InteractDone(c)
    <2>1. /\ HandlePendingInteractions(pendingInteraction, interacting \ {c})
          /\ pendingInteraction \subseteq clients
          /\ clients' = clients /\ state' = state /\ UNCHANGED listVars
      BY <1>5 DEF InteractDone, TypeOK, clientVars, listVars
    <2> QED BY <1>1, <2>1
  <1>6. CASE CancelShutdown(c)
    BY <1>6
    DEF CancelShutdown, listVars, clientVars, Driven, NoDanglingClient,
        ProtectionArmed, InteractionServed
  <1> QED BY <1>2, <1>3, <1>4, <1>5, <1>6

LEMMA ForgetEffect ==
  ASSUME TypeOK, Driven, NEW c \in clients, Forget(c), created' = created
  PROVE  /\ clientInteracting' \in clients' \cup {NoClient}
         /\ clientInteracting' = NoClient =>
              /\ clientInteracting = NoClient => protectionTimer' = protectionTimer
              /\ clientInteracting # NoClient => protectionTimer'
              /\ state = "Shutdown" => pendingInteraction' = {}
  <1>1. /\ clients' = clients \ {c}
        /\ clients' \subseteq Client
        /\ pendingInteraction' \subseteq clients'
    BY ForgetType DEF TypeOK
  <1>2. c # NoClient
    BY ConstantsAssumption DEF TypeOK
  <1>3. CASE c = clientInteracting
    <2>1. HandlePendingInteractions(pendingInteraction \ {c}, interacting \ {c})
      BY <1>3 DEF Forget
    <2>2. /\ clientInteracting' \in clients' \cup {NoClient}
          /\ clientInteracting' = NoClient =>
               /\ protectionTimer' = TRUE
               /\ (pendingInteraction \ {c}) \cap clients' = {}
          /\ pendingInteraction' \subseteq pendingInteraction \ {c}
      BY <1>1, <2>1, HandleEffect, Zenon
    <2> QED BY <1>1, <1>2, <1>3, <2>2
  <1>4. CASE c # clientInteracting
    <2>1. /\ clientInteracting' = clientInteracting
          /\ protectionTimer' = protectionTimer
          /\ pendingInteraction' = pendingInteraction \ {c}
      BY <1>4 DEF Forget
    <2> QED
      BY <1>1, <1>4, <2>1 DEF Driven, NoDanglingClient, InteractionServed
  <1> QED BY <1>3, <1>4

LEMMA DeleteClientDriven ==
  ASSUME TypeOK, Driven, NEW c \in Client, DeleteClient(c)
  PROVE  Driven'
  <1>1. /\ c \in clients
        /\ Forget(c)
        /\ created' = created
        /\ shots \in ShotsType
        /\ clients' = clients \ {c}
    BY DEF DeleteClient, Forget, TypeOK, ShotsType
  <1>2. /\ SaveListWithout(c) \subseteq clients'
        /\ KillListWithout(c) \subseteq SaveListWithout(c)
    BY <1>1 DEF SaveListWithout, KillListWithout, Driven, NoDanglingClient
  <1>3. /\ state' \in {"Shutdown", "ClosingSubSession"} => state' = state
        /\ \/ /\ clientsToSave' = SaveListWithout(c)
              /\ clientsToKill' = KillListWithout(c)
           \/ clientsToSave' = {} /\ clientsToKill' = {}
    <2>1. CASE state \notin {"Killing", "KillingSubSession", "KillingWM"}
      <3>1. Complete(state, waitForPhase2 \ {c}, SaveListWithout(c),
                     KillListWithout(c))
        BY <2>1 DEF DeleteClient
      <3> QED BY <1>1, <3>1, CompleteEffect
    <2>2. CASE state = "Killing"
      BY <2>2 DEF DeleteClient, CompleteKilling, KillWM
    <2>3. CASE state \in {"KillingSubSession", "KillingWM"}
      BY <2>3 DEF DeleteClient
    <2> QED BY <2>1, <2>2, <2>3
  <1>4. NoDanglingClient'
    BY <1>1, <1>2, <1>3, ForgetEffect DEF NoDanglingClient
  <1>5. ProtectionArmed'
    BY <1>1, <1>3, ForgetEffect DEF Driven, ProtectionArmed
  <1>6. InteractionServed'
    BY <1>1, <1>3, ForgetEffect DEF InteractionServed
  <1> QED BY <1>4, <1>5, <1>6 DEF Driven

LEMMA TimerDriven ==
  ASSUME TypeOK, Driven, Timer \/ LogoutSoundFinished
  PROVE  Driven'
  <1>1. CASE PendingShutdownTimeout
    BY <1>1, RequestDriven
  <1>2. CASE ProtectionTimeoutIgnored
    BY <1>2
    DEF ProtectionTimeoutIgnored, EndProtection, Saving, serverVars, listVars,
        clientVars, flagVars, Driven, NoDanglingClient, ProtectionArmed,
        InteractionServed
  <1>3. CASE ProtectionTimeout
    <2>1. Complete(state, waitForPhase2, clientsToSave, clientsToKill)
      BY <1>3 DEF ProtectionTimeout
    <2>2. shots \in ShotsType
      BY DEF TypeOK, ShotsType
    <2>3. state' \in {"Shutdown", "ClosingSubSession"} => state' = state
      BY <2>1, <2>2, CompleteEffect
    <2>4. /\ clientsToSave' \subseteq clients
          /\ clientsToKill' \subseteq clientsToSave'
      BY <2>1, ListsKept
    <2> QED
      BY <1>3, <2>3, <2>4
      DEF ProtectionTimeout, StartProtection, clientVars, Driven,
          NoDanglingClient, ProtectionArmed, InteractionServed
  <1>4. ASSUME NEW sh, StartKilling(sh)
        PROVE  Driven'
    BY <1>4
    DEF StartKilling, CompleteKilling, KillWM, listVars, clientVars, Driven,
        NoDanglingClient, ProtectionArmed, InteractionServed
  <1>5. ASSUME NEW slot, ShotSpent(slot)
        PROVE  Driven'
    BY <1>5
    DEF ShotSpent, serverVars, listVars, clientVars, flagVars, Driven,
        NoDanglingClient, ProtectionArmed, InteractionServed
  <1>6. CASE LogoutSoundTimeout \/ LogoutSoundFinished
    BY <1>4, <1>5, <1>6 DEF LogoutSoundTimeout, LogoutSoundFinished
  <1>7. CASE TimeoutQuit
    <2>1. CASE state = "Killing"
      BY <1>7, <2>1
      DEF TimeoutQuit, KillWM, listVars, clientVars, Driven,
          NoDanglingClient, ProtectionArmed, InteractionServed
    <2>2. CASE state # "Killing"
      BY <1>5, <1>7, <2>2 DEF TimeoutQuit
    <2> QED BY <2>1, <2>2
  <1>8. CASE TimeoutWMQuit
    BY <1>8
    DEF TimeoutWMQuit, listVars, clientVars, flagVars, Driven,
        NoDanglingClient, ProtectionArmed, InteractionServed
  <1>9. CASE SignalSubSessionClosed
    <2>1. CASE state = "KillingSubSession"
      BY <1>9, <2>1
      DEF SignalSubSessionClosed, clientVars, flagVars, Driven,
          NoDanglingClient, ProtectionArmed, InteractionServed
    <2>2. CASE state # "KillingSubSession"
      BY <1>5, <1>9, <2>2 DEF SignalSubSessionClosed
    <2> QED BY <2>1, <2>2
  <1> QED
    BY <1>1, <1>2, <1>3, <1>6, <1>7, <1>8, <1>9 DEF Timer

LEMMA DrivenInvariant == Spec => []Driven
  <1>1. Init => Driven
    BY DEF Init, Driven, NoDanglingClient, ProtectionArmed, InteractionServed
  <1>2. TypeOK /\ Driven /\ [Next]_vars => Driven'
    <2> SUFFICES ASSUME TypeOK, Driven, [Next]_vars
                 PROVE  Driven'
      OBVIOUS
    <2>1. CASE FinishStartup \/ UNCHANGED vars
      BY <2>1
      DEF FinishStartup, vars, allButState, listVars, clientVars, flagVars,
          timerVars, Driven, NoDanglingClient, ProtectionArmed,
          InteractionServed
    <2>2. CASE LogoutSoundFinished \/ Timer
      BY <2>2, TimerDriven
    <2>3. CASE Request
      BY <2>3, RequestDriven
    <2>4. ASSUME NEW c \in Client, ClientMessage(c)
          PROVE  Driven'
      BY <2>4, ConnectionDriven, AnswerDriven, InteractionDriven,
         DeleteClientDriven
      DEF ClientMessage
    <2> QED
      BY <2>1, <2>2, <2>3, <2>4 DEF Next, Terminated
  <1> QED
    BY <1>1, <1>2, TypeCorrect, PTL DEF Spec

(* deleteClient leaves no pointer to the client it deletes, whenever and in *)
(* whatever order the clients vanish.                                       *)
THEOREM PointersAreValid == Spec => []NoDanglingClient
  <1>1. Driven => NoDanglingClient
    BY DEF Driven
  <1> QED BY <1>1, DrivenInvariant, PTL

(* No path through startProtection, endProtection and                       *)
(* handlePendingInteractions leaves a save without a timer or a user at it.  *)
THEOREM SavingIsDriven == Spec => []ProtectionArmed
  <1>1. Driven => ProtectionArmed
    BY DEF Driven
  <1> QED BY <1>1, DrivenInvariant, PTL

(* handlePendingInteractions forgets nobody: while clients wait for their    *)
(* turn in a logout, one has it.                                             *)
THEOREM TurnsAreHandedOn == Spec => []InteractionServed
  <1>1. Driven => InteractionServed
    BY DEF Driven
  <1> QED BY <1>1, DrivenInvariant, PTL

------------------------------------------------------------------------------
(* The suppression of sleep. *)

(* How a handler that ends in Complete or in the killing of clients moves   *)
(* the state: never into or out of leaving the session, but for closing      *)
(* a sub-session.                                                           *)
LEMMA CompleteStays ==
  ASSUME TypeOK, NEW st, NEW wait, NEW save, NEW kill,
         Complete(st, wait, save, kill)
  PROVE  state' \in Leaving <=> st \in Leaving
  BY DEF Complete, KillSubSession, Leaving

LEMMA BeginShutdownInhibits ==
  ASSUME BeginShutdown
  PROVE  InhibitedWhileLeaving'
  BY DEF BeginShutdown, BeginSuppressingSleep, InhibitedWhileLeaving, Leaving

LEMMA RequestInhibits ==
  ASSUME TypeOK, InhibitedWhileLeaving, "restoreSubSession" \notin Requests,
         Request \/ PendingShutdownTimeout
  PROVE  InhibitedWhileLeaving'
  <1>1. CASE BeginShutdown
    BY <1>1, BeginShutdownInhibits
  <1>2. CASE ~BeginShutdown /\ (LogoutRequested \/ PendingShutdownTimeout)
    BY <1>2
    DEF LogoutRequested, PendingShutdownTimeout, Shutdown, ShutdownIgnored,
        ShutdownNotNow, ShutdownAsks, ShutdownAtOnce, serverVars, otherVars,
        InhibitedWhileLeaving
  <1>3. CASE ~BeginShutdown /\ DialogAnswered
    BY <1>3 DEF DialogAnswered, InhibitedWhileLeaving
  <1>4. CASE SaveCurrentSession \/ SubSessionRestored
    <2>1. /\ state \notin Leaving
          /\ state' \notin Leaving
      BY <1>4 DEF SaveCurrentSession, SubSessionRestored, Leaving
    <2>2. inhibited' = inhibited
      BY <1>4
      DEF SaveCurrentSession, SubSessionRestored, allButState, otherVars
    <2> QED BY <2>1, <2>2 DEF InhibitedWhileLeaving
  <1>5. ASSUME NEW close, NEW only, SaveSubSession(close, only)
        PROVE  InhibitedWhileLeaving'
    <2>1. /\ state = "Idle" /\ inhibited' = inhibited
          /\ Complete("ClosingSubSession", waitForPhase2 \ (close \cup only),
                      clientsToSave \cup close \cup only,
                      clientsToKill \cup close)
      BY <1>5 DEF SaveSubSession, otherVars
    <2>2. state' \notin Leaving /\ state \notin Leaving
      BY <2>1, CompleteStays DEF Leaving
    <2> QED BY <2>1, <2>2 DEF InhibitedWhileLeaving
  <1>6. ASSUME NEW p, WMChanged(p)
        PROVE  InhibitedWhileLeaving'
    BY <1>6 DEF WMChanged, InhibitedWhileLeaving
  <1> QED
    BY <1>1, <1>2, <1>3, <1>4, <1>5, <1>6 DEF Request, RestoreSubSession

LEMMA MessageInhibits ==
  ASSUME TypeOK, InhibitedWhileLeaving, NEW c \in Client, ClientMessage(c)
  PROVE  InhibitedWhileLeaving'
  <1>1. CASE \/ NewClient(c) \/ RegisterClient(c) \/ ClientSetProgram(c)
             \/ ClientSaveRequest(c) \/ SaveYourselfDoneIdle(c)
             \/ InteractRequest(c) \/ InteractDoneStray(c) \/ InteractDone(c)
    BY <1>1
    DEF NewClient, RegisterClient, ClientSetProgram, ClientSaveRequest,
        SaveYourselfDoneIdle, InteractRequest, InteractDoneStray, InteractDone,
        serverVars, otherVars,
        InhibitedWhileLeaving
  <1>2. CASE SaveYourselfDone(c) \/ Phase2Request(c)
    <2>1. PICK wait :
            /\ Complete(state, wait, clientsToSave, clientsToKill)
            /\ inhibited' = inhibited
      BY <1>2 DEF SaveYourselfDone, Phase2Request, otherVars
    <2> QED BY <2>1, CompleteStays DEF InhibitedWhileLeaving
  <1>3. CASE CancelShutdown(c)
    BY <1>3
    DEF CancelShutdown, StopSuppressingSleep, InhibitedWhileLeaving, Leaving
  <1>4. CASE DeleteClient(c)
    <2>1. inhibited' = inhibited
      BY <1>4 DEF DeleteClient
    <2>2. state' \in Leaving <=> state \in Leaving
      <3>1. CASE state \notin {"Killing", "KillingSubSession", "KillingWM"}
        BY <1>4, <3>1, CompleteStays DEF DeleteClient
      <3>2. CASE state \in {"Killing", "KillingSubSession", "KillingWM"}
        BY <1>4, <3>2 DEF DeleteClient, CompleteKilling, KillWM, Leaving
      <3> QED BY <3>1, <3>2
    <2> QED BY <2>1, <2>2 DEF InhibitedWhileLeaving
  <1> QED BY <1>1, <1>2, <1>3, <1>4 DEF ClientMessage

LEMMA TimerInhibits ==
  ASSUME TypeOK, InhibitedWhileLeaving, Timer \/ LogoutSoundFinished,
         "restoreSubSession" \notin Requests
  PROVE  InhibitedWhileLeaving'
  <1>1. CASE PendingShutdownTimeout
    BY <1>1, RequestInhibits
  <1>2. CASE ProtectionTimeoutIgnored \/ TimeoutWMQuit
    BY <1>2
    DEF ProtectionTimeoutIgnored, TimeoutWMQuit, serverVars, otherVars,
        InhibitedWhileLeaving
  <1>3. CASE ProtectionTimeout
    <2>1. /\ Complete(state, waitForPhase2, clientsToSave, clientsToKill)
          /\ inhibited' = inhibited
      BY <1>3 DEF ProtectionTimeout, otherVars
    <2> QED BY <2>1, CompleteStays DEF InhibitedWhileLeaving
  <1>4. CASE LogoutSoundTimeout \/ LogoutSoundFinished \/ TimeoutQuit
               \/ SignalSubSessionClosed
    BY <1>4
    DEF LogoutSoundTimeout, LogoutSoundFinished, TimeoutQuit,
        SignalSubSessionClosed, StartKilling, CompleteKilling, KillWM,
        ShotSpent, serverVars, otherVars, InhibitedWhileLeaving, Leaving
  <1> QED BY <1>1, <1>2, <1>3, <1>4 DEF Timer

(* Sleep is released by every way out of a logout but one: the exception is  *)
(* restoreSubSession, which moves the server out of any state.               *)
THEOREM SleepIsReleased ==
  ASSUME "restoreSubSession" \notin Requests
  PROVE  Spec => []InhibitedWhileLeaving
  <1>1. Init => InhibitedWhileLeaving
    BY DEF Init, InhibitedWhileLeaving, Leaving
  <1>2. TypeOK /\ InhibitedWhileLeaving /\ [Next]_vars => InhibitedWhileLeaving'
    <2> SUFFICES ASSUME TypeOK, InhibitedWhileLeaving, [Next]_vars
                 PROVE  InhibitedWhileLeaving'
      OBVIOUS
    <2>1. CASE FinishStartup \/ UNCHANGED vars
      BY <2>1
      DEF FinishStartup, vars, allButState, otherVars, InhibitedWhileLeaving,
          Leaving
    <2>2. CASE LogoutSoundFinished \/ Timer
      BY <2>2, TimerInhibits
    <2>3. CASE Request
      BY <2>3, RequestInhibits
    <2>4. ASSUME NEW c \in Client, ClientMessage(c)
          PROVE  InhibitedWhileLeaving'
      BY <2>4, MessageInhibits
    <2> QED
      BY <2>1, <2>2, <2>3, <2>4 DEF Next, Terminated
  <1> QED
    BY <1>1, <1>2, TypeCorrect, PTL DEF Spec

------------------------------------------------------------------------------
(* Checkpoints. *)

(* A checkpoint stays one: the type of the save does not change under it. *)
Silent ==
  /\ CheckpointIsSilent
  /\ state = "Checkpoint" => saveType = "Local"

LEMMA CompleteCheckpoint ==
  ASSUME NEW st, NEW wait, NEW save, NEW kill, Complete(st, wait, save, kill),
         state' = "Checkpoint"
  PROVE  st = "Checkpoint"
  BY DEF Complete, KillSubSession

LEMMA SilentRest ==
  ASSUME Silent, NEW c, NEW answered, state' = "Checkpoint", state = "Checkpoint",
         WMPhase1Done(c, answered)
  PROVE  Silent'
  <1>1. ~ForLogout
    BY DEF ForLogout, Silent
  <1>2. PICK rest :
          /\ SmsSaveYourself(answered, rest, ForLogout, ForLogout)
          /\ asked' = asked \cup rest
    BY DEF WMPhase1Done
  <1>3. canCancel' = canCancel \ rest
    BY <1>1, <1>2 DEF SmsSaveYourself
  <1>4. saveType' = saveType
    BY DEF WMPhase1Done
  <1> QED BY <1>2, <1>3, <1>4 DEF Silent, CheckpointIsSilent

LEMMA RequestSilent ==
  ASSUME Silent, Request \/ PendingShutdownTimeout
  PROVE  Silent'
  <1>1. CASE BeginShutdown
    BY <1>1 DEF BeginShutdown, Silent, CheckpointIsSilent
  <1>2. CASE ~BeginShutdown /\ (LogoutRequested \/ PendingShutdownTimeout)
    BY <1>2
    DEF LogoutRequested, PendingShutdownTimeout, Shutdown, ShutdownIgnored,
        ShutdownNotNow, ShutdownAsks, ShutdownAtOnce, serverVars, roundVars,
        smVars, saveVars, Silent, CheckpointIsSilent
  <1>3. CASE ~BeginShutdown /\ DialogAnswered
    BY <1>3
    DEF DialogAnswered, roundVars, smVars, saveVars, Silent, CheckpointIsSilent
  <1>4. CASE SaveCurrentSession
    <2>1. /\ canCancel' = canCancel \ AskedFirst
          /\ asked' = AskedFirst
          /\ saveType' = "Local"
      BY <1>4 DEF SaveCurrentSession, SmsSaveYourself
    <2> QED BY <2>1 DEF Silent, CheckpointIsSilent
  <1>5. ASSUME NEW close, NEW only, SaveSubSession(close, only)
        PROVE  Silent'
    <2>1. Complete("ClosingSubSession", waitForPhase2 \ (close \cup only),
                   clientsToSave \cup close \cup only, clientsToKill \cup close)
      BY <1>5 DEF SaveSubSession
    <2>2. state' # "Checkpoint"
      BY <2>1, CompleteCheckpoint
    <2> QED BY <2>2 DEF Silent, CheckpointIsSilent
  <1>6. CASE RestoreSubSession \/ SubSessionRestored
    BY <1>6 DEF RestoreSubSession, SubSessionRestored, Silent, CheckpointIsSilent
  <1>7. ASSUME NEW p, WMChanged(p)
        PROVE  Silent'
    BY <1>7
    DEF WMChanged, roundVars, smVars, saveVars, Silent, CheckpointIsSilent
  <1> QED
    BY <1>1, <1>2, <1>3, <1>4, <1>5, <1>6, <1>7 DEF Request

LEMMA MessageSilent ==
  ASSUME Silent, NEW c \in Client, ClientMessage(c)
  PROVE  Silent'
  <1>1. CASE \/ NewClient(c) \/ ClientSetProgram(c)
             \/ InteractRequest(c) \/ InteractDoneStray(c) \/ InteractDone(c)
    BY <1>1
    DEF NewClient, ClientSetProgram, InteractRequest,
        InteractDoneStray, InteractDone, serverVars, roundVars, smVars,
        saveVars, Silent, CheckpointIsSilent
  <1>2. CASE RegisterClient(c)
    <2>1. canCancel' = canCancel \ {c}
      BY <1>2 DEF RegisterClient, SmsSaveYourself
    <2> QED
      BY <1>2, <2>1
      DEF RegisterClient, serverVars, roundVars, Silent, CheckpointIsSilent
  <1>3. CASE ClientSaveRequest(c)
    <2>1. canCancel' = canCancel \ {c}
      BY <1>3 DEF ClientSaveRequest, SmsSaveYourself
    <2> QED
      BY <1>3, <2>1
      DEF ClientSaveRequest, serverVars, roundVars, Silent, CheckpointIsSilent
  <1>4. CASE SaveYourselfDoneIdle(c)
    BY <1>4
    DEF SaveYourselfDoneIdle, serverVars, roundVars, Silent, CheckpointIsSilent
  <1>5. CASE SaveYourselfDone(c) \/ Phase2Request(c)
    <2>1. PICK wait : Complete(state, wait, clientsToSave, clientsToKill)
      BY <1>5 DEF SaveYourselfDone, Phase2Request
    <2>2. CASE state' # "Checkpoint"
      BY <2>2 DEF Silent, CheckpointIsSilent
    <2>3. CASE state' = "Checkpoint"
      <3>1. state = "Checkpoint"
        BY <2>1, <2>3, CompleteCheckpoint
      <3>2. CASE SaveYourselfDone(c) /\ c \in wasPhase2
        <4>1. /\ canCancel' = canCancel
              /\ UNCHANGED roundVars
          BY <3>2 DEF SaveYourselfDone, SmsSaveYourself
        <4> QED BY <3>1, <4>1 DEF roundVars, Silent, CheckpointIsSilent
      <3>3. CASE ~(SaveYourselfDone(c) /\ c \in wasPhase2)
        <4>1. PICK answered : WMPhase1Done(c, answered)
          BY <1>5, <3>3 DEF SaveYourselfDone, Phase2Request
        <4> QED BY <2>3, <3>1, <4>1, SilentRest
      <3> QED BY <3>2, <3>3
    <2> QED BY <2>2, <2>3
  <1>6. CASE CancelShutdown(c)
    BY <1>6 DEF CancelShutdown, Silent, CheckpointIsSilent
  <1>7. CASE DeleteClient(c)
    <2>1. /\ asked' = asked \ {c}
          /\ canCancel' = canCancel \ {c}
          /\ saveType' = saveType
      BY <1>7 DEF DeleteClient, Forget
    <2>2. state' = "Checkpoint" => state = "Checkpoint"
      BY <1>7, CompleteCheckpoint DEF DeleteClient, CompleteKilling, KillWM
    <2> QED BY <2>1, <2>2 DEF Silent, CheckpointIsSilent
  <1> QED
    BY <1>1, <1>2, <1>3, <1>4, <1>5, <1>6, <1>7 DEF ClientMessage

LEMMA TimerSilent ==
  ASSUME Silent, Timer \/ LogoutSoundFinished
  PROVE  Silent'
  <1>1. CASE PendingShutdownTimeout
    BY <1>1, RequestSilent
  <1>2. CASE ProtectionTimeoutIgnored \/ TimeoutWMQuit
    BY <1>2
    DEF ProtectionTimeoutIgnored, TimeoutWMQuit, serverVars, roundVars, smVars,
        saveVars, Silent, CheckpointIsSilent
  <1>3. CASE ProtectionTimeout
    <2>1. Complete(state, waitForPhase2, clientsToSave, clientsToKill)
      BY <1>3 DEF ProtectionTimeout
    <2>2. state' = "Checkpoint" => state = "Checkpoint"
      BY <2>1, CompleteCheckpoint
    <2> QED
      BY <1>3, <2>2
      DEF ProtectionTimeout, roundVars, smVars, saveVars, Silent,
          CheckpointIsSilent
  <1>4. CASE LogoutSoundTimeout \/ LogoutSoundFinished \/ TimeoutQuit
               \/ SignalSubSessionClosed
    BY <1>4
    DEF LogoutSoundTimeout, LogoutSoundFinished, TimeoutQuit,
        SignalSubSessionClosed, StartKilling, CompleteKilling, KillWM,
        ShotSpent, serverVars, roundVars, smVars, saveVars, Silent,
        CheckpointIsSilent
  <1> QED BY <1>1, <1>2, <1>3, <1>4 DEF Timer

(* saveCurrentSession announces no shutdown to anybody, not even to the      *)
(* clients that are asked after the window manager's phase 1.                *)
THEOREM CheckpointsAreSilent == Spec => []CheckpointIsSilent
  <1>1. Init => Silent
    BY DEF Init, Silent, CheckpointIsSilent
  <1>2. Silent /\ [Next]_vars => Silent'
    <2> SUFFICES ASSUME Silent, [Next]_vars
                 PROVE  Silent'
      OBVIOUS
    <2>1. CASE FinishStartup \/ UNCHANGED vars
      BY <2>1
      DEF FinishStartup, vars, allButState, roundVars, smVars, saveVars, Silent,
          CheckpointIsSilent
    <2>2. CASE LogoutSoundFinished \/ Timer
      BY <2>2, TimerSilent
    <2>3. CASE Request
      BY <2>3, RequestSilent
    <2>4. ASSUME NEW c \in Client, ClientMessage(c)
          PROVE  Silent'
      BY <2>4, MessageSilent
    <2> QED
      BY <2>1, <2>2, <2>3, <2>4 DEF Next, Terminated
  <1>3. Silent => CheckpointIsSilent
    BY DEF Silent
  <1> QED
    BY <1>1, <1>2, <1>3, PTL DEF Spec

------------------------------------------------------------------------------
(* The window manager, first and last. *)

LEMMA CompleteNeverKills ==
  ASSUME NEW st, NEW wait, NEW save, NEW kill, Complete(st, wait, save, kill),
         state' = "KillingWM"
  PROVE  st = "KillingWM"
  BY DEF Complete, KillSubSession

(* No handler but the end of the wait, for the other clients or for the      *)
(* timer, makes completeKilling go on to killWM.                             *)
THEOREM WMDiesLast == Spec => WMLast
  <1> DEFINE Last == state # "KillingWM" /\ state' = "KillingWM" =>
       Others(clients') = {} \/ shots'["timeoutQuit"] < shots["timeoutQuit"]
  <1>1. TypeOK /\ [Next]_vars => [Last]_vars
    <2> SUFFICES ASSUME TypeOK, Next, state # "KillingWM", state' = "KillingWM"
                 PROVE  Others(clients') = {}
                          \/ shots'["timeoutQuit"] < shots["timeoutQuit"]
      OBVIOUS
    <2>1. ASSUME NEW c \in Client, ClientMessage(c)
          PROVE  Others(clients') = {}
      <3>1. CASE DeleteClient(c)
        <4>1. clients' = clients \ {c}
          BY <3>1 DEF DeleteClient, Forget
        <4>2. CASE state \notin {"Killing", "KillingSubSession"}
          BY <3>1, <4>2, CompleteNeverKills DEF DeleteClient
        <4>3. CASE state \in {"Killing", "KillingSubSession"}
          BY <3>1, <4>1, <4>3 DEF DeleteClient, CompleteKilling
        <4> QED BY <4>2, <4>3
      <3>2. CASE SaveYourselfDone(c) \/ Phase2Request(c)
        <4>1. PICK wait : Complete(state, wait, clientsToSave, clientsToKill)
          BY <3>2 DEF SaveYourselfDone, Phase2Request
        <4> QED BY <4>1, CompleteNeverKills
      <3>3. CASE ~(DeleteClient(c) \/ SaveYourselfDone(c) \/ Phase2Request(c))
        BY <2>1, <3>3
        DEF ClientMessage, NewClient, RegisterClient, ClientSetProgram,
            ClientSaveRequest, SaveYourselfDoneIdle,
            InteractRequest, InteractDoneStray, InteractDone, CancelShutdown,
            serverVars
      <3> QED BY <3>1, <3>2, <3>3
    <2>2. ~Request /\ ~PendingShutdownTimeout
      <3>1. ~BeginShutdown
        BY DEF BeginShutdown
      <3>2. ASSUME NEW close, NEW only
            PROVE  ~SaveSubSession(close, only)
        BY CompleteNeverKills DEF SaveSubSession
      <3> QED
        BY <3>1, <3>2
        DEF Request, LogoutRequested, PendingShutdownTimeout, DialogAnswered,
            SaveCurrentSession, RestoreSubSession, SubSessionRestored,
            WMChanged, Shutdown, ShutdownIgnored, ShutdownNotNow, ShutdownAsks,
            ShutdownAtOnce, serverVars
    <2>3. CASE TimeoutQuit
      <3>1. /\ KillWM(clients, Fired("timeoutQuit"))
            /\ "timeoutQuit" \in Slots /\ "timeoutWMQuit" \in Slots
        BY <2>3 DEF TimeoutQuit, ShotSpent, serverVars, Slots
      <3>2. shots \in [Slots -> 0 .. MaxShots]
        BY DEF TypeOK
      <3>3. Fired("timeoutQuit") \in [Slots -> Int]
        BY <3>1, <3>2, ConstantsAssumption DEF Fired
      <3>4. shots'["timeoutQuit"] = Fired("timeoutQuit")["timeoutQuit"]
        BY <3>1, <3>3 DEF KillWM, Shoot
      <3>5. Fired("timeoutQuit")["timeoutQuit"] = shots["timeoutQuit"] - 1
        BY <3>1, <3>2 DEF Fired
      <3> QED BY <3>1, <3>2, <3>4, <3>5, ConstantsAssumption
    <2>4. CASE (Timer /\ ~TimeoutQuit) \/ LogoutSoundFinished
      <3>1. ~ProtectionTimeout
        BY CompleteNeverKills DEF ProtectionTimeout
      <3>2. PICK sh : StartKilling(sh)
        BY <2>2, <2>4, <3>1
        DEF Timer, ProtectionTimeoutIgnored, LogoutSoundTimeout, TimeoutWMQuit,
            SignalSubSessionClosed, ShotSpent, LogoutSoundFinished, serverVars
      <3> QED BY <3>2 DEF StartKilling, CompleteKilling, clientVars
    <2>5. ~FinishStartup /\ ~Terminated
      BY DEF FinishStartup, Terminated, vars, allButState
    <2> QED
      BY <2>1, <2>2, <2>3, <2>4, <2>5 DEF Next
  <1> QED
    BY <1>1, TypeCorrect, PTL DEF Spec, WMLast

(* saveYourselfDone and phase2Request let the other clients start only on a  *)
(* message of the window manager, and nothing else does.                     *)
THEOREM WMSavesFirst == Spec => WMFirst
  <1> DEFINE First == \A w \in clients :
       /\ state = "Shutdown"
       /\ WMs(clients) = {w}
       /\ Others(asked) = {} /\ Others(asked') # {}
       => w \in saveYourselfDone' \cup wasPhase2'
  <1>1. TypeOK /\ [Next]_vars => [First]_vars
    <2> SUFFICES ASSUME TypeOK, Next, NEW w \in clients, state = "Shutdown",
                        WMs(clients) = {w}, Others(asked) = {},
                        Others(asked') # {}
                 PROVE  w \in saveYourselfDone' \cup wasPhase2'
      OBVIOUS
    <2>1. ~(asked' \subseteq asked)
      BY DEF Others
    <2>2. ~BeginShutdown
      <3>1. AskedFirst = {w} /\ IsWM(w)
        BY DEF AskedFirst, WMs
      <3>2. asked' = {w} => Others(asked') = {}
        BY <3>1 DEF Others
      <3> QED BY <3>1, <3>2 DEF BeginShutdown
    <2>3. ~Request /\ ~PendingShutdownTimeout
      <3>1. ASSUME NEW close, NEW only
            PROVE  ~SaveSubSession(close, only)
        BY DEF SaveSubSession
      <3> QED
        BY <2>1, <2>2, <3>1
        DEF Request, LogoutRequested, PendingShutdownTimeout, DialogAnswered,
            SaveCurrentSession, RestoreSubSession, SubSessionRestored,
            WMChanged, Shutdown, ShutdownIgnored, ShutdownNotNow, ShutdownAsks,
            ShutdownAtOnce, serverVars, allButState, roundVars
    <2>4. ~Timer /\ ~LogoutSoundFinished /\ ~FinishStartup /\ ~Terminated
      BY <2>1, <2>3
      DEF Timer, ProtectionTimeoutIgnored, ProtectionTimeout, LogoutSoundTimeout,
          TimeoutQuit, TimeoutWMQuit, SignalSubSessionClosed, ShotSpent,
          StartKilling, LogoutSoundFinished, FinishStartup, Terminated, vars,
          allButState, serverVars, roundVars
    <2>5. PICK c \in Client : ClientMessage(c)
      BY <2>3, <2>4 DEF Next
    <2>6. c \in clients /\ (SaveYourselfDone(c) \/ Phase2Request(c))
      <3>1. SaveYourselfDone(c) \/ Phase2Request(c)
        BY <2>1, <2>5
        DEF ClientMessage, NewClient, RegisterClient, ClientSetProgram,
            ClientSaveRequest, SaveYourselfDoneIdle, InteractRequest,
            InteractDoneStray, InteractDone, CancelShutdown, DeleteClient,
            Forget, serverVars, roundVars
      <3>2. inSave \subseteq clients
        BY DEF TypeOK
      <3> QED
        BY <3>1, <3>2
        DEF SaveYourselfDone, SaveYourselfDoneArrives, Phase2Request
    <2>7. c \in saveYourselfDone' \cup wasPhase2'
      BY <2>6 DEF SaveYourselfDone, Phase2Request
    <2>8. CountsAsWM(c)
      <3>1. CASE ~CountsAsWM(c)
        <4>1. ASSUME NEW answered, WMPhase1Done(c, answered)
              PROVE  asked' = asked
          BY <3>1, <4>1 DEF WMPhase1Done
        <4>2. asked' = asked
          BY <2>6, <4>1 DEF SaveYourselfDone, Phase2Request, roundVars
        <4> QED BY <2>1, <4>2
      <3> QED BY <3>1
    <2>9. c = w
      BY <2>6, <2>8 DEF CountsAsWM, WMs
    <2> QED BY <2>7, <2>9
  <1> QED
    BY <1>1, TypeCorrect, PTL DEF Spec, WMFirst
==============================================================================
