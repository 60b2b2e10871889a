--------------------------- MODULE KSMServerProofs ---------------------------
(***************************************************************************)
(* Invariants of KSMServer, for any clients, window managers and requests. *)
(*                                                                         *)
(* Most handlers end in Complete (completeShutdownOrCheckpoint): the lemma *)
(* CompleteEffect says what a proof needs to know of it, the lemmas on     *)
(* SmsSaveYourself and HandlePendingInteractions do the same for them.     *)
(***************************************************************************)
EXTENDS KSMServer, FiniteSetTheorems, TLAPS

ShotsType == [Slots -> 0 .. MaxShots]

LEMMA ShootType ==
  ASSUME NEW sh \in ShotsType, NEW slot \in Slots
  PROVE  Shoot(sh, slot) \in ShotsType
  BY ConstantsAssumption DEF Shoot, ShotsType

LEMMA FiredType ==
  ASSUME shots \in ShotsType, NEW slot \in Slots, Fire(slot)
  PROVE  Fired(slot) \in ShotsType
  BY ConstantsAssumption DEF Fire, Fired, ShotsType

LEMMA CompleteEffect ==
  ASSUME NEW st, NEW wait, NEW save, NEW kill,
         shots \in ShotsType, Complete(st, wait, save, kill)
  PROVE  /\ \/ state' = st
            \/ st = "Shutdown" /\ state' = "WaitingForKNotify"
            \/ st = "Checkpoint" /\ state' = "Idle"
            \/ st = "ClosingSubSession" /\ state' \in {"Idle", "KillingSubSession"}
         /\ waitForPhase2' \subseteq wait
         /\ \/ clientsToSave' = save /\ clientsToKill' = kill
            \/ clientsToSave' = {} /\ clientsToKill' = {}
         /\ shots' \in ShotsType
  <1>1. "subSession" \in Slots /\ "logoutSound" \in Slots
    BY DEF Slots
  <1> QED
    BY <1>1, ShootType DEF Complete, KillSubSession

LEMMA SendEffect ==
  ASSUME NEW answered, NEW S \in SUBSET clients, NEW shutdown, NEW interact,
         inSave \subseteq clients, mayInteract \subseteq clients,
         canCancel \subseteq clients,
         SmsSaveYourself(answered, S, shutdown, interact)
  PROVE  /\ inSave' \subseteq clients
         /\ mayInteract' \subseteq clients
         /\ canCancel' \subseteq clients
  BY DEF SmsSaveYourself

LEMMA SendToEffect ==
  ASSUME NEW S \in SUBSET clients, NEW shutdown, NEW interact,
         inSave \subseteq clients, mayInteract \subseteq clients,
         canCancel \subseteq clients,
         SmsSaveYourself({}, S, shutdown, interact)
  PROVE  /\ inSave' \subseteq clients
         /\ mayInteract' \subseteq clients
         /\ canCancel' \subseteq clients
  BY SendEffect

LEMMA AnsweredEffect ==
  ASSUME NEW c, NEW shutdown, NEW interact,
         inSave \subseteq clients, mayInteract \subseteq clients,
         canCancel \subseteq clients,
         SmsSaveYourself({c}, {}, shutdown, interact)
  PROVE  /\ inSave' \subseteq clients
         /\ mayInteract' \subseteq clients
         /\ canCancel' \subseteq clients
  BY SendEffect

LEMMA HandleEffect ==
  ASSUME clients' \subseteq Client,
         NEW pending, NEW inter, HandlePendingInteractions(pending, inter)
  PROVE  /\ clientInteracting' \in clients' \cup {NoClient}
         /\ clientInteracting' = NoClient =>
              protectionTimer' = TRUE /\ pending \cap clients' = {}
         /\ pendingInteraction' \subseteq pending
         /\ interacting' \subseteq inter \cup clients'
         /\ protectionTimer' \in BOOLEAN
  BY ConstantsAssumption
  DEF HandlePendingInteractions, StartProtection, EndProtection

------------------------------------------------------------------------------
(* Type correctness: every value stays in its set, and every flag belongs to *)
(* a client that is connected.                                               *)

LEMMA CountType ==
  ASSUME NEW S \in SUBSET Client
  PROVE  Cardinality(S) \in Nat
  BY ConstantsAssumption, FS_Subset, FS_CardinalityType

LEMMA BeginShutdownType ==
  ASSUME TypeOK, BeginShutdown, pendingShutdown' \in {"none", "logout", "fastLogout"}
  PROVE  TypeOK'
  <1>1. /\ AskedFirst \in SUBSET clients
        /\ WMs(clients) \in SUBSET Client
    BY DEF AskedFirst, WMs, TypeOK
  <1>2. /\ inSave' \subseteq clients
        /\ mayInteract' \subseteq clients
        /\ canCancel' \subseteq clients
    <2>1. SmsSaveYourself({}, AskedFirst, TRUE, TRUE)
      BY DEF BeginShutdown
    <2>2. /\ inSave \subseteq clients
          /\ mayInteract \subseteq clients
          /\ canCancel \subseteq clients
      BY DEF TypeOK
    <2> QED BY <1>1, <2>1, <2>2, SendToEffect, Zenon
  <1>3. wmPhase1WaitingCount' \in Nat
    BY <1>1, CountType DEF BeginShutdown
  <1>4. shots' \in [Slots -> 0 .. MaxShots]
    BY ShootType DEF BeginShutdown, TypeOK, ShotsType, Slots
  <1>5. state' \in States
    BY DEF BeginShutdown, States, ShutdownOrLater, Leaving
  <1> QED
    BY <1>1, <1>2, <1>3, <1>4, <1>5
    DEF BeginShutdown, TypeOK, clientVars, listVars, ResetState,
        BeginSuppressingSleep, StartProtection

LEMMA ShutdownType ==
  ASSUME TypeOK, NEW confirm \in {"logout", "fastLogout"}, Shutdown(confirm)
  PROVE  TypeOK'
  <1>1. CASE ShutdownIgnored
    BY <1>1 DEF ShutdownIgnored, TypeOK, serverVars, roundVars, listVars,
                otherVars, clientVars, flagVars, smVars, saveVars
  <1>2. CASE ShutdownNotNow(confirm)
    BY <1>2 DEF ShutdownNotNow, TypeOK, serverVars, roundVars, listVars,
                otherVars, clientVars, flagVars, smVars, saveVars
  <1>3. CASE ShutdownAsks(confirm)
    BY <1>3 DEF ShutdownAsks, TypeOK, roundVars, listVars, clientVars,
                flagVars, smVars, saveVars
  <1>4. CASE ShutdownAtOnce(confirm)
    BY <1>4, BeginShutdownType DEF ShutdownAtOnce
  <1> QED
    BY <1>1, <1>2, <1>3, <1>4 DEF Shutdown

LEMMA SaveRequestType ==
  ASSUME TypeOK, SaveCurrentSession
  PROVE  TypeOK'
  <1>1. /\ AskedFirst \in SUBSET clients
        /\ WMs(clients) \in SUBSET Client
    BY DEF AskedFirst, WMs, TypeOK
  <1>2. /\ inSave' \subseteq clients
        /\ mayInteract' \subseteq clients
        /\ canCancel' \subseteq clients
    <2>1. SmsSaveYourself({}, AskedFirst, FALSE, FALSE)
      BY DEF SaveCurrentSession
    <2>2. /\ inSave \subseteq clients
          /\ mayInteract \subseteq clients
          /\ canCancel \subseteq clients
      BY DEF TypeOK
    <2> QED BY <1>1, <2>1, <2>2, SendToEffect, Zenon
  <1>3. wmPhase1WaitingCount' \in Nat
    BY <1>1, CountType DEF SaveCurrentSession
  <1>4. state' \in States
    BY DEF SaveCurrentSession, States, ShutdownOrLater, Saving
  <1> QED
    BY <1>1, <1>2, <1>3, <1>4
    DEF SaveCurrentSession, TypeOK, clientVars, listVars, otherVars, timerVars,
        ResetState

LEMMA SubSessionType ==
  ASSUME TypeOK, NEW close \in SUBSET registered,
         NEW only \in SUBSET (registered \ close), SaveSubSession(close, only)
  PROVE  TypeOK'
  <1> DEFINE to == close \cup only
  <1>1. to \in SUBSET clients
    BY DEF TypeOK
  <1>2. /\ inSave' \subseteq clients
        /\ mayInteract' \subseteq clients
        /\ canCancel' \subseteq clients
    <2>1. SmsSaveYourself({}, to, TRUE, TRUE)
      BY DEF SaveSubSession
    <2>2. /\ inSave \subseteq clients
          /\ mayInteract \subseteq clients
          /\ canCancel \subseteq clients
      BY DEF TypeOK
    <2> QED BY <1>1, <2>1, <2>2, SendToEffect, Zenon
  <1>3. Complete("ClosingSubSession", waitForPhase2 \ to,
                 clientsToSave \cup close \cup only, clientsToKill \cup close)
    BY DEF SaveSubSession
  <1>4. /\ state' \in States
        /\ waitForPhase2' \subseteq clients
        /\ shots' \in [Slots -> 0 .. MaxShots]
    <2>1. shots \in ShotsType
      BY DEF TypeOK, ShotsType
    <2> QED
      BY <1>3, <2>1, CompleteEffect
      DEF TypeOK, States, ShutdownOrLater, Saving, ShotsType
  <1> QED
    BY <1>1, <1>2, <1>4
    DEF SaveSubSession, TypeOK, clientVars, otherVars, StartProtection

LEMMA RequestType ==
  ASSUME TypeOK, Request
  PROVE  TypeOK'
  <1>1. CASE LogoutRequested
    BY <1>1, ShutdownType DEF LogoutRequested
  <1>2. CASE DialogAnswered
    <2>1. CASE BeginShutdown
      BY <1>2, <2>1, BeginShutdownType DEF DialogAnswered, TypeOK
    <2>2. CASE ~BeginShutdown
      BY <1>2, <2>2
      DEF DialogAnswered, TypeOK, roundVars, listVars, clientVars, flagVars,
          smVars, saveVars
    <2> QED BY <2>1, <2>2
  <1>3. CASE SaveCurrentSession
    BY <1>3, SaveRequestType
  <1>4. ASSUME NEW close \in SUBSET registered,
               NEW only \in SUBSET (registered \ close),
               SaveSubSession(close, only)
        PROVE  TypeOK'
    BY <1>4, SubSessionType
  <1>5. CASE RestoreSubSession \/ SubSessionRestored
    BY <1>5
    DEF RestoreSubSession, SubSessionRestored, allButState, TypeOK, roundVars,
        listVars, otherVars, clientVars, flagVars, timerVars, smVars, saveVars,
        States, ShutdownOrLater
  <1>6. ASSUME NEW p \in Program, WMChanged(p)
        PROVE  TypeOK'
    BY <1>6
    DEF WMChanged, TypeOK, roundVars, listVars, clientVars, flagVars, timerVars,
        smVars, saveVars
  <1> QED BY <1>1, <1>2, <1>3, <1>4, <1>5, <1>6 DEF Request

(* The two ways for a message to be counted: as the answer of c, or not. *)
LEMMA Phase1DoneType ==
  ASSUME TypeOK, NEW c \in clients, NEW answered \in SUBSET {c},
         WMPhase1Done(c, answered)
  PROVE  /\ inSave' \subseteq clients
         /\ mayInteract' \subseteq clients
         /\ canCancel' \subseteq clients
         /\ asked' \subseteq clients
         /\ wmPhase1WaitingCount' \in Nat
         /\ saveType' = saveType
  <1>1. PICK rest \in SUBSET clients :
          /\ SmsSaveYourself(answered, rest, ForLogout, ForLogout)
          /\ asked' = asked \cup rest
    BY DEF WMPhase1Done, Others
  <1>2. /\ inSave \subseteq clients
        /\ mayInteract \subseteq clients
        /\ canCancel \subseteq clients
        /\ asked \subseteq clients
    BY DEF TypeOK
  <1>3. /\ inSave' \subseteq clients
        /\ mayInteract' \subseteq clients
        /\ canCancel' \subseteq clients
    BY <1>1, <1>2, SendEffect, Zenon
  <1>4. wmPhase1WaitingCount' \in Nat /\ saveType' = saveType
    BY DEF WMPhase1Done, CountsAsWM, TypeOK
  <1> QED
    BY <1>1, <1>2, <1>3, <1>4

LEMMA AnswerType ==
  ASSUME TypeOK, NEW c \in Client,
         SaveYourselfDone(c) \/ SaveYourselfDoneIdle(c)
           \/ Phase2Request(c)
  PROVE  TypeOK'
  <1>1. ASSUME SaveYourselfDone(c) \/ SaveYourselfDoneIdle(c)
                 \/ Phase2Request(c)
        PROVE  c \in clients
    BY <1>1
    DEF SaveYourselfDone, SaveYourselfDoneIdle, Phase2Request,
        SaveYourselfDoneArrives, TypeOK
  <1>2. shots \in ShotsType
    BY DEF TypeOK, ShotsType
  <1>3. ASSUME SmsSaveYourself({c}, {}, FALSE, FALSE)
        PROVE  /\ inSave' \subseteq clients
               /\ mayInteract' \subseteq clients
               /\ canCancel' \subseteq clients
    <2>1. /\ inSave \subseteq clients
          /\ mayInteract \subseteq clients
          /\ canCancel \subseteq clients
      BY DEF TypeOK
    <2> QED BY <1>3, <2>1, AnsweredEffect, Zenon
  <1>4. CASE SaveYourselfDone(c)
    <2>1. Complete(state, waitForPhase2, clientsToSave, clientsToKill)
      BY <1>4 DEF SaveYourselfDone
    <2>2. /\ state' \in States
          /\ waitForPhase2' \subseteq clients
          /\ shots' \in [Slots -> 0 .. MaxShots]
      BY <1>2, <2>1, CompleteEffect
      DEF TypeOK, States, ShutdownOrLater, Saving, Leaving, ShotsType
    <2>3. /\ inSave' \subseteq clients
          /\ mayInteract' \subseteq clients
          /\ canCancel' \subseteq clients
          /\ asked' \subseteq clients
          /\ wmPhase1WaitingCount' \in Nat
          /\ saveType' = saveType
      <3>1. CASE c \in wasPhase2
        <4>1. SmsSaveYourself({c}, {}, FALSE, FALSE) /\ UNCHANGED roundVars
          BY <1>4, <3>1 DEF SaveYourselfDone
        <4> QED
          BY <1>1, <1>3, <1>4, <4>1 DEF TypeOK, roundVars
      <3>2. CASE c \notin wasPhase2
        <4>1. WMPhase1Done(c, {c})
          BY <1>4, <3>2 DEF SaveYourselfDone
        <4> QED
          BY <1>1, <1>4, <4>1, Phase1DoneType
      <3> QED BY <3>1, <3>2
    <2> QED
      BY <1>1, <1>4, <2>2, <2>3
      DEF SaveYourselfDone, TypeOK, clientVars, otherVars, StartProtection
  <1>5. CASE SaveYourselfDoneIdle(c)
    <2>1. SmsSaveYourself({c}, {}, FALSE, FALSE)
      BY <1>5 DEF SaveYourselfDoneIdle
    <2> QED
      BY <1>1, <1>3, <1>5, <2>1
      DEF SaveYourselfDoneIdle, TypeOK, serverVars, roundVars, listVars,
          otherVars, clientVars, flagVars, timerVars
  <1>6. CASE Phase2Request(c)
    <2>1. Complete(state, waitForPhase2 \cup {c}, clientsToSave, clientsToKill)
      BY <1>6 DEF Phase2Request
    <2>2. /\ state' \in States
          /\ waitForPhase2' \subseteq clients
          /\ shots' \in [Slots -> 0 .. MaxShots]
      BY <1>1, <1>2, <1>6, <2>1, CompleteEffect
      DEF TypeOK, States, ShutdownOrLater, Saving, Leaving, ShotsType
    <2>3. WMPhase1Done(c, {})
      BY <1>6 DEF Phase2Request
    <2>4. /\ inSave' \subseteq clients
          /\ mayInteract' \subseteq clients
          /\ canCancel' \subseteq clients
          /\ asked' \subseteq clients
          /\ wmPhase1WaitingCount' \in Nat
          /\ saveType' = saveType
      BY <1>1, <1>6, <2>3, Phase1DoneType
    <2> QED
      BY <1>1, <1>6, <2>2, <2>4
      DEF Phase2Request, TypeOK, clientVars, otherVars
  <1> QED BY <1>4, <1>5, <1>6, <1>6

LEMMA ConnectionType ==
  ASSUME TypeOK, NEW c \in Client,
         NewClient(c) \/ RegisterClient(c) \/ ClientSetProgram(c)
           \/ ClientSaveRequest(c)
  PROVE  TypeOK'
  <1>1. CASE NewClient(c)
    BY <1>1
    DEF NewClient, TypeOK, serverVars, roundVars, listVars, otherVars, flagVars,
        timerVars, smVars, saveVars
  <1>2. ASSUME NEW interact, c \in clients,
               SmsSaveYourself({}, {c}, FALSE, interact)
        PROVE  /\ inSave' \subseteq clients
               /\ mayInteract' \subseteq clients
               /\ canCancel' \subseteq clients
    BY <1>2, ConstantsAssumption DEF SmsSaveYourself, TypeOK
  <1>3. CASE RegisterClient(c)
    <2>1. c \in clients /\ SmsSaveYourself({}, {c}, FALSE, FALSE)
      BY <1>3 DEF RegisterClient
    <2>2. /\ inSave' \subseteq clients
          /\ mayInteract' \subseteq clients
          /\ canCancel' \subseteq clients
      BY <1>2, <2>1, Zenon
    <2> QED
      BY <1>3, <2>1, <2>2
      DEF RegisterClient, TypeOK, serverVars, roundVars, listVars, otherVars,
          flagVars, timerVars
  <1>4. CASE ClientSetProgram(c)
    BY <1>4
    DEF ClientSetProgram, TypeOK, serverVars, roundVars, listVars, otherVars,
        flagVars, timerVars, smVars, saveVars
  <1>5. CASE ClientSaveRequest(c)
    <2>1. PICK interact \in BOOLEAN : SmsSaveYourself({}, {c}, FALSE, interact)
      BY <1>5 DEF ClientSaveRequest
    <2>2. c \in clients
      BY <1>5 DEF ClientSaveRequest, TypeOK
    <2>3. /\ inSave' \subseteq clients
          /\ mayInteract' \subseteq clients
          /\ canCancel' \subseteq clients
      BY <1>2, <2>1, <2>2, Zenon
    <2> QED
      BY <1>5, <2>3
      DEF ClientSaveRequest, TypeOK, serverVars, roundVars, listVars, otherVars,
          clientVars, flagVars, timerVars
  <1> QED BY <1>1, <1>3, <1>4, <1>5

LEMMA InteractionType ==
  ASSUME TypeOK, NEW c \in Client,
         InteractRequest(c) \/ InteractDoneStray(c) \/ InteractDone(c)
           \/ CancelShutdown(c)
  PROVE  TypeOK'
  <1>1. CASE InteractRequest(c)
    <2> DEFINE queued == state \in {"Shutdown", "ClosingSubSession"}
               pending == IF queued THEN pendingInteraction \cup {c}
                                    ELSE pendingInteraction
               inter == IF queued THEN interacting ELSE interacting \cup {c}
    <2>1. /\ c \in clients
          /\ pending \subseteq clients
          /\ inter \subseteq clients
          /\ clients' = clients /\ clients \subseteq Client
      BY <1>1 DEF InteractRequest, TypeOK, clientVars
    <2>2. /\ clientInteracting' \in Client \cup {NoClient}
          /\ pendingInteraction' \subseteq clients
          /\ interacting' \subseteq clients
          /\ protectionTimer' \in BOOLEAN
      <3>1. CASE clientInteracting # NoClient
        BY <1>1, <2>1, <3>1 DEF InteractRequest, TypeOK
      <3>2. CASE clientInteracting = NoClient
        <4>1. HandlePendingInteractions(pending, inter)
          BY <1>1, <3>2 DEF InteractRequest
        <4> HIDE DEF pending, inter
        <4>2. clients' \subseteq Client
          BY <2>1
        <4>3. /\ clientInteracting' \in clients' \cup {NoClient}
              /\ pendingInteraction' \subseteq pending
              /\ interacting' \subseteq inter \cup clients'
              /\ protectionTimer' \in BOOLEAN
          BY <4>1, <4>2, HandleEffect, Zenon
        <4> QED BY <2>1, <4>2, <4>3
      <3> QED BY <3>1, <3>2
    <2> QED
      BY <1>1, <2>1, <2>2
      DEF InteractRequest, TypeOK, clientVars, otherVars, roundVars, listVars,
          saveVars
  <1>2. CASE InteractDoneStray(c)
    BY <1>2
    DEF InteractDoneStray, TypeOK, serverVars, roundVars, listVars, otherVars,
        clientVars, flagVars, timerVars, saveVars
  <1>3. CASE InteractDone(c)
    <2>1. /\ HandlePendingInteractions(pendingInteraction, interacting \ {c})
          /\ clients' = clients /\ clients \subseteq Client
      BY <1>3 DEF InteractDone, TypeOK, clientVars
    <2>2. /\ clientInteracting' \in Client \cup {NoClient}
          /\ pendingInteraction' \subseteq clients
          /\ interacting' \subseteq clients
          /\ protectionTimer' \in BOOLEAN
      <3>1. clients' \subseteq Client
        BY <2>1
      <3>2. /\ clientInteracting' \in clients' \cup {NoClient}
            /\ pendingInteraction' \subseteq pendingInteraction
            /\ interacting' \subseteq (interacting \ {c}) \cup clients'
            /\ protectionTimer' \in BOOLEAN
        BY <2>1, <3>1, HandleEffect, Zenon
      <3> QED BY <2>1, <3>2 DEF TypeOK
    <2> QED
      BY <1>3, <2>1, <2>2
      DEF InteractDone, TypeOK, clientVars, otherVars, roundVars, listVars,
          saveVars
  <1>4. CASE CancelShutdown(c)
    BY <1>4
    DEF CancelShutdown, StopSuppressingSleep, TypeOK, States, ShutdownOrLater,
        roundVars, listVars, clientVars, flagVars, timerVars
  <1> QED BY <1>1, <1>2, <1>3, <1>4

LEMMA ForgetType ==
  ASSUME TypeOK, NEW c \in clients, Forget(c), created' = created
  PROVE  /\ clients' = clients \ {c}
         /\ clientInteracting' \in clients' \cup {NoClient, clientInteracting}
         /\ clientInteracting' \in Client \cup {NoClient}
         /\ clients' \subseteq created'
         /\ registered' \subseteq clients'
         /\ identified' \subseteq registered'
         /\ saveYourselfDone' \subseteq clients'
         /\ pendingInteraction' \subseteq clients'
         /\ wasPhase2' \subseteq clients'
         /\ protectionTimer' \in BOOLEAN
         /\ inSave' \subseteq clients'
         /\ mayInteract' \subseteq clients'
         /\ canCancel' \subseteq clients'
         /\ interacting' \subseteq clients'
         /\ asked' \subseteq clients'
  <1>1. /\ clients' = clients \ {c}
        /\ clients' \subseteq Client
        /\ clients' \subseteq created'
        /\ registered' \subseteq clients'
        /\ identified' \subseteq registered'
        /\ saveYourselfDone' \subseteq clients'
        /\ wasPhase2' \subseteq clients'
        /\ inSave' \subseteq clients'
        /\ mayInteract' \subseteq clients'
        /\ canCancel' \subseteq clients'
        /\ asked' \subseteq clients'
    BY DEF Forget, TypeOK
  <1>2. /\ clientInteracting' \in clients' \cup {NoClient, clientInteracting}
        /\ clientInteracting' \in Client \cup {NoClient}
        /\ pendingInteraction' \subseteq clients'
        /\ interacting' \subseteq clients'
        /\ protectionTimer' \in BOOLEAN
    <2>1. CASE c = clientInteracting
      <3>1. HandlePendingInteractions(pendingInteraction \ {c}, interacting \ {c})
        BY <2>1 DEF Forget
      <3>2. clients' \subseteq Client
        BY <1>1
      <3>3. /\ clientInteracting' \in clients' \cup {NoClient}
            /\ pendingInteraction' \subseteq pendingInteraction \ {c}
            /\ interacting' \subseteq (interacting \ {c}) \cup clients'
            /\ protectionTimer' \in BOOLEAN
        BY <3>1, <3>2, HandleEffect, Zenon
      <3> QED BY <1>1, <3>3 DEF TypeOK
    <2>2. CASE c # clientInteracting
      BY <1>1, <2>2 DEF Forget, TypeOK
    <2> QED BY <2>1, <2>2
  <1> QED BY <1>1, <1>2

LEMMA KillWMType ==
  ASSUME NEW cs, NEW sh \in ShotsType, KillWM(cs, sh), quit \in BOOLEAN
  PROVE  state' = "KillingWM" /\ shots' \in ShotsType /\ quit' \in BOOLEAN
  <1>1. "timeoutWMQuit" \in Slots
    BY DEF Slots
  <1> QED BY <1>1, ShootType DEF KillWM

LEMMA CompleteKillingType ==
  ASSUME NEW cs, NEW sh \in ShotsType, CompleteKilling(cs, sh), quit \in BOOLEAN
  PROVE  /\ state' \in {"Killing", "KillingWM"}
         /\ shots' \in ShotsType
         /\ quit' \in BOOLEAN
  BY KillWMType DEF CompleteKilling

LEMMA DeleteClientType ==
  ASSUME TypeOK, NEW c \in Client, DeleteClient(c)
  PROVE  TypeOK'
  <1>1. /\ c \in clients
        /\ Forget(c)
        /\ created' = created
        /\ shots \in ShotsType
        /\ quit \in BOOLEAN
    BY DEF DeleteClient, TypeOK, ShotsType
  <1>2. /\ state' \in States
        /\ shots' \in ShotsType
        /\ quit' \in BOOLEAN
        /\ waitForPhase2' \subseteq clients \ {c}
    <2>1. CASE state \notin {"Killing", "KillingSubSession", "KillingWM"}
      <3>1. /\ Complete(state, waitForPhase2 \ {c}, SaveListWithout(c),
                        KillListWithout(c))
            /\ quit' = quit
        BY <2>1 DEF DeleteClient
      <3> QED
        BY <1>1, <3>1, CompleteEffect
        DEF TypeOK, States, ShutdownOrLater, Saving, Leaving
    <2>2. CASE state = "Killing"
      <3>1. /\ CompleteKilling(clients \ {c}, shots)
            /\ waitForPhase2' = waitForPhase2 \ {c}
        BY <2>2 DEF DeleteClient
      <3> QED
        BY <1>1, <3>1, CompleteKillingType
        DEF TypeOK, States, ShutdownOrLater, Leaving
    <2>3. CASE state \in {"KillingSubSession", "KillingWM"}
      BY <1>1, <2>3
      DEF DeleteClient, TypeOK, States, ShutdownOrLater, Leaving
    <2> QED BY <2>1, <2>2, <2>3
  <1> QED
    BY <1>1, <1>2, ForgetType DEF DeleteClient, TypeOK, ShotsType

LEMMA StartKillingType ==
  ASSUME TypeOK, NEW sh \in ShotsType, StartKilling(sh)
  PROVE  TypeOK'
  <1>1. "timeoutQuit" \in Slots
    BY DEF Slots
  <1>2. Shoot(sh, "timeoutQuit") \in ShotsType
    BY <1>1, ShootType
  <1>3. /\ state' \in {"Killing", "KillingWM"}
        /\ shots' \in ShotsType
        /\ quit' \in BOOLEAN
    BY <1>2, CompleteKillingType DEF StartKilling, TypeOK
  <1> QED
    BY <1>3
    DEF StartKilling, TypeOK, ShotsType, States, ShutdownOrLater, Leaving,
        roundVars, listVars, clientVars, flagVars, smVars, saveVars

LEMMA TimerType ==
  ASSUME TypeOK, Timer \/ LogoutSoundFinished
  PROVE  TypeOK'
  <1>1. shots \in ShotsType
    BY DEF TypeOK, ShotsType
  <1>2. ASSUME NEW slot \in Slots, Fire(slot)
        PROVE  Fired(slot) \in ShotsType
    BY <1>1, <1>2, FiredType
  <1>3. ASSUME NEW slot \in Slots, Fire(slot), ShotSpent(slot)
        PROVE  TypeOK'
    <2>1. shots' \in ShotsType
      BY <1>2, <1>3 DEF ShotSpent
    <2> QED
      BY <1>3, <2>1
      DEF ShotSpent, TypeOK, ShotsType, serverVars, roundVars, listVars,
          otherVars, clientVars, flagVars, smVars, saveVars
  <1>4. CASE PendingShutdownTimeout
    BY <1>4, ShutdownType DEF PendingShutdownTimeout, TypeOK
  <1>5. CASE ProtectionTimeoutIgnored
    BY <1>5
    DEF ProtectionTimeoutIgnored, EndProtection, TypeOK, serverVars, roundVars,
        listVars, otherVars, clientVars, flagVars, smVars, saveVars
  <1>6. CASE ProtectionTimeout
    <2>1. Complete(state, waitForPhase2, clientsToSave, clientsToKill)
      BY <1>6 DEF ProtectionTimeout
    <2>2. /\ state' \in States
          /\ waitForPhase2' \subseteq clients
          /\ shots' \in [Slots -> 0 .. MaxShots]
      BY <1>1, <2>1, CompleteEffect
      DEF TypeOK, States, ShutdownOrLater, Saving, Leaving, ShotsType
    <2> QED
      BY <1>6, <2>2
      DEF ProtectionTimeout, StartProtection, GivenUp, TypeOK, roundVars,
          otherVars, clientVars, smVars, saveVars
  <1>7. CASE LogoutSoundTimeout
    <2>1. "logoutSound" \in Slots
      BY DEF Slots
    <2> QED
      BY <1>2, <1>3, <1>7, <2>1, StartKillingType DEF LogoutSoundTimeout
  <1>8. CASE TimeoutQuit
    <2>1. "timeoutQuit" \in Slots
      BY DEF Slots
    <2>2. CASE state = "Killing"
      <3>1. KillWM(clients, Fired("timeoutQuit"))
        BY <1>8, <2>2 DEF TimeoutQuit
      <3>2. state' = "KillingWM" /\ shots' \in ShotsType /\ quit' \in BOOLEAN
        BY <1>2, <1>8, <2>1, <3>1, KillWMType DEF TimeoutQuit, TypeOK
      <3> QED
        BY <1>8, <2>2, <3>2
        DEF TimeoutQuit, TypeOK, ShotsType, States, ShutdownOrLater, Leaving,
            roundVars, listVars, clientVars, flagVars, smVars, saveVars
    <2>3. CASE state # "Killing"
      BY <1>3, <1>8, <2>1, <2>3 DEF TimeoutQuit
    <2> QED BY <2>2, <2>3
  <1>9. CASE TimeoutWMQuit
    <2>1. "timeoutWMQuit" \in Slots
      BY DEF Slots
    <2>2. shots' \in ShotsType
      BY <1>2, <1>9, <2>1 DEF TimeoutWMQuit
    <2> QED
      BY <1>9, <2>2
      DEF TimeoutWMQuit, TypeOK, ShotsType, roundVars, listVars, clientVars,
          flagVars, smVars, saveVars
  <1>10. CASE SignalSubSessionClosed
    <2>1. "subSession" \in Slots
      BY DEF Slots
    <2>2. CASE state = "KillingSubSession"
      <3>1. shots' \in ShotsType /\ state' = "Idle"
        BY <1>2, <1>10, <2>1, <2>2 DEF SignalSubSessionClosed
      <3> QED
        BY <1>10, <2>2, <3>1
        DEF SignalSubSessionClosed, TypeOK, ShotsType, States, roundVars,
            otherVars, clientVars, flagVars, smVars, saveVars
    <2>3. CASE state # "KillingSubSession"
      BY <1>3, <1>10, <2>1, <2>3 DEF SignalSubSessionClosed
    <2> QED BY <2>2, <2>3
  <1>11. CASE LogoutSoundFinished
    BY <1>1, <1>11, StartKillingType DEF LogoutSoundFinished
  <1> QED
    BY <1>4, <1>5, <1>6, <1>7, <1>8, <1>9, <1>10, <1>11 DEF Timer

(* Every flag, list entry and timer of the server is one of a client that is *)
(* connected: the type invariant holds for any number of clients.            *)
THEOREM TypeCorrect == Spec => []TypeOK
  <1>1. Init => TypeOK
    <2> SUFFICES ASSUME Init
                 PROVE  TypeOK
      OBVIOUS
    <2>1. shots \in [Slots -> 0 .. MaxShots]
      BY ConstantsAssumption DEF Init
    <2>2. state \in States
      BY DEF Init, States
    <2> QED
      BY <2>1, <2>2, ConstantsAssumption DEF Init, TypeOK
  <1>2. TypeOK /\ [Next]_vars => TypeOK'
    <2> SUFFICES ASSUME TypeOK, [Next]_vars
                 PROVE  TypeOK'
      OBVIOUS
    <2>1. CASE FinishStartup
      BY <2>1
      DEF FinishStartup, allButState, TypeOK, States, roundVars, listVars,
          otherVars, clientVars, flagVars, timerVars, smVars, saveVars
    <2>2. CASE LogoutSoundFinished \/ Timer
      BY <2>2, TimerType
    <2>3. CASE Request
      BY <2>3, RequestType
    <2>4. ASSUME NEW c \in Client, ClientMessage(c)
          PROVE  TypeOK'
      BY <2>4, ConnectionType, AnswerType, InteractionType, DeleteClientType
      DEF ClientMessage
    <2>5. CASE UNCHANGED vars
      BY <2>5
      DEF vars, allButState, TypeOK, roundVars, listVars, otherVars, clientVars,
          flagVars, timerVars, smVars, saveVars
    <2> QED
      BY <2>1, <2>2, <2>3, <2>4, <2>5 DEF Next, Terminated
  <1> QED
    BY <1>1, <1>2, PTL DEF Spec
==============================================================================
