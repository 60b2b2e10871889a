# A verification development for KDE Workspace

TLA+ models of parts of this repository, checked with TLC, with theorems
proved by TLAPS. Paths below are relative to `src/`.

KDE Workspace is some thirty programs that talk over D-Bus, X11 and XSMP. Each
is a single-threaded Qt program driven by its event loop, so what is hard in
it is not threads but *messages and timers in an order nobody wrote a test
for*: a client that never answers, answers late or vanishes; a timer that
outlives what it was started for; a nested event loop in the middle of a
handler; raw pointers to objects that go away in between. The development
starts where this is worst, in the session manager, and goes on with two
services that call each other and with the window manager's bookkeeping.

| part | modules | checked by | proved in |
|---|---|---|---|
| ksmserver, leaving a session | `KSMServer` | `ksm_logout`, `ksm_requests`, `ksm_fair`, `ksm_v_*` | `KSMServerProofs`, `KSMServerSafetyProofs` |
| ksmserver, starting a session | `KSMStartup`, implementing `StartupSequence` | `ksm_startup`, `ksm_v_aborted` | `KSMStartupProofs` |
| klipper, the history | `KlipperHistory`, implementing `CyclingHistory` | `klipper_history`, `klipper_v_cursor` | `KlipperHistoryProofs` |
| powerdevil's policy agent and the screen locker, on the bus | `PolicyAgent`, `ScreenLocker`, composed in `SessionServices` | `session_services` | `PolicyAgentProofs`, `SessionServicesProofs` |
| kwin, focus chains and desktops | `VirtualDesktops`, `FocusChain`, composed in `KWinFocus` | `kwin_focus`, `kwin_v_wrap` | `KWinFocusProofs`, `KWinWindowsProofs` |

`MC...` modules hold the instances for TLC. A definition called `Slip...` is a
plausible mistake in the definition after it; no action uses it. With the slip
in place of that definition, a property of the run must fail.

## 1. Inventory

### 1.1 The components with logic of their own

**ksmserver: leaving the session** (`ksmserver/shutdown.cpp`, `server.cpp`,
`client.cpp`, `server.h`).
*State*: `state`, `dialogActive`, the list of `KSMClient`s with four flags each
(`saveYourselfDone`, `pendingInteraction`, `waitForPhase2`, `wasPhase2`),
`clientInteracting`, `clientsToKill`, `clientsToSave`, `wmPhase1WaitingCount`,
`saveType`, the window manager's name, the protection timer, the pending
shutdown, single-shot timers. libSM keeps a state of its own per connection.
*Operations*: logout, checkpoint, saving and restoring sub-sessions (D-Bus);
connect, register, set properties, save request, SaveYourselfDone, phase 2
request, interact request, interact done, connection closed (XSMP); the timers;
the end of the logout sound.
*Interaction*: XSMP to every application and the window manager, D-Bus to
plasma and kded, a dialog with a nested event loop, a sleep inhibition.
*Hard*: silent and vanishing clients, late answers of an earlier round, timers
that survive a cancelled logout, the window manager first and last.
*Correct if*: a logout ends, is cancelled or waits for the user; the window
manager saves first and dies last; no client is forgotten; sleep is suppressed
exactly meanwhile; no pointer dangles.

**ksmserver: starting the session** (`startup.cpp`).
*State*: the phase, `startupSuspendCount`, the suspension timer,
`kcminitSignals`, `waitAutoStart2`, `waitKcmInit2`, the saved session's
position (`appsToStart`, `lastAppStarted`, `lastIdStarted`), the restore timer.
*Operations*: the end of each phase, suspend and resume, the window manager
identified, failed or late, an application registered or gone,
`restoreSubSession`.
*Interaction*: klauncher and kcminit by D-Bus signals; clients suspend it.
*Hard*: each phase is ended by one of several: a signal, a timer, a resumed
suspension; some may come twice, late or never.
*Correct if*: all phases run in turn and every saved application is started
once, whoever is silent.

**ksmserver: session store** (`server.cpp`, `legacy.cpp`). Which clients'
restart and discard commands are stored, by `storeSession`, and discarded when
they are no longer used. *Correct if* no discard command runs for a state that
a stored session still names.

**ksmserver: screen locker** (`screenlocker/ksldapp.cpp`, `interface.cpp`,
`lockwindow.cpp`). *State*: lock state, grace time and its timer, the greeter's
process, `m_requests` with the cookies of the policy agent in them, the inhibit
counter, delayed D-Bus replies, the services watched. *Operations*: Lock,
Inhibit, UnInhibit over D-Bus; a service gone; idle timeout, end of the grace
time, activity at the lock window, the shortcut; the greeter ready, finished or
failed. *Interaction*: a blocking call of the policy agent inside Inhibit.
*Hard*: the greeter fails and is restarted; callers vanish; the policy agent is
restarted or waits for the locker. *Correct if* every caller of `Lock` is
answered, and the inhibitions held are those of living services.

**klipper: history** (`klipper/history.cpp`, `historyitem.cpp`). *State*: a
hash of items linked into a ring by the identifiers of their neighbours, the
top item, `m_nextCycle`, the maximal size. *Operations*: insert, choose, cycle
forth and back, edit, clear, resize. *Hard*: relinking up to four neighbours
that may coincide; two raw pointers into a ring whose end is deleted.
*Correct if* it is an ordered list with a cursor.

**klipper: clipboard and actions** (`klipper.cpp`, `urlgrabber.cpp`). Keeps
clipboard, selection and history in step. *Hard*: it sees its own changes
(`m_locklevel`), and polling beside signals.

**powerdevil: policy agent** (`powerdevil/daemon/powerdevilpolicyagent.cpp`,
`powerdevilfdoconnector.cpp`). *State*: inhibitions by cookie, by type and by
D-Bus service; the services watched. *Operations*: AddInhibition,
ReleaseInhibition, forced release of all, a service gone. *Interaction*: a
signal with the unavailable policies; a blocking call of the screen locker when
the login manager asks for the lock. *Hard*: services that vanish, release
twice, restart. *Correct if* the policies announced last are those of the
cookies held by living services.

**powerdevil: core and actions** (`powerdevilcore.cpp`, `powerdevilaction.cpp`).
Profile, idle timeouts, actions with their policies.

**statusnotifierwatcher**. Registry of tray items and hosts; an item is
registered after a synchronous question to the bus.

**kwin: focus chain** (`kwin/focuschain.cpp`, `virtualdesktops.cpp`,
`tabbox/desktopchain.cpp`). *State*: windows in most recently used order, per
desktop and over all; desktops in that order; count and current desktop.
*Operations*: every change of a window's desktop, focus, visibility and
existence, and every change of the desktops, updates them by direct signals.
*Hard*: plain pointers; several lists with rules of their own for each kind of
move; a shrinking number of desktops. *Correct if* each chain holds every window
that belongs to it once, and walks along the chains see all and come back.

**kwin: window management** (stacking, activation, placement, rules): the part
that meets the focus chains is modelled. **kdm** (displays, their servers and
sessions), **kephal**, **taskmanager**, **ksysguard** (a sensor agent's queue of
requests), **keyboard layout memory**: candidates for later, each with a core
that could be modelled.

### 1.2 The others

kwin's compositing, effects, decorations, scripting and tab box; the logout
dialog and effects; the greeter; kcminit, kcheckpass, khotkeys, krunner,
kscreensaver, ksplash, appmenu, freespacenotifier, kwrited, ksystraycmd,
ktouchpadenabler, kstartupconfig; plasma, the control modules, systemsettings
and the other editors, the styles. They are user interface, drawing, input and
output, or a call or two to another component; PROJECT.json gives the reason
for each.

### 1.3 Hazards

PROJECT.json lists, at their lines, the places of this code that are hard to
test, with the properties that watch them, and why some have none.

## 2. Leaving a session: `KSMServer`

### How it corresponds to the code

One action is one handler run to completion. The logout dialog is the
exception: `Shutdown` opens it (`ShutdownAsks`) and `DialogAnswered` goes on
with whatever state it finds, and all other actions may run in between.

| code | model |
|---|---|
| `clients`, flags of `KSMClient` | sets of clients: `clients`, `saveYourselfDone`, `pendingInteraction`, `waitForPhase2`, `wasPhase2` |
| `KSMClient::program()` and `isWM` | `identified`, `ProgramOf`, `wm` |
| a `KSMClient*` or 0 | an element of `Client` or `NoClient`; every connection is a new `Client` (`created`) |
| `shutdown()` | `Shutdown` = `ShutdownIgnored`, `ShutdownNotNow`, `ShutdownAsks`, `ShutdownAtOnce`, then `BeginShutdown` |
| `completeShutdownOrCheckpoint()` | `Complete`, called with the flags its caller has already changed |
| `handlePendingInteractions()` | `HandlePendingInteractions` |
| `startKilling`, `completeKilling`, `killWM` | `StartKilling`, `CompleteKilling`, `KillWM` |
| `QTimer::singleShot` of the killing phases | `shots`, a count per slot: they cannot be stopped, and outlive their phase |
| `protectionTimer`, `pendingShutdown` | `protectionTimer`, `pendingShutdown` |

libSM is external, and modelled from how the server uses it: it hands a
SaveYourselfDone on only while a save of that client is in progress (`inSave`;
otherwise it answers with an error and the server hears nothing), and allows
interaction and cancelling only if the SaveYourself said so (`mayInteract`,
`canCancel`). It does not know which SaveYourself is answered, so an answer may
be that of an earlier round. `asked` is a history variable: who has been sent a
SaveYourself in this round.

What a client may do is not restricted to what it should do: it may stay
silent, answer late, answer while it waits for its turn to interact or for
phase 2, request phase 2 at any time and repeatedly, interact without end, or
vanish at any time. `Requests` selects which requests the environment and the
clients make, so that an instance can ask one question at a time; with
`"outOfTurn"` a client also answers and requests while it interacts, when XSMP
expects InteractDone and neither libSM nor the server insists.

Left out: the stored session's content, `SmSaveGlobal` (treated as Both), the
sound, the kind of halt, the text of dialogs. The nested loop runs other
handlers but not a second dialog, as in the code.

### The runs

* `ksm_logout`: a window manager and one application, and one more that may
  connect at any time. Sleep is suppressed exactly while the session is being
  left (`InhibitedWhileLeaving`); clients wait for their turn to talk to the
  user only while somebody has it (`InteractionServed`); the window manager
  finishes its phase 1 before anybody else is asked (`WMFirst`) and is killed
  when all others are gone or a `timeoutQuit` fired (`WMLast`). That need not be
  the timer of this logout: one left over from a logout that was cancelled
  while clients were killed satisfies it too, and cuts the ten seconds short,
  as it does in the code.
* `ksm_requests`: checkpoints, local saves, phase 2, a changed window manager,
  fast logouts and `restoreSubSession` from any state. A checkpoint never gives
  a client a shutdown to cancel (`CheckpointIsSilent`), and a save is always
  driven by the protection timer or the user (`ProtectionArmed`).
* `ksm_fair`: logouts and sub-sessions, which the dialog's event loop lets
  overlap, under fairness. No pointer to a deleted client is kept
  (`NoDanglingClient`); silent clients hold up neither a logout
  (`ShutdownProgresses`) nor the closing of a sub-session (`SubSessionCloses`);
  once clients are being killed the program ends or the logout is cancelled
  (`KillingEnds`). Clients that interact keep to their turn here: without
  `"outOfTurn"` the state graph is a third the size, which the search for
  fair cycles needs.
* `ksm_v_quit`, `ksm_v_pending` show what the code does against what it says:
  see section 8.

*Bounds.* Two or three clients: one window manager, one client that interacts
and one that waits for its turn, is asked late or vanishes; all handlers treat
clients alike but for being a window manager. `MaxShots` is 1: a second timer
of the same kind only fires again, later than the first. The theorems hold for
every value of all of these.

*Fairness.* Only of timers: a timer that is due fires, as the event loop gets
to it. Nothing is assumed of the clients, the user or the sound. `FairSpec` also
assumes that the startup ends, which `ksm_startup` shows.

## 3. Starting a session: `KSMStartup`

`KSMServer`'s single state `Starting` in detail. Every phase's slot
(`AutoStart0`, `AutoStart0Done`, ..., `AutoStart2`) first asks
`checkStartupSuspend`: `HeldUp` or `Free`. Slots are called by a signal, by a
timer or by the end of a suspension, and are operators with the suspensions
they see as a parameter. `phaseOver` remembers that the phase's signal came and
was disconnected while the phase was held up. The saved session is a sequence
of entries (`Saved`), some not to be restarted; `tryRestoreNext` starts one and
waits for its registration or two seconds.

klauncher and kcminit are external. kcminit may be missing, silent or late;
klauncher is assumed to signal the end of each autostart phase.

* `ksm_startup`: kcminit, the window manager (which may fail and be replaced by
  kwin), two suspending clients with up to two suspensions each, and restored
  applications are late, silent or gone. In every phase something is outstanding
  that ends it (`StartupDriven`); the timer of the suspension runs only for the
  phase it holds up (`TimerMeansHeldUp`); and the whole implements
  `StartupSequence` (`ImplementsStartup`): the phases in turn, none left out; the
  applications of the saved session started between autostart phases 1 and 2, in
  their order, each once, and none passed over whose client is not back already;
  and the session comes up. The abstract specification counts the starts of each
  entry; the count it is mapped to (`starts`) is raised by every start of the
  model, so that starting an entry again, after a timeout or a late registration,
  is no step of it.
* `ksm_v_aborted`: see section 8.

*Bounds.* Three saved applications, one not to be restarted, and a sub-session
that shares one: the first, a skipped and the last entry, and an id that is
registered already. Two suspending clients, twice each: the last resume is told
from the others, of the same client and of another one.

*Fairness.* The timers, and the three signals of klauncher
(`AutoStart0Signalled`, `AutoStart1Signalled`, `AutoStart2Signalled`), for which
the server has no timer. Without them the session does not come up.

`SubSessions` says when `restoreSubSession` may be called: in `ksm_startup` once
the session is up, in `ksm_v_aborted` and in the theorems at any time.

## 4. The clipboard's history: `KlipperHistory`

The `History` object is the record `h` (`items`, the links `next` and `prev`,
`top`, `nextCycle`); its methods are operators from such records to such
records, with the names of the code; an action is one call from `klipper.cpp`
or one signal. Items are their identifiers. A pointer to an item that was
deleted or removed from the hash is `Gone`: inserting and choosing overwrite it,
cycling with it is not modelled. `nulls` are the identifiers that `m_items` has
an entry for, but no item. They come from editing the only item (`ReplaceOnly`):
`remove` leaves `m_top` at it, and `m_items[m_top->previous_uuid()]` of
`forceInsert` (`history.cpp:72`) makes an entry for it. Such an entry is counted,
and its text can never be inserted again. Where `trim` would delete the whole
ring for want of room beside null entries, it goes on after its last item: such
calls are left out, by a guard (`SetMaxSize`, `ReplaceOnly`; with a maximal size
of one this is every edit of the only item into another text).

* `klipper_history`: with `Editing = "careful"` and `Resizing = "kept"`. The
  links are always one ring of all the entries of the hash (`RingIsWhole`), never
  more than configured (`SizeBounded`), and ring, top and `m_nextCycle` together
  implement `CyclingHistory` (`ImplementsHistory`): an ordered list with a
  cursor, where cycling brings an item to the top for as long as the cursor is
  at it, and moves nothing else. The refinement mapping reads the order off the
  ring: the top item belongs just before the item at `m_nextCycle`.
* `klipper_v_cursor`: without these restrictions, see section 8.

"Careful" leaves out: editing the only item, editing an item into the text of
another one (when the new text is that of the item that comes next, `insert`
returns early and `m_nextCycle` stays at the top, so that cycling ends there),
and changes of the clipboard while the dialog of `slotEditData` runs its event
loop. `Editing = "beside"` leaves out editing the only item and nothing else: the
theorem on the ring assumes it or "careful". "Kept" leaves out a new maximal
size that trims the item at `m_nextCycle`.

*Bounds.* Five items, sizes 1, 2, 3 and 5: `cycleNext` and `cyclePrev` touch the
two moving items and their neighbours, at most four on a side of the ring that
can coincide, and all cases of one to five items occur; trimming goes from five
to one.

## 5. Two services on the bus: `SessionServices`

### How it corresponds to the code

`PolicyAgent` is the agent alone. Its four tables are variables (`held`,
`cookieToBusService`, `typesToCookie`, `watched`), and `announced` remembers the
last `unavailablePoliciesChanged`. `ReleaseInhibition`, `releaseAllInhibitions`
and `onServiceUnregistered` release one cookie after the other; their effect
together is `Release(cookies)`. The module has a specification of its own,
`AgentSpec`, in which anything may be called in any order: that is the abstract
side.

`ScreenLocker` has the two objects of the locker. `ksld` is the `KSldApp` (lock
state, greeter, grace time, `graceTimeKill` for the `lockProcessFinished` of a
greeter that `unlock()` terminated, inhibit counter), and `requests`,
`nextCookie`, `lockerWatched`, `lockReplies` are the `Interface`. `Inhibit` is
two actions, because it calls the policy agent in between: ksmserver handles
nothing meanwhile (`inhibiting`), and `InhibitReturns` gets the cookie, or 0
when the call failed. A greeter may exit at any time, also before it is ready,
with success (`GreeterSucceeds`) or not (`GreeterFails`). The SIGUSR1 that
`lock` sends to a running greeter has no action: it changes nothing here but by
ending a greeter that does not handle it yet, which is a failure of it.

`SessionServices` puts both, and the applications, on the session bus:

| code | model |
|---|---|
| a call of an application | appended to `agentQueue` or `lockerQueue`, handled by `AgentAdds`, `LockerLocks`, ... |
| what kded and ksmserver send | `agentOut`, `lockerOut`, in the order sent; `AgentSends` and `LockerSends` are the bus taking it |
| `QDBusServiceWatcher::addWatchedService` | an `AddMatch` before the answer, in effect (`matches`) once the bus has taken it |
| NameOwnerChanged | `Gone` to those whose match is in effect when the application goes |
| `forceLockAndWait` | `AgentForcesLock`; kded handles nothing until the `LockDone` of this call or `AgentTimesOut` |
| the time limit of a call | `AgentTimesOut`, `LockerTimesOut`: only where the other side really waits |
| kded ends and is started again | `AgentRestarts`: the bus answers with an error what it had not handled |

An application calls one service at a time, with the cookies it was given, also
twice, and may go at any moment, with a call under way or an answer on its
way. `lost` (a history variable) has the cookies whose answer came after
ksmserver gave up waiting. kded may be asked for the lock again when it gave up
waiting for the last one: ksmserver answers calls of Lock in the order it gets
them, so the answer waited for is there when all calls are answered (`forced`,
`locksAnswered`).

### The run `session_services`

* `TablesAgree`, `AnnouncedIsTrue`: the tables of the agent agree, and whoever
  listened to its signal knows the unavailable policies.
* `AnsweredIsWatched`: an application that has its answer is watched as long as
  an inhibition of its is kept, although both services stop and start watching
  the same name while messages are under way.
* `LockerCookiesAccounted`: what the agent holds for the locker belongs to one
  of its requests, or its cookie or release is under way, or it is lost.
* `ReleasesOwn`: until kded is restarted, nobody's release hits the inhibition
  of another. After a restart it may, as cookies start from 1 again.
* `CounterIsRequests`, `LockAgrees`: the automatic lock is held off exactly as
  long as there are requests; when the lock is gone so is the greeter, and
  nobody is left waiting for a reply to Lock.
* `CallsAreAnswered`: every call is answered in the end, though kded may wait
  for ksmserver while ksmserver waits for kded. A greeter that fails and cannot
  be started again is the exception.
* `GoneIsReleased`: an application that went leaves nothing behind with those
  that are told of it.

*Bounds.* Two applications and the locker: one whose inhibitions stay while
another one's go. Four events (`MaxEvents`: calls, ends, failures, restarts,
lock signals, user actions) of any kinds: add, release, add again and end is the
shortest sequence that stops and restarts a watch while its messages are under
way; lock signal, inhibition, release or restart, and end of the caller is the
longest of the mutual wait. Two lock signals: the second comes while the answer
to the first is late. One restart, one failed restart of the greeter: each is a
second event of its kind away from a state that it leaves reset. `GraceTimes` is `"timed"`; `"endless"` differs in the timer only, and
the theorems cover all.

*Fairness.* Weak fairness of `GoesOn` as one action, which is less than of each
of its parts: as long as the bus or an event loop has something to do, something
is done, a time limit runs out, a greeter that was started gets ready. Since
events are bounded, that is enough. Nothing is assumed of applications, the
user and the login manager.

## 6. Windows and desktops: `KWinFocus`

### How it corresponds to the code

kwin has one thread, and its signals here are direct calls: an X event or a
command of the user, with everything it calls, is one action.

`VirtualDesktops` is the count, the current desktop and the chain of desktops of
the tab box, which follows `currentChanged` and `countChanged`. `setCount` keeps
the order of the code: the count, then the current desktop (which is added to
the chain of the old length), then the chain's length. `FocusChain` is the
object `fc` with the operations of `focuschain.cpp` as functions of it and of
what they ask of a window (`desk`, `minimized`, `wantsTabFocus`). `KWinFocus`
has the windows and the handlers:

| code | model |
|---|---|
| `createClient`: `manage`, `addClient` | `Manage`; `ManageElsewhere` when a window that is activated takes the user to its desktop |
| `releaseWindow`, `destroyClient` | `Release` |
| `setActiveClient`, `focusInEvent`, `focusOutEvent` | `setActiveClient`, `FocusIn`, `FocusOut` |
| `requestFocus` | nothing: it asks the X server, which answers with a FocusIn, at any time or never |
| `clientHidden`, `activateNextClient` | `clientHidden` |
| `Workspace::restack` | `restack`: a set, as layers and the stacking order, in which it looks for the lowest window of the other application, are left out |
| `restackClientUnderActive` | `StackedUnderActive`: `restack` or, for a window of another layer, nothing |
| `Client::restackWindow` (a ConfigureRequest, `_NET_RESTACK_WINDOW`), the tab box's `restack` | `RestackWindow`: any window, also the active one, under any window, also itself |
| `activateClient` | `Activate` for a window of another desktop, otherwise `Unminimize`; then `FocusIn` |
| a MapRequest of a managed window, `mapRequestEvent` | `MapRequest`; `MapRequestElsewhere` when it is activated on another desktop |
| `minimize`, `isMinimizable` | `Minimize`: only what takes the focus is minimizable |
| `slotCurrentDesktopChanged` and what it calls | `WinsOnSwitch`, `ChainsOnSwitch` |
| `moveClientsFromRemovedDesktops` | `SentInOrder`, in any order of the windows |
| the window that the user moves with the mouse | `moving` |
| a change of WM_HINTS or WM_PROTOCOLS | `HintsChange`: the chains are not told |

### The runs

* `kwin_focus`: the chains follow the desktops (`FollowsDesktops`), name no
  window twice and none that is gone (`ChainsOnce`); a window is in the chains
  of desktops it is on, and listed in the one of all windows with them
  (`ListedTogether`); the tab box's walk from any window sees every window and
  ends (`WalkSeesAll`); the active window can be seen (`ActiveIsShown`) and, unless
  it may cease to take the focus, is in the chain of the current desktop, although
  a new desktop's chain starts empty and windows are restacked beside windows of
  other desktops (`ActiveHere`); a step changes the place of one window, besides those whose
  desktop went away (`OthersKeepOrder`). The chain of desktops is valid
  (`DesktopsValid`), and leads back to the desktop that was left
  (`BackIsPrevious`).
* `kwin_v_wrap`: the walk along the desktops need not come back, see section 8.

*Bounds.* Three windows, two of them of one application, the third may also
refuse the focus; three desktops; windows and desktops together are five
(`MaxLoad`), so that three windows meet two desktops and two windows meet three:
`insertClientIntoChain` and the restack look at two windows besides the one that
moves, and a removal of two desktops at once moves windows over one that stays.
The two windows of one application are symmetric, which is sound as no liveness
is checked. Only safety is stated: the windows and the user need do nothing.

## 7. What is proved

For all constants that satisfy the assumptions named in the modules
(`ConstantsAssumption`, `SessionAssumption`, ...): any finite set of clients or
applications, any programs, requests, windows and desktops, and any bounds.

`KSMServerProofs`: `TypeCorrect`. `TypeOK` is inductive. It is more than types:
flags and libSM records belong to connected clients only. Most handlers end in
`Complete`; `CompleteEffect` says once what they need to know of it, and lemmas
on `SmsSaveYourself` and `HandlePendingInteractions` do so for these.

`KSMServerSafetyProofs`, from `TypeCorrect`:

* `PointersAreValid`, `SavingIsDriven`, `TurnsAreHandedOn`: the three conjuncts
  of `Driven` are preserved together. They need each other: that a timer runs
  when nobody interacts rests on clients being let in properly, and that on the
  pointer to the interacting client being valid.
* `SleepIsReleased`: `InhibitedWhileLeaving`, assuming that nobody calls
  `restoreSubSession`, which sets the state without looking at it; with such a
  call it is false.
* `CheckpointsAreSilent`: the strengthening (`Silent`) is that the save type
  stays local during a checkpoint.
* `WMDiesLast`, `WMSavesFirst`: action properties, from `TypeOK` of the state
  before the step.

`KSMStartupProofs`: `StartupTypeCorrect` from `TypeInv`, which adds to `TypeOK`
that a second timer of the window manager's launch comes with kwin only, and
that applications are restored only out of a saved session whose entries are
all there; `StartupIsDriven` and `SuspensionResumesItsPhase` from `Driven`,
which adds that kcminit's protection timer runs until phase 2 is over, and that
phase 1 is never held up. `StartupInSequence` is the safety part of
`ImplementsStartup`: the initial state maps to an initial one, and every step to
a step of `StartupSequence` or a stutter, so that no phase is left out or
repeated, and the saved applications are started between autostart 1 and 2, in
the order of the saved session, each once. The strengthening (`InSequence`) says
how far `lastAppStarted` has come in each phase, and that whoever was started
was started as an entry of the session. It assumes `SubSessions # "any"`,
without which it is false (`ksm_v_aborted`).

`KlipperHistoryProofs`, for any items: `HistoryTyped` and `HistoryStaysBounded`
for every setting of `Editing` and `Resizing`, and `HistoryStaysWhole` for
`Editing # "any"`, as a null entry is on no ring; all from one inductive
invariant (`HistoryInv`), in which there is always an item beside null entries,
so that trimming leaves one. `RingIsWhole` says that walks along the
links visit all items; that is no good for induction over steps, as an insertion
shifts what every later step of the walk meets. The proofs use `Ring` instead:
`next` and `prev` are inverse, and no part of the items but all of them is closed
under `next`. Each relinking (an item put in, taken out, swapped with its
neighbour) is a lemma about `Ring` alone. At the end a walk along such a ring
is shown to come back after as many steps as there are items: it names no
item twice before, and what it names is closed under `next`.

`PolicyAgentProofs`, for the agent alone: `AgentTypeCorrect`,
`AgentTablesAgree`, `AgentAnnouncesTruth`, from the conjunction of the three
(`AgentInv`). What is announced needs the tables: a list that becomes empty is
noticed only if what it had was released. All releases are one lemma of
`Release`, for any set of cookies.

`SessionServicesProofs`: `ImplementsAgent` shows that whatever happens on the
bus, the agent makes steps of `AgentSpec` or none, so that
`TablesStayAgreed` and `AnnouncedStaysTrue` follow from the agent's theorems.
`TypeCorrect`, `CounterCounts` and `LockStaysAgreed` come from `Inv`, which adds
that requests have different cookies below `m_next_cookie` and are finitely many
(`RequestsOK`): dropping those of one cookie or service lowers the counter by
their number.

`OwnReleased`, `LockerAccounts` and `AnsweredStaysWatched` speak of messages
under way, and each rests on an invariant that follows them through the queues:

* `OwnInv`: as long as kded has not been restarted, every cookie that an
  application or the locker keeps, or that is in a message to or from them, is one
  that was given already, and belongs to the one who has it or, once released, to
  nobody.
* `SerialInv`: a call of `Interface::Inhibit` to the agent is known by a serial,
  the `nextCookie` of the time. The call that is waited for is in one place at
  most (sent by the locker, heard by kded, or answered) and in none once the
  locker has the answer; later serials are not in use. A call that was given up
  has an earlier one, so its late answer is taken for no other's.
* `WatchInv`: the call of an application is in one place (`OneCall`); while the
  agent has a name in its table, its match is in effect or under way, with no
  RemoveMatch behind it (`AgentWatches`); and an AddMatch comes before the answer
  to the call that led to it. So the match is in effect when the answer arrives.

`KWinFocusProofs`, for any number of desktops and any windows:
`DesktopsStayValid`, from what `AddDesktop` and the resize do to any chain;
`DesktopsGoBack`, which holds for chains with repetitions as well, as the
first place of a desktop in front is the first; `ImplementsDesktops`, that every
step of `KWinFocus` is one of `VirtualDesktops` or none, and with it
`KWinDesktopsValid` and `KWinGoesBack`.

`KWinWindowsProofs`, for any windows, applications and desktops, proves every
property of the windows that `kwin_focus` checks: `WindowsTyped`,
`ChainsFollowDesktops`, `ChainsNameOnce`, `ChainsListTogether`,
`ActiveStaysShown`, `ActiveStaysHere`, `WalkComesBack`, and the action property
`OrderIsKept`. The inductive invariant (`IInv`) is stated one window at a time
(`Fits`): a window is listed only where it is and while it is managed (`Sound`),
and one that never ceases to take the focus is in the chain of its desktop, or of
the first one if it is on all (`AtHome`); `ActiveOK` adds that the active window
is visible and, unless it may cease to take the focus, in the chain of the
current desktop.
`AtHome` is what keeps `ListedTogether` when chains of desktops are cut off.

The argument has three layers. Lemmas about a list say what taking a window out,
putting it first, before or beside another one does to the others (`SameOrder`).
Lemmas about the object say the same of `update`, `moveAfterClient`, `remove` and
`resize`, for all its lists at once (`Beside`, `Updated`, `OrderKept`). Then there
is a lemma for each handler, which concludes both the invariant and that one
window moved (`OneMoves`). Switching and removing desktops go through states in
which windows and chains do not fit; `Half` is the invariant of these: nothing but
the place of the windows whose turn has not come may be wrong. The recursive
functions of the model (`removeAll`, `SentInOrder`, the walk) are shown to exist
and to have the values of their equations; what they compute is then proved by the
least place where it would fail.

*Only model-checked*: liveness under fairness, which TLAPS does not prove
(`ShutdownProgresses`, `KillingEnds`, `SubSessionCloses`, `CallsAreAnswered`,
`GoneIsReleased`, and that the startup in `ImplementsStartup` ends); and
`ImplementsHistory`. Its mapping reads a list off the ring by a walk, and
`CyclingHistory` moves items with `SelectSeq`, whose operator argument tlapm does
not expand. What that refinement adds to `HistoryStaysWhole` is where in the ring
an item goes.

## 8. Where code and words differ

* `ksm_v_quit`: the user is told "Logout canceled", but `timeoutWMQuit`, whose
  timer runs since `killWM`, does not look at the state and quits
  (`shutdown.cpp:599`). A client that was given up by the protection timer can
  still be let in to the user, and cancel even then.
* `ksm_v_pending`: a logout requested during startup is to be performed "as
  soon as startup is finished"; if a checkpoint is running by then it is
  dropped (`shutdown.cpp:107-116`). A checkpoint has no protection timer.
* `ksm_v_aborted`: `restoreSubSession` during the startup ends the startup;
  the phases that are left never run (`startup.cpp:563`).
* `klipper_v_cursor`: editing the only item leaves `m_top`, and then
  `m_nextCycle`, at the item that was removed (`history.cpp:109`), and cycling
  brings the text from before the edit back; `setMaxSize` in the middle of
  cycling leaves `m_nextCycle` at an item that was deleted. (The same edit leaves
  a null entry in the hash, section 4.)
* `kwin_v_wrap`: `DesktopChain::next` is to wrap around; after desktops were
  removed the chain has repetitions (`desktopchain.cpp:66`), and the walk from
  the current desktop may stay at a repeated one for ever. The loop of
  `desktopmodel.cpp:148`, which makes the list for the tab box, then does not
  end. Three desktops are enough: go to the third, have two, have three again,
  go to the first.

Seen on the way, without a run of their own:

* An answer to an earlier SaveYourself, of the registration or of a cancelled
  logout, counts for the current round.
* `restoreSubSession` while a session is being left keeps sleep suppressed.
* `WMFirst` holds with one window manager: `wmPhase1WaitingCount` counts answers,
  not who gave them.
* A suspension holds the startup up for ten seconds at most, although the
  README of ksmserver says "until Plasma is ready".
* `History::insert` marks the top as selected by the user when it only moves a
  duplicate to the top.
* The protection timer is "invoked when clients do not react during shutdown"
  (`shutdown.cpp:421`); if the window manager hangs in phase 1, clients that
  were never asked are given up as well (`:430`).
* An application that goes before the bus has taken the match for its name
  leaves its inhibition behind; `interface.h` promises that it ends when "the
  calling process exits".
* When ksmserver gives up waiting for the policy agent (after 25 s, if kded
  waits for ksmserver in `forceLockAndWait`), the inhibition is added after all
  and nobody has its cookie.
* A greeter that cannot be started again after a failure leaves the callers of
  Lock without an answer (`ksldapp.cpp:281` ignores the result); a later
  `unlock()` has no process to terminate, and the SIGUSR1 of a later `lock()`
  goes to pid 0.
* `m_inGraceTime` is "only enabled after idle timeout" (`ksldapp.h:124`); if the
  grab fails in `idleTimeout` it stays set, and a later Lock by the user can be
  ended by activity.
* `idleTimeout` tests `m_lockGrace` before it compares it with -1, so that the
  branch for an endless grace time is never reached and the timer is started with
  -1 instead. Qt refuses to start it, so the grace time is endless all the same.
* A window on all desktops is not in the chain of a new desktop until it is
  updated again, so that a switch to that desktop may activate none.
* A window that changes its hints is not taken out of the chains; and a restack
  then may list it in `m_mostRecentlyUsed` without the chain of its desktop,
  since the place is looked up in each list by itself (`focuschain.cpp:174`).
  This can be the active window: one that stopped and started to take the focus,
  and is restacked below a window of another desktop (`layers.cpp:760`), is in the
  list of all windows and in no chain. So `ActiveHere` is stated of windows that
  never cease to take the focus.
* A window that is asked to go above the window it is above already is restacked
  under itself (`layers.cpp:745-756`): it is no longer found in the list, goes to
  the front of it, and so becomes the least recently used one.

## 9. Not modelled

* Session store, clipboard synchronisation (klipper), powerdevil's profiles,
  the status notifier watcher: candidates for an extension, see below.
* Of the policy agent: the login manager (active session, delay lock) and the
  service passed explicitly to `AddInhibitionWithExplicitDBusService`. Of the
  screen locker: configuration read while it runs, the automatic logout.
* Of kwin: transients, modal windows, tabs, shading, activities, several
  screens, window rules, windows of the desktop type, the order of the list of
  windows and of the stack.
* The rest of the repository is drawing, dialogs, configuration and calls of
  external services; PROJECT.json gives the reason for each part.

## 10. Plan

Done, in this order: leaving a session (the most important behaviour of the
system, and the hardest), starting it, the clipboard's history, the two services
that call each other, and the focus chains.

What would come next: `SessionStore`, which discard commands run, composed with
the rounds of saving of `KSMServer`; `KlipperClipboard` over `KlipperHistory`;
the watcher of status notifiers, as a second implementation of a registry of
living services.

Theorems next: `ImplementsHistory`, with `CyclingHistory` restated so that an
item is moved without `SelectSeq`, and with a lemma for each relinking of
`KlipperHistoryProofs` that says what it does to the list that the walk reads.
