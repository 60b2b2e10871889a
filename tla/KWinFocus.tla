------------------------------ MODULE KWinFocus -------------------------------
(***************************************************************************)
(* The windows and virtual desktops of kwin as far as they meet in the     *)
(* focus chains: windows come and go, are minimized, sent to desktops and  *)
(* to all of them, get and lose the focus, while desktops are switched,    *)
(* added and removed (workspace.cpp, activation.cpp, layers.cpp,           *)
(* client.cpp, manage.cpp, events.cpp).                                    *)
(*                                                                         *)
(* kwin has one thread, and its signals are direct calls: one X event or   *)
(* one command of the user, with all it calls, is one step.  What it asks  *)
(* of the X server takes effect later: a window it wants to have the focus *)
(* has it when the FocusIn event comes, if it still may (focusIn).         *)
(*                                                                         *)
(* The focus policy is a "reasonable" one and does not prefer the window   *)
(* under the mouse.  Transient and modal windows, groups of tabs, shading, *)
(* window rules and windows of the desktop type are left out.              *)
(*                                                                         *)
(* Definitions named Slip... are variants with a mistake.                  *)
(***************************************************************************)
EXTENDS VirtualDesktops, FocusChain

CONSTANTS
  Fickle,     \* the windows that may not take the focus, now or later
  MaxLoad     \* bound: windows and desktops together

ASSUME FickleAssumption == Fickle \subseteq Clients /\ MaxLoad \in Nat

VARIABLES
  win,        \* the state of every window; Workspace::clients are those with
              \* a desktop, the order of that list is left out
  fc          \* FocusChain::self(); its activeClient is Workspace's
              \* active_client, which is passed on by clientActivated

kwinVars == <<count, current, desktopChain, win, fc>>

managed == {c \in Clients : win[c].desk # 0}
active == fc.activeClient
Unmanaged == [desk |-> 0, minimized |-> FALSE, wantsTabFocus |-> TRUE]

TypeOK ==
  /\ DesktopsTypeOK
  /\ win \in [Clients -> ClientStates(Desktops)]
  /\ fc.mostRecentlyUsed \in Seq(Clients)
  /\ fc.chains \in [1 .. count -> Seq(Clients)]
  /\ fc.activeClient \in Clients \cup {NoClient}
  /\ fc.currentDesktop \in Desktops

------------------------------------------------------------------------------
(* Parts of operations *)

(* The window that is left is updated like the one that is entered.        *)
SlipUpdateBoth(f, w, c) ==
  IF c = f.activeClient THEN f
  ELSE LET left == IF f.activeClient = NoClient THEN f
                   ELSE update(f, w, f.activeClient, "MakeFirst")
       IN  [update([left EXCEPT !.activeClient = NoClient], w, c, "MakeFirst")
              EXCEPT !.activeClient = c]

(* setActiveClient(c): the window that was active is deactivated first, by *)
(* a nested call that makes none active.                                   *)
setActiveClient(f, w, c) ==
  IF c = f.activeClient THEN f
  ELSE [update([f EXCEPT !.activeClient = NoClient], w, c, "MakeFirst")
          EXCEPT !.activeClient = c]

(* clientHidden -> activateNextClient.  The next window is asked for the   *)
(* focus and answers with a FocusIn.                                       *)
clientHidden(f, c) ==
  IF c = f.activeClient THEN [f EXCEPT !.activeClient = NoClient] ELSE f

(* restack(c, under): c goes under the lowest window of the application of *)
(* `under' that is in its layer, whichever that is, if it is of another    *)
(* one itself.                                                             *)
restack(f, w, c, under) ==
  {moveAfterClient(f, w, c, reference) :
     reference \in IF belongToSameApplication(under, c) THEN {under}
                   ELSE {x \in managed : belongToSameApplication(under, x)}}

(* restackClientUnderActive: a window of another layer is raised.          *)
StackedUnderActive(f, w, c) ==
  {f} \cup IF f.activeClient \in {NoClient, c} THEN {}
           ELSE restack(f, w, c, f.activeClient)

(* Client::setDesktop for a window that is not there yet.                  *)
setDesktop(f, w, c, currentDesktop) ==
  LET updated == update(f, w, c, "MakeFirst")
  IN  IF isOnDesktop(w[c], currentDesktop) THEN updated ELSE clientHidden(updated, c)

(* The window is kept active without a look at the chain.                  *)
SlipStays(f, moving, d) == f.activeClient = moving

(* findClientToActivateOnDesktop for the window that the user moves.       *)
StaysActive(f, moving, d) == f.activeClient = moving /\ contains(f, moving, d)

(* slotCurrentDesktopChanged, after FocusChain::setCurrentDesktop: windows *)
(* that are not on the new desktop are hidden, the one that the user moves *)
(* is taken along, and unless the active one stays it is deactivated in    *)
(* favour of the most recently used one of the desktop.                    *)
WinsOnSwitch(w, d, moving) ==
  IF moving # NoClient /\ ~isOnDesktop(w[moving], d)
  THEN [w EXCEPT ![moving].desk = d] ELSE w

ChainsOnSwitch(f, w, d, moving) ==
  LET a == f.activeClient
      there == [f EXCEPT !.currentDesktop = d]
      hidden == IF a \notin {NoClient, moving} /\ ~isOnDesktop(w[a], d)
                THEN clientHidden(there, a) ELSE there
      w2 == WinsOnSwitch(w, d, moving)
      moved == IF w2 # w THEN setDesktop(hidden, w2, moving, d) ELSE hidden
      c == IF moving # NoClient /\ StaysActive(moved, moving, d) THEN moving ELSE getForActivation(moved, w2, d)
  IN  IF c = moved.activeClient THEN moved
      ELSE [moved EXCEPT !.activeClient = NoClient]

(* movingClient is shown, and on the current desktop.                      *)
Movable == {NoClient} \cup {c \in managed : isShown(win[c]) /\ isOnDesktop(win[c], current)}

(* moveClientsFromRemovedDesktops: sendClientToDesktop for one window      *)
(* after the other, in the order of the list.  sent is a set of states of  *)
(* the chains: each window may be restacked or not.                        *)
SentToLast(sent, w, c, n, currentDesktop) ==
  UNION { LET arrived == setDesktop(f, w, c, currentDesktop)
          IN  IF n = currentDesktop THEN StackedUnderActive(arrived, w, c)
                                    ELSE {arrived} : f \in sent }

SentInOrder(f, w, order, n, currentDesktop) ==
  LET sent[i \in 0 .. Len(order)] ==
        IF i = 0 THEN {f} ELSE SentToLast(sent[i - 1], w, order[i], n, currentDesktop)
  IN  sent[Len(order)]

------------------------------------------------------------------------------

Init ==
  /\ DesktopsInit
  /\ win = [c \in Clients |-> Unmanaged]
  /\ fc = FocusChainOf(count, current)

(* What a new window may be: only the Fickle ones do not take the focus.   *)
ManagedStates(c) ==
  {cl \in ClientStates(1 .. count) : cl.desk # 0 /\ (cl.wantsTabFocus \/ c \in Fickle)}

(* createClient: manage(), which may restack the window or, when it may    *)
(* take the focus, go to its desktop, and then addClient().  A window that *)
(* starts minimized is minimized in between.                               *)
Manage(c) ==
  /\ c \notin managed
  /\ Cardinality(managed) + 1 + count <= MaxLoad
  /\ \E cl \in ManagedStates(c) :
       /\ win' = [win EXCEPT ![c] = cl]
       /\ LET early == IF cl.minimized THEN update(fc, win', c, "MakeFirst") ELSE fc
          IN  \E f \in IF isOnDesktop(cl, current) /\ ~cl.minimized
                       THEN StackedUnderActive(early, win', c) ELSE {early} :
                fc' = update(f, win', c, "Update")
  /\ UNCHANGED desktopVars

ManageElsewhere(c) ==
  /\ c \notin managed
  /\ Cardinality(managed) + 1 + count <= MaxLoad
  /\ \E cl \in ManagedStates(c), moving \in Movable :
       /\ ~cl.minimized
       /\ setCurrent(cl.desk)
       /\ LET w == [win EXCEPT ![c] = cl]
          IN  /\ win' = WinsOnSwitch(w, cl.desk, moving)
              /\ fc' = update(ChainsOnSwitch(fc, w, cl.desk, moving), win', c, "Update")

(* releaseWindow, destroyClient: clientHidden, then removeClient.          *)
Release(c) ==
  /\ c \in managed
  /\ win' = [win EXCEPT ![c] = Unmanaged]
  /\ fc' = remove(clientHidden(fc, c), c)
  /\ UNCHANGED desktopVars

(* The window may have been hidden meanwhile.                              *)
SlipFocusHidden(c) ==
  /\ c \in managed
  /\ c # active
  /\ fc' = setActiveClient(fc, win, c)
  /\ UNCHANGED <<desktopVars, win>>

(* focusInEvent: the window may have been hidden since it was asked to     *)
(* take the focus.                                                         *)
FocusIn(c) ==
  /\ c \in managed
  /\ isShown(win[c])
  /\ isOnDesktop(win[c], current)
  /\ c # active
  /\ fc' = setActiveClient(fc, win, c)
  /\ UNCHANGED <<desktopVars, win>>

FocusOut ==
  /\ active # NoClient
  /\ fc' = clientHidden(fc, active)
  /\ UNCHANGED <<desktopVars, win>>

(* minimize: a window that does not take the focus is not minimizable.     *)
Minimize(c) ==
  /\ c \in managed
  /\ win[c].wantsTabFocus
  /\ ~win[c].minimized
  /\ win' = [win EXCEPT ![c].minimized = TRUE]
  /\ fc' = update(clientHidden(fc, c), win', c, "MakeFirst")
  /\ UNCHANGED desktopVars

Unminimize(c) ==
  /\ c \in managed
  /\ win[c].minimized
  /\ win' = [win EXCEPT ![c].minimized = FALSE]
  /\ UNCHANGED <<desktopVars, fc>>

(* sendClientToDesktop: a window that comes to the current desktop is      *)
(* asked to take the focus, or goes under the active one.                  *)
SendToDesktop(c, d) ==
  /\ c \in managed
  /\ win' = [win EXCEPT ![c].desk = d]
  /\ LET arrived == IF win[c].desk = d THEN fc ELSE setDesktop(fc, win', c, current)
     IN  IF isOnDesktop(win'[c], current)
         THEN \E f \in StackedUnderActive(arrived, win', c) : fc' = f
         ELSE fc' = arrived
  /\ UNCHANGED desktopVars

SetOnAllDesktops(c, b) ==
  /\ c \in managed
  /\ b # (win[c].desk = OnAllDesktops)
  /\ win' = [win EXCEPT ![c].desk = IF b THEN OnAllDesktops ELSE current]
  /\ fc' = setDesktop(fc, win', c, current)
  /\ UNCHANGED desktopVars

(* getWMHints, getWindowProtocols: the window may start or cease to accept *)
(* the focus; the chains are not told.                                     *)
HintsChange(c) ==
  /\ c \in managed \cap Fickle
  /\ win' = [win EXCEPT ![c].wantsTabFocus = ~@]
  /\ UNCHANGED <<desktopVars, fc>>

Shown(w, c) == [w EXCEPT ![c].minimized = FALSE]

(* activateClient for a window that is not on the current desktop: that is *)
(* switched to first.  On the current desktop it is Unminimize.  The focus *)
(* comes with a FocusIn.                                                   *)
Activate(c) ==
  /\ c \in managed
  /\ ~isOnDesktop(win[c], current)
  /\ setCurrent(win[c].desk)
  /\ \E moving \in Movable :
       /\ win' = Shown(WinsOnSwitch(win, win[c].desk, moving), c)
       /\ fc' = ChainsOnSwitch(fc, win, win[c].desk, moving)

(* A MapRequest for a window that is managed: it is shown, activated if it *)
(* is not on the current desktop and this is allowed, and updated.         *)
MapRequest(c) ==
  /\ c \in managed
  /\ win' = Shown(win, c)
  /\ fc' = update(fc, win', c, "Update")
  /\ UNCHANGED desktopVars

MapRequestElsewhere(c) ==
  /\ c \in managed
  /\ ~isOnDesktop(win[c], current)
  /\ setCurrent(win[c].desk)
  /\ \E moving \in Movable :
       /\ win' = WinsOnSwitch(Shown(win, c), win[c].desk, moving)
       /\ fc' = update(ChainsOnSwitch(fc, Shown(win, c), win[c].desk, moving),
                       win', c, "Update")

(* restackWindow: a window, also the active one or one that cannot be      *)
(* seen, is put under any other, or under itself when it is asked to go    *)
(* above the window that it is above.  What only raises or lowers it leaves*)
(* the chains alone.  The tab box restacks two windows in the same way.    *)
RestackWindow(c) ==
  /\ c \in managed
  /\ \E under \in managed : fc' \in restack(fc, win, c, under)
  /\ UNCHANGED <<desktopVars, win>>

SwitchDesktop(d) ==
  /\ setCurrent(d)
  /\ \E moving \in Movable :
       /\ win' = WinsOnSwitch(win, d, moving)
       /\ fc' = ChainsOnSwitch(fc, win, d, moving)

AddDesktops(n) ==
  /\ n > count
  /\ Cardinality(managed) + n <= MaxLoad
  /\ setCount(n)
  /\ fc' = resize(fc, n)
  /\ UNCHANGED win

(* VirtualDesktopManager::setCount for fewer desktops: the current desktop *)
(* is left if it goes away, then the windows are moved, and at last the    *)
(* chains are resized.                                                     *)
RemoveDesktops(n) ==
  /\ n < count
  /\ setCount(n)
  /\ \E moving \in Movable :
       LET left == current > n
           f == IF left THEN ChainsOnSwitch(fc, win, n, moving) ELSE fc
           w == IF left THEN WinsOnSwitch(win, n, moving) ELSE win
           leaving == SetToSeqs({c \in Clients : w[c].desk > n})
           w2 == [c \in Clients |-> IF w[c].desk > n THEN [w[c] EXCEPT !.desk = n]
                                                     ELSE w[c]]
       IN  /\ win' = w2
           /\ \E order \in leaving :
                \E g \in SentInOrder(f, w2, order, n, current') : fc' = resize(g, n)

Next ==
  \/ \E c \in Clients : Manage(c)
  \/ \E c \in Clients : ManageElsewhere(c)
  \/ \E c \in Clients : Release(c)
  \/ \E c \in Clients : FocusIn(c)
  \/ FocusOut
  \/ \E c \in Clients : Minimize(c)
  \/ \E c \in Clients : Unminimize(c)
  \/ \E c \in Clients : HintsChange(c)
  \/ \E c \in Clients : Activate(c)
  \/ \E c \in Clients : MapRequest(c)
  \/ \E c \in Clients : MapRequestElsewhere(c)
  \/ \E c \in Clients : RestackWindow(c)
  \/ \E c \in Clients, d \in 1 .. count \cup {OnAllDesktops} : SendToDesktop(c, d)
  \/ \E c \in Clients, b \in BOOLEAN : SetOnAllDesktops(c, b)
  \/ \E d \in Desktops : SwitchDesktop(d)
  \/ \E n \in Desktops : AddDesktops(n)
  \/ \E n \in Desktops : RemoveDesktops(n)

Spec == Init /\ [][Next]_kwinVars

------------------------------------------------------------------------------
(* Properties *)

(* The chains follow the desktops through their signals: there is one for  *)
(* each desktop, and the one that counts as the current one is.            *)
FollowsDesktops ==
  /\ DOMAIN fc.chains = 1 .. count
  /\ fc.currentDesktop = current

(* No chain names a window twice or one that is gone, however it was moved *)
(* about: chains keep plain pointers.                                      *)
ChainsOnce ==
  \A chain \in {fc.mostRecentlyUsed} \cup {fc.chains[d] : d \in 1 .. count} :
    /\ ToSet(chain) \subseteq managed
    /\ Cardinality(ToSet(chain)) = Len(chain)

(* The walk of the tab box, from any window of the list, sees every window *)
(* of it and ends where it began (the loop of clientmodel.cpp:176).        *)
WalkSeesAll ==
  LET list == fc.mostRecentlyUsed
  IN  \A start \in ToSet(list) :
        LET walk[k \in 0 .. Len(list)] ==
              IF k = 0 THEN start ELSE nextMostRecentlyUsed(fc, walk[k - 1])
        IN  /\ {walk[k] : k \in 1 .. Len(list)} = ToSet(list)
            /\ walk[Len(list)] = start

(* A window in the chain of a desktop is on it and is offered by the tab   *)
(* box.  The other way round this holds unless the window changed its      *)
(* hints: then a restack may list it without its desktop's chain.          *)
ListedTogether ==
  \A c \in Clients :
    LET listed == {d \in 1 .. count : contains(fc, c, d)}
    IN  /\ \A d \in listed : isOnDesktop(win[c], d)
        /\ listed # {} => Contains(fc.mostRecentlyUsed, c)
        /\ c \notin Fickle /\ Contains(fc.mostRecentlyUsed, c) => listed # {}

(* The active window is one the user can see, through all switches.        *)
ActiveIsShown ==
  active # NoClient =>
    active \in managed /\ isShown(win[active]) /\ isOnDesktop(win[active], current)

(* An active window that never ceases to take the focus is in the chain of *)
(* the current desktop, although the chains of new desktops begin without  *)
(* the windows that are on all desktops and windows are restacked below    *)
(* windows of other desktops.                                              *)
ActiveHere ==
  active \notin Fickle \cup {NoClient} => contains(fc, active, current)

(* Of two windows in a chain, or of one, x does not come after y.          *)
InOrder(chain, x, y) ==
  \E i \in 1 .. Len(chain) : chain[i] = x /\ \E j \in i .. Len(chain) : chain[j] = y

(* A step changes the place of one window only; when desktops are removed, *)
(* of those that were on them besides, and of the one that was moved.  The *)
(* others are in the same chains as before, in the same order.             *)
OthersKeepOrder ==
  [][\E c \in Clients \cup {NoClient} :
       \A x, y \in {z \in Clients \ {c} : win'[z].desk = win[z].desk} :
         /\ InOrder(fc'.mostRecentlyUsed, x, y) <=> InOrder(fc.mostRecentlyUsed, x, y)
         /\ \A d \in 1 .. SmallerOf(count, count') :
              InOrder(fc'.chains[d], x, y) <=> InOrder(fc.chains[d], x, y)]_kwinVars
==============================================================================
