------------------------------ MODULE FocusChain ------------------------------
(***************************************************************************)
(* The focus chains of kwin (focuschain.cpp): a list of the windows in the *)
(* order of use, the most recently used one last, and a list of the same   *)
(* kind for every virtual desktop, from which the window is taken that is  *)
(* activated when the desktop is switched to.                              *)
(*                                                                         *)
(* The operations are functions of the object's state fc, a record, and of *)
(* what they ask of the windows, w.  KWinFocus calls them.                 *)
(*                                                                         *)
(* Activities and the focus per screen are left out (one activity, one     *)
(* screen), as are shaded windows and tabs, and with the tabs MakeLast.    *)
(*                                                                         *)
(* Definitions named Slip... are variants with a mistake.                  *)
(***************************************************************************)
EXTENDS Integers, SequencesExt

CONSTANTS
  Clients,      \* the windows
  NoClient,     \* NULL
  App           \* belongToSameApplication: windows with the same App

ASSUME FocusChainAssumption == NoClient \notin Clients

OnAllDesktops == -1       \* NET::OnAllDesktops

(* What a window answers: its desktop (0 for one that is not managed),     *)
(* isMinimized() and wantsTabFocus().                                      *)
ClientStates(desktops) ==
  [desk : desktops \cup {0, OnAllDesktops}, minimized : BOOLEAN,
   wantsTabFocus : BOOLEAN]

isOnDesktop(cl, d) == cl.desk \in {d, OnAllDesktops}
isShown(cl) == cl.desk # 0 /\ ~cl.minimized
belongToSameApplication(a, b) == App[a] = App[b]

(* m_mostRecentlyUsed, m_desktopFocusChains, m_activeClient and            *)
(* m_currentDesktop, with the chains of the desktops 1 .. n.               *)
FocusChainOf(n, currentDesktop) ==
  [mostRecentlyUsed |-> <<>>, chains |-> [d \in 1 .. n |-> <<>>],
   activeClient |-> NoClient, currentDesktop |-> currentDesktop]

------------------------------------------------------------------------------
(* One chain *)

(* QList::removeAll *)
removeAll(chain, c) ==
  LET kept[i \in 0 .. Len(chain)] ==
        IF i = 0 THEN <<>>
        ELSE IF chain[i] = c THEN kept[i - 1] ELSE Append(kept[i - 1], chain[i])
  IN  kept[Len(chain)]

(* A minimized window goes after the last minimized one, or to the end of  *)
(* the order if there is none.                                             *)
makeFirstInChain(w, c, chain) ==
  LET rest == removeAll(chain, c)
  IN  IF w[c].minimized
      THEN InsertAt(rest, 1 + SelectLastInSeq(rest, LAMBDA x : w[x].minimized), c)
      ELSE Append(rest, c)

insertClientIntoChain(c, activeClient, chain) ==
  IF Contains(chain, c) THEN chain
  ELSE IF chain # <<>> /\ activeClient # c /\ Last(chain) = activeClient
       THEN InsertAt(chain, Len(chain), c)
       ELSE Append(chain, c)

updateClientInChain(w, c, change, activeClient, chain) ==
  IF change = "MakeFirst" THEN makeFirstInChain(w, c, chain)
  ELSE insertClientIntoChain(c, activeClient, chain)

(* The window goes before the reference in the list, or before the last    *)
(* window of the reference's application if it is of another one; a chain  *)
(* without the reference stays as it is.  A window that is put beside      *)
(* itself is no longer found, and QList::insert(-1) is prepend.            *)
moveAfterClientInChain(c, reference, chain) ==
  LET rest == removeAll(chain, c)
      place == IF reference = c THEN 1
               ELSE IF belongToSameApplication(reference, c)
               THEN SelectInSeq(rest, LAMBDA x : x = reference)
               ELSE SelectLastInSeq(rest, LAMBDA x :
                                      belongToSameApplication(reference, x))
  IN  IF ~Contains(chain, reference) THEN chain
      ELSE InsertAt(rest, place, c)

------------------------------------------------------------------------------
(* The object *)

(* The list of all windows is forgotten.                                   *)
SlipRemove(fc, c) == [fc EXCEPT !.chains = [d \in DOMAIN @ |-> removeAll(@[d], c)]]

remove(fc, c) ==
  [fc EXCEPT !.chains = [d \in DOMAIN @ |-> removeAll(@[d], c)],
             !.mostRecentlyUsed = removeAll(@, c)]

(* The window stays in the chains of the desktops it has left.             *)
SlipUpdate(fc, w, c, change) ==
  LET In(chain) == updateClientInChain(w, c, change, fc.activeClient, chain)
  IN  IF ~w[c].wantsTabFocus
      THEN remove(fc, c)
      ELSE [fc EXCEPT !.chains = [d \in DOMAIN @ |-> IF isOnDesktop(w[c], d)
                                                    THEN In(@[d]) ELSE @[d]],
                      !.mostRecentlyUsed = In(@)]

update(fc, w, c, change) ==
  LET In(chain) == updateClientInChain(w, c, change, fc.activeClient, chain)
      InChainOf(d) ==
        IF w[c].desk = OnAllDesktops /\ d # fc.currentDesktop
        THEN insertClientIntoChain(c, fc.activeClient, fc.chains[d])
        ELSE IF isOnDesktop(w[c], d) THEN In(fc.chains[d])
        ELSE removeAll(fc.chains[d], c)
  IN  IF ~w[c].wantsTabFocus
      THEN remove(fc, c)
      ELSE [fc EXCEPT !.chains = [d \in DOMAIN @ |-> InChainOf(d)],
                      !.mostRecentlyUsed = In(@)]

moveAfterClient(fc, w, c, reference) ==
  IF ~w[c].wantsTabFocus THEN fc
  ELSE [fc EXCEPT
         !.chains = [d \in DOMAIN @ |->
                       IF isOnDesktop(w[c], d)
                       THEN moveAfterClientInChain(c, reference, @[d])
                       ELSE @[d]],
         !.mostRecentlyUsed = moveAfterClientInChain(c, reference, @)]

(* The chains of removed desktops are kept.                                *)
SlipResize(fc, newSize) ==
  [fc EXCEPT !.chains = [d \in 1 .. newSize \cup DOMAIN @ |->
                           IF d \in DOMAIN @ THEN @[d] ELSE <<>>]]

(* The chains of new desktops begin empty, those of removed ones go.       *)
resize(fc, newSize) ==
  [fc EXCEPT !.chains = [d \in 1 .. newSize |->
                           IF d \in DOMAIN @ THEN @[d] ELSE <<>>]]

getForActivation(fc, w, d) ==
  LET chain == fc.chains[d]
      i == SelectLastInSeq(chain, LAMBDA x : isShown(w[x]))
  IN  IF i = 0 THEN NoClient ELSE chain[i]

contains(fc, c, d) == Contains(fc.chains[d], c)

(* The walk stays at the begin of the list.                                *)
SlipNext(fc, reference) ==
  LET list == fc.mostRecentlyUsed
      i == SelectInSeq(list, LAMBDA x : x = reference)
  IN  IF list = <<>> THEN NoClient
      ELSE IF i = 0 THEN Last(list) ELSE IF i = 1 THEN list[1] ELSE list[i - 1]

(* The walk of the tab box from a window to the next less recently used    *)
(* one, and from the end of the list to its begin.                         *)
nextMostRecentlyUsed(fc, reference) ==
  LET list == fc.mostRecentlyUsed
      i == SelectInSeq(list, LAMBDA x : x = reference)
  IN  IF list = <<>> THEN NoClient
      ELSE IF i \in {0, 1} THEN Last(list) ELSE list[i - 1]
==============================================================================
