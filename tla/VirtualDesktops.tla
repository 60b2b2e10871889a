---------------------------- MODULE VirtualDesktops ----------------------------
(***************************************************************************)
(* The virtual desktops of kwin (virtualdesktops.cpp) and the chain of     *)
(* most recently used desktops that the tab box keeps of them              *)
(* (tabbox/desktopchain.cpp).  The chain follows the desktop manager       *)
(* through its signals currentChanged and countChanged, which are direct   *)
(* calls: an operation and what it signals are one step.                   *)
(*                                                                         *)
(* The tab box has one chain; more of them (useChain) are only asked for   *)
(* by tests.  The grid of desktops (layout, moveTo) is left out: it        *)
(* computes a desktop and passes it to setCurrent.                         *)
(*                                                                         *)
(* Definitions named Slip... are variants with a mistake.                  *)
(***************************************************************************)
EXTENDS Integers, Sequences

CONSTANT MaxDesktops      \* maximum(): 20 in the code

ASSUME DesktopsAssumption == MaxDesktops \in Nat \ {0}

VARIABLES
  count,          \* m_count
  current,        \* m_current
  desktopChain    \* DesktopChain::m_chain, the most recent desktop first

desktopVars == <<count, current, desktopChain>>

Desktops == 1 .. MaxDesktops

DesktopsTypeOK ==
  /\ count \in Desktops
  /\ current \in Desktops
  /\ desktopChain \in [1 .. count -> Desktops]

------------------------------------------------------------------------------

SmallerOf(a, b) == IF a <= b THEN a ELSE b

InDesktopChain(s, d) == \E i \in 1 .. Len(s) : s[i] = d

(* QVector::indexOf, for a desktop the chain has: its first place. *)
IndexOfDesktop(s, d) ==
  CHOOSE i \in 1 .. Len(s) : s[i] = d /\ \A j \in 1 .. i - 1 : s[j] # d

(* The desktop is put in front, and its old place is kept.                 *)
SlipOverwrite(s, d) == IF d > Len(s) THEN s ELSE [s EXCEPT ![1] = d]

(* A desktop that the chain has keeps its place.                           *)
SlipOnlyNew(s, d) == IF InDesktopChain(s, d) THEN s ELSE [s EXCEPT ![1] = d]

(* Nothing is pushed out.                                                  *)
SlipGrow(s, d) == <<d>> \o s

(* DesktopChain::add: d becomes the first, those before it move up by one; *)
(* a desktop that is new to the chain pushes the last one out.             *)
AddDesktop(s, d) ==
  LET index == IF InDesktopChain(s, d) THEN IndexOfDesktop(s, d) ELSE Len(s)
  IN  IF d > Len(s)
      THEN s
      ELSE [i \in 1 .. Len(s) |-> IF i = 1 THEN d
                                  ELSE IF i <= index THEN s[i - 1]
                                  ELSE s[i]]

(* DesktopChain::resize: new desktops go to the end; when some are removed *)
(* the chain is cut off, and what it still names of them becomes the last. *)
ResizeDesktopChain(s, n) ==
  [i \in 1 .. n |-> IF n < Len(s) THEN SmallerOf(s[i], n)
                    ELSE IF i <= Len(s) THEN s[i]
                    ELSE i]

(* DesktopChain::next, round the end of the chain. *)
NextDesktop(s, d) ==
  IF InDesktopChain(s, d) /\ IndexOfDesktop(s, d) < Len(s)
  THEN s[IndexOfDesktop(s, d) + 1]
  ELSE s[1]

------------------------------------------------------------------------------

(* The first resize of the chain is that of setCount at the start of the   *)
(* program, from no desktop; the manager then goes to the first.           *)
DesktopsInit ==
  /\ count \in Desktops
  /\ current = 1
  /\ desktopChain = [i \in 1 .. count |-> i]

setCurrent(d) ==
  /\ d \in 1 .. count
  /\ d # current
  /\ current' = d
  /\ desktopChain' = AddDesktop(desktopChain, d)
  /\ UNCHANGED count

(* The count is lowered before the desktop is left that goes away, and the *)
(* chain is resized last: it first has the new current desktop added.      *)
setCount(n) ==
  /\ n \in Desktops
  /\ n # count
  /\ count' = n
  /\ current' = SmallerOf(current, n)
  /\ desktopChain' =
       ResizeDesktopChain(IF current > n THEN AddDesktop(desktopChain, n)
                                         ELSE desktopChain, n)

DesktopsNext == \E d \in Desktops : setCurrent(d) \/ setCount(d)

DesktopsSpec == DesktopsInit /\ [][DesktopsNext]_desktopVars

------------------------------------------------------------------------------
(* Properties *)

(* The chain is as long as there are desktops, names only desktops that    *)
(* there are, and begins with the current one, however desktops came and   *)
(* went: the tab box switches to what the chain names without a test.      *)
DesktopsValid ==
  /\ DesktopsTypeOK
  /\ current <= count
  /\ \A i \in 1 .. count : desktopChain[i] <= count
  /\ desktopChain[1] = current

(* Who goes to a desktop finds the one he left as the next of the chain,   *)
(* also when removed desktops have left the chain with repetitions.        *)
BackIsPrevious ==
  [][current' # current /\ count' = count
       => NextDesktop(desktopChain', current') = current]_desktopVars

(* desktopchain.h:44: next "wraps around": whoever asks for the next       *)
(* desktop again and again comes back to the current one, on which the     *)
(* loop of desktopmodel.cpp:151 relies to end.                             *)
WrapsAround ==
  LET walk[k \in 0 .. count] ==
        IF k = 0 THEN current ELSE NextDesktop(desktopChain, walk[k - 1])
  IN  \E k \in 1 .. count : walk[k] = current

==============================================================================
