---------------------------- MODULE CyclingHistory ----------------------------
(***************************************************************************)
(* What klipper's history promises: the items that were on the clipboard,  *)
(* each once and the latest first, as many as are configured; and a cursor *)
(* that the user moves along them, which brings an item to the top for as  *)
(* long as the cursor is at it and leaves the order of the others alone.   *)
(***************************************************************************)
EXTENDS Naturals, SequencesExt

CONSTANTS Item, Sizes

VARIABLES
  order,        \* the items, as they are when the user does not cycle
  cursor,       \* which of them is at the top, 0 if there is none
  size          \* how many are kept

vars == <<order, cursor, size>>

(* The list the user sees, with the item at the cursor at the top. *)
Shown == IF order = <<>> THEN <<>> ELSE <<order[cursor]>> \o RemoveAt(order, cursor)

Init ==
  /\ order = <<>>
  /\ cursor = 0
  /\ size \in Sizes

(* What was shown is the order from now on, with x in front; the last items  *)
(* go if there are too many.                                                 *)
Put(x, shown) ==
  LET list == <<x>> \o SelectSeq(shown, LAMBDA y : y # x)
  IN /\ order' = SubSeq(list, 1, IF Len(list) < size THEN Len(list) ELSE size)
     /\ cursor' = 1
     /\ UNCHANGED size

New(x) == Put(x, Shown)

Edit(x) == order # <<>> /\ Put(x, Tail(Shown))

CycleNext == cursor < Len(order) /\ cursor' = cursor + 1 /\ UNCHANGED <<order, size>>

CyclePrev == cursor > 1 /\ cursor' = cursor - 1 /\ UNCHANGED <<order, size>>

Clear == order' = <<>> /\ cursor' = 0 /\ UNCHANGED size

(* The last of the shown items go; the cursor stays at its item. *)
Resize(n) ==
  LET kept == ToSet(SubSeq(Shown, 1, IF Len(Shown) < n THEN Len(Shown) ELSE n))
  IN /\ size' = n
     /\ order' = SelectSeq(order, LAMBDA y : y \in kept)
     /\ IF order = <<>> THEN cursor' = 0
        ELSE cursor' \in 1 .. Len(order') /\ order'[cursor'] = order[cursor]

Next ==
  \/ \E x \in Item : New(x) \/ Edit(x)
  \/ CycleNext
  \/ CyclePrev
  \/ Clear
  \/ \E n \in Sizes : Resize(n)

Spec == Init /\ [][Next]_vars
==============================================================================
