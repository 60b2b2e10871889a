---------------------------- MODULE KlipperHistory ----------------------------
(***************************************************************************)
(* The clipboard history of klipper (history.cpp, historyitem.cpp): a hash *)
(* of items that are linked into a ring by the identifiers of their        *)
(* neighbours, with a pointer to the item at the top and one to the item   *)
(* that comes next when the user cycles through the history.               *)
(*                                                                         *)
(* Identifiers are hashes of the contents, so that an item is its          *)
(* identifier here.  A pointer to an item that was deleted, or that is no   *)
(* longer in the hash, is Gone.                                            *)
(*                                                                         *)
(* The handlers work on the History object, h, and are operators from h to *)
(* h; each action is one call from klipper.cpp.  Which item the check mark *)
(* of the popup is at (m_topIsUserSelected) is left out.                   *)
(*                                                                         *)
(* Definitions named Slip... are variants with a mistake.                  *)
(***************************************************************************)
EXTENDS Integers, Sequences, FiniteSets

CONSTANTS
  Uuid,         \* identifiers of items
  NoItem,       \* the null pointer
  Gone,         \* a pointer to an item that is not in the history any more
  Sizes,        \* values of the setting MaxClipItems
  Resizing,     \* when the setting is changed: "any" time, or "kept": only if
                \* the item to cycle to next is kept
  Editing       \* how the top item is edited: in "any" way; "beside": unless it
                \* is the only item; or "careful": into a new text, beside
                \* other items, while nothing is copied

ASSUME HistoryAssumption ==
  /\ IsFiniteSet(Uuid)
  /\ NoItem \notin Uuid /\ Gone \notin Uuid /\ NoItem # Gone
  /\ Sizes \subseteq Nat \ {0}
  /\ Resizing \in {"kept", "any"}
  /\ Editing \in {"careful", "beside", "any"}

VARIABLES
  h,            \* the History: m_items, the links of its items, m_top, m_nextCycle
  nulls,        \* identifiers that m_items has an entry for, but no item
  maxSize,      \* m_maxSize
  dialog,       \* whether slotEditData's dialog is open
  edited        \* the item that slotEditData edits

vars == <<h, nulls, maxSize, dialog, edited>>

Pointer == Uuid \cup {NoItem, Gone}

------------------------------------------------------------------------------
(* The ring. *)

Chain(g, a, b) == [g EXCEPT !.next[a] = b, !.prev[b] = a]

SlipHalfInsert(g, x, before, after) ==
  IF before \in Uuid THEN [Chain(g, before, x) EXCEPT !.next[x] = after]
                     ELSE [g EXCEPT !.next[x] = x, !.prev[x] = x]

InsertBetween(g, x, before, after) ==
  IF before \in Uuid THEN Chain(Chain(g, before, x), x, after)
                     ELSE [g EXCEPT !.next[x] = x, !.prev[x] = x]

(* An item leaves the hash: pointers to it are stale. *)
Forget(g, gone) ==
  [g EXCEPT !.items = @ \ gone,
            !.next = [u \in Uuid |-> IF u \in gone THEN NoItem ELSE @[u]],
            !.prev = [u \in Uuid |-> IF u \in gone THEN NoItem ELSE @[u]],
            !.nextCycle = IF @ \in gone THEN Gone ELSE @]

(* The k-th item from the end of the history. *)
FromEnd(g, k) ==
  LET item[i \in 1 .. k] == g.prev[IF i = 1 THEN g.top ELSE item[i - 1]]
  IN item[k]

(* How many items fit beside the null entries. *)
Room(limit) == limit - Cardinality(nulls)

SlipTrim(g, limit) ==
  LET excess == Cardinality(g.items) - limit
  IN IF excess <= 0 THEN g
     ELSE LET trimmed == Forget(g, {FromEnd(g, k) : k \in 1 .. excess})
          IN [trimmed EXCEPT !.nextCycle = IF limit = 1 THEN NoItem ELSE @]

Trim(g, room) ==
  LET excess == Cardinality(g.items) - room
  IN IF excess <= 0 \/ g.top = NoItem THEN g
     ELSE LET trimmed == Forget(g, {FromEnd(g, k) : k \in 1 .. excess})
              closed  == Chain(trimmed, FromEnd(g, excess + 1), g.top)
          IN [closed EXCEPT !.nextCycle =
                IF Cardinality(closed.items \cup nulls) <= 1 THEN NoItem ELSE @]

SlipSizeIgnored(g, x) ==
  LET linked == InsertBetween(g, x, IF g.top \in Uuid THEN g.prev[g.top] ELSE NoItem,
                              g.top)
  IN [linked EXCEPT !.items = @ \cup {x}, !.top = x, !.nextCycle = g.top]

ForceInsert(g, x) ==
  LET linked == InsertBetween(g, x, IF g.top \in Uuid THEN g.prev[g.top] ELSE NoItem,
                              g.top)
  IN Trim([linked EXCEPT !.items = @ \cup {x}, !.top = x, !.nextCycle = g.top],
          Room(maxSize))

MoveToTop(g, x) ==
  LET closed == Chain(g, g.prev[x], g.next[x])
      linked == InsertBetween(closed, x, closed.prev[g.top], g.top)
  IN [linked EXCEPT !.top = x, !.nextCycle = g.top]

(* Of a null entry, find says that there is none, and forceInsert that there *)
(* is one.                                                                   *)
InsertItem(g, x) ==
  CASE x \in nulls                  -> g
    [] x \notin g.items \cup nulls   -> ForceInsert(g, x)
    [] x \in g.items /\ x = g.top   -> g
    [] x \in g.items /\ x # g.top   -> MoveToTop(g, x)

(* remove: if it was the only item, m_top is left at it. *)
RemoveItem(g, x) ==
  IF x \notin g.items THEN g
  ELSE LET top == IF g.top # x THEN g.top
                  ELSE IF g.next[x] = x THEN Gone ELSE g.next[x]
       IN Forget([Chain(g, g.prev[x], g.next[x]) EXCEPT !.top = top], {x})

(* History::cycleNext.  The top item goes back to where it came from, before *)
(* m_nextCycle, which takes its place.                                       *)
SlipSwapAdjacent(g) ==
  LET moving == g.nextCycle
      before == g.prev[moving]
      after  == g.next[moving]
      aside  == InsertBetween(g, g.top, before, after)
      hoist  == InsertBetween(aside, moving, g.prev[g.top], g.next[g.top])
  IN IF before = after THEN [g EXCEPT !.top = moving]
     ELSE [hoist EXCEPT !.top = moving, !.nextCycle = after]

CycledNext(g) ==
  LET moving    == g.nextCycle
      before    == g.prev[moving]
      after     == g.next[moving]
      prev      == IF before = g.top THEN moving ELSE before
      aftertop  == IF before = g.top THEN g.top ELSE g.next[g.top]
      next      == IF before # g.top /\ after = g.top THEN moving ELSE after
      endofhist == IF before # g.top /\ after = g.top THEN g.top ELSE g.prev[g.top]
      aside     == InsertBetween(g, g.top, prev, next)
      hoisted   == InsertBetween(aside, moving, endofhist, aftertop)
  IN IF before = after THEN [g EXCEPT !.top = moving]
     ELSE [hoisted EXCEPT !.top = moving, !.nextCycle = next]

(* History::cyclePrev, the other way. *)
CycledPrev(g) ==
  LET moving    == g.prev[g.nextCycle]
      before    == g.prev[moving]
      prevprev  == IF before = g.top THEN moving ELSE before
      aftertop  == IF before = g.top THEN g.top ELSE g.next[g.top]
      atEnd     == before # g.top /\ g.nextCycle = g.top
      next      == IF atEnd THEN aftertop ELSE g.nextCycle
      endofhist == IF atEnd THEN g.top ELSE g.prev[g.top]
      aside     == InsertBetween(g, g.top, prevprev, next)
      hoisted   == InsertBetween(aside, moving, endofhist, aftertop)
  IN IF g.nextCycle = before THEN [g EXCEPT !.top = g.next[g.top]]
     ELSE [hoisted EXCEPT !.top = moving, !.nextCycle = g.top]

------------------------------------------------------------------------------
(* Calls. *)

Undisturbed == Editing = "careful" => ~dialog

(* The clipboard changed (applyClipChanges), or the saved history is read,   *)
(* item by item.                                                             *)
Insert(x) ==
  /\ Undisturbed
  /\ h' = InsertItem(h, x)
  /\ edited' = IF edited \in Uuid \ h'.items THEN Gone ELSE edited
  /\ UNCHANGED <<nulls, maxSize, dialog>>

(* slotMoveToTop, from the popup menu *)
Choose(x) ==
  /\ Undisturbed
  /\ x \in h.items \ {h.top}
  /\ h' = MoveToTop(h, x)
  /\ UNCHANGED <<nulls, maxSize, dialog, edited>>

(* What follows when a stale m_nextCycle is used is not modelled. *)
CycleNext ==
  /\ Undisturbed
  /\ h.top # NoItem
  /\ h.nextCycle \notin {NoItem, Gone, h.top}
  /\ h' = CycledNext(h)
  /\ UNCHANGED <<nulls, maxSize, dialog, edited>>

CyclePrev ==
  /\ Undisturbed
  /\ h.top # NoItem
  /\ h.nextCycle \notin {NoItem, Gone}
  /\ h.prev[h.nextCycle] # h.top
  /\ h' = CycledPrev(h)
  /\ UNCHANGED <<nulls, maxSize, dialog, edited>>

(* slotClear does not reset m_nextCycle. *)
Clear ==
  /\ Undisturbed
  /\ h' = [Forget(h, h.items) EXCEPT !.top = NoItem]
  /\ nulls' = {}
  /\ edited' = IF edited \in Uuid THEN Gone ELSE edited
  /\ UNCHANGED <<maxSize, dialog>>

(* With as many null entries, or more, trim would delete the whole ring, and *)
(* go on.                                                                    *)
SetMaxSize(n) ==
  /\ Undisturbed
  /\ h.top = NoItem \/ Room(n) > 0
  /\ maxSize' = n
  /\ h' = Trim(h, Room(n))
  /\ Resizing = "kept" => (h'.nextCycle = Gone => h.nextCycle = Gone)
  /\ edited' = IF edited \in Uuid \ h'.items THEN Gone ELSE edited
  /\ UNCHANGED <<nulls, dialog>>

(* slotEditData opens a dialog with an event loop of its own.  Only text can *)
(* be edited; of other items nothing is removed.                             *)
BeginEdit ==
  /\ ~dialog
  /\ dialog' = TRUE
  /\ edited' \in {h.top, NoItem}
  /\ Editing = "careful" => edited' # NoItem /\ Cardinality(h.items) > 1
  /\ UNCHANGED <<h, nulls, maxSize>>

CancelEdit ==
  /\ dialog
  /\ dialog' = FALSE
  /\ edited' = NoItem
  /\ UNCHANGED <<h, nulls, maxSize>>

(* Of the only item: remove leaves m_top at it, and forceInsert looks for    *)
(* the item before it in m_items, which makes a null entry for it.  The new  *)
(* item takes the place of that entry, or is a ring of its own beside it.    *)
(* If there is no room for both, trim deletes the new item and goes on; what *)
(* follows then is not modelled.                                             *)
ReplaceOnly(x) ==
  /\ Editing = "any"
  /\ h.items = {edited}
  /\ x \notin nulls
  /\ nulls' = (nulls \cup {edited}) \ {x}
  /\ Cardinality(nulls') < maxSize
  /\ h' = [InsertBetween(Forget(h, {edited}), x, NoItem, NoItem) EXCEPT
             !.items = {x}, !.top = x, !.nextCycle = Gone]

AcceptEdit(x) ==
  /\ dialog
  /\ edited # Gone
  /\ Editing = "careful" => x \notin h.items \ {edited}
  /\ \/ ReplaceOnly(x)
     \/ /\ h.items # {edited}
        /\ h' = InsertItem(RemoveItem(h, edited), x)
        /\ UNCHANGED nulls
  /\ dialog' = FALSE
  /\ edited' = NoItem
  /\ UNCHANGED maxSize

------------------------------------------------------------------------------
Init ==
  /\ h = [items |-> {}, next |-> [u \in Uuid |-> NoItem],
          prev |-> [u \in Uuid |-> NoItem], top |-> NoItem, nextCycle |-> NoItem]
  /\ nulls = {}
  /\ maxSize \in Sizes
  /\ dialog = FALSE
  /\ edited = NoItem

Next ==
  \/ \E x \in Uuid : Insert(x) \/ Choose(x) \/ AcceptEdit(x)
  \/ CycleNext
  \/ CyclePrev
  \/ Clear
  \/ \E n \in Sizes : SetMaxSize(n)
  \/ BeginEdit
  \/ CancelEdit

Spec == Init /\ [][Next]_vars

------------------------------------------------------------------------------
(* Properties. *)

(* The links, the pointers and the dialog have their types; an item is in the *)
(* hash exactly if it is linked.                                              *)
TypeOK ==
  /\ h \in [items : SUBSET Uuid, next : [Uuid -> Uuid \cup {NoItem}],
            prev : [Uuid -> Uuid \cup {NoItem}], top : Pointer, nextCycle : Pointer]
  /\ \A u \in Uuid : (u \in h.items) <=> (h.next[u] # NoItem)
  /\ nulls \subseteq Uuid \ h.items
  /\ maxSize \in Sizes
  /\ dialog \in BOOLEAN
  /\ edited \in Pointer
  /\ edited # NoItem => dialog

(* The k-th item after the top. *)
Walk(k) ==
  LET item[i \in 0 .. k] == IF i = 0 THEN h.top ELSE h.next[item[i - 1]]
  IN item[k]

Size == Cardinality(h.items)

(* cycleNext and cyclePrev relink up to four neighbours, which may be the same *)
(* items; insert, remove and trim relink the ends.  The items are always one   *)
(* ring: from the top, the links reach each item once and come back, and       *)
(* previous_uuid is the inverse of next_uuid.  And the hash has no entry       *)
(* beside them: what is counted, found and trimmed is on the ring.             *)
RingIsWhole ==
  /\ nulls = {}
  /\ h.items = {} <=> h.top = NoItem
  /\ h.top # NoItem =>
       /\ {Walk(k) : k \in 0 .. Size - 1} = h.items
       /\ Walk(Size) = h.top
       /\ \A u \in h.items : h.prev[h.next[u]] = u

(* forceInsert and setMaxSize trim: the hash never has more entries than are *)
(* configured.                                                               *)
SizeBounded == Cardinality(h.items \cup nulls) <= maxSize

(* The order of the history, which the links show with the item of the cursor *)
(* at the top.  m_nextCycle tells where that item came from.                  *)
Others == [k \in 1 .. Size - 1 |-> Walk(k)]

AbstractOrder ==
  IF h.top = NoItem THEN <<>>
  ELSE LET back == CHOOSE k \in 1 .. Size :
                     \/ k < Size /\ Others[k] = h.nextCycle
                     \/ k = Size /\ h.nextCycle \notin {Others[i] : i \in 1 .. Size - 1}
       IN SubSeq(Others, 1, back - 1) \o <<h.top>> \o SubSeq(Others, back, Size - 1)

AbstractCursor ==
  IF h.top = NoItem THEN 0
  ELSE CHOOSE k \in 1 .. Size : AbstractOrder[k] = h.top

Abstract == INSTANCE CyclingHistory WITH
  Item <- Uuid, order <- AbstractOrder, cursor <- AbstractCursor, size <- maxSize

(* The ring, m_top and m_nextCycle keep what klipper promises: the latest     *)
(* items in order; cycling forth and back brings each of them to the top and  *)
(* puts it back where it came from, and never moves anything else.            *)
ImplementsHistory == Abstract!Spec

(* history.h of m_nextCycle: it is the item that comes next, or null.  The    *)
(* handlers dereference it whenever it is not null.                           *)
CycleStaysInHistory == h.top # NoItem => h.nextCycle \in h.items \cup {NoItem}
==============================================================================
