------------------------- MODULE KlipperHistoryProofs -------------------------
(***************************************************************************)
(* What is proved of klipper's history, for any items and any settings of  *)
(* its size: the links are one ring, unless the only item is edited, and   *)
(* the history never has more entries than configured.                     *)
(*                                                                         *)
(* The proofs speak of a ring without numbering its items: next and prev   *)
(* are inverse, and no part of the items is closed under next but all of   *)
(* them (Ring).  Each handler puts an item into a ring, takes one out or   *)
(* swaps two; at the end, a walk along such a ring is shown to come back   *)
(* after as many steps as there are items, which is what RingIsWhole says. *)
(***************************************************************************)
EXTENDS KlipperHistory, FiniteSetTheorems, TLAPS

------------------------------------------------------------------------------
(* Rings. *)

Ring(I, next, prev) ==
  /\ \A u \in I : next[u] \in I /\ prev[u] \in I
  /\ \A u \in I : prev[next[u]] = u /\ next[prev[u]] = u
  /\ \A S \in SUBSET I : S # {} /\ (\A u \in S : next[u] \in S) => S = I

(* Only the links of the items matter.                                     *)
LEMMA RingSame ==
  ASSUME NEW I, NEW next, NEW prev, Ring(I, next, prev), NEW next2, NEW prev2,
         \A u \in I : next2[u] = next[u] /\ prev2[u] = prev[u]
  PROVE  Ring(I, next2, prev2)
  BY DEF Ring

LEMMA RingOfOne ==
  ASSUME NEW x, NEW next, NEW prev, next[x] = x, prev[x] = x
  PROVE  Ring({x}, next, prev)
  BY DEF Ring

(* An item that is its own neighbour is the only one.                      *)
LEMMA RingAlone ==
  ASSUME NEW I, NEW next, NEW prev, Ring(I, next, prev), NEW x \in I, next[x] = x
  PROVE  I = {x}
<1>1. {x} \in SUBSET I /\ {x} # {} /\ \A u \in {x} : next[u] \in {x}
  OBVIOUS
<1>2. QED
  BY <1>1 DEF Ring

(* x is put before t.                                                      *)
LEMMA RingInsert ==
  ASSUME NEW I, NEW next, NEW prev, Ring(I, next, prev), NEW t \in I, NEW x, x \notin I,
         NEW next2, NEW prev2,
         next2[prev[t]] = x, next2[x] = t, prev2[x] = prev[t], prev2[t] = x,
         \A u \in I : u # prev[t] => next2[u] = next[u],
         \A u \in I : u # t => prev2[u] = prev[u]
  PROVE  Ring(I \cup {x}, next2, prev2)
<1>1. \A u \in I : next[u] \in I /\ prev[u] \in I /\ prev[next[u]] = u /\ next[prev[u]] = u
  BY DEF Ring
<1>2. \A u \in I \cup {x} : next2[u] \in I \cup {x} /\ prev2[u] \in I \cup {x}
  BY <1>1
<1>3. \A u \in I : prev2[next2[u]] = u
  BY <1>1
<1>4. \A u \in I : next2[prev2[u]] = u
  BY <1>1
<1>5. prev2[next2[x]] = x /\ next2[prev2[x]] = x
  OBVIOUS
<1>6. ASSUME NEW S \in SUBSET (I \cup {x}), S # {}, \A u \in S : next2[u] \in S
      PROVE  S = I \cup {x}
  <2> DEFINE T == S \ {x}
  <2>1. T \in SUBSET I
    OBVIOUS
  <2>2. T # {}
    <3>1. CASE x \in S
      <4>1. t \in S
        BY <1>6, <3>1
      <4>2. QED
        BY <4>1
    <3>2. CASE x \notin S
      BY <1>6, <3>2
    <3>3. QED
      BY <3>1, <3>2
  <2>3. ASSUME NEW u \in T PROVE next[u] \in T
    <3>1. CASE u = prev[t]
      <4>1. next[u] = t
        BY <1>1, <3>1
      <4>2. next2[u] = x
        BY <3>1
      <4>3. x \in S
        BY <1>6, <4>2
      <4>4. t \in S
        BY <1>6, <4>3
      <4>5. QED
        BY <4>1, <4>4
    <3>2. CASE u # prev[t]
      <4>1. next2[u] = next[u] /\ next2[u] \in S /\ next[u] \in I
        BY <1>1, <1>6, <2>1, <3>2
      <4>2. QED
        BY <4>1
    <3>3. QED
      BY <3>1, <3>2
  <2>4. T = I
    <3> HIDE DEF T
    <3>1. QED
      BY <2>1, <2>2, <2>3 DEF Ring
  <2>5. prev[t] \in S
    BY <1>1, <2>4
  <2>6. x \in S
    BY <1>6, <2>5
  <2>7. QED
    BY <2>4, <2>6
<1>7. QED
  BY <1>2, <1>3, <1>4, <1>5, <1>6 DEF Ring

(* x is taken out, and its neighbours become neighbours.                   *)
LEMMA RingRemove ==
  ASSUME NEW I, NEW next, NEW prev, Ring(I, next, prev), NEW x \in I,
         NEW next2, NEW prev2,
         I # {x} => next2[prev[x]] = next[x] /\ prev2[next[x]] = prev[x],
         \A u \in I \ {x} : u # prev[x] => next2[u] = next[u],
         \A u \in I \ {x} : u # next[x] => prev2[u] = prev[u]
  PROVE  Ring(I \ {x}, next2, prev2)
<1>1. CASE I = {x}
  BY <1>1 DEF Ring
<1>2. CASE I # {x}
  <2>1. \A u \in I : next[u] \in I /\ prev[u] \in I /\ prev[next[u]] = u /\ next[prev[u]] = u
    BY DEF Ring
  <2>2. next[x] # x
    BY <1>2, RingAlone
  <2>3. prev[x] # x
    BY <2>1, <2>2
  <2>4. next2[prev[x]] = next[x] /\ prev2[next[x]] = prev[x]
    BY <1>2
  <2>5. \A u \in I \ {x} : next2[u] \in I \ {x} /\ prev2[u] \in I \ {x}
    BY <2>1, <2>2, <2>3, <2>4
  <2>6. \A u \in I \ {x} : prev2[next2[u]] = u
    BY <2>1, <2>2, <2>3, <2>4
  <2>7. \A u \in I \ {x} : next2[prev2[u]] = u
    BY <2>1, <2>2, <2>3, <2>4
  <2>8. ASSUME NEW S \in SUBSET (I \ {x}), S # {}, \A u \in S : next2[u] \in S
        PROVE  S = I \ {x}
    <3> DEFINE T == IF prev[x] \in S THEN S \cup {x} ELSE S
    <3>1. T \in SUBSET I /\ T # {}
      BY <2>8
    <3>2. ASSUME NEW u \in T PROVE next[u] \in T
      <4>1. CASE u = x
        <5>1. prev[x] \in S
          BY <2>8, <4>1
        <5>2. next[x] \in S
          BY <2>4, <2>8, <5>1
        <5>3. QED
          BY <4>1, <5>2
      <4>2. CASE u = prev[x]
        <5>1. next[u] = x
          BY <2>1, <4>2
        <5>2. prev[x] \in S
          BY <2>3, <4>2
        <5>3. QED
          BY <5>1, <5>2
      <4>3. CASE u # x /\ u # prev[x]
        <5>1. u \in S
          BY <4>3
        <5>2. next2[u] = next[u] /\ next2[u] \in S
          BY <2>8, <4>3, <5>1
        <5>3. QED
          BY <5>2
      <4>4. QED
        BY <4>1, <4>2, <4>3
    <3>3. T = I
      <4> HIDE DEF T
      <4>1. QED
        BY <3>1, <3>2 DEF Ring
    <3>4. QED
      BY <2>8, <3>3
  <2>9. QED
    BY <2>5, <2>6, <2>7, <2>8 DEF Ring
<1>3. QED
  BY <1>1, <1>2

(* The same for the links of histories.                                    *)
PutBefore(I, next, prev, t, x, next2, prev2) ==
  /\ t \in I /\ x \notin I
  /\ next2[prev[t]] = x /\ next2[x] = t /\ prev2[x] = prev[t] /\ prev2[t] = x
  /\ \A u \in I : u # prev[t] => next2[u] = next[u]
  /\ \A u \in I : u # t => prev2[u] = prev[u]

LEMMA RingInsertEvery ==
  \A I, next, prev, t, x, next2, prev2 :
    Ring(I, next, prev) /\ PutBefore(I, next, prev, t, x, next2, prev2)
      => Ring(I \cup {x}, next2, prev2)
  BY RingInsert DEF PutBefore

TakenOut(I, next, prev, x, next2, prev2) ==
  /\ x \in I
  /\ next2[prev[x]] = next[x] /\ prev2[next[x]] = prev[x]
  /\ \A u \in I \ {x} : u # prev[x] => next2[u] = next[u]
  /\ \A u \in I \ {x} : u # next[x] => prev2[u] = prev[u]

LEMMA RingRemoveEvery ==
  \A I, next, prev, x, next2, prev2 :
    Ring(I, next, prev) /\ TakenOut(I, next, prev, x, next2, prev2)
      => Ring(I \ {x}, next2, prev2)
  BY RingRemove DEF TakenOut

(* t and m change places.                                                  *)
Swapped(t, m, u) == IF u = t THEN m ELSE IF u = m THEN t ELSE u

LEMMA RingSwap ==
  ASSUME NEW I, NEW next, NEW prev, Ring(I, next, prev), NEW t \in I, NEW m \in I,
         NEW next2, NEW prev2,
         \A u \in I : next2[u] = Swapped(t, m, next[Swapped(t, m, u)]),
         \A u \in I : prev2[u] = Swapped(t, m, prev[Swapped(t, m, u)])
  PROVE  Ring(I, next2, prev2)
<1> DEFINE w(u) == Swapped(t, m, u)
<1>1. \A u \in I : next[u] \in I /\ prev[u] \in I /\ prev[next[u]] = u /\ next[prev[u]] = u
  BY DEF Ring
<1>2. \A u \in I : w(u) \in I /\ w(w(u)) = u
  BY DEF Swapped
<1>3. \A u \in I : next2[u] = w(next[w(u)]) /\ prev2[u] = w(prev[w(u)])
  OBVIOUS
<1> HIDE DEF w
<1>4. \A u \in I : next2[u] \in I /\ prev2[u] \in I
  BY <1>1, <1>2, <1>3
<1>5. \A u \in I : prev2[next2[u]] = u
  <2> TAKE u \in I
  <2>1. w(u) \in I /\ next[w(u)] \in I /\ next2[u] = w(next[w(u)]) /\ next2[u] \in I
    BY <1>1, <1>2, <1>3, <1>4
  <2>2. w(next2[u]) = next[w(u)]
    BY <1>2, <2>1
  <2>3. prev2[next2[u]] = w(prev[w(next2[u])])
    BY <1>3, <2>1
  <2>4. prev[next[w(u)]] = w(u)
    BY <1>1, <2>1
  <2>5. QED
    BY <1>2, <2>2, <2>3, <2>4
<1>6. \A u \in I : next2[prev2[u]] = u
  <2> TAKE u \in I
  <2>1. w(u) \in I /\ prev[w(u)] \in I /\ prev2[u] = w(prev[w(u)]) /\ prev2[u] \in I
    BY <1>1, <1>2, <1>3, <1>4
  <2>2. w(prev2[u]) = prev[w(u)]
    BY <1>2, <2>1
  <2>3. next2[prev2[u]] = w(next[w(prev2[u])])
    BY <1>3, <2>1
  <2>4. next[prev[w(u)]] = w(u)
    BY <1>1, <2>1
  <2>5. QED
    BY <1>2, <2>2, <2>3, <2>4
<1>7. ASSUME NEW S \in SUBSET I, S # {}, \A u \in S : next2[u] \in S
      PROVE  S = I
  <2> DEFINE T == {u \in I : w(u) \in S}
  <2>1. T \in SUBSET I
    OBVIOUS
  <2>2. T # {}
    <3>1. PICK u \in S : TRUE
      BY <1>7
    <3>2. w(u) \in T
      BY <1>2, <3>1
    <3>3. QED
      BY <3>2
  <2>3. ASSUME NEW u \in T PROVE next[u] \in T
    <3>1. w(u) \in S /\ w(u) \in I /\ w(w(u)) = u
      BY <1>2
    <3>2. next2[w(u)] = w(next[u])
      BY <1>3, <3>1
    <3>3. next2[w(u)] \in S /\ next[u] \in I
      BY <1>1, <1>7, <3>1
    <3>4. QED
      BY <3>2, <3>3
  <2>4. T = I
    <3> HIDE DEF T
    <3>1. QED
      BY <2>1, <2>2, <2>3 DEF Ring
  <2>5. ASSUME NEW u \in I PROVE u \in S
    <3>1. w(u) \in T /\ w(w(u)) = u
      BY <1>2, <2>4
    <3>2. QED
      BY <3>1
  <2>6. QED
    BY <2>5
<1>8. QED
  BY <1>4, <1>5, <1>6, <1>7 DEF Ring

------------------------------------------------------------------------------
(* Walks: the values of a function that is defined by its value before.    *)

(* A set of numbers that is not empty has a least one.                     *)
LEMMA LeastNumber ==
  ASSUME NEW S \in SUBSET Nat, S # {}
  PROVE  \E m \in S : \A k \in S : ~(k < m)
<1>1. PICK m \in S : \A k \in S : <<k, m>> \notin OpToRel(<, Nat)
  BY WFMin, NatLessThanWellFounded, Zenon
<1>2. \A k \in S : k < m => <<k, m>> \in OpToRel(<, Nat)
  BY Zenon DEF OpToRel
<1>3. QED
  BY <1>1, <1>2

Follows(W, n, link, start) ==
  W[0] = start /\ \A i \in 1 .. n : W[i] = link[W[i - 1]]

LEMMA WalkExists ==
  ASSUME NEW I, NEW link, \A u \in I : link[u] \in I, NEW start \in I, NEW n \in Nat
  PROVE  \E W \in [0 .. n -> I] : Follows(W, n, link, start)
<1> DEFINE Defined(k) == \E W \in [0 .. k -> I] : Follows(W, k, link, start)
           missing == {k \in 0 .. n : ~Defined(k)}
<1>1. ASSUME missing # {} PROVE FALSE
  <2>1. PICK m \in missing : \A k \in missing : ~(k < m)
    <3>1. missing \in SUBSET Nat
      OBVIOUS
    <3> HIDE DEF missing
    <3>2. QED
      BY <1>1, <3>1, LeastNumber
  <2>2. m # 0
    <3> DEFINE W == [i \in 0 .. 0 |-> start]
    <3>1. W \in [0 .. 0 -> I] /\ W[0] = start /\ 1 .. 0 = {}
      OBVIOUS
    <3> HIDE DEF W
    <3>2. Follows(W, 0, link, start)
      BY <3>1 DEF Follows
    <3>3. Defined(0)
      BY <3>1, <3>2
    <3>4. QED
      BY <3>3
  <2>3. m \in 1 .. n /\ m - 1 \in 0 .. n /\ Defined(m - 1)
    BY <2>1, <2>2
  <2>4. PICK V \in [0 .. m - 1 -> I] : Follows(V, m - 1, link, start)
    BY <2>3
  <2> DEFINE W == [i \in 0 .. m |-> IF i = m THEN link[V[m - 1]] ELSE V[i]]
  <2>5. link[V[m - 1]] \in I
    BY <2>3, <2>4
  <2>6. W \in [0 .. m -> I]
    BY <2>3, <2>4, <2>5
  <2>7. W[0] = start /\ \A i \in 1 .. m : W[i] = link[W[i - 1]]
    BY <2>3, <2>4 DEF Follows
  <2>8. Defined(m)
    <3> HIDE DEF W
    <3>1. QED
      BY <2>6, <2>7 DEF Follows
  <2>9. QED
    BY <2>1, <2>8
<1>2. Defined(n)
  <2> HIDE DEF Defined
  <2>1. QED
    BY <1>1
<1>3. QED
  BY <1>2

LEMMA WalkUnique ==
  ASSUME NEW link, NEW start, NEW n \in Nat, NEW V, NEW W,
         Follows(V, n, link, start), Follows(W, n, link, start)
  PROVE  \A i \in 0 .. n : V[i] = W[i]
<1> DEFINE wrong == {i \in 0 .. n : V[i] # W[i]}
<1>1. ASSUME wrong # {} PROVE FALSE
  <2>1. PICK m \in wrong : \A k \in wrong : ~(k < m)
    <3>1. wrong \in SUBSET Nat
      OBVIOUS
    <3> HIDE DEF wrong
    <3>2. QED
      BY <1>1, <3>1, LeastNumber
  <2>2. m # 0
    BY DEF Follows
  <2>3. m \in 1 .. n /\ m - 1 \in 0 .. n /\ V[m - 1] = W[m - 1]
    BY <2>1, <2>2
  <2>4. QED
    BY <2>3 DEF Follows
<1>2. QED
  BY <1>1

(* Walk and FromEnd are recursive functions: their values are those of any *)
(* walk along the links.                                                   *)
LEMMA WalkIs ==
  ASSUME NEW n \in Nat, NEW W, Follows(W, n, h.next, h.top), NEW k \in 0 .. n
  PROVE  Walk(k) = W[k]
<1> DEFINE item == CHOOSE item : item = [i \in 0 .. k |->
                     IF i = 0 THEN h.top ELSE h.next[item[i - 1]]]
           V == [i \in 0 .. k |-> W[i]]
<1>1. Walk(k) = item[k]
  BY DEF Walk
<1>2. k \in Nat /\ \A i \in 1 .. k : i \in 1 .. n
  OBVIOUS
<1>3. V[0] = h.top /\ \A i \in 1 .. k : V[i] = h.next[V[i - 1]]
  BY <1>2 DEF Follows
<1>4. V = [i \in 0 .. k |-> IF i = 0 THEN h.top ELSE h.next[V[i - 1]]]
  <2>1. \A i \in 0 .. k : V[i] = IF i = 0 THEN h.top ELSE h.next[V[i - 1]]
    <3> HIDE DEF V
    <3> TAKE i \in 0 .. k
    <3>1. i = 0 \/ i \in 1 .. k
      OBVIOUS
    <3>2. QED
      BY <1>3, <3>1
  <2>2. V = [i \in 0 .. k |-> V[i]]
    BY SMTT(30)
  <2> HIDE DEF V
  <2>3. QED
    BY <2>1, <2>2, Zenon
<1> HIDE DEF V
<1>5. item = [i \in 0 .. k |-> IF i = 0 THEN h.top ELSE h.next[item[i - 1]]]
  BY <1>4
<1> HIDE DEF item
<1>6. \A i \in 0 .. k : item[i] = IF i = 0 THEN h.top ELSE h.next[item[i - 1]]
  BY <1>5, Zenon
<1>7. item[0] = h.top /\ \A i \in 1 .. k : item[i] = h.next[item[i - 1]]
  BY <1>2, <1>6
<1>8. Follows(item, k, h.next, h.top)
  BY <1>7 DEF Follows
<1>9. Follows(W, k, h.next, h.top)
  BY <1>2 DEF Follows
<1>10. item[k] = W[k]
  BY <1>2, <1>8, <1>9, WalkUnique
<1>11. QED
  BY <1>1, <1>10

LEMMA FromEndIs ==
  ASSUME NEW g, NEW n \in Nat, NEW W, Follows(W, n, g.prev, g.top), NEW k \in 1 .. n
  PROVE  FromEnd(g, k) = W[k]
<1> DEFINE item == CHOOSE item : item = [i \in 1 .. k |->
                     g.prev[IF i = 1 THEN g.top ELSE item[i - 1]]]
           V == [i \in 1 .. k |-> W[i]]
<1>1. FromEnd(g, k) = item[k]
  BY DEF FromEnd
<1>2. k \in Nat /\ \A i \in 1 .. k : i \in 1 .. n
  OBVIOUS
<1>3. \A i \in 1 .. k : V[i] = g.prev[IF i = 1 THEN g.top ELSE V[i - 1]]
  <2> TAKE i \in 1 .. k
  <2>1. W[0] = g.top /\ W[i] = g.prev[W[i - 1]]
    BY <1>2 DEF Follows
  <2>2. CASE i = 1
    <3>1. W[i - 1] = g.top
      BY <2>1, <2>2
    <3>2. QED
      BY <2>1, <2>2, <3>1
  <2>3. CASE i # 1
    <3>1. i - 1 \in 1 .. k
      BY <2>3
    <3>2. QED
      BY <2>1, <2>3, <3>1
  <2>4. QED
    BY <2>2, <2>3
<1>4. V = [i \in 1 .. k |-> g.prev[IF i = 1 THEN g.top ELSE V[i - 1]]]
  <2>1. V = [i \in 1 .. k |-> V[i]]
    BY SMTT(30)
  <2> HIDE DEF V
  <2>2. QED
    BY <1>3, <2>1, Zenon
<1> HIDE DEF V
<1>5. item = [i \in 1 .. k |-> g.prev[IF i = 1 THEN g.top ELSE item[i - 1]]]
  BY <1>4
<1> HIDE DEF item
<1>6. \A i \in 1 .. k : item[i] = g.prev[IF i = 1 THEN g.top ELSE item[i - 1]]
  BY <1>5, Zenon
<1> DEFINE U == [i \in 0 .. k |-> IF i = 0 THEN g.top ELSE item[i]]
<1>7. U[0] = g.top /\ \A i \in 1 .. k : U[i] = g.prev[U[i - 1]]
  <2>1. U[0] = g.top
    OBVIOUS
  <2>2. ASSUME NEW i \in 1 .. k PROVE U[i] = g.prev[U[i - 1]]
    <3>1. U[i] = item[i] /\ item[i] = g.prev[IF i = 1 THEN g.top ELSE item[i - 1]]
      BY <1>6
    <3>2. U[i - 1] = IF i = 1 THEN g.top ELSE item[i - 1]
      OBVIOUS
    <3>3. QED
      BY <3>1, <3>2, Zenon
  <2>3. QED
    BY <2>1, <2>2
<1>8. U[k] = item[k]
  OBVIOUS
<1> HIDE DEF U
<1>9. Follows(U, k, g.prev, g.top)
  BY <1>7 DEF Follows
<1>10. Follows(W, k, g.prev, g.top)
  BY <1>2 DEF Follows
<1>11. U[k] = W[k]
  BY <1>2, <1>9, <1>10, WalkUnique
<1>12. QED
  BY <1>1, <1>8, <1>11

(* A walk along a ring reaches each item and is back after as many steps as *)
(* there are items: it cannot meet itself anywhere but at its start, since  *)
(* the item before is known, and what it has met until then is closed.      *)
LEMMA RingComesBack ==
  ASSUME NEW I, IsFiniteSet(I), NEW next, NEW prev, Ring(I, next, prev), NEW t \in I,
         NEW n, n = Cardinality(I), NEW W \in [0 .. n -> I], Follows(W, n, next, t)
  PROVE  n \in Nat \ {0} /\ {W[k] : k \in 0 .. n - 1} = I /\ W[n] = t
<1>1. n \in Nat /\ n # 0
  BY FS_CardinalityType, FS_EmptySet
<1>2. PICK x \in 0 .. n, y \in 0 .. n : x # y /\ W[x] = W[y]
  <2>1. IsFiniteSet(0 .. n) /\ Cardinality(0 .. n) = n + 1
    BY <1>1, FS_Interval
  <2>2. Cardinality(I) < Cardinality(0 .. n)
    BY <1>1, <2>1
  <2>3. QED
    BY <2>1, <2>2, FS_PigeonHole, ZenonT(40)
<1> DEFINE again == {m \in 1 .. n : \E i \in 0 .. m - 1 : W[m] = W[i]}
<1>3. again # {}
  <2>1. CASE x < y
    <3>1. y \in 1 .. n /\ x \in 0 .. y - 1
      BY <1>1, <2>1
    <3>2. QED
      BY <1>2, <3>1
  <2>2. CASE y < x
    <3>1. x \in 1 .. n /\ y \in 0 .. x - 1
      BY <1>1, <2>2
    <3>2. QED
      BY <1>2, <3>1
  <2>3. QED
    BY <1>1, <1>2, <2>1, <2>2
<1>4. PICK m \in again : \A k \in again : ~(k < m)
  <2>1. again \in SUBSET Nat
    OBVIOUS
  <2> HIDE DEF again
  <2>2. QED
    BY <1>3, <2>1, LeastNumber
<1>5. m \in 1 .. n
  OBVIOUS
<1>6. PICK i \in 0 .. m - 1 : W[m] = W[i]
  OBVIOUS
<1>7. \A k \in 1 .. n : W[k] = next[W[k - 1]] /\ W[k - 1] \in I
  <2> TAKE k \in 1 .. n
  <2>1. k - 1 \in 0 .. n
    BY <1>1
  <2>2. QED
    BY <2>1 DEF Follows
<1>8. i = 0
  <2>1. SUFFICES ASSUME i # 0 PROVE FALSE
    OBVIOUS
  <2>2. i \in 1 .. n /\ m - 1 \in 1 .. n /\ i - 1 \in 0 .. (m - 1) - 1
    BY <1>1, <1>5, <2>1
  <2>3. prev[W[m]] = W[m - 1]
    BY <1>5, <1>7 DEF Ring
  <2>4. prev[W[i]] = W[i - 1]
    BY <1>7, <2>2 DEF Ring
  <2>5. m - 1 \in again
    BY <1>6, <2>2, <2>3, <2>4
  <2>6. m - 1 < m
    BY <1>1, <1>5
  <2>7. QED
    BY <1>4, <2>5, <2>6
<1>9. W[m] = t
  BY <1>6, <1>8 DEF Follows
<1> DEFINE S == {W[k] : k \in 0 .. m - 1}
<1>10. S = I
  <2>1. S \in SUBSET I
    BY <1>1, <1>5
  <2>2. W[0] \in S /\ W[0] = t
    BY <1>1, <1>5 DEF Follows
  <2>3. ASSUME NEW u \in S PROVE next[u] \in S
    <3>1. PICK k \in 0 .. m - 1 : u = W[k]
      OBVIOUS
    <3>2. k + 1 \in 1 .. n /\ (k + 1) - 1 = k
      BY <1>1, <1>5
    <3>3. next[u] = W[k + 1]
      BY <1>7, <3>1, <3>2
    <3>4. CASE k + 1 = m
      BY <1>9, <2>2, <3>3, <3>4
    <3>5. CASE k + 1 # m
      <4>1. k + 1 \in 0 .. m - 1
        BY <1>1, <1>5, <3>5
      <4>2. QED
        BY <3>3, <4>1
    <3>6. QED
      BY <3>4, <3>5
  <2> HIDE DEF S
  <2>4. QED
    BY <2>1, <2>2, <2>3 DEF Ring
<1>11. m = n
  <2> DEFINE V == [k \in 0 .. m - 1 |-> W[k]]
  <2>1. V \in [0 .. m - 1 -> I]
    BY <1>1, <1>5
  <2>2. \A u \in I : \E k \in 0 .. m - 1 : V[k] = u
    BY <1>10
  <2> HIDE DEF V
  <2>3. V \in Surjection(0 .. m - 1, I)
    BY <2>1, <2>2 DEF Surjection
  <2>4. IsFiniteSet(0 .. m - 1) /\ Cardinality(0 .. m - 1) = m
    <3>1. 0 \in Int /\ m - 1 \in Int /\ ~(0 > m - 1) /\ (m - 1) - 0 + 1 = m
      BY <1>1, <1>5
    <3>2. QED
      BY <3>1, FS_Interval, Zenon
  <2>5. Cardinality(I) <= m
    BY <2>3, <2>4, FS_Surjection
  <2>6. QED
    BY <1>1, <1>5, <2>5
<1>12. QED
  BY <1>1, <1>9, <1>10, <1>11

(* Items are taken off the end of a ring, one after the other.             *)
CutNext(I, next, t, last) == [u \in I |-> IF u = last THEN t ELSE next[u]]
CutPrev(I, prev, t, last) == [u \in I |-> IF u = t THEN last ELSE prev[u]]

EndOf(P, k) == {P[j] : j \in 1 .. k}

CutOff(I, next, prev, t, P, k, left) ==
  /\ t \in left /\ P[k + 1] \in left
  /\ Cardinality(left) = Cardinality(I) - k
  /\ Ring(left, CutNext(I, next, t, P[k + 1]), CutPrev(I, prev, t, P[k + 1]))

LEMMA RingCut ==
  ASSUME NEW I, IsFiniteSet(I), NEW next, NEW prev, Ring(I, next, prev), NEW t \in I,
         NEW n, n = Cardinality(I), NEW P \in [0 .. n -> I], Follows(P, n, prev, t),
         NEW excess \in Nat, excess < n
  PROVE  CutOff(I, next, prev, t, P, excess, I \ EndOf(P, excess))
<1> DEFINE left(k) == I \ {P[j] : j \in 1 .. k}
           Right(k) ==
             /\ t \in left(k) /\ P[k + 1] \in left(k)
             /\ Cardinality(left(k)) = n - k
             /\ Ring(left(k), CutNext(I, next, t, P[k + 1]), CutPrev(I, prev, t, P[k + 1]))
           wrong == {k \in 0 .. excess : ~Right(k)}
<1>1. n \in Nat /\ n # 0
  BY FS_CardinalityType, FS_EmptySet
<1>2. \A u \in I : next[u] \in I /\ prev[u] \in I /\ prev[next[u]] = u /\ next[prev[u]] = u
  BY DEF Ring
<1>3. P[0] = t /\ \A k \in 1 .. n : P[k] = prev[P[k - 1]] /\ P[k] \in I
  BY <1>1 DEF Follows
<1>4. Right(0)
  <2>1. left(0) = I /\ 0 + 1 = 1
    OBVIOUS
  <2>2. P[1] = prev[t] /\ P[1] \in I
    BY <1>1, <1>3
  <2>3. Ring(I, CutNext(I, next, t, P[1]), CutPrev(I, prev, t, P[1]))
    <3> DEFINE next2 == CutNext(I, next, t, P[1])
               prev2 == CutPrev(I, prev, t, P[1])
    <3>1. \A u \in I : next2[u] = next[u] /\ prev2[u] = prev[u]
      BY <1>2, <2>2 DEF CutNext, CutPrev
    <3> HIDE DEF next2, prev2
    <3>2. Ring(I, next2, prev2)
      BY <3>1, RingSame
    <3>3. QED
      BY <3>2 DEF next2, prev2
  <2> HIDE DEF left
  <2>4. QED
    BY <1>1, <2>1, <2>2, <2>3
<1>5. ASSUME NEW k \in 0 .. excess, k + 1 \in 0 .. excess, Right(k) PROVE Right(k + 1)
  <2> DEFINE x == P[k + 1]
             y == P[k + 2]
             J == left(k)
             next1 == CutNext(I, next, t, x)
             prev1 == CutPrev(I, prev, t, x)
             next2 == CutNext(I, next, t, y)
             prev2 == CutPrev(I, prev, t, y)
  <2>1. t \in J /\ x \in J /\ Cardinality(J) = n - k /\ Ring(J, next1, prev1) /\ J \subseteq I
    BY <1>5
  <2>2. /\ k + 1 \in 1 .. n /\ k + 2 \in 1 .. n /\ n - k # 1
        /\ (k + 2) - 1 = k + 1 /\ (k + 1) + 1 = k + 2
    BY <1>1, <1>5
  <2>3. x \in I /\ y \in I /\ y = prev[x]
    BY <1>3, <2>2
  <2>4. left(k + 1) = J \ {x}
    <3>1. \A j \in Int : j \in 1 .. k + 1 <=> j \in 1 .. k \/ j = k + 1
      BY <1>5
    <3>2. QED
      BY <3>1
  <2>5. IsFiniteSet(J)
    BY <2>1, FS_Subset
  <2> HIDE DEF J, left, x, y
  <2>6. J # {x}
    BY <1>1, <2>1, <2>2, FS_Singleton
  <2>7. next1[x] = t /\ next1[x] # x
    <3>1. next1[x] = t
      BY <2>3 DEF CutNext
    <3> HIDE DEF next1, prev1
    <3>2. next1[x] # x
      BY <2>1, <2>6, RingAlone
    <3>3. QED
      BY <3>1, <3>2
  <2>8. prev1[x] = y
    BY <2>3, <2>7 DEF CutPrev
  <2>9. next2[y] = t /\ prev2[t] = y
    BY <2>3 DEF CutNext, CutPrev
  <2>10. \A u \in J \ {x} : u # y => next2[u] = next1[u]
    BY <2>1 DEF CutNext
  <2>11. \A u \in J \ {x} : u # t => prev2[u] = prev1[u]
    BY <2>1 DEF CutPrev
  <2> HIDE DEF next1, prev1, next2, prev2
  <2>12. Ring(J \ {x}, next2, prev2)
    <3>1. next2[prev1[x]] = next1[x] /\ prev2[next1[x]] = prev1[x]
      BY <2>7, <2>8, <2>9, Zenon
    <3>2. \A u \in J \ {x} : u # prev1[x] => next2[u] = next1[u]
      BY <2>8, <2>10, Zenon
    <3>3. \A u \in J \ {x} : u # next1[x] => prev2[u] = prev1[u]
      BY <2>7, <2>11, Zenon
    <3>4. Ring(J, next1, prev1) /\ x \in J
      BY <2>1
    <3>5. QED
      BY <3>1, <3>2, <3>3, <3>4, RingRemove
  <2>13. Cardinality(J \ {x}) = n - (k + 1)
    <3>1. Cardinality(J \ {x}) = Cardinality(J) - 1
      BY <2>1, <2>5, FS_RemoveElement
    <3>2. QED
      BY <1>1, <1>5, <2>1, <3>1
  <2>14. t \in J \ {x}
    BY <2>1, <2>7
  <2>15. y \in J \ {x}
    BY <2>1, <2>7, <2>8 DEF Ring
  <2>16. QED
    BY <2>2, <2>4, <2>12, <2>13, <2>14, <2>15 DEF next2, prev2, y
<1>6. ASSUME wrong # {} PROVE FALSE
  <2>1. PICK m \in wrong : \A k \in wrong : ~(k < m)
    <3>1. wrong \in SUBSET Nat
      OBVIOUS
    <3> HIDE DEF wrong
    <3>2. QED
      BY <1>6, <3>1, LeastNumber
  <2> HIDE DEF Right
  <2>2. m # 0 /\ m \in 0 .. excess /\ ~Right(m)
    BY <1>4, <2>1
  <2>3. m - 1 \in 0 .. excess /\ (m - 1) + 1 = m /\ m - 1 < m
    BY <2>2
  <2>4. Right(m - 1)
    BY <2>1, <2>3
  <2>5. QED
    BY <1>5, <2>2, <2>3, <2>4
<1>7. Right(excess)
  <2> HIDE DEF Right
  <2>1. QED
    BY <1>6
<1>8. QED
  BY <1>7 DEF CutOff, EndOf

LEMMA RingCutEvery ==
  \A I, next, prev : \A t \in I : \A n : \A P \in [0 .. n -> I] : \A excess \in Nat :
    IsFiniteSet(I) /\ Ring(I, next, prev) /\ n = Cardinality(I) /\ Follows(P, n, prev, t)
    /\ excess < n
      => CutOff(I, next, prev, t, P, excess, I \ EndOf(P, excess))
  BY RingCut

------------------------------------------------------------------------------
(* What the operators on the history do to each part of it.                *)

Histories == [items : SUBSET Uuid, next : [Uuid -> Uuid \cup {NoItem}],
              prev : [Uuid -> Uuid \cup {NoItem}], top : Pointer, nextCycle : Pointer]

(* The same history, but for its links.                                    *)
Relinked(g, g2) ==
  /\ g2 \in Histories
  /\ g2.items = g.items /\ g2.top = g.top /\ g2.nextCycle = g.nextCycle

Chained(g, g2, a, b) ==
  /\ Relinked(g, g2)
  /\ \A u \in Uuid : g2.next[u] = IF u = a THEN b ELSE g.next[u]
  /\ \A u \in Uuid : g2.prev[u] = IF u = b THEN a ELSE g.prev[u]

LEMMA ChainFacts ==
  ASSUME NEW g \in Histories, NEW a \in Uuid, NEW b \in Uuid
  PROVE  Chained(g, Chain(g, a, b), a, b)
<1> DEFINE next2 == [g.next EXCEPT ![a] = b]
           prev2 == [g.prev EXCEPT ![b] = a]
<1>1. next2 \in [Uuid -> Uuid \cup {NoItem}] /\ prev2 \in [Uuid -> Uuid \cup {NoItem}]
  BY DEF Histories
<1>2. \A u \in Uuid : /\ next2[u] = IF u = a THEN b ELSE g.next[u]
                      /\ prev2[u] = IF u = b THEN a ELSE g.prev[u]
  BY DEF Histories
<1>3. Chain(g, a, b) = [g EXCEPT !.next = next2, !.prev = prev2]
  BY DEF Chain, Histories
<1> HIDE DEF next2, prev2
<1>4. QED
  BY <1>1, <1>2, <1>3 DEF Histories, Chained, Relinked

LEMMA ChainEvery ==
  \A g \in Histories : \A a \in Uuid : \A b \in Uuid : Chained(g, Chain(g, a, b), a, b)
  BY ChainFacts

(* x comes between two items, which may be the same.                       *)
Between(g, g2, x, before, after) ==
  /\ Relinked(g, g2)
  /\ \A u \in Uuid : g2.next[u] = IF u = x THEN after
                                  ELSE IF u = before THEN x ELSE g.next[u]
  /\ \A u \in Uuid : g2.prev[u] = IF u = after THEN x
                                  ELSE IF u = x THEN before ELSE g.prev[u]

LEMMA BetweenEvery ==
  \A g \in Histories : \A x \in Uuid : \A before \in Uuid : \A after \in Uuid :
    Between(g, InsertBetween(g, x, before, after), x, before, after)
<1> TAKE g \in Histories
<1> TAKE x \in Uuid
<1> TAKE before \in Uuid
<1> TAKE after \in Uuid
<1>1. PICK g1 : g1 = Chain(g, before, x)
  OBVIOUS
<1>2. Chained(g, g1, before, x)
  BY <1>1, ChainEvery
<1>3. g1 \in Histories
  BY <1>2 DEF Chained, Relinked
<1>4. PICK g2 : g2 = Chain(g1, x, after)
  OBVIOUS
<1>5. Chained(g1, g2, x, after)
  BY <1>3, <1>4, ChainEvery
<1>6. InsertBetween(g, x, before, after) = g2
  BY <1>1, <1>4 DEF InsertBetween
<1>7. Between(g, g2, x, before, after)
  BY <1>2, <1>5 DEF Chained, Relinked, Between
<1>8. QED
  BY <1>6, <1>7

LEMMA AloneEvery ==
  \A g \in Histories : \A x \in Uuid : \A before : \A after : before \notin Uuid =>
    Chained(g, InsertBetween(g, x, before, after), x, x)
<1>1. \A g \in Histories : \A x \in Uuid : \A before : \A after : before \notin Uuid =>
        InsertBetween(g, x, before, after) = Chain(g, x, x)
  BY DEF InsertBetween, Chain
<1>2. QED
  BY <1>1, ChainEvery

Forgotten(g, g2, gone) ==
  /\ g2 \in Histories
  /\ g2.items = g.items \ gone
  /\ g2.top = g.top
  /\ g2.nextCycle = IF g.nextCycle \in gone THEN Gone ELSE g.nextCycle
  /\ \A u \in Uuid : g2.next[u] = IF u \in gone THEN NoItem ELSE g.next[u]
  /\ \A u \in Uuid : g2.prev[u] = IF u \in gone THEN NoItem ELSE g.prev[u]

LEMMA ForgetFacts ==
  ASSUME NEW g \in Histories, NEW gone
  PROVE  Forgotten(g, Forget(g, gone), gone)
<1> DEFINE next2 == [u \in Uuid |-> IF u \in gone THEN NoItem ELSE g.next[u]]
           prev2 == [u \in Uuid |-> IF u \in gone THEN NoItem ELSE g.prev[u]]
           cycle2 == IF g.nextCycle \in gone THEN Gone ELSE g.nextCycle
<1>1. next2 \in [Uuid -> Uuid \cup {NoItem}] /\ prev2 \in [Uuid -> Uuid \cup {NoItem}]
  BY DEF Histories
<1>2. \A u \in Uuid : /\ next2[u] = IF u \in gone THEN NoItem ELSE g.next[u]
                      /\ prev2[u] = IF u \in gone THEN NoItem ELSE g.prev[u]
  OBVIOUS
<1>3. cycle2 \in Pointer
  BY DEF Histories, Pointer
<1>4. Forget(g, gone) = [g EXCEPT !.items = g.items \ gone, !.next = next2,
                                  !.prev = prev2, !.nextCycle = cycle2]
  BY DEF Forget, Histories
<1> HIDE DEF next2, prev2
<1>5. QED
  BY <1>1, <1>2, <1>3, <1>4 DEF Histories, Forgotten

LEMMA ForgetEvery ==
  \A g \in Histories : \A gone : Forgotten(g, Forget(g, gone), gone)
  BY ForgetFacts

(* A history is in order: its items are one ring, and its pointers are at  *)
(* items, null or stale.                                                   *)
HistoryOK(g) ==
  /\ g \in Histories
  /\ \A u \in Uuid \ g.items : g.next[u] = NoItem
  /\ Ring(g.items, g.next, g.prev)
  /\ g.top \in g.items \/ (g.items = {} /\ g.top \in {NoItem, Gone})
  /\ g.nextCycle \in g.items \cup {NoItem, Gone}

LEMMA OkFacts ==
  ASSUME NEW g, HistoryOK(g)
  PROVE  /\ g.items \in SUBSET Uuid /\ IsFiniteSet(g.items) /\ Cardinality(g.items) \in Nat
         /\ \A u \in g.items : /\ g.next[u] \in g.items /\ g.prev[u] \in g.items
                               /\ g.prev[g.next[u]] = u /\ g.next[g.prev[u]] = u
         /\ g.top \in Uuid <=> g.top \in g.items
         /\ g.nextCycle \in Uuid => g.nextCycle \in g.items
<1>1. g.items \in SUBSET Uuid
  BY DEF HistoryOK, Histories
<1>2. IsFiniteSet(g.items)
  BY <1>1, HistoryAssumption, FS_Subset
<1>3. \A u \in g.items : /\ g.next[u] \in g.items /\ g.prev[u] \in g.items
                         /\ g.prev[g.next[u]] = u /\ g.next[g.prev[u]] = u
  BY DEF HistoryOK, Ring
<1>4. g.top \in Uuid <=> g.top \in g.items
  BY <1>1, HistoryAssumption DEF HistoryOK
<1>5. g.nextCycle \in Uuid => g.nextCycle \in g.items
  BY <1>1, HistoryAssumption DEF HistoryOK
<1>6. QED
  BY <1>1, <1>2, <1>3, <1>4, <1>5, FS_CardinalityType

------------------------------------------------------------------------------
(* The handlers keep a history in order. *)

(* Another item is at the top.                                             *)
LEMMA TopEvery ==
  \A g \in Histories : \A t \in Pointer :
    LET g2 == [g EXCEPT !.top = t]
    IN /\ g2 \in Histories /\ g2.items = g.items /\ g2.next = g.next /\ g2.prev = g.prev
       /\ g2.top = t /\ g2.nextCycle = g.nextCycle
  BY DEF Histories

(* Trimming leaves the latest items, one ring, and no more than the limit.  *)
LEMMA TrimKeeps ==
  ASSUME NEW g, HistoryOK(g), NEW limit \in Nat \ {0}
  PROVE  /\ HistoryOK(Trim(g, limit))
         /\ Trim(g, limit).items \in SUBSET g.items
         /\ Cardinality(Trim(g, limit).items) <= limit
         /\ Trim(g, limit).top = g.top
<1> DEFINE excess == Cardinality(g.items) - limit
           n == Cardinality(g.items)
<1>1. g \in Histories /\ n \in Nat /\ IsFiniteSet(g.items) /\ g.items \in SUBSET Uuid
  BY OkFacts DEF HistoryOK
<1>2. CASE excess <= 0
  <2>1. Trim(g, limit) = g
    BY <1>2 DEF Trim
  <2>2. Cardinality(g.items) <= limit
    BY <1>1, <1>2
  <2>3. QED
    BY <2>1, <2>2
<1>3. CASE ~(excess <= 0)
  <2>1. excess \in Nat /\ excess < n /\ n # 0 /\ n - excess = limit /\ excess + 1 \in 1 .. n
    BY <1>1, <1>3
  <2>2. g.items # {}
    BY <2>1, FS_EmptySet
  <2>3. g.top \in g.items /\ g.top # NoItem
    BY <1>1, <2>2, HistoryAssumption DEF HistoryOK
  <2>4. PICK P \in [0 .. n -> g.items] : Follows(P, n, g.prev, g.top)
    <3>1. \A u \in g.items : g.prev[u] \in g.items
      BY OkFacts
    <3>2. QED
      BY <1>1, <2>3, <3>1, WalkExists
  <2>5. \A k \in 1 .. excess : FromEnd(g, k) = P[k]
    <3>1. \A k \in 1 .. excess : k \in 1 .. n
      BY <1>1, <2>1
    <3>2. QED
      BY <1>1, <2>4, <3>1, FromEndIs
  <2>6. FromEnd(g, excess + 1) = P[excess + 1]
    BY <1>1, <2>1, <2>4, FromEndIs
  <2> DEFINE last == P[excess + 1]
             gone == EndOf(P, excess)
             left == g.items \ gone
             next2 == CutNext(g.items, g.next, g.top, last)
             prev2 == CutPrev(g.items, g.prev, g.top, last)
  <2>7. {FromEnd(g, k) : k \in 1 .. excess} = gone
    BY <2>5 DEF EndOf
  <2>8. g.top \in left /\ last \in left /\ Cardinality(left) = limit /\ Ring(left, next2, prev2)
    <3>1. Ring(g.items, g.next, g.prev)
      BY DEF HistoryOK
    <3>2. CutOff(g.items, g.next, g.prev, g.top, P, excess, left)
      <4> HIDE DEF excess
      <4>1. QED
        BY <1>1, <2>1, <2>3, <2>4, <3>1, RingCutEvery
    <3>3. QED
      BY <2>1, <3>2 DEF CutOff
  <2> HIDE DEF gone, last
  <2>9. PICK trimmed : trimmed = Forget(g, gone)
    OBVIOUS
  <2>10. Forgotten(g, trimmed, gone)
    BY <1>1, <2>9, ForgetEvery
  <2>11. trimmed \in Histories /\ trimmed.items = left /\ trimmed.top = g.top
    BY <2>10 DEF Forgotten
  <2>12. trimmed.nextCycle \in left \cup {NoItem, Gone}
    BY <2>10 DEF Forgotten, HistoryOK
  <2>13. PICK closed : closed = Chain(trimmed, last, g.top)
    OBVIOUS
  <2>14. Chained(trimmed, closed, last, g.top)
    <3>1. last \in Uuid /\ g.top \in Uuid
      BY <1>1, <2>3, <2>8
    <3>2. QED
      BY <2>11, <2>13, <3>1, ChainEvery
  <2>15. /\ closed \in Histories /\ closed.items = left /\ closed.top = g.top
         /\ closed.nextCycle \in left \cup {NoItem, Gone}
    BY <2>11, <2>12, <2>14 DEF Chained, Relinked
  <2>16. \A u \in Uuid : /\ closed.next[u] = IF u = last THEN g.top ELSE trimmed.next[u]
                         /\ closed.prev[u] = IF u = g.top THEN last ELSE trimmed.prev[u]
    BY <2>14 DEF Chained
  <2>17. \A u \in Uuid : /\ trimmed.next[u] = IF u \in gone THEN NoItem ELSE g.next[u]
                         /\ trimmed.prev[u] = IF u \in gone THEN NoItem ELSE g.prev[u]
    BY <2>10 DEF Forgotten
  <2>18. \A u \in left : closed.next[u] = next2[u] /\ closed.prev[u] = prev2[u]
    BY <1>1, <2>16, <2>17 DEF CutNext, CutPrev
  <2>19. Ring(left, closed.next, closed.prev)
    <3> HIDE DEF left, next2, prev2
    <3>1. QED
      BY <2>8, <2>18, RingSame
  <2>20. \A u \in Uuid \ left : closed.next[u] = NoItem
    <3>1. \A u \in Uuid \ left : u # last /\ (u \in gone \/ g.next[u] = NoItem)
      BY <2>8 DEF HistoryOK
    <3>2. QED
      BY <2>16, <2>17, <3>1
  <2> DEFINE cycle == IF Cardinality(closed.items \cup nulls) <= 1 THEN NoItem ELSE closed.nextCycle
  <2>21. PICK g2 : g2 = [closed EXCEPT !.nextCycle = cycle]
    OBVIOUS
  <2>22. Trim(g, limit) = g2
    <3>1. Trim(g, limit) =
            LET t == Forget(g, {FromEnd(g, k) : k \in 1 .. excess})
                c == Chain(t, FromEnd(g, excess + 1), g.top)
            IN [c EXCEPT !.nextCycle =
                  IF Cardinality(c.items \cup nulls) <= 1 THEN NoItem ELSE @]
      BY <1>3, <2>3 DEF Trim
    <3>2. Trim(g, limit) = [closed EXCEPT !.nextCycle =
            IF Cardinality(closed.items \cup nulls) <= 1 THEN NoItem ELSE @]
      BY <2>6, <2>7, <2>9, <2>13, <3>1 DEF last
    <3>3. QED
      BY <2>15, <2>21, <3>2 DEF Histories
  <2>23. cycle \in left \cup {NoItem, Gone} /\ cycle \in Pointer
    BY <2>15 DEF Histories, Pointer
  <2> HIDE DEF cycle
  <2>24. /\ g2 \in Histories /\ g2.items = left /\ g2.top = g.top /\ g2.nextCycle = cycle
         /\ g2.next = closed.next /\ g2.prev = closed.prev
    BY <2>15, <2>21, <2>23 DEF Histories
  <2> HIDE DEF left
  <2>25. HistoryOK(g2)
    BY <2>8, <2>19, <2>20, <2>23, <2>24 DEF HistoryOK
  <2>26. left \in SUBSET g.items
    BY DEF left
  <2>27. limit <= limit
    OBVIOUS
  <2>28. QED
    BY <2>8, <2>22, <2>24, <2>25, <2>26, <2>27, Zenon
<1>4. QED
  BY <1>2, <1>3

LEMMA TrimEvery ==
  \A g : \A limit \in Nat \ {0} : HistoryOK(g) =>
    /\ HistoryOK(Trim(g, limit))
    /\ Trim(g, limit).items \in SUBSET g.items
    /\ Cardinality(Trim(g, limit).items) <= limit
    /\ Trim(g, limit).top = g.top
  BY TrimKeeps

(* forceInsert: x comes before the top, in a ring of its own if there is   *)
(* none.                                                                   *)
LEMMA ForceInsertKeeps ==
  ASSUME NEW g, HistoryOK(g), NEW x \in Uuid, x \notin g.items,
         Room(maxSize) \in Nat \ {0}
  PROVE  /\ HistoryOK(ForceInsert(g, x))
         /\ ForceInsert(g, x).items \in SUBSET (g.items \cup {x})
         /\ Cardinality(ForceInsert(g, x).items) <= Room(maxSize)
         /\ ForceInsert(g, x).top = x
<1> DEFINE before == IF g.top \in Uuid THEN g.prev[g.top] ELSE NoItem
<1>1. g \in Histories /\ g.items \in SUBSET Uuid /\ g.top \in Pointer
  BY OkFacts DEF HistoryOK, Histories
<1>2. PICK linked : linked = InsertBetween(g, x, before, g.top)
  OBVIOUS
<1>3. /\ Relinked(g, linked)
      /\ Ring(g.items \cup {x}, linked.next, linked.prev)
      /\ \A u \in Uuid \ (g.items \cup {x}) : linked.next[u] = NoItem
  <2>1. CASE g.top \in Uuid
    <3>1. g.top \in g.items /\ before = g.prev[g.top] /\ before \in g.items
      BY <2>1, OkFacts
    <3> HIDE DEF before
    <3>2. Between(g, linked, x, before, g.top)
      BY <1>1, <1>2, <3>1, BetweenEvery
    <3>3. linked.next[before] = x /\ linked.next[x] = g.top
      BY <1>1, <3>1, <3>2 DEF Between
    <3>4. linked.prev[x] = before /\ linked.prev[g.top] = x
      BY <1>1, <3>1, <3>2 DEF Between
    <3>5. \A u \in g.items : u # before => linked.next[u] = g.next[u]
      BY <1>1, <3>2 DEF Between
    <3>6. \A u \in g.items : u # g.top => linked.prev[u] = g.prev[u]
      BY <1>1, <3>2 DEF Between
    <3>7. Ring(g.items, g.next, g.prev)
      BY DEF HistoryOK
    <3>8. Ring(g.items \cup {x}, linked.next, linked.prev)
      <4>1. PutBefore(g.items, g.next, g.prev, g.top, x, linked.next, linked.prev)
        BY <3>1, <3>3, <3>4, <3>5, <3>6 DEF PutBefore
      <4>2. QED
        BY <3>7, <4>1, RingInsertEvery
    <3>9. \A u \in Uuid \ (g.items \cup {x}) : linked.next[u] = NoItem
      BY <3>1, <3>2 DEF Between, HistoryOK
    <3>10. QED
      BY <3>2, <3>8, <3>9 DEF Between
  <2>2. CASE g.top \notin Uuid
    <3>1. g.items = {} /\ before \notin Uuid
      BY <1>1, <2>2, HistoryAssumption DEF HistoryOK
    <3> HIDE DEF before
    <3>2. Chained(g, linked, x, x)
      BY <1>1, <1>2, <3>1, AloneEvery
    <3>3. linked.next[x] = x /\ linked.prev[x] = x
      BY <3>2 DEF Chained
    <3>4. Ring({x}, linked.next, linked.prev)
      BY <3>3, RingOfOne
    <3>5. \A u \in Uuid \ {x} : linked.next[u] = NoItem
      BY <3>1, <3>2 DEF Chained, HistoryOK
    <3>6. g.items \cup {x} = {x}
      BY <3>1
    <3>7. QED
      BY <3>2, <3>4, <3>5, <3>6 DEF Chained
  <2>3. QED
    BY <2>1, <2>2
<1> HIDE DEF before
<1>4. linked \in Histories /\ linked.items = g.items
  BY <1>3 DEF Relinked
<1>5. PICK g2 : g2 = [linked EXCEPT !.items = linked.items \cup {x}, !.top = x,
                                    !.nextCycle = g.top]
  OBVIOUS
<1>6. /\ g2 \in Histories /\ g2.items = g.items \cup {x} /\ g2.top = x
      /\ g2.nextCycle = g.top /\ g2.next = linked.next /\ g2.prev = linked.prev
  BY <1>1, <1>4, <1>5 DEF Histories, Pointer
<1>7. HistoryOK(g2)
  <2>1. g2.nextCycle \in g2.items \cup {NoItem, Gone}
    BY <1>6 DEF HistoryOK
  <2>2. QED
    BY <1>3, <1>6, <2>1 DEF HistoryOK
<1>8. ForceInsert(g, x) = Trim(g2, Room(maxSize))
  <2>1. ForceInsert(g, x) =
          Trim([linked EXCEPT !.items = @ \cup {x}, !.top = x, !.nextCycle = g.top],
               Room(maxSize))
    BY <1>2 DEF ForceInsert, before
  <2>2. [linked EXCEPT !.items = @ \cup {x}, !.top = x, !.nextCycle = g.top] = g2
    BY <1>4, <1>5 DEF Histories
  <2>3. QED
    BY <2>1, <2>2
<1>9. PICK g3 : g3 = Trim(g2, Room(maxSize))
  OBVIOUS
<1>10. /\ HistoryOK(g3) /\ Cardinality(g3.items) <= Room(maxSize) /\ g3.top = g2.top
       /\ g3.items \in SUBSET g2.items
  BY <1>7, <1>9, TrimEvery
<1>11. QED
  BY <1>6, <1>8, <1>9, <1>10, Zenon

(* moveToTop: x is taken out of the ring and put before the top.           *)
LEMMA MoveToTopKeeps ==
  ASSUME NEW g, HistoryOK(g), NEW x \in g.items, g.top # x, g.top \in g.items
  PROVE  /\ HistoryOK(MoveToTop(g, x))
         /\ MoveToTop(g, x).items = g.items
         /\ MoveToTop(g, x).top = x
<1>1. /\ g \in Histories /\ g.items \in SUBSET Uuid /\ Ring(g.items, g.next, g.prev)
      /\ g.top \in Uuid /\ x \in Uuid
  BY OkFacts DEF HistoryOK
<1>2. g.prev[x] \in g.items /\ g.next[x] \in g.items
  BY OkFacts
<1>3. PICK closed : closed = Chain(g, g.prev[x], g.next[x])
  OBVIOUS
<1>4. Chained(g, closed, g.prev[x], g.next[x])
  BY <1>1, <1>2, <1>3, ChainEvery
<1> DEFINE rest == g.items \ {x}
<1>5. Ring(rest, closed.next, closed.prev)
  <2>1. closed.next[g.prev[x]] = g.next[x] /\ closed.prev[g.next[x]] = g.prev[x]
    BY <1>1, <1>2, <1>4 DEF Chained
  <2>2. \A u \in rest : u # g.prev[x] => closed.next[u] = g.next[u]
    BY <1>1, <1>4 DEF Chained
  <2>3. \A u \in rest : u # g.next[x] => closed.prev[u] = g.prev[u]
    BY <1>1, <1>4 DEF Chained
  <2>4. TakenOut(g.items, g.next, g.prev, x, closed.next, closed.prev)
    BY <2>1, <2>2, <2>3 DEF TakenOut
  <2>5. QED
    BY <1>1, <2>4, RingRemoveEvery
<1>6. closed \in Histories /\ closed.items = g.items
  BY <1>4 DEF Chained, Relinked
<1>7. PICK before : before = closed.prev[g.top]
  OBVIOUS
<1>8. before \in rest /\ g.top \in rest
  BY <1>5, <1>7 DEF Ring
<1>9. PICK linked : linked = InsertBetween(closed, x, before, g.top)
  OBVIOUS
<1>10. Between(closed, linked, x, before, g.top)
  BY <1>1, <1>6, <1>8, <1>9, BetweenEvery
<1>11. Ring(g.items, linked.next, linked.prev)
  <2>1. linked.next[before] = x /\ linked.next[x] = g.top
    BY <1>1, <1>8, <1>10 DEF Between
  <2>2. linked.prev[x] = before /\ linked.prev[g.top] = x
    BY <1>1, <1>8, <1>10 DEF Between
  <2>3. \A u \in rest : u # before => linked.next[u] = closed.next[u]
    BY <1>1, <1>10 DEF Between
  <2>4. \A u \in rest : u # g.top => linked.prev[u] = closed.prev[u]
    BY <1>1, <1>10 DEF Between
  <2>5. x \notin rest /\ rest \cup {x} = g.items
    OBVIOUS
  <2> HIDE DEF rest
  <2>6. Ring(rest \cup {x}, linked.next, linked.prev)
    <3>1. PutBefore(rest, closed.next, closed.prev, g.top, x, linked.next, linked.prev)
      BY <1>7, <1>8, <2>1, <2>2, <2>3, <2>4, <2>5 DEF PutBefore
    <3>2. QED
      BY <1>5, <3>1, RingInsertEvery
  <2>7. QED
    BY <2>5, <2>6
<1>12. \A u \in Uuid \ g.items : linked.next[u] = NoItem
  <2>1. \A u \in Uuid \ g.items : closed.next[u] = NoItem
    BY <1>2, <1>4 DEF Chained, HistoryOK
  <2>2. QED
    BY <1>8, <1>10, <2>1 DEF Between
<1>13. PICK g2 : g2 = [linked EXCEPT !.top = x, !.nextCycle = g.top]
  OBVIOUS
<1>14. linked \in Histories /\ linked.items = g.items
  BY <1>6, <1>10 DEF Between, Relinked
<1>15. /\ g2 \in Histories /\ g2.items = linked.items /\ g2.top = x
       /\ g2.nextCycle = g.top /\ g2.next = linked.next /\ g2.prev = linked.prev
  <2>1. x \in Pointer /\ g.top \in Pointer
    BY <1>1 DEF Pointer
  <2>2. QED
    BY <1>13, <1>14, <2>1 DEF Histories
<1>16. HistoryOK(g2)
  BY <1>11, <1>12, <1>14, <1>15 DEF HistoryOK
<1>17. MoveToTop(g, x) = g2
  BY <1>3, <1>7, <1>9, <1>13 DEF MoveToTop
<1>18. QED
  BY <1>14, <1>15, <1>16, <1>17

LEMMA InsertItemKeeps ==
  ASSUME NEW g, HistoryOK(g), NEW x \in Uuid \ nulls, Room(maxSize) \in Nat \ {0},
         Cardinality(g.items) <= Room(maxSize)
  PROVE  /\ HistoryOK(InsertItem(g, x))
         /\ InsertItem(g, x).items \in SUBSET (g.items \cup {x})
         /\ Cardinality(InsertItem(g, x).items) <= Room(maxSize)
         /\ InsertItem(g, x).top = x
<1>1. CASE x \notin g.items
  <2>1. InsertItem(g, x) = ForceInsert(g, x)
    BY <1>1 DEF InsertItem
  <2>2. QED
    BY <1>1, <2>1, ForceInsertKeeps
<1>2. CASE x \in g.items /\ x = g.top
  <2>1. InsertItem(g, x) = g
    BY <1>2 DEF InsertItem
  <2>2. QED
    BY <1>2, <2>1
<1>3. CASE x \in g.items /\ x # g.top
  <2>1. InsertItem(g, x) = MoveToTop(g, x)
    BY <1>3 DEF InsertItem
  <2>2. g.top \in g.items
    BY <1>3 DEF HistoryOK
  <2>3. QED
    BY <1>3, <2>1, <2>2, MoveToTopKeeps
<1>4. QED
  BY <1>1, <1>2, <1>3

(* remove: x is taken out of the ring; the only item leaves a stale top.   *)
LEMMA RemoveItemKeeps ==
  ASSUME NEW g, HistoryOK(g), NEW x
  PROVE  HistoryOK(RemoveItem(g, x)) /\ RemoveItem(g, x).items = g.items \ {x}
<1>1. CASE x \notin g.items
  BY <1>1 DEF RemoveItem
<1>2. CASE x \in g.items
  <2>1. /\ g \in Histories /\ g.items \in SUBSET Uuid /\ Ring(g.items, g.next, g.prev)
        /\ x \in Uuid /\ g.prev[x] \in g.items /\ g.next[x] \in g.items
    BY <1>2, OkFacts DEF HistoryOK
  <2> DEFINE rest == g.items \ {x}
  <2>2. PICK top : top = IF g.top # x THEN g.top
                         ELSE IF g.next[x] = x THEN Gone ELSE g.next[x]
    OBVIOUS
  <2>3. (top \in rest \/ (rest = {} /\ top = Gone)) /\ top \in Pointer
    <3>1. CASE g.top # x
      <4>1. top = g.top /\ g.top \in g.items
        BY <1>2, <2>2, <3>1 DEF HistoryOK
      <4>2. QED
        BY <2>1, <3>1, <4>1 DEF Pointer
    <3>2. CASE g.top = x /\ g.next[x] = x
      <4>1. g.items = {x}
        BY <1>2, <2>1, <3>2, RingAlone
      <4>2. top = Gone
        BY <2>2, <3>2
      <4>3. QED
        BY <4>1, <4>2 DEF Pointer
    <3>3. CASE g.top = x /\ g.next[x] # x
      <4>1. top = g.next[x]
        BY <2>2, <3>3
      <4>2. QED
        BY <2>1, <3>3, <4>1 DEF Pointer
    <3>4. QED
      BY <3>1, <3>2, <3>3
  <2>4. PICK closed : closed = Chain(g, g.prev[x], g.next[x])
    OBVIOUS
  <2>5. Chained(g, closed, g.prev[x], g.next[x])
    BY <2>1, <2>4, ChainEvery
  <2>6. Ring(rest, closed.next, closed.prev)
    <3>1. closed.next[g.prev[x]] = g.next[x] /\ closed.prev[g.next[x]] = g.prev[x]
      BY <2>1, <2>5 DEF Chained
    <3>2. \A u \in rest : u # g.prev[x] => closed.next[u] = g.next[u]
      BY <2>1, <2>5 DEF Chained
    <3>3. \A u \in rest : u # g.next[x] => closed.prev[u] = g.prev[u]
      BY <2>1, <2>5 DEF Chained
    <3>4. TakenOut(g.items, g.next, g.prev, x, closed.next, closed.prev)
      BY <1>2, <3>1, <3>2, <3>3 DEF TakenOut
    <3>5. QED
      BY <2>1, <3>4, RingRemoveEvery
  <2>7. /\ closed \in Histories /\ closed.items = g.items
        /\ closed.nextCycle = g.nextCycle
    BY <2>5 DEF Chained, Relinked
  <2>8. PICK g1 : g1 = [closed EXCEPT !.top = top]
    OBVIOUS
  <2>9. /\ g1 \in Histories /\ g1.items = g.items /\ g1.top = top
        /\ g1.nextCycle = g.nextCycle /\ g1.next = closed.next /\ g1.prev = closed.prev
    BY <2>3, <2>7, <2>8, TopEvery
  <2>10. PICK g2 : g2 = Forget(g1, {x})
    OBVIOUS
  <2>11. Forgotten(g1, g2, {x})
    BY <2>9, <2>10, ForgetEvery
  <2>12. g2 \in Histories /\ g2.items = rest /\ g2.top = top
    BY <2>9, <2>11 DEF Forgotten
  <2>13. g2.nextCycle \in rest \cup {NoItem, Gone}
    BY <2>9, <2>11 DEF Forgotten, HistoryOK
  <2>14. \A u \in rest : g2.next[u] = closed.next[u] /\ g2.prev[u] = closed.prev[u]
    BY <2>1, <2>9, <2>11 DEF Forgotten
  <2>15. \A u \in Uuid \ rest : g2.next[u] = NoItem
    <3>1. \A u \in Uuid \ g.items : closed.next[u] = NoItem
      BY <2>1, <2>5 DEF Chained, HistoryOK
    <3>2. QED
      BY <2>9, <2>11, <3>1 DEF Forgotten
  <2> HIDE DEF rest
  <2>16. Ring(rest, g2.next, g2.prev)
    BY <2>6, <2>14, RingSame
  <2>17. HistoryOK(g2)
    BY <2>3, <2>12, <2>13, <2>15, <2>16 DEF HistoryOK
  <2>18. RemoveItem(g, x) = g2
    BY <1>2, <2>2, <2>4, <2>8, <2>10 DEF RemoveItem
  <2>19. QED
    BY <2>12, <2>17, <2>18 DEF rest
<1>3. QED
  BY <1>1, <1>2

(* Cycling: t and m leave their places, and are linked in at (b, n) and at  *)
(* (e, a).                                                                  *)
Relocated(g, g2, t, m, b, n, e, a) ==
  /\ Relinked(g, g2)
  /\ \A u \in Uuid : g2.next[u] = IF u = m THEN a ELSE IF u = e THEN m
                                  ELSE IF u = t THEN n ELSE IF u = b THEN t ELSE g.next[u]
  /\ \A u \in Uuid : g2.prev[u] = IF u = a THEN m ELSE IF u = m THEN e
                                  ELSE IF u = n THEN t ELSE IF u = t THEN b ELSE g.prev[u]

LEMMA RelocatedEvery ==
  \A g \in Histories : \A t, m, b, n, e, a \in Uuid :
    Relocated(g, InsertBetween(InsertBetween(g, t, b, n), m, e, a), t, m, b, n, e, a)
<1> TAKE g \in Histories
<1> TAKE t, m, b, n, e, a \in Uuid
<1>1. PICK g1 : g1 = InsertBetween(g, t, b, n)
  OBVIOUS
<1>2. Between(g, g1, t, b, n)
  BY <1>1, BetweenEvery
<1>3. PICK g2 : g2 = InsertBetween(g1, m, e, a)
  OBVIOUS
<1>4. Between(g1, g2, m, e, a)
  <2>1. g1 \in Histories
    BY <1>2 DEF Between, Relinked
  <2>2. QED
    BY <1>3, <2>1, BetweenEvery
<1>5. Relinked(g, g2)
  BY <1>2, <1>4 DEF Between, Relinked
<1>6. Relocated(g, g2, t, m, b, n, e, a)
  BY <1>2, <1>4, <1>5 DEF Between, Relocated
<1>7. QED
  BY <1>1, <1>3, <1>6

(* Where cycleNext and cyclePrev link them in: the two change places, be   *)
(* they neighbours or not.                                                 *)
Exchange(g, t, m, b, n, e, a) ==
  \/ /\ g.next[t] = m /\ g.next[m] # t
     /\ b = m /\ n = g.next[m] /\ e = g.prev[t] /\ a = t
  \/ /\ g.next[m] = t /\ g.next[t] # m
     /\ b = g.prev[m] /\ n \in {m, g.next[t]} /\ e = t /\ a = g.next[t]
  \/ /\ g.next[t] # m /\ g.next[m] # t
     /\ b = g.prev[m] /\ n = g.next[m] /\ e = g.prev[t] /\ a = g.next[t]

LEMMA ExchangeKeeps ==
  ASSUME NEW g, HistoryOK(g), NEW t \in g.items, NEW m \in g.items, t # m,
         NEW b, NEW n, NEW e, NEW a, Exchange(g, t, m, b, n, e, a),
         NEW g2, Relocated(g, g2, t, m, b, n, e, a)
  PROVE  /\ g2 \in Histories /\ g2.items = g.items
         /\ Ring(g.items, g2.next, g2.prev)
         /\ \A u \in Uuid \ g.items : g2.next[u] = NoItem
<1> DEFINE I == g.items
<1>1. /\ I \in SUBSET Uuid /\ Ring(I, g.next, g.prev)
      /\ \A u \in Uuid \ I : g.next[u] = NoItem
  BY OkFacts DEF HistoryOK
<1>2. PICK next, prev : next = g.next /\ prev = g.prev
  OBVIOUS
<1>3. PICK next2, prev2 : next2 = g2.next /\ prev2 = g2.prev
  OBVIOUS
<1>4. \A u \in I : next[u] \in I /\ prev[u] \in I /\ prev[next[u]] = u /\ next[prev[u]] = u
  BY <1>1, <1>2 DEF Ring
<1>5. Ring(I, next, prev)
  BY <1>1, <1>2
<1>6. /\ next[t] # t /\ next[m] # m /\ prev[t] # t /\ prev[m] # m
  <2>1. next[t] # t /\ next[m] # m
    <3>1. \A u \in I : next[u] = u => I = {u}
      BY <1>5, RingAlone
    <3>2. QED
      BY <3>1
  <2>2. QED
    BY <1>4, <2>1
<1>7. \A u \in I : next2[u] = IF u = m THEN a ELSE IF u = e THEN m
                              ELSE IF u = t THEN n ELSE IF u = b THEN t ELSE next[u]
  BY <1>1, <1>2, <1>3 DEF Relocated
<1>8. \A u \in I : prev2[u] = IF u = a THEN m ELSE IF u = m THEN e
                              ELSE IF u = n THEN t ELSE IF u = t THEN b ELSE prev[u]
  BY <1>1, <1>2, <1>3 DEF Relocated
<1>9. b \in I /\ n \in I /\ e \in I /\ a \in I
  BY <1>2, <1>4 DEF Exchange
<1>10. \A u \in I : next2[u] = Swapped(t, m, next[Swapped(t, m, u)])
  <2>1. CASE next[t] = m /\ next[m] # t
             /\ b = m /\ n = next[m] /\ e = prev[t] /\ a = t
    BY <1>4, <1>6, <1>7, <2>1 DEF Swapped
  <2>2. CASE next[m] = t /\ next[t] # m
             /\ b = prev[m] /\ n \in {m, next[t]} /\ e = t /\ a = next[t]
    BY <1>4, <1>6, <1>7, <2>2 DEF Swapped
  <2>3. CASE next[t] # m /\ next[m] # t
             /\ b = prev[m] /\ n = next[m] /\ e = prev[t] /\ a = next[t]
    BY <1>4, <1>6, <1>7, <2>3 DEF Swapped
  <2>4. QED
    BY <1>2, <2>1, <2>2, <2>3 DEF Exchange
<1>11. \A u \in I : prev2[u] = Swapped(t, m, prev[Swapped(t, m, u)])
  <2>1. CASE next[t] = m /\ next[m] # t
             /\ b = m /\ n = next[m] /\ e = prev[t] /\ a = t
    BY <1>4, <1>6, <1>8, <2>1 DEF Swapped
  <2>2. CASE next[m] = t /\ next[t] # m
             /\ b = prev[m] /\ n \in {m, next[t]} /\ e = t /\ a = next[t]
    BY <1>4, <1>6, <1>8, <2>2 DEF Swapped
  <2>3. CASE next[t] # m /\ next[m] # t
             /\ b = prev[m] /\ n = next[m] /\ e = prev[t] /\ a = next[t]
    BY <1>4, <1>6, <1>8, <2>3 DEF Swapped
  <2>4. QED
    BY <1>2, <2>1, <2>2, <2>3 DEF Exchange
<1>12. Ring(I, next2, prev2)
  <2> HIDE DEF I
  <2>1. t \in I /\ m \in I
    BY DEF I
  <2>2. QED
    BY <1>5, <1>10, <1>11, <2>1, RingSwap
<1>13. \A u \in Uuid \ I : g2.next[u] = NoItem
  BY <1>1, <1>9 DEF Relocated
<1>14. QED
  BY <1>3, <1>12, <1>13 DEF Relocated, Relinked

LEMMA ExchangeEvery ==
  \A g : \A t, m \in g.items : \A b, n, e, a, g2 :
    HistoryOK(g) /\ t # m /\ Exchange(g, t, m, b, n, e, a)
    /\ Relocated(g, g2, t, m, b, n, e, a)
      => /\ g2 \in Histories /\ g2.items = g.items
         /\ Ring(g.items, g2.next, g2.prev)
         /\ \A u \in Uuid \ g.items : g2.next[u] = NoItem
  BY ExchangeKeeps

LEMMA TopKeeps ==
  \A g : \A t \in g.items : HistoryOK(g) =>
    LET g2 == [g EXCEPT !.top = t]
    IN HistoryOK(g2) /\ g2.items = g.items /\ g2.top = t
<1> SUFFICES ASSUME NEW g, NEW t \in g.items, HistoryOK(g)
             PROVE  LET g2 == [g EXCEPT !.top = t]
                    IN HistoryOK(g2) /\ g2.items = g.items /\ g2.top = t
  OBVIOUS
<1>1. g \in Histories /\ t \in Pointer
  BY OkFacts DEF HistoryOK, Pointer
<1>2. PICK g2 : g2 = [g EXCEPT !.top = t]
  OBVIOUS
<1>3. /\ g2 \in Histories /\ g2.items = g.items /\ g2.next = g.next /\ g2.prev = g.prev
      /\ g2.top = t /\ g2.nextCycle = g.nextCycle
  BY <1>1, <1>2 DEF Histories
<1>4. HistoryOK(g2)
  BY <1>3 DEF HistoryOK
<1>5. QED
  BY <1>2, <1>3, <1>4

(* Exchanged, and the pointers set.                                        *)
Hoisted(g, t, m, b, n, e, a, c) ==
  [InsertBetween(InsertBetween(g, t, b, n), m, e, a) EXCEPT !.top = m, !.nextCycle = c]

LEMMA ExchangedKeeps ==
  ASSUME NEW g, HistoryOK(g), NEW t \in g.items, NEW m \in g.items, t # m,
         NEW b, NEW n, NEW e, NEW a, Exchange(g, t, m, b, n, e, a),
         NEW c \in g.items, NEW g3, g3 = Hoisted(g, t, m, b, n, e, a, c)
  PROVE  HistoryOK(g3) /\ g3.items = g.items /\ g3.top = m
<1>1. PICK g2 : g2 = InsertBetween(InsertBetween(g, t, b, n), m, e, a)
  OBVIOUS
<1>2. g \in Histories /\ g.items \in SUBSET Uuid
  BY OkFacts DEF HistoryOK
<1>3. b \in Uuid /\ n \in Uuid /\ e \in Uuid /\ a \in Uuid
  <2>1. /\ g.prev[t] \in Uuid /\ g.next[t] \in Uuid
        /\ g.prev[m] \in Uuid /\ g.next[m] \in Uuid
    BY <1>2, OkFacts
  <2>2. QED
    BY <1>2, <2>1 DEF Exchange
<1>4. Relocated(g, g2, t, m, b, n, e, a)
  <2>1. t \in Uuid /\ m \in Uuid
    BY <1>2
  <2>2. QED
    BY <1>1, <1>2, <1>3, <2>1, RelocatedEvery
<1>5. /\ g2 \in Histories /\ g2.items = g.items
      /\ Ring(g.items, g2.next, g2.prev)
      /\ \A u \in Uuid \ g.items : g2.next[u] = NoItem
  BY <1>4, ExchangeEvery
<1>6. m \in Pointer /\ c \in Pointer
  BY <1>2 DEF Pointer
<1>7. g3 = [g2 EXCEPT !.top = m, !.nextCycle = c]
  BY <1>1 DEF Hoisted
<1>8. /\ g3 \in Histories /\ g3.items = g2.items /\ g3.next = g2.next /\ g3.prev = g2.prev
      /\ g3.top = m /\ g3.nextCycle = c
  BY <1>5, <1>6, <1>7 DEF Histories
<1>9. QED
  BY <1>5, <1>8 DEF HistoryOK

LEMMA HoistedEvery ==
  \A g : \A t, m, c \in g.items : \A b, n, e, a, g3 :
    HistoryOK(g) /\ t # m /\ Exchange(g, t, m, b, n, e, a)
    /\ g3 = Hoisted(g, t, m, b, n, e, a, c)
      => HistoryOK(g3) /\ g3.items = g.items /\ g3.top = m
  BY ExchangedKeeps

(* cycleNext: the item that comes next and the top item change places.     *)
LEMMA CycledNextKeeps ==
  ASSUME NEW g, HistoryOK(g), g.top \in g.items, g.nextCycle \in g.items, g.nextCycle # g.top
  PROVE  /\ HistoryOK(CycledNext(g)) /\ CycledNext(g).items = g.items
         /\ CycledNext(g).top \in g.items
<1>1. PICK t, m : t = g.top /\ m = g.nextCycle
  OBVIOUS
<1>2. t \in g.items /\ m \in g.items /\ t # m
  BY <1>1
<1>3. \A u \in g.items : /\ g.next[u] \in g.items /\ g.prev[u] \in g.items
                         /\ g.prev[g.next[u]] = u /\ g.next[g.prev[u]] = u
  BY OkFacts
<1>4. PICK before, after : before = g.prev[m] /\ after = g.next[m]
  OBVIOUS
<1>5. CASE before = after
  <2>1. PICK g2 : g2 = [g EXCEPT !.top = m]
    OBVIOUS
  <2>2. CycledNext(g) = g2
    BY <1>1, <1>4, <1>5, <2>1 DEF CycledNext
  <2>3. HistoryOK(g2) /\ g2.items = g.items /\ g2.top = m
    BY <1>2, <2>1, TopKeeps
  <2>4. QED
    BY <1>2, <2>2, <2>3
<1>6. CASE before # after
  <2>1. PICK b, n, e, a :
          /\ b = IF before = t THEN m ELSE before
          /\ n = IF before # t /\ after = t THEN m ELSE after
          /\ e = IF before # t /\ after = t THEN t ELSE g.prev[t]
          /\ a = IF before = t THEN t ELSE g.next[t]
    OBVIOUS
  <2>2. Exchange(g, t, m, b, n, e, a)
    <3>1. before = t <=> g.next[t] = m
      BY <1>2, <1>3, <1>4
    <3>2. CASE before = t
      BY <1>4, <1>6, <2>1, <3>1, <3>2 DEF Exchange
    <3>3. CASE before # t /\ after = t
      BY <1>4, <1>6, <2>1, <3>1, <3>3 DEF Exchange
    <3>4. CASE before # t /\ after # t
      BY <1>4, <1>6, <2>1, <3>1, <3>4 DEF Exchange
    <3>5. QED
      BY <3>2, <3>3, <3>4
  <2>3. PICK g3 : g3 = Hoisted(g, t, m, b, n, e, a, n)
    OBVIOUS
  <2>4. n \in g.items
    BY <1>2, <1>3, <1>4, <2>1
  <2>5. HistoryOK(g3) /\ g3.items = g.items /\ g3.top = m
    BY <1>2, <2>2, <2>3, <2>4, HoistedEvery
  <2>6. CycledNext(g) = g3
    BY <1>1, <1>4, <1>6, <2>1, <2>3, Zenon DEF CycledNext, Hoisted
  <2>7. QED
    BY <1>2, <2>5, <2>6
<1>7. QED
  BY <1>5, <1>6

(* cyclePrev: so do the top item and the one before the one that is next.   *)
LEMMA CycledPrevKeeps ==
  ASSUME NEW g, HistoryOK(g), g.top \in g.items, g.nextCycle \in g.items,
         g.prev[g.nextCycle] # g.top
  PROVE  /\ HistoryOK(CycledPrev(g)) /\ CycledPrev(g).items = g.items
         /\ CycledPrev(g).top \in g.items
<1>1. PICK t, c, m : t = g.top /\ c = g.nextCycle /\ m = g.prev[c]
  OBVIOUS
<1>2. \A u \in g.items : /\ g.next[u] \in g.items /\ g.prev[u] \in g.items
                         /\ g.prev[g.next[u]] = u /\ g.next[g.prev[u]] = u
  BY OkFacts
<1>3. t \in g.items /\ m \in g.items /\ t # m /\ c \in g.items /\ g.next[m] = c
  BY <1>1, <1>2
<1>4. PICK before : before = g.prev[m]
  OBVIOUS
<1>5. CASE c = before
  <2>1. PICK g2 : g2 = [g EXCEPT !.top = g.next[g.top]]
    OBVIOUS
  <2>2. CycledPrev(g) = g2
    BY <1>1, <1>4, <1>5, <2>1 DEF CycledPrev
  <2>3. g.next[g.top] \in g.items
    BY <1>2
  <2>4. HistoryOK(g2) /\ g2.items = g.items /\ g2.top = g.next[g.top]
    BY <2>1, <2>3, TopKeeps
  <2>5. QED
    BY <2>2, <2>3, <2>4
<1>6. CASE c # before
  <2>1. PICK b, n, e, a :
          /\ b = IF before = t THEN m ELSE before
          /\ a = IF before = t THEN t ELSE g.next[t]
          /\ n = IF before # t /\ c = t THEN a ELSE c
          /\ e = IF before # t /\ c = t THEN t ELSE g.prev[t]
    <3>1. PICK a : a = IF before = t THEN t ELSE g.next[t]
      OBVIOUS
    <3>2. QED
      BY <3>1
  <2>2. Exchange(g, t, m, b, n, e, a)
    <3>1. before = t <=> g.next[t] = m
      BY <1>2, <1>3, <1>4
    <3>2. CASE before = t
      BY <1>3, <1>4, <1>6, <2>1, <3>1, <3>2 DEF Exchange
    <3>3. CASE before # t /\ c = t
      BY <1>3, <1>4, <1>6, <2>1, <3>1, <3>3 DEF Exchange
    <3>4. CASE before # t /\ c # t
      BY <1>3, <1>4, <1>6, <2>1, <3>1, <3>4 DEF Exchange
    <3>5. QED
      BY <3>2, <3>3, <3>4
  <2>3. PICK g3 : g3 = Hoisted(g, t, m, b, n, e, a, t)
    OBVIOUS
  <2>4. HistoryOK(g3) /\ g3.items = g.items /\ g3.top = m
    BY <1>3, <2>2, <2>3, HoistedEvery
  <2>5. CycledPrev(g) = g3
    BY <1>1, <1>4, <1>6, <2>1, <2>3, Zenon DEF CycledPrev, Hoisted
  <2>6. QED
    BY <1>3, <2>4, <2>5
<1>7. QED
  BY <1>5, <1>6

(* slotClear *)
LEMMA ClearedKeeps ==
  ASSUME NEW g, HistoryOK(g)
  PROVE  LET g2 == [Forget(g, g.items) EXCEPT !.top = NoItem]
         IN HistoryOK(g2) /\ g2.items = {} /\ g2.top = NoItem
<1>1. PICK g1 : g1 = Forget(g, g.items)
  OBVIOUS
<1>2. Forgotten(g, g1, g.items)
  BY <1>1, ForgetEvery DEF HistoryOK
<1>3. PICK g2 : g2 = [g1 EXCEPT !.top = NoItem]
  OBVIOUS
<1>4. /\ g2 \in Histories /\ g2.items = {} /\ g2.next = g1.next /\ g2.prev = g1.prev
      /\ g2.top = NoItem /\ g2.nextCycle = g1.nextCycle
  BY <1>2, <1>3 DEF Forgotten, Histories, Pointer
<1>5. g2.nextCycle \in {NoItem, Gone}
  BY <1>2, <1>4 DEF Forgotten, HistoryOK
<1>6. \A u \in Uuid : g2.next[u] = NoItem
  BY <1>2, <1>4 DEF Forgotten, HistoryOK
<1>7. Ring({}, g2.next, g2.prev)
  BY DEF Ring
<1>8. QED
  BY <1>1, <1>3, <1>4, <1>5, <1>6, <1>7 DEF HistoryOK

------------------------------------------------------------------------------
(* The invariant that every call keeps.  That the history is in order is   *)
(* more than RingIsWhole says: it also keeps the pointer to the item that  *)
(* comes next inside, null or stale.  Null entries are made only by editing *)
(* the only item, and there is always an item beside them.                 *)
NullsOK(g, entries) ==
  /\ entries \in SUBSET (Uuid \ g.items)
  /\ g.items = {} => entries = {}
  /\ Editing # "any" => entries = {}

HistoryInv ==
  /\ HistoryOK(h)
  /\ h.top # Gone
  /\ NullsOK(h, nulls)
  /\ Cardinality(h.items) + Cardinality(nulls) <= maxSize
  /\ maxSize \in Sizes
  /\ dialog \in BOOLEAN
  /\ edited \in Pointer
  /\ edited # NoItem => dialog

LEMMA SizesPositive == maxSize \in Sizes => maxSize \in Nat \ {0}
  BY HistoryAssumption

LEMMA NullsCount ==
  ASSUME NEW entries \in SUBSET Uuid
  PROVE  IsFiniteSet(entries) /\ Cardinality(entries) \in Nat
  BY HistoryAssumption, FS_Subset, FS_CardinalityType

(* The entries of the hash, counted.                                       *)
LEMMA EntriesCount ==
  ASSUME HistoryOK(h), NullsOK(h, nulls)
  PROVE  Cardinality(h.items \cup nulls) = Cardinality(h.items) + Cardinality(nulls)
<1>1. /\ IsFiniteSet(h.items) /\ Cardinality(h.items) \in Nat
      /\ IsFiniteSet(nulls) /\ Cardinality(nulls) \in Nat /\ h.items \cap nulls = {}
  BY OkFacts, NullsCount DEF NullsOK
<1>2. Cardinality(h.items \cap nulls) = 0
  BY <1>1, FS_EmptySet
<1>3. Cardinality(h.items \cup nulls)
        = Cardinality(h.items) + Cardinality(nulls) - Cardinality(h.items \cap nulls)
  BY <1>1, FS_Union
<1>4. QED
  BY <1>1, <1>2, <1>3

LEMMA InitIsHistory == Init => HistoryInv
<1> SUFFICES ASSUME Init PROVE HistoryInv
  OBVIOUS
<1>1. /\ h \in Histories /\ h.items = {} /\ h.top = NoItem /\ h.nextCycle = NoItem
      /\ \A u \in Uuid : h.next[u] = NoItem
  BY DEF Init, Histories, Pointer
<1>2. HistoryOK(h)
  <2>1. Ring({}, h.next, h.prev)
    BY DEF Ring
  <2>2. QED
    BY <1>1, <2>1 DEF HistoryOK
<1>3. Cardinality(h.items) + Cardinality(nulls) <= maxSize
  <2>1. Cardinality(h.items) = 0 /\ Cardinality(nulls) = 0
    BY <1>1, FS_EmptySet DEF Init
  <2>2. maxSize \in Nat \ {0}
    BY SizesPositive DEF Init
  <2>3. QED
    BY <2>1, <2>2
<1>4. NullsOK(h, nulls)
  BY DEF Init, NullsOK
<1>5. QED
  BY <1>1, <1>2, <1>3, <1>4, HistoryAssumption DEF HistoryInv, Init, Pointer

(* The only item is edited: the new one is a ring of its own.              *)
LEMMA ReplaceOnlyKeeps ==
  ASSUME HistoryInv, NEW x \in Uuid, ReplaceOnly(x), maxSize' = maxSize
  PROVE  /\ HistoryOK(h') /\ h'.top = x /\ NullsOK(h', nulls')
         /\ Cardinality(h'.items) + Cardinality(nulls') <= maxSize'
<1>1. /\ HistoryOK(h) /\ h \in Histories /\ h.items = {edited} /\ edited \in Uuid
      /\ nulls \in SUBSET Uuid /\ maxSize \in Nat \ {0} /\ Editing = "any"
  BY SizesPositive DEF HistoryInv, HistoryOK, Histories, NullsOK, ReplaceOnly
<1>2. PICK gone : gone = {edited}
  OBVIOUS
<1>3. PICK g1 : g1 = Forget(h, gone)
  OBVIOUS
<1>4. Forgotten(h, g1, gone)
  BY <1>1, <1>2, <1>3, ForgetEvery
<1>5. g1 \in Histories /\ g1.items = {} /\ \A u \in Uuid : g1.next[u] = NoItem
  BY <1>1, <1>2, <1>4 DEF Forgotten, HistoryOK
<1>6. PICK g2 : g2 = InsertBetween(g1, x, NoItem, NoItem)
  OBVIOUS
<1>7. Chained(g1, g2, x, x)
  BY <1>5, <1>6, AloneEvery, HistoryAssumption
<1>8. /\ g2 \in Histories /\ g2.next[x] = x /\ g2.prev[x] = x
      /\ \A u \in Uuid \ {x} : g2.next[u] = NoItem
  BY <1>5, <1>7 DEF Chained, Relinked
<1>9. PICK g3 : g3 = [g2 EXCEPT !.items = {x}, !.top = x, !.nextCycle = Gone]
  OBVIOUS
<1>10. h' = g3
  BY <1>2, <1>3, <1>6, <1>9 DEF ReplaceOnly
<1>11. /\ g3 \in Histories /\ g3.items = {x} /\ g3.top = x /\ g3.nextCycle = Gone
       /\ g3.next = g2.next /\ g3.prev = g2.prev
  BY <1>8, <1>9 DEF Histories, Pointer
<1>12. Ring({x}, g3.next, g3.prev)
  BY <1>8, <1>11, RingOfOne
<1>13. HistoryOK(g3)
  BY <1>8, <1>11, <1>12 DEF HistoryOK
<1>14. /\ nulls' = (nulls \cup {edited}) \ {x}
       /\ Cardinality(nulls') < maxSize
  BY DEF ReplaceOnly
<1>15. nulls' \in SUBSET (Uuid \ {x})
  BY <1>1, <1>14
<1>16. Cardinality(nulls') \in Nat
  BY <1>15, NullsCount
<1>17. Cardinality({x}) = 1
  BY FS_Singleton
<1>18. 1 + Cardinality(nulls') <= maxSize
  BY <1>1, <1>14, <1>16
<1>19. NullsOK(h', nulls')
  BY <1>1, <1>10, <1>11, <1>15 DEF NullsOK
<1>20. QED
  BY <1>10, <1>11, <1>13, <1>17, <1>18, <1>19

LEMMA StepIsHistory == HistoryInv /\ [Next]_vars => HistoryInv'
<1> SUFFICES ASSUME HistoryInv, [Next]_vars PROVE HistoryInv'
  OBVIOUS
<1>1. /\ HistoryOK(h) /\ h.top # Gone /\ NullsOK(h, nulls)
      /\ Cardinality(h.items) + Cardinality(nulls) <= maxSize
      /\ maxSize \in Sizes /\ dialog \in BOOLEAN /\ edited \in Pointer
      /\ edited # NoItem => dialog
  BY DEF HistoryInv
<1>2. /\ maxSize \in Nat \ {0} /\ Cardinality(h.items) \in Nat
      /\ h.items \in SUBSET Uuid /\ IsFiniteSet(h.items)
      /\ h.nextCycle \in h.items \cup {NoItem, Gone}
      /\ nulls \in SUBSET Uuid /\ Cardinality(nulls) \in Nat
  BY <1>1, SizesPositive, OkFacts, NullsCount DEF HistoryOK, NullsOK
<1>3. NoItem \in Pointer /\ Gone \in Pointer /\ Gone # NoItem
      /\ Gone \notin Uuid /\ NoItem \notin Uuid
  BY HistoryAssumption DEF Pointer
(* There is room for an item beside the null entries.                      *)
<1>4. Room(maxSize) \in Nat \ {0} /\ Cardinality(h.items) <= Room(maxSize)
  <2>1. CASE h.items = {}
    <3>1. Cardinality(nulls) = 0 /\ Cardinality(h.items) = 0
      BY <1>1, <2>1, FS_EmptySet DEF NullsOK
    <3>2. QED
      BY <1>2, <3>1 DEF Room
  <2>2. CASE h.items # {}
    <3>1. Cardinality(h.items) # 0
      BY <1>2, <2>2, FS_EmptySet
    <3>2. QED
      BY <1>1, <1>2, <3>1 DEF Room
  <2>3. QED
    BY <2>1, <2>2
(* What is left to show of a call.                                         *)
<1> DEFINE Kept ==
      /\ HistoryOK(h') /\ h'.top # Gone /\ NullsOK(h', nulls')
      /\ Cardinality(h'.items) + Cardinality(nulls') <= maxSize'
<1>5. ASSUME Kept, maxSize' \in Sizes, dialog' \in BOOLEAN, edited' \in Pointer,
             edited' # NoItem => dialog'
      PROVE  HistoryInv'
  BY <1>5 DEF HistoryInv, HistoryOK, NullsOK, Histories, Pointer, Ring
<1>6. ASSUME nulls' = nulls, HistoryOK(h'), h'.top # Gone, h'.items \cap nulls = {},
             h'.items = {} => nulls = {}, NEW n \in Nat, n = maxSize',
             Cardinality(h'.items) <= n - Cardinality(nulls)
      PROVE  Kept
  <2>1. PICK g2 : g2 = h'
    OBVIOUS
  <2>2. Cardinality(g2.items) \in Nat
    BY <1>6, <2>1, OkFacts
  <2>3. NullsOK(h', nulls')
    BY <1>1, <1>2, <1>6 DEF NullsOK
  <2>4. Cardinality(g2.items) + Cardinality(nulls) <= n
    BY <1>2, <1>6, <2>1, <2>2
  <2>5. QED
    BY <1>6, <2>1, <2>3, <2>4
<1>7. ASSUME NEW x \in Uuid, Insert(x) PROVE HistoryInv'
  <2>1. h' = InsertItem(h, x) /\ maxSize' = maxSize /\ dialog' = dialog /\ nulls' = nulls
    BY <1>7 DEF Insert
  <2>2. PICK g2 : g2 = InsertItem(h, x)
    OBVIOUS
  <2>3. Kept
    <3>1. CASE x \in nulls
      <4>1. x \notin h.items
        BY <1>1, <3>1 DEF NullsOK
      <4>2. g2 = h
        BY <2>2, <3>1, <4>1 DEF InsertItem
      <4>3. QED
        BY <1>1, <2>1, <2>2, <4>2
    <3>2. CASE x \notin nulls
      <4>1. /\ HistoryOK(g2) /\ Cardinality(g2.items) <= Room(maxSize) /\ g2.top = x
            /\ g2.items \in SUBSET (h.items \cup {x})
        BY <1>1, <1>4, <2>2, <3>2, InsertItemKeeps
      <4>2. g2.items \cap nulls = {} /\ g2.items # {} /\ g2.top # Gone
        BY <1>1, <1>3, <3>2, <4>1 DEF NullsOK, HistoryOK
      <4>3. QED
        BY <1>2, <1>6, <2>1, <2>2, <4>1, <4>2 DEF Room
    <3>3. QED
      BY <3>1, <3>2
  <2>4. edited' \in {edited, Gone} /\ (edited = NoItem => edited' = NoItem)
    BY <1>3, <1>7 DEF Insert
  <2>5. QED
    BY <1>1, <1>3, <1>5, <2>1, <2>3, <2>4
(* A call that leaves the items as they are, and the null entries.         *)
<1>8. ASSUME NEW g2, HistoryOK(g2), g2.items = h.items, g2.top # Gone, h' = g2,
             nulls' = nulls, maxSize' = maxSize
      PROVE  Kept
  BY <1>1, <1>8 DEF NullsOK
<1>9. ASSUME NEW x \in Uuid, Choose(x) PROVE HistoryInv'
  <2>1. /\ x \in h.items /\ h.top # x /\ h' = MoveToTop(h, x) /\ nulls' = nulls
        /\ maxSize' = maxSize /\ dialog' = dialog /\ edited' = edited
    BY <1>9 DEF Choose
  <2>2. h.top \in h.items
    BY <1>1, <2>1 DEF HistoryOK
  <2>3. PICK g2 : g2 = MoveToTop(h, x)
    OBVIOUS
  <2>4. HistoryOK(g2) /\ g2.items = h.items /\ g2.top = x
    BY <1>1, <2>1, <2>2, <2>3, MoveToTopKeeps
  <2>5. Kept
    BY <1>3, <1>8, <2>1, <2>3, <2>4
  <2>6. QED
    BY <1>1, <1>5, <2>1, <2>5
<1>10. ASSUME NEW x \in Uuid, AcceptEdit(x) PROVE HistoryInv'
  <2>1. maxSize' = maxSize /\ dialog' = FALSE /\ edited' = NoItem
    BY <1>10 DEF AcceptEdit
  <2>2. Kept
    <3>1. CASE ReplaceOnly(x)
      <4>1. x # Gone
        BY <1>3
      <4>2. QED
        BY <2>1, <3>1, <4>1, ReplaceOnlyKeeps
    <3>2. CASE /\ h.items # {edited}
               /\ h' = InsertItem(RemoveItem(h, edited), x)
               /\ nulls' = nulls
      <4>1. PICK e : e = edited
        OBVIOUS
      <4>2. PICK g1 : g1 = RemoveItem(h, e)
        OBVIOUS
      <4>3. HistoryOK(g1) /\ g1.items = h.items \ {e}
        BY <1>1, <4>2, RemoveItemKeeps
      <4>4. Cardinality(g1.items) <= Room(maxSize)
        <5>1. /\ Cardinality(g1.items) <= Cardinality(h.items)
              /\ Cardinality(g1.items) \in Nat
          BY <1>2, <4>3, OkFacts, FS_Subset
        <5>2. QED
          BY <1>2, <1>4, <5>1
      <4>5. PICK g2 : g2 = InsertItem(g1, x)
        OBVIOUS
      <4>6. h' = g2
        BY <3>2, <4>1, <4>2, <4>5
      <4>7. CASE x \in nulls
        <5>1. g2 = g1
          <6>1. x \notin g1.items
            BY <1>1, <4>3, <4>7 DEF NullsOK
          <6>2. QED
            BY <4>5, <4>7, <6>1 DEF InsertItem
        <5>2. h.items # {} /\ g1.items # {} /\ g1.items \cap nulls = {}
          BY <1>1, <3>2, <4>1, <4>3, <4>7 DEF NullsOK
        <5>3. g1.top # Gone
          BY <1>3, <4>3, <5>2 DEF HistoryOK, Histories
        <5>4. QED
          BY <1>2, <1>6, <2>1, <3>2, <4>3, <4>4, <4>6, <5>1, <5>2, <5>3 DEF Room
      <4>8. CASE x \notin nulls
        <5>1. /\ HistoryOK(g2) /\ Cardinality(g2.items) <= Room(maxSize) /\ g2.top = x
              /\ g2.items \in SUBSET (g1.items \cup {x})
          BY <1>4, <4>3, <4>4, <4>5, <4>8, InsertItemKeeps
        <5>2. g2.items \cap nulls = {} /\ g2.items # {} /\ g2.top # Gone
          BY <1>1, <1>3, <4>3, <4>8, <5>1 DEF NullsOK, HistoryOK
        <5>3. QED
          BY <1>2, <1>6, <2>1, <3>2, <4>6, <5>1, <5>2 DEF Room
      <4>9. QED
        BY <4>7, <4>8
    <3>3. QED
      BY <1>10, <3>1, <3>2 DEF AcceptEdit
  <2>3. QED
    BY <1>1, <1>3, <1>5, <2>1, <2>2
<1>11. ASSUME CycleNext PROVE HistoryInv'
  <2>1. /\ h.top # NoItem /\ h.nextCycle \notin {NoItem, h.top} /\ h.nextCycle # Gone
        /\ h' = CycledNext(h) /\ nulls' = nulls
        /\ maxSize' = maxSize /\ dialog' = dialog /\ edited' = edited
    BY <1>11 DEF CycleNext
  <2>2. h.top \in h.items /\ h.nextCycle \in h.items
    BY <1>1, <1>2, <2>1 DEF HistoryOK
  <2>3. PICK g2 : g2 = CycledNext(h)
    OBVIOUS
  <2>4. HistoryOK(g2) /\ g2.items = h.items /\ g2.top \in h.items
    BY <1>1, <2>1, <2>2, <2>3, CycledNextKeeps
  <2>5. Kept
    BY <1>2, <1>3, <1>8, <2>1, <2>3, <2>4
  <2>6. QED
    BY <1>1, <1>5, <2>1, <2>5
<1>12. ASSUME CyclePrev PROVE HistoryInv'
  <2>1. /\ h.top # NoItem /\ h.nextCycle # NoItem /\ h.nextCycle # Gone
        /\ h.prev[h.nextCycle] # h.top /\ h' = CycledPrev(h) /\ nulls' = nulls
        /\ maxSize' = maxSize /\ dialog' = dialog /\ edited' = edited
    BY <1>12 DEF CyclePrev
  <2>2. h.top \in h.items /\ h.nextCycle \in h.items
    BY <1>1, <1>2, <2>1 DEF HistoryOK
  <2>3. PICK g2 : g2 = CycledPrev(h)
    OBVIOUS
  <2>4. HistoryOK(g2) /\ g2.items = h.items /\ g2.top \in h.items
    BY <1>1, <2>1, <2>2, <2>3, CycledPrevKeeps
  <2>5. Kept
    BY <1>2, <1>3, <1>8, <2>1, <2>3, <2>4
  <2>6. QED
    BY <1>1, <1>5, <2>1, <2>5
<1>13. ASSUME Clear PROVE HistoryInv'
  <2>1. /\ h' = [Forget(h, h.items) EXCEPT !.top = NoItem] /\ nulls' = {}
        /\ maxSize' = maxSize /\ dialog' = dialog
        /\ edited' \in {edited, Gone} /\ (edited = NoItem => edited' = NoItem)
    BY <1>3, <1>13 DEF Clear
  <2>2. PICK g2 : g2 = [Forget(h, h.items) EXCEPT !.top = NoItem]
    OBVIOUS
  <2>3. HistoryOK(g2) /\ g2.items = {} /\ g2.top = NoItem
    BY <1>1, <2>2, ClearedKeeps
  <2>4. Cardinality({}) = 0 /\ 0 + 0 <= maxSize
    BY <1>2, FS_EmptySet
  <2>5. Kept
    BY <1>3, <2>1, <2>2, <2>3, <2>4 DEF NullsOK
  <2>6. QED
    BY <1>1, <1>3, <1>5, <2>1, <2>5
<1>14. ASSUME NEW n \in Sizes, SetMaxSize(n) PROVE HistoryInv'
  <2>1. /\ h' = Trim(h, Room(n)) /\ maxSize' = n /\ dialog' = dialog /\ nulls' = nulls
        /\ h.top = NoItem \/ Room(n) > 0
        /\ edited' \in {edited, Gone} /\ (edited = NoItem => edited' = NoItem)
    BY <1>3, <1>14 DEF SetMaxSize
  <2>2. n \in Nat \ {0}
    BY HistoryAssumption
  <2>3. Room(n) \in Nat \ {0}
    <3>1. CASE h.top = NoItem
      <4>1. Cardinality(nulls) = 0
        BY <1>1, <1>2, <1>3, <3>1, FS_EmptySet DEF NullsOK, HistoryOK
      <4>2. QED
        BY <2>2, <4>1 DEF Room
    <3>2. CASE Room(n) > 0
      BY <1>2, <2>2, <3>2 DEF Room
    <3>3. QED
      BY <2>1, <3>1, <3>2
  <2>4. PICK g2 : g2 = Trim(h, Room(n))
    OBVIOUS
  <2>5. /\ HistoryOK(g2) /\ Cardinality(g2.items) <= Room(n) /\ g2.top = h.top
        /\ g2.items \in SUBSET h.items
    BY <1>1, <2>3, <2>4, TrimEvery
  <2>6. g2.items \cap nulls = {} /\ (g2.items = {} => nulls = {})
    BY <1>1, <1>2, <1>3, <2>5 DEF NullsOK, HistoryOK
  <2>7. Kept
    BY <1>1, <1>6, <2>1, <2>2, <2>4, <2>5, <2>6 DEF Room
  <2>8. QED
    BY <1>1, <1>3, <1>5, <2>1, <2>7
<1>15. ASSUME BeginEdit PROVE HistoryInv'
  <2>1. /\ h' = h /\ nulls' = nulls /\ maxSize' = maxSize /\ dialog' = TRUE
        /\ edited' \in {h.top, NoItem}
    BY <1>15 DEF BeginEdit
  <2>2. h.top \in Pointer
    BY <1>1 DEF HistoryOK, Histories
  <2>3. Kept
    BY <1>1, <2>1
  <2>4. QED
    BY <1>1, <1>3, <1>5, <2>1, <2>2, <2>3
<1>16. ASSUME CancelEdit PROVE HistoryInv'
  <2>1. h' = h /\ nulls' = nulls /\ maxSize' = maxSize /\ dialog' = FALSE /\ edited' = NoItem
    BY <1>16 DEF CancelEdit
  <2>2. Kept
    BY <1>1, <2>1
  <2>3. QED
    BY <1>1, <1>3, <1>5, <2>1, <2>2
<1>17. CASE UNCHANGED vars
  <2>1. /\ h' = h /\ nulls' = nulls /\ maxSize' = maxSize
        /\ dialog' = dialog /\ edited' = edited
    BY <1>17 DEF vars
  <2>2. Kept
    BY <1>1, <2>1
  <2>3. QED
    BY <1>1, <1>5, <2>1, <2>2
<1>18. QED
  BY <1>7, <1>9, <1>10, <1>11, <1>12, <1>13, <1>14, <1>15, <1>16, <1>17 DEF Next

LEMMA AlwaysHistory == Spec => []HistoryInv
  BY InitIsHistory, StepIsHistory, PTL DEF Spec

LEMMA HistoryIsWhole ==
  ASSUME HistoryInv, Editing # "any"
  PROVE  RingIsWhole
<1>1. HistoryOK(h) /\ h.top # Gone
  BY DEF HistoryInv
<1>2. /\ h.items \in SUBSET Uuid /\ IsFiniteSet(h.items) /\ Size \in Nat
      /\ \A u \in h.items : /\ h.next[u] \in h.items /\ h.prev[u] \in h.items
                            /\ h.prev[h.next[u]] = u
  BY <1>1, OkFacts DEF Size
<1>3. h.items = {} <=> h.top = NoItem
  BY <1>1, <1>2, HistoryAssumption DEF HistoryOK
<1>4. ASSUME h.top # NoItem
      PROVE  {Walk(k) : k \in 0 .. Size - 1} = h.items /\ Walk(Size) = h.top
  <2>1. h.top \in h.items
    BY <1>1, <1>4 DEF HistoryOK
  <2>2. PICK I, next, prev, top, n :
          /\ I = h.items /\ next = h.next /\ prev = h.prev /\ top = h.top /\ n = Size
    OBVIOUS
  <2>3. PICK W \in [0 .. n -> I] : Follows(W, n, next, top)
    BY <1>2, <2>1, <2>2, WalkExists
  <2>4. n \in Nat \ {0} /\ {W[k] : k \in 0 .. n - 1} = I /\ W[n] = top
    <3>1. Ring(I, next, prev) /\ IsFiniteSet(I) /\ top \in I /\ n = Cardinality(I)
      BY <1>1, <1>2, <2>1, <2>2 DEF HistoryOK, Size
    <3>2. QED
      BY <2>3, <3>1, RingComesBack
  <2>5. \A k \in 0 .. n : Walk(k) = W[k]
    <3>1. n \in Nat /\ Follows(W, n, h.next, h.top)
      BY <2>2, <2>3, <2>4
    <3>2. QED
      BY <3>1, WalkIs
  <2>6. \A k \in 0 .. n - 1 : Walk(k) = W[k]
    BY <2>4, <2>5
  <2>7. {Walk(k) : k \in 0 .. n - 1} = I
    BY <2>4, <2>6
  <2>8. Walk(n) = top
    BY <2>4, <2>5
  <2>9. QED
    BY <2>2, <2>7, <2>8
<1>5. QED
  BY <1>2, <1>3, <1>4 DEF RingIsWhole, HistoryInv, NullsOK

(* The hash, the links, the pointers and the dialog have their types, and  *)
(* exactly the items of the hash are linked.                               *)
THEOREM HistoryTyped == Spec => []TypeOK
<1>1. HistoryInv => TypeOK
  <2> SUFFICES ASSUME HistoryInv PROVE TypeOK
    OBVIOUS
  <2>1. h \in Histories /\ \A u \in h.items : h.next[u] \in Uuid
    <3>1. HistoryOK(h)
      BY DEF HistoryInv
    <3>2. QED
      BY <3>1, OkFacts DEF HistoryOK
  <2>2. \A u \in Uuid : (u \in h.items) <=> (h.next[u] # NoItem)
    BY <2>1, HistoryAssumption DEF HistoryInv, HistoryOK
  <2>3. QED
    BY <2>1, <2>2 DEF HistoryInv, NullsOK, TypeOK, Histories
<1>2. QED
  BY <1>1, AlwaysHistory, PTL

(* cycleNext and cyclePrev relink up to four neighbours, insert, remove and *)
(* trim the ends: whatever is done in whatever order, as long as the only   *)
(* item is not edited, the links from the top reach each entry of the hash  *)
(* once and come back, and previous_uuid is the inverse of next_uuid.       *)
THEOREM HistoryStaysWhole ==
  ASSUME Editing # "any"
  PROVE  Spec => []RingIsWhole
<1>1. HistoryInv => RingIsWhole
  BY HistoryIsWhole
<1>2. QED
  BY <1>1, AlwaysHistory, PTL

(* forceInsert and setMaxSize trim: never more entries than configured, null *)
(* ones included, also while the setting changes and however items are      *)
(* edited.                                                                  *)
THEOREM HistoryStaysBounded == Spec => []SizeBounded
<1>1. HistoryInv => SizeBounded
  <2> SUFFICES ASSUME HistoryInv PROVE SizeBounded
    OBVIOUS
  <2>1. QED
    BY EntriesCount DEF HistoryInv, SizeBounded
<1>2. QED
  BY <1>1, AlwaysHistory, PTL
==============================================================================
