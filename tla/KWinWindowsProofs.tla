--------------------------- MODULE KWinWindowsProofs ---------------------------
(***************************************************************************)
(* What is proved of the windows of kwin and its focus chains, for any     *)
(* windows, applications and desktops.                                     *)
(***************************************************************************)
EXTENDS KWinFocusProofs, FiniteSetTheorems

(* A function F on 0 .. n that is defined by what it does to its value     *)
(* before.                                                                 *)
Steps(V, n) == [1 .. n -> [V -> V]]

Recursion(F, V, n, base, step) ==
  /\ F \in [0 .. n -> V]
  /\ F[0] = base
  /\ \A i \in 1 .. n : F[i] = step[i][F[i - 1]]

LEMMA RecursionExists ==
  ASSUME NEW V, NEW n \in Nat, NEW base \in V, NEW step \in Steps(V, n)
  PROVE  \E F : Recursion(F, V, n, base, step)
<1> USE DEF Steps
<1> DEFINE Defined(k) == \E F \in [0 .. k -> V] :
                           F[0] = base /\ \A i \in 1 .. k : F[i] = step[i][F[i - 1]]
           missing == {k \in 0 .. n : ~Defined(k)}
<1>1. ASSUME missing # {} PROVE FALSE
  <2>1. PICK m \in missing : \A k \in missing : ~(k < m)
    <3>1. missing \in SUBSET Nat
      OBVIOUS
    <3> HIDE DEF missing
    <3>2. QED
      BY <1>1, <3>1, LeastNumber
  <2>2. m # 0
    <3> DEFINE G == [i \in 0 .. 0 |-> base]
    <3>1. G \in [0 .. 0 -> V] /\ G[0] = base /\ 1 .. 0 = {}
      OBVIOUS
    <3> HIDE DEF G
    <3>2. \A i \in 1 .. 0 : G[i] = step[i][G[i - 1]]
      BY <3>1
    <3>3. Defined(0)
      BY <3>1, <3>2
    <3>4. QED
      BY <3>3
  <2>3. m \in 1 .. n /\ m - 1 \in 0 .. n /\ Defined(m - 1)
    BY <2>1, <2>2
  <2>4. PICK F \in [0 .. m - 1 -> V] :
          F[0] = base /\ \A i \in 1 .. m - 1 : F[i] = step[i][F[i - 1]]
    BY <2>3
  <2> DEFINE G == [i \in 0 .. m |-> IF i = m THEN step[m][F[m - 1]] ELSE F[i]]
  <2>5. step[m][F[m - 1]] \in V
    BY <2>3, <2>4
  <2>6. G \in [0 .. m -> V]
    BY <2>3, <2>4, <2>5
  <2>7. G[0] = base /\ \A i \in 1 .. m : G[i] = step[i][G[i - 1]]
    BY <2>3, <2>4
  <2>8. Defined(m)
    BY <2>6, <2>7
  <2>9. QED
    BY <2>1, <2>8
<1>2. Defined(n)
  <2> HIDE DEF Defined
  <2>1. QED
    BY <1>1
<1>3. QED
  BY <1>2 DEF Recursion

LEMMA RecursionEvery ==
  \A V : \A n \in Nat : \A base \in V : \A step \in Steps(V, n) :
    \E F : Recursion(F, V, n, base, step)
  BY RecursionExists

------------------------------------------------------------------------------
(* Chains: lists of windows that name none twice. *)

Chains == {s \in Seq(Clients) : \A i, j \in 1 .. Len(s) : i # j => s[i] # s[j]}

LEMMA EmptyChain == <<>> \in Chains /\ \A x : ~Contains(<<>>, x)
  BY DEF Chains, Contains

LEMMA ChainMembers == \A s \in Chains : \A x : Contains(s, x) => x \in Clients
  BY DEF Chains, Contains

(* The order of the windows in a chain, and of those that are not in M. *)
SameOrder(t, s, M) ==
  \A x, y : x \notin M /\ y \notin M => (InOrder(t, x, y) <=> InOrder(s, x, y))

OthersOrder(t, s, c) == SameOrder(t, s, {c})

LEMMA SameOrderEvery ==
  /\ \A s, M : SameOrder(s, s, M)
  /\ \A r, s, t, M : SameOrder(r, s, M) /\ SameOrder(s, t, M) => SameOrder(r, t, M)
  /\ \A s, t, M, N : M \subseteq N /\ SameOrder(t, s, M) => SameOrder(t, s, N)
<1>1. \A s, M : SameOrder(s, s, M)
  BY DEF SameOrder
<1>2. \A r, s, t, M : SameOrder(r, s, M) /\ SameOrder(s, t, M) => SameOrder(r, t, M)
  BY DEF SameOrder
<1>3. \A s, t, M, N : M \subseteq N /\ SameOrder(t, s, M) => SameOrder(t, s, N)
  BY DEF SameOrder
<1>4. QED
  BY <1>1, <1>2, <1>3

LEMMA OthersOrderEvery ==
  /\ \A s, c : OthersOrder(s, s, c)
  /\ \A r, s, t, c : OthersOrder(r, s, c) /\ OthersOrder(s, t, c) => OthersOrder(r, t, c)
  BY SameOrderEvery DEF OthersOrder

LEMMA InOrderIs ==
  ASSUME NEW s \in Seq(Clients), NEW x, NEW y
  PROVE  InOrder(s, x, y) <=> \E i, j \in 1 .. Len(s) : i <= j /\ s[i] = x /\ s[j] = y
  BY DEF InOrder

LEMMA AppendInOrder ==
  ASSUME NEW s \in Seq(Clients), NEW c \in Clients, NEW x, NEW y
  PROVE  InOrder(Append(s, c), x, y) <=>
            InOrder(s, x, y) \/ (y = c /\ (x = c \/ Contains(s, x)))
<1> DEFINE t == Append(s, c)
<1>1. /\ t \in Seq(Clients) /\ Len(t) = Len(s) + 1 /\ t[Len(s) + 1] = c
      /\ \A i \in 1 .. Len(s) : t[i] = s[i]
  OBVIOUS
<1>2. Len(s) \in Nat
  OBVIOUS
<1> HIDE DEF t
<1>3. ASSUME InOrder(s, x, y) PROVE InOrder(t, x, y)
  <2>1. PICK i, j \in 1 .. Len(s) : i <= j /\ s[i] = x /\ s[j] = y
    BY <1>3, InOrderIs
  <2>2. i \in 1 .. Len(t) /\ j \in 1 .. Len(t) /\ t[i] = x /\ t[j] = y
    BY <1>1, <1>2, <2>1
  <2>3. QED
    BY <1>1, <2>1, <2>2, InOrderIs
<1>4. ASSUME y = c, x = c \/ Contains(s, x) PROVE InOrder(t, x, y)
  <2>1. PICK i \in 1 .. Len(t) : t[i] = x
    BY <1>1, <1>2, <1>4 DEF Contains
  <2>2. Len(t) \in 1 .. Len(t) /\ i <= Len(t) /\ t[Len(t)] = y
    BY <1>1, <1>2, <1>4
  <2>3. QED
    BY <1>1, <2>1, <2>2, InOrderIs
<1>5. ASSUME InOrder(t, x, y)
      PROVE  InOrder(s, x, y) \/ (y = c /\ (x = c \/ Contains(s, x)))
  <2>1. PICK i, j \in 1 .. Len(t) : i <= j /\ t[i] = x /\ t[j] = y
    BY <1>1, <1>5, InOrderIs
  <2>2. CASE j = Len(t)
    <3>1. y = c
      BY <1>1, <2>1, <2>2
    <3>2. i = Len(t) \/ i \in 1 .. Len(s)
      BY <1>1, <1>2
    <3>3. x = c \/ Contains(s, x)
      BY <1>1, <2>1, <3>2 DEF Contains
    <3>4. QED
      BY <3>1, <3>3
  <2>3. CASE j # Len(t)
    <3>1. i \in 1 .. Len(s) /\ j \in 1 .. Len(s) /\ s[i] = x /\ s[j] = y
      BY <1>1, <1>2, <2>1, <2>3
    <3>2. QED
      BY <2>1, <3>1, InOrderIs
  <2>4. QED
    BY <2>2, <2>3
<1>6. InOrder(t, x, y) <=> InOrder(s, x, y) \/ (y = c /\ (x = c \/ Contains(s, x)))
  BY <1>3, <1>4, <1>5
<1>7. QED
  BY <1>6 DEF t

LEMMA AppendInOrderEvery ==
  \A s \in Seq(Clients) : \A c \in Clients : \A x, y :
    InOrder(Append(s, c), x, y) <=>
            InOrder(s, x, y) \/ (y = c /\ (x = c \/ Contains(s, x)))
  BY AppendInOrder

LEMMA AppendFacts ==
  ASSUME NEW s \in Chains, NEW c \in Clients, ~Contains(s, c)
  PROVE  /\ Append(s, c) \in Chains
         /\ \A x : Contains(Append(s, c), x) <=> Contains(s, x) \/ x = c
         /\ OthersOrder(Append(s, c), s, c)
<1> DEFINE t == Append(s, c)
<1>1. s \in Seq(Clients) /\ \A i, j \in 1 .. Len(s) : i # j => s[i] # s[j]
  BY DEF Chains
<1>2. /\ t \in Seq(Clients) /\ Len(t) = Len(s) + 1 /\ t[Len(s) + 1] = c
      /\ \A i \in 1 .. Len(s) : t[i] = s[i]
  BY <1>1
<1>3. Len(s) \in Nat /\ \A i \in 1 .. Len(s) : s[i] # c
  BY <1>1 DEF Contains
<1> HIDE DEF t
<1>4. \A i, j \in 1 .. Len(t) : i # j => t[i] # t[j]
  BY <1>1, <1>2, <1>3
<1>5. t \in Chains
  BY <1>2, <1>4 DEF Chains
<1>6. \A x : Contains(t, x) <=> Contains(s, x) \/ x = c
  BY <1>2, <1>3 DEF Contains
<1>7. OthersOrder(t, s, c)
  BY <1>1, AppendInOrderEvery DEF OthersOrder, SameOrder, t
<1>8. QED
  BY <1>5, <1>6, <1>7 DEF t

LEMMA AppendEvery ==
  \A s \in Chains : \A c \in Clients : ~Contains(s, c) =>
    /\ Append(s, c) \in Chains
    /\ \A x : Contains(Append(s, c), x) <=> Contains(s, x) \/ x = c
    /\ OthersOrder(Append(s, c), s, c)
  BY AppendFacts

LEMMA ConcatEvery ==
  \A s, t \in Seq(Clients) :
    /\ s \o t \in Seq(Clients) /\ Len(s \o t) = Len(s) + Len(t)
    /\ \A i \in 1 .. Len(s) + Len(t) :
         (s \o t)[i] = IF i <= Len(s) THEN s[i] ELSE t[i - Len(s)]
  OBVIOUS

LEMMA InsertFacts ==
  ASSUME NEW s \in Chains, NEW c \in Clients, ~Contains(s, c), NEW n \in 1 .. Len(s) + 1
  PROVE  /\ InsertAt(s, n, c) \in Chains
         /\ \A x : Contains(InsertAt(s, n, c), x) <=> Contains(s, x) \/ x = c
         /\ OthersOrder(InsertAt(s, n, c), s, c)
<1> DEFINE t == InsertAt(s, n, c)
<1>1. s \in Seq(Clients) /\ \A i, j \in 1 .. Len(s) : i # j => s[i] # s[j]
  BY DEF Chains
<1>2. Len(s) \in Nat /\ \A i \in 1 .. Len(s) : s[i] # c
  BY <1>1 DEF Contains
<1>3. /\ SubSeq(s, 1, n - 1) \in Seq(Clients) /\ Len(SubSeq(s, 1, n - 1)) = n - 1
      /\ \A i \in 1 .. n - 1 : SubSeq(s, 1, n - 1)[i] = s[i]
  BY <1>1, <1>2
<1>4. /\ SubSeq(s, n, Len(s)) \in Seq(Clients) /\ Len(SubSeq(s, n, Len(s))) = Len(s) + 1 - n
      /\ \A i \in 1 .. Len(s) + 1 - n : SubSeq(s, n, Len(s))[i] = s[n + i - 1]
  BY <1>1, <1>2
<1>5. /\ t \in Seq(Clients) /\ Len(t) = Len(s) + 1 /\ t[n] = c
      /\ \A i \in 1 .. n - 1 : t[i] = s[i]
      /\ \A i \in n + 1 .. Len(s) + 1 : t[i] = s[i - 1]
  <2> DEFINE a == SubSeq(s, 1, n - 1)
             b == SubSeq(s, n, Len(s))
  <2>1. t = (a \o <<c>>) \o b
    BY DEF InsertAt
  <2> HIDE DEF a, b, t
  <2>2. /\ a \o <<c>> \in Seq(Clients) /\ Len(a \o <<c>>) = n
        /\ \A i \in 1 .. n - 1 : (a \o <<c>>)[i] = s[i]
        /\ (a \o <<c>>)[n] = c
    BY <1>2, <1>3 DEF a
  <2> DEFINE ac == a \o <<c>>
  <2> HIDE DEF ac
  <2>3. /\ t \in Seq(Clients) /\ Len(t) = n + (Len(s) + 1 - n)
        /\ \A i \in 1 .. n : t[i] = ac[i]
        /\ \A i \in n + 1 .. Len(s) + 1 : t[i] = b[i - n]
    <3>1. ac \in Seq(Clients) /\ Len(ac) = n /\ n \in Nat
      BY <1>2, <2>2 DEF ac
    <3>2. b \in Seq(Clients) /\ Len(b) = Len(s) + 1 - n
      BY <1>4 DEF b
    <3>3. t = ac \o b
      BY <2>1 DEF ac
    <3>4. /\ t \in Seq(Clients) /\ Len(t) = Len(ac) + Len(b)
          /\ \A i \in 1 .. Len(ac) + Len(b) :
               t[i] = IF i <= Len(ac) THEN ac[i] ELSE b[i - Len(ac)]
      BY <3>1, <3>2, <3>3, ConcatEvery
    <3>5. QED
      BY <1>2, <3>1, <3>2, <3>4
  <2>4. \A i \in n + 1 .. Len(s) + 1 : b[i - n] = s[i - 1]
    BY <1>2, <1>4 DEF b
  <2>5. QED
    BY <1>2, <2>2, <2>3, <2>4 DEF ac
<1> HIDE DEF t
<1>6. \A i, j \in 1 .. Len(t) : i # j => t[i] # t[j]
  <2> SUFFICES ASSUME NEW i \in 1 .. Len(t), NEW j \in 1 .. Len(t), i < j PROVE t[i] # t[j]
    BY <1>2, <1>5
  <2>1. CASE j < n
    BY <1>1, <1>2, <1>5, <2>1
  <2>2. CASE j = n
    BY <1>1, <1>2, <1>5, <2>2
  <2>3. CASE j > n /\ i = n
    BY <1>1, <1>2, <1>5, <2>3
  <2>4. CASE j > n /\ i < n
    BY <1>1, <1>2, <1>5, <2>4
  <2>5. CASE j > n /\ i > n
    BY <1>1, <1>2, <1>5, <2>5
  <2>6. QED
    BY <1>2, <2>1, <2>2, <2>3, <2>4, <2>5
<1>7. t \in Chains
  BY <1>5, <1>6 DEF Chains
<1>8. \A x : Contains(t, x) <=> Contains(s, x) \/ x = c
  <2> TAKE x
  <2>1. ASSUME Contains(s, x) PROVE Contains(t, x)
    <3>1. PICK i \in 1 .. Len(s) : s[i] = x
      BY <2>1 DEF Contains
    <3>2. CASE i < n
      BY <1>2, <1>5, <3>1, <3>2 DEF Contains
    <3>3. CASE i >= n
      <4>1. i + 1 \in n + 1 .. Len(s) + 1 /\ t[i + 1] = s[i]
        BY <1>2, <1>5, <3>1, <3>3
      <4>2. QED
        BY <1>2, <1>5, <3>1, <4>1 DEF Contains
    <3>4. QED
      BY <3>1, <3>2, <3>3
  <2>2. Contains(t, c)
    BY <1>2, <1>5 DEF Contains
  <2>3. ASSUME Contains(t, x), x # c PROVE Contains(s, x)
    <3>1. PICK i \in 1 .. Len(t) : t[i] = x
      BY <2>3 DEF Contains
    <3>2. CASE i < n
      BY <1>2, <1>5, <3>1, <3>2 DEF Contains
    <3>3. CASE i > n
      <4>1. i - 1 \in 1 .. Len(s) /\ s[i - 1] = x
        BY <1>2, <1>5, <3>1, <3>3
      <4>2. QED
        BY <4>1 DEF Contains
    <3>4. QED
      BY <1>5, <2>3, <3>1, <3>2, <3>3
  <2>4. QED
    BY <2>1, <2>2, <2>3
<1>9. ASSUME NEW x, NEW y, x # c, y # c, InOrder(s, x, y) PROVE InOrder(t, x, y)
  <2>1. PICK i, j \in 1 .. Len(s) : i <= j /\ s[i] = x /\ s[j] = y
    BY <1>1, <1>9, InOrderIs
  <2> DEFINE Moved(k) == IF k < n THEN k ELSE k + 1
  <2>2. \A k \in 1 .. Len(s) : Moved(k) \in 1 .. Len(t) /\ t[Moved(k)] = s[k]
    <3> TAKE k \in 1 .. Len(s)
    <3>1. CASE k < n
      BY <1>2, <1>5, <3>1
    <3>2. CASE k >= n
      <4>1. k + 1 \in n + 1 .. Len(s) + 1 /\ k + 1 - 1 = k
        BY <1>2, <3>2
      <4>2. QED
        BY <1>2, <1>5, <3>2, <4>1
    <3>3. QED
      BY <1>2, <3>1, <3>2
  <2>3. Moved(i) <= Moved(j)
    BY <1>2, <2>1
  <2> HIDE DEF Moved
  <2>4. QED
    BY <1>5, <2>1, <2>2, <2>3, InOrderIs
<1>10. ASSUME NEW x, NEW y, x # c, y # c, InOrder(t, x, y) PROVE InOrder(s, x, y)
  <2>1. PICK i, j \in 1 .. Len(t) : i <= j /\ t[i] = x /\ t[j] = y
    BY <1>5, <1>10, InOrderIs
  <2> DEFINE Old(k) == IF k < n THEN k ELSE k - 1
  <2>2. \A k \in 1 .. Len(t) : k # n => Old(k) \in 1 .. Len(s) /\ s[Old(k)] = t[k]
    <3> SUFFICES ASSUME NEW k \in 1 .. Len(t), k # n
                 PROVE  Old(k) \in 1 .. Len(s) /\ s[Old(k)] = t[k]
      OBVIOUS
    <3>1. CASE k < n
      BY <1>2, <1>5, <3>1
    <3>2. CASE k > n
      BY <1>2, <1>5, <3>2
    <3>3. QED
      BY <1>2, <3>1, <3>2
  <2>3. i # n /\ j # n /\ Old(i) <= Old(j)
    BY <1>2, <1>5, <1>10, <2>1
  <2> HIDE DEF Old
  <2>4. QED
    BY <1>1, <2>1, <2>2, <2>3, InOrderIs
<1>11. OthersOrder(t, s, c)
  BY <1>9, <1>10 DEF OthersOrder, SameOrder
<1>12. QED
  BY <1>7, <1>8, <1>11 DEF t

LEMMA InsertEvery ==
  \A s \in Chains : \A c \in Clients : \A n \in 1 .. Len(s) + 1 : ~Contains(s, c) =>
    /\ InsertAt(s, n, c) \in Chains
    /\ \A x : Contains(InsertAt(s, n, c), x) <=> Contains(s, x) \/ x = c
    /\ OthersOrder(InsertAt(s, n, c), s, c)
  BY InsertFacts

(* QList::removeAll leaves the others, in a chain. *)
LEMMA RemoveFacts ==
  ASSUME NEW s \in Chains, NEW c
  PROVE  /\ removeAll(s, c) \in Chains
         /\ \A x : Contains(removeAll(s, c), x) <=> Contains(s, x) /\ x # c
         /\ OthersOrder(removeAll(s, c), s, c)
<1> DEFINE kept == CHOOSE kept : kept = [i \in 0 .. Len(s) |->
                     IF i = 0 THEN <<>>
                     ELSE IF s[i] = c THEN kept[i - 1] ELSE Append(kept[i - 1], s[i])]
           step == [i \in 1 .. Len(s) |-> [t \in Seq(Clients) |->
                     IF s[i] = c THEN t ELSE Append(t, s[i])]]
<1>1. s \in Seq(Clients) /\ \A i, j \in 1 .. Len(s) : i # j => s[i] # s[j]
  BY DEF Chains
<1>2. Len(s) \in Nat /\ \A i \in 1 .. Len(s) : s[i] \in Clients
  BY <1>1
<1>3. removeAll(s, c) = kept[Len(s)]
  BY DEF removeAll
<1>4. PICK F \in [0 .. Len(s) -> Seq(Clients)] :
        F[0] = <<>> /\ \A i \in 1 .. Len(s) : F[i] = step[i][F[i - 1]]
  <2>1. step \in [1 .. Len(s) -> [Seq(Clients) -> Seq(Clients)]]
    BY <1>2
  <2>2. <<>> \in Seq(Clients)
    OBVIOUS
  <2>3. step \in Steps(Seq(Clients), Len(s))
    BY <2>1 DEF Steps
  <2> HIDE DEF step
  <2>4. \E F : Recursion(F, Seq(Clients), Len(s), <<>>, step)
    BY <1>2, <2>2, <2>3, RecursionEvery
  <2>5. QED
    BY <2>4 DEF Recursion
<1>5. \A i \in 1 .. Len(s) : F[i] = IF s[i] = c THEN F[i - 1] ELSE Append(F[i - 1], s[i])
  <2> TAKE i \in 1 .. Len(s)
  <2>1. F[i - 1] \in Seq(Clients)
    BY <1>2, <1>4
  <2>2. QED
    BY <1>4, <2>1
<1>6. F = [i \in 0 .. Len(s) |->
              IF i = 0 THEN <<>>
              ELSE IF s[i] = c THEN F[i - 1] ELSE Append(F[i - 1], s[i])]
  <2>1. \A i \in 0 .. Len(s) :
          F[i] = IF i = 0 THEN <<>>
                 ELSE IF s[i] = c THEN F[i - 1] ELSE Append(F[i - 1], s[i])
    <3> TAKE i \in 0 .. Len(s)
    <3>1. CASE i = 0
      BY <1>4, <3>1
    <3>2. CASE i # 0
      <4>1. i \in 1 .. Len(s)
        BY <1>2, <3>2
      <4>2. QED
        BY <1>5, <3>2, <4>1, Zenon
    <3>3. QED
      BY <3>1, <3>2
  <2>2. F = [i \in 0 .. Len(s) |-> F[i]]
    BY <1>4, SMTT(30)
  <2>3. QED
    BY <2>1, <2>2, Zenon
<1>7. kept = [i \in 0 .. Len(s) |->
              IF i = 0 THEN <<>>
              ELSE IF s[i] = c THEN kept[i - 1] ELSE Append(kept[i - 1], s[i])]
  BY <1>6
<1> HIDE DEF kept, step
<1>8. kept[0] = <<>> /\ \A i \in 1 .. Len(s) :
        kept[i] = IF s[i] = c THEN kept[i - 1] ELSE Append(kept[i - 1], s[i])
  <2>1. \A i \in 0 .. Len(s) :
          kept[i] = IF i = 0 THEN <<>>
                    ELSE IF s[i] = c THEN kept[i - 1] ELSE Append(kept[i - 1], s[i])
    BY <1>7, Zenon
  <2>2. QED
    BY <1>2, <2>1
<1> DEFINE Right(k) ==
      /\ kept[k] \in Chains
      /\ \A x : Contains(kept[k], x) <=> x # c /\ \E j \in 1 .. k : s[j] = x
      /\ \A x, y : x # c /\ y # c =>
           (InOrder(kept[k], x, y) <=>
              \E i, j \in 1 .. k : i <= j /\ s[i] = x /\ s[j] = y)
           wrong == {k \in 0 .. Len(s) : ~Right(k)}
<1>9. Right(0)
  <2>1. 1 .. 0 = {} /\ \A x, y : ~InOrder(<<>>, x, y)
    BY DEF InOrder
  <2>2. QED
    BY <1>8, <2>1, EmptyChain
<1>10. ASSUME NEW k \in 1 .. Len(s), Right(k - 1) PROVE Right(k)
  <2>1. \A x : (\E j \in 1 .. k : s[j] = x) <=> (\E j \in 1 .. k - 1 : s[j] = x) \/ s[k] = x
    BY <1>2
  <2>2. CASE s[k] = c
    <3>1. kept[k] = kept[k - 1]
      BY <1>8, <2>2
    <3>2. \A x, y : x # c /\ y # c =>
            ((\E i, j \in 1 .. k : i <= j /\ s[i] = x /\ s[j] = y)
               <=> (\E i, j \in 1 .. k - 1 : i <= j /\ s[i] = x /\ s[j] = y))
      BY <1>2, <2>2
    <3>3. QED
      BY <1>10, <2>1, <2>2, <3>1, <3>2
  <2>3. CASE s[k] # c
    <3>1. kept[k] = Append(kept[k - 1], s[k])
      BY <1>8, <2>3
    <3>2. \A j \in 1 .. k - 1 : s[j] # s[k]
      BY <1>1, <1>2
    <3>3. ~Contains(kept[k - 1], s[k])
      BY <1>10, <3>2
    <3>4. \A x, y : x # c /\ y # c =>
            (InOrder(kept[k], x, y) <=>
               \E i, j \in 1 .. k : i <= j /\ s[i] = x /\ s[j] = y)
      <4> SUFFICES ASSUME NEW x, NEW y, x # c, y # c
                   PROVE  InOrder(kept[k], x, y) <=>
                            \E i, j \in 1 .. k : i <= j /\ s[i] = x /\ s[j] = y
        OBVIOUS
      <4>1. kept[k - 1] \in Seq(Clients) /\ s[k] \in Clients
        BY <1>2, <1>10 DEF Chains
      <4>2. InOrder(kept[k], x, y) <=>
            InOrder(kept[k - 1], x, y) \/ (y = s[k] /\ (x = s[k] \/ Contains(kept[k - 1], x)))
        BY <3>1, <4>1, AppendInOrderEvery
      <4>3. InOrder(kept[k - 1], x, y) <=>
              \E i, j \in 1 .. k - 1 : i <= j /\ s[i] = x /\ s[j] = y
        BY <1>10
      <4>4. x = s[k] \/ Contains(kept[k - 1], x) <=> \E i \in 1 .. k : s[i] = x
        BY <1>10, <2>1
      <4>5. (\E i, j \in 1 .. k : i <= j /\ s[i] = x /\ s[j] = y) <=>
              \/ \E i, j \in 1 .. k - 1 : i <= j /\ s[i] = x /\ s[j] = y
              \/ y = s[k] /\ \E i \in 1 .. k : s[i] = x
        BY <1>2
      <4>6. QED
        BY <4>2, <4>3, <4>4, <4>5
    <3>5. /\ kept[k] \in Chains
          /\ \A x : Contains(kept[k], x) <=> Contains(kept[k - 1], x) \/ x = s[k]
      BY <1>2, <1>10, <3>1, <3>3, AppendEvery
    <3>6. QED
      BY <1>10, <2>1, <2>3, <3>4, <3>5
  <2>4. QED
    BY <2>2, <2>3
<1>11. Right(Len(s))
  <2> HIDE DEF Right
  <2>1. ASSUME wrong # {} PROVE FALSE
    <3>1. wrong \in SUBSET Nat
      OBVIOUS
    <3>2. PICK m \in wrong : \A k \in wrong : ~(k < m)
      <4> HIDE DEF wrong
      <4>1. QED
        BY <2>1, <3>1, LeastNumber
    <3>3. m \in 1 .. Len(s) /\ m - 1 \in 0 .. Len(s) /\ m - 1 \notin wrong
      BY <1>2, <1>9, <3>2
    <3>4. QED
      BY <1>10, <3>2, <3>3
  <2>2. QED
    BY <1>2, <2>1
<1>12. /\ removeAll(s, c) \in Chains
       /\ \A x : Contains(removeAll(s, c), x) <=> Contains(s, x) /\ x # c
  BY <1>3, <1>11 DEF Contains
<1>13. \A x, y : x # c /\ y # c => (InOrder(removeAll(s, c), x, y) <=> InOrder(s, x, y))
  BY <1>1, <1>3, <1>11, InOrderIs
<1>14. QED
  BY <1>12, <1>13 DEF OthersOrder, SameOrder

LEMMA RemoveEvery ==
  \A s \in Chains : \A c :
    /\ removeAll(s, c) \in Chains
    /\ \A x : Contains(removeAll(s, c), x) <=> Contains(s, x) /\ x # c
    /\ OthersOrder(removeAll(s, c), s, c)
  BY RemoveFacts

LEMMA LastOfSome ==
  ASSUME NEW n \in Nat, NEW I \in SUBSET (1 .. n), I # {}
  PROVE  Max(I) \in I
<1> DEFINE gaps == {k \in Nat : n - k \in I}
<1>1. gaps \in SUBSET Nat /\ gaps # {}
  <2>1. PICK i \in I : TRUE
    OBVIOUS
  <2>2. n - i \in Nat /\ n - (n - i) = i
    BY <2>1
  <2>3. QED
    BY <2>1, <2>2
<1>2. PICK k \in gaps : \A j \in gaps : ~(j < k)
  <2> HIDE DEF gaps
  <2>1. QED
    BY <1>1, LeastNumber
<1>3. n - k \in I /\ k \in Nat
  BY <1>2
<1>4. \A i \in I : n - i \in gaps /\ i \in 1 .. n
  OBVIOUS
<1>5. \A i \in I : n - k >= i
  BY <1>2, <1>3, <1>4
<1>6. QED
  BY <1>3, <1>5 DEF Max

LEMMA FirstOfSome ==
  ASSUME NEW n \in Nat, NEW I \in SUBSET (1 .. n), I # {}
  PROVE  Min(I) \in I
<1>1. I \in SUBSET Nat
  OBVIOUS
<1>2. PICK i \in I : \A j \in I : ~(j < i)
  BY <1>1, LeastNumber
<1>3. \A j \in I : i <= j
  BY <1>2
<1>4. QED
  BY <1>2, <1>3 DEF Min

(* The window gets a place in the chain, before or after the others.       *)
LEMMA MakeFirstFacts ==
  ASSUME NEW w, NEW c \in Clients, NEW s \in Chains
  PROVE  /\ makeFirstInChain(w, c, s) \in Chains
         /\ \A x : Contains(makeFirstInChain(w, c, s), x) <=> Contains(s, x) \/ x = c
         /\ OthersOrder(makeFirstInChain(w, c, s), s, c)
<1> DEFINE rest == removeAll(s, c)
           I == {i \in 1 .. Len(rest) : w[rest[i]].minimized}
           place == SelectLastInSeq(rest, LAMBDA x : w[x].minimized)
<1>1. /\ rest \in Chains
      /\ \A x : Contains(rest, x) <=> Contains(s, x) /\ x # c
      /\ OthersOrder(rest, s, c)
  BY RemoveEvery
<1> HIDE DEF rest
<1>2. Len(rest) \in Nat
  BY <1>1 DEF Chains
<1>3. place \in 0 .. Len(rest)
  <2>1. place = IF I # {} THEN Max(I) ELSE 0
    BY DEF SelectLastInSeq
  <2>2. I \in SUBSET (1 .. Len(rest))
    OBVIOUS
  <2> HIDE DEF I, place
  <2>3. CASE I # {}
    <3>1. Max(I) \in I
      BY <1>2, <2>2, <2>3, LastOfSome
    <3>2. Max(I) \in 1 .. Len(rest)
      BY <2>2, <3>1, Zenon
    <3>3. Max(I) \in 0 .. Len(rest)
      BY <1>2, <3>2
    <3>4. QED
      BY <2>1, <2>3, <3>3, Zenon
  <2>4. CASE I = {}
    BY <1>2, <2>1, <2>4
  <2>5. QED
    BY <2>3, <2>4
<1>4. makeFirstInChain(w, c, s) =
        IF w[c].minimized THEN InsertAt(rest, 1 + place, c) ELSE Append(rest, c)
  BY DEF makeFirstInChain, rest
<1> HIDE DEF place
<1>5. ~Contains(rest, c) /\ 1 + place \in 1 .. Len(rest) + 1
  BY <1>1, <1>2, <1>3
<1>6. CASE w[c].minimized
  BY <1>1, <1>4, <1>5, <1>6, InsertEvery, OthersOrderEvery
<1>7. CASE ~w[c].minimized
  BY <1>1, <1>4, <1>5, <1>7, AppendEvery, OthersOrderEvery
<1>8. QED
  BY <1>6, <1>7

LEMMA InsertClientFacts ==
  ASSUME NEW c \in Clients, NEW a, NEW s \in Chains
  PROVE  /\ insertClientIntoChain(c, a, s) \in Chains
         /\ \A x : Contains(insertClientIntoChain(c, a, s), x) <=> Contains(s, x) \/ x = c
         /\ OthersOrder(insertClientIntoChain(c, a, s), s, c)
<1>1. CASE Contains(s, c)
  BY <1>1, OthersOrderEvery DEF insertClientIntoChain
<1>2. CASE ~Contains(s, c) /\ s # <<>> /\ a # c /\ Last(s) = a
  <2>1. insertClientIntoChain(c, a, s) = InsertAt(s, Len(s), c)
    BY <1>2 DEF insertClientIntoChain
  <2>2. Len(s) \in 1 .. Len(s) + 1
    BY <1>2 DEF Chains
  <2>3. QED
    BY <1>2, <2>1, <2>2, InsertEvery
<1>3. CASE ~Contains(s, c) /\ ~(s # <<>> /\ a # c /\ Last(s) = a)
  BY <1>3, AppendEvery DEF insertClientIntoChain
<1>4. QED
  BY <1>1, <1>2, <1>3

LEMMA UpdateInChainEvery ==
  \A w : \A c \in Clients : \A a : \A s \in Chains : \A change :
    /\ updateClientInChain(w, c, change, a, s) \in Chains
    /\ \A x : Contains(updateClientInChain(w, c, change, a, s), x)
                <=> Contains(s, x) \/ x = c
    /\ OthersOrder(updateClientInChain(w, c, change, a, s), s, c)
  BY MakeFirstFacts, InsertClientFacts DEF updateClientInChain

LEMMA InsertClientEvery ==
  \A c \in Clients : \A a : \A s \in Chains :
    /\ insertClientIntoChain(c, a, s) \in Chains
    /\ \A x : Contains(insertClientIntoChain(c, a, s), x) <=> Contains(s, x) \/ x = c
    /\ OthersOrder(insertClientIntoChain(c, a, s), s, c)
  BY InsertClientFacts

(* A window that is put beside another one is not lost on the way.         *)
LEMMA MoveAfterFacts ==
  ASSUME NEW c \in Clients, NEW r, NEW s \in Chains
  PROVE  /\ moveAfterClientInChain(c, r, s) \in Chains
         /\ \A x : Contains(moveAfterClientInChain(c, r, s), x)
                     <=> Contains(s, x) \/ (x = c /\ Contains(s, r))
         /\ OthersOrder(moveAfterClientInChain(c, r, s), s, c)
<1> DEFINE rest == removeAll(s, c)
           same == belongToSameApplication(r, c)
           I == {i \in 1 .. Len(rest) : rest[i] = r}
           J == {i \in 1 .. Len(rest) : belongToSameApplication(r, rest[i])}
           place == IF r = c THEN 1
                    ELSE IF same THEN SelectInSeq(rest, LAMBDA x : x = r)
                    ELSE SelectLastInSeq(rest, LAMBDA x : belongToSameApplication(r, x))
<1>1. CASE ~Contains(s, r)
  BY <1>1, OthersOrderEvery DEF moveAfterClientInChain
<1>2. CASE Contains(s, r)
  <2>1. /\ rest \in Chains
        /\ \A x : Contains(rest, x) <=> Contains(s, x) /\ x # c
        /\ OthersOrder(rest, s, c)
    BY RemoveEvery
  <2>2. moveAfterClientInChain(c, r, s) = InsertAt(rest, place, c)
    BY <1>2 DEF moveAfterClientInChain
  <2> HIDE DEF rest
  <2>3. Len(rest) \in Nat
    BY <2>1 DEF Chains
  <2>4. place \in 1 .. Len(rest) + 1
    <3>1. CASE r = c
      BY <2>3, <3>1
    <3>2. CASE r # c
      <4>1. PICK i \in 1 .. Len(rest) : rest[i] = r
        BY <1>2, <2>1, <3>2 DEF Contains
      <4>2. /\ I \in SUBSET (1 .. Len(rest)) /\ I # {}
            /\ J \in SUBSET (1 .. Len(rest)) /\ J # {}
        BY <4>1 DEF belongToSameApplication
      <4>3. place = IF same THEN Min(I) ELSE Max(J)
        BY <3>2, <4>2 DEF SelectInSeq, SelectLastInSeq
      <4> HIDE DEF I, J, same, place
      <4>4. place \in 1 .. Len(rest)
        BY <2>3, <4>2, <4>3, FirstOfSome, LastOfSome
      <4>5. QED
        BY <2>3, <4>4
    <3>3. QED
      BY <3>1, <3>2
  <2> HIDE DEF I, J, same, place
  <2>5. ~Contains(rest, c)
    BY <2>1
  <2>6. QED
    BY <1>2, <2>1, <2>2, <2>4, <2>5, InsertEvery, OthersOrderEvery
<1>3. QED
  BY <1>1, <1>2

LEMMA MoveAfterEvery ==
  \A c \in Clients : \A r : \A s \in Chains :
    /\ moveAfterClientInChain(c, r, s) \in Chains
    /\ \A x : Contains(moveAfterClientInChain(c, r, s), x)
                <=> Contains(s, x) \/ (x = c /\ Contains(s, r))
    /\ OthersOrder(moveAfterClientInChain(c, r, s), s, c)
  BY MoveAfterFacts

------------------------------------------------------------------------------
(* The object: what its operations do to the lists of which window.        *)

FocusChains(m) ==
  [mostRecentlyUsed : Chains, chains : [1 .. m -> Chains],
   activeClient : Clients \cup {NoClient}, currentDesktop : Nat]

Windows == [Clients -> [desk : Int, minimized : BOOLEAN, wantsTabFocus : BOOLEAN]]

Listed(f, x) == Contains(f.mostRecentlyUsed, x)

(* Chains that are the same list the same.                                 *)
ListsSame(g, f) == g.mostRecentlyUsed = f.mostRecentlyUsed /\ g.chains = f.chains

(* Nothing but the lists of c may differ, and in these its place.          *)
OthersInOrder(g, f, c, m) ==
  /\ OthersOrder(g.mostRecentlyUsed, f.mostRecentlyUsed, c)
  /\ \A d \in 1 .. m : OthersOrder(g.chains[d], f.chains[d], c)

OthersSame(g, f, c, m) ==
  /\ \A x : x # c => /\ Listed(g, x) <=> Listed(f, x)
                     /\ \A d \in 1 .. m : contains(g, x, d) <=> contains(f, x, d)
  /\ OthersInOrder(g, f, c, m)

LEMMA OthersSameEvery ==
  /\ \A g, f, c, m : ListsSame(g, f) => OthersSame(g, f, c, m)
  /\ \A h, g, f, c, m : OthersSame(h, g, c, m) /\ OthersSame(g, f, c, m)
                          => OthersSame(h, f, c, m)
<1>1. \A g, f, c, m : ListsSame(g, f) => OthersInOrder(g, f, c, m)
  BY OthersOrderEvery DEF ListsSame, OthersInOrder
<1>2. \A g, f, c, m : ListsSame(g, f) => OthersSame(g, f, c, m)
  BY <1>1 DEF ListsSame, OthersSame, Listed, contains
<1>3. \A h, g, f, c, m : OthersInOrder(h, g, c, m) /\ OthersInOrder(g, f, c, m)
                          => OthersInOrder(h, f, c, m)
  BY OthersOrderEvery DEF OthersInOrder
<1>4. \A h, g, f, c, m : OthersSame(h, g, c, m) /\ OthersSame(g, f, c, m)
                          => OthersSame(h, f, c, m)
  BY <1>3 DEF OthersSame
<1>5. QED
  BY <1>2, <1>4

StateSame(g, f) ==
  g.activeClient = f.activeClient /\ g.currentDesktop = f.currentDesktop

Updated(g, f, w, c, m) ==
  /\ g \in FocusChains(m) /\ StateSame(g, f) /\ OthersSame(g, f, c, m)
  /\ Listed(g, c) <=> w[c].wantsTabFocus
  /\ \A d \in 1 .. m : contains(g, c, d) <=> w[c].wantsTabFocus /\ isOnDesktop(w[c], d)

(* The windows that are not in M are in the same chains in the same order. *)
OrderKept(g, f, M, m) ==
  /\ SameOrder(g.mostRecentlyUsed, f.mostRecentlyUsed, M)
  /\ \A d \in 1 .. m : SameOrder(g.chains[d], f.chains[d], M)

LEMMA OrderKeptEvery ==
  /\ \A g, f, M, m : ListsSame(g, f) => OrderKept(g, f, M, m)
  /\ \A h, g, f, M, m : OrderKept(h, g, M, m) /\ OrderKept(g, f, M, m)
                          => OrderKept(h, f, M, m)
  /\ \A g, f, c, M, m : OthersSame(g, f, c, m) /\ c \in M => OrderKept(g, f, M, m)
<1>1. \A g, f, M, m : ListsSame(g, f) => OrderKept(g, f, M, m)
  BY SameOrderEvery DEF ListsSame, OrderKept
<1>2. \A h, g, f, M, m : OrderKept(h, g, M, m) /\ OrderKept(g, f, M, m)
                          => OrderKept(h, f, M, m)
  BY SameOrderEvery DEF OrderKept
<1>3. \A s, t, c, M : OthersOrder(t, s, c) /\ c \in M => SameOrder(t, s, M)
  BY DEF OthersOrder, SameOrder
<1>4. \A g, f, c, M, m : OthersSame(g, f, c, m) /\ c \in M => OrderKept(g, f, M, m)
  BY <1>3 DEF OthersSame, OthersInOrder, OrderKept
<1>5. QED
  BY <1>1, <1>2, <1>4

LEMMA RemovedFacts ==
  ASSUME NEW m \in Nat, NEW f \in FocusChains(m), NEW c
  PROVE  /\ remove(f, c) \in FocusChains(m) /\ StateSame(remove(f, c), f)
         /\ OthersSame(remove(f, c), f, c, m)
         /\ ~Listed(remove(f, c), c) /\ \A d \in 1 .. m : ~contains(remove(f, c), c, d)
<1> DEFINE g == remove(f, c)
<1>1. /\ f.mostRecentlyUsed \in Chains /\ f.chains \in [1 .. m -> Chains]
      /\ DOMAIN f.chains = 1 .. m
  BY DEF FocusChains
<1>2. g = [f EXCEPT !.chains = [d \in DOMAIN f.chains |-> removeAll(f.chains[d], c)],
                    !.mostRecentlyUsed = removeAll(f.mostRecentlyUsed, c)]
  BY DEF remove
<1>3. [d \in DOMAIN f.chains |-> removeAll(f.chains[d], c)] \in [1 .. m -> Chains]
  BY <1>1, RemoveEvery
<1>4. g \in FocusChains(m) /\ StateSame(g, f)
  <2>1. removeAll(f.mostRecentlyUsed, c) \in Chains
    BY <1>1, RemoveEvery
  <2> HIDE DEF g
  <2>2. QED
    BY <1>1, <1>2, <1>3, <2>1 DEF FocusChains, StateSame
<1>5. /\ g.mostRecentlyUsed = removeAll(f.mostRecentlyUsed, c)
      /\ \A d \in 1 .. m : g.chains[d] = removeAll(f.chains[d], c) /\ f.chains[d] \in Chains
  BY <1>1, <1>2 DEF FocusChains
<1> HIDE DEF g
<1>6. /\ OthersSame(g, f, c, m)
      /\ ~Listed(g, c) /\ \A d \in 1 .. m : ~contains(g, c, d)
  BY <1>1, <1>5, RemoveEvery DEF OthersSame, OthersInOrder, Listed, contains
<1>7. QED
  BY <1>4, <1>6 DEF g

LEMMA UpdateFacts ==
  ASSUME NEW m \in Nat, NEW f \in FocusChains(m), NEW w \in Windows, NEW c \in Clients,
         NEW change
  PROVE  Updated(update(f, w, c, change), f, w, c, m)
<1> DEFINE In(chain) == updateClientInChain(w, c, change, f.activeClient, chain)
           InChainOf(d) ==
             IF w[c].desk = OnAllDesktops /\ d # f.currentDesktop
             THEN insertClientIntoChain(c, f.activeClient, f.chains[d])
             ELSE IF isOnDesktop(w[c], d) THEN In(f.chains[d])
             ELSE removeAll(f.chains[d], c)
           g == update(f, w, c, change)
<1>1. /\ f.mostRecentlyUsed \in Chains /\ f.chains \in [1 .. m -> Chains]
      /\ DOMAIN f.chains = 1 .. m /\ \A d \in 1 .. m : f.chains[d] \in Chains
  BY DEF FocusChains
<1>2. w[c].wantsTabFocus \in BOOLEAN
  BY DEF Windows
<1>3. CASE ~w[c].wantsTabFocus
  <2>1. g = remove(f, c)
    BY <1>3 DEF update
  <2>2. QED
    BY <1>3, <2>1, RemovedFacts DEF Updated
<1>4. CASE w[c].wantsTabFocus
  <2>1. g = [f EXCEPT !.chains = [d \in DOMAIN f.chains |-> InChainOf(d)],
                      !.mostRecentlyUsed = In(f.mostRecentlyUsed)]
    BY <1>4 DEF update
  <2>2. /\ In(f.mostRecentlyUsed) \in Chains
        /\ \A x : Contains(In(f.mostRecentlyUsed), x) <=> Contains(f.mostRecentlyUsed, x) \/ x = c
        /\ OthersOrder(In(f.mostRecentlyUsed), f.mostRecentlyUsed, c)
    BY <1>1, UpdateInChainEvery
  <2>3. ASSUME NEW d \in 1 .. m
        PROVE  /\ InChainOf(d) \in Chains
               /\ \A x : x # c => (Contains(InChainOf(d), x) <=> Contains(f.chains[d], x))
               /\ Contains(InChainOf(d), c) <=> isOnDesktop(w[c], d)
               /\ OthersOrder(InChainOf(d), f.chains[d], c)
    <3>1. CASE w[c].desk = OnAllDesktops /\ d # f.currentDesktop
      BY <1>1, <3>1, InsertClientEvery DEF isOnDesktop
    <3>2. CASE ~(w[c].desk = OnAllDesktops /\ d # f.currentDesktop) /\ isOnDesktop(w[c], d)
      <4>1. InChainOf(d) = In(f.chains[d])
        BY <3>2
      <4>2. QED
        BY <1>1, <3>2, <4>1, UpdateInChainEvery
    <3>3. CASE ~(w[c].desk = OnAllDesktops /\ d # f.currentDesktop) /\ ~isOnDesktop(w[c], d)
      <4>1. InChainOf(d) = removeAll(f.chains[d], c)
        BY <3>3
      <4>2. QED
        BY <1>1, <3>3, <4>1, RemoveEvery
    <3>4. QED
      BY <3>1, <3>2, <3>3
  <2> HIDE DEF In, InChainOf
  <2>4. [d \in DOMAIN f.chains |-> InChainOf(d)] \in [1 .. m -> Chains]
    BY <1>1, <2>3
  <2>5. g \in FocusChains(m) /\ StateSame(g, f)
    BY <1>1, <2>1, <2>2, <2>4 DEF FocusChains, StateSame
  <2>6. /\ g.mostRecentlyUsed = In(f.mostRecentlyUsed)
        /\ \A d \in 1 .. m : g.chains[d] = InChainOf(d)
    BY <1>1, <2>1 DEF FocusChains
  <2> HIDE DEF g
  <2>7. /\ OthersSame(g, f, c, m) /\ Listed(g, c)
        /\ \A d \in 1 .. m : contains(g, c, d) <=> isOnDesktop(w[c], d)
    BY <1>4, <2>2, <2>3, <2>6 DEF OthersSame, OthersInOrder, Listed, contains
  <2>8. Updated(g, f, w, c, m)
    BY <1>4, <2>5, <2>7 DEF Updated
  <2>9. QED
    BY <2>8 DEF g
<1>5. QED
  BY <1>2, <1>3, <1>4

LEMMA UpdateEvery ==
  \A m \in Nat : \A f \in FocusChains(m) : \A w \in Windows : \A c \in Clients :
  \A change : Updated(update(f, w, c, change), f, w, c, m)
  BY UpdateFacts

(* A window is listed beside another one only where that one is.           *)
Beside(g, f, w, c, r, m) ==
  /\ g \in FocusChains(m) /\ StateSame(g, f) /\ OthersSame(g, f, c, m)
  /\ Listed(f, c) => Listed(g, c)
  /\ Listed(g, c) => Listed(f, c) \/ Listed(f, r)
  /\ \A d \in 1 .. m :
       /\ contains(f, c, d) => contains(g, c, d)
       /\ contains(g, c, d) =>
            \/ contains(f, c, d) /\ (Listed(f, c) => Listed(g, c))
            \/ contains(f, r, d) /\ isOnDesktop(w[c], d) /\ (Listed(f, r) => Listed(g, c))

LEMMA MoveFacts ==
  ASSUME NEW m \in Nat, NEW f \in FocusChains(m), NEW w \in Windows, NEW c \in Clients,
         NEW r
  PROVE  Beside(moveAfterClient(f, w, c, r), f, w, c, r, m)
<1> DEFINE g == moveAfterClient(f, w, c, r)
           Moved(chain) == moveAfterClientInChain(c, r, chain)
           InChainOf(d) == IF isOnDesktop(w[c], d) THEN Moved(f.chains[d]) ELSE f.chains[d]
<1>1. /\ f.mostRecentlyUsed \in Chains /\ f.chains \in [1 .. m -> Chains]
      /\ DOMAIN f.chains = 1 .. m /\ \A d \in 1 .. m : f.chains[d] \in Chains
  BY DEF FocusChains
<1>2. w[c].wantsTabFocus \in BOOLEAN
  BY DEF Windows
<1>3. CASE ~w[c].wantsTabFocus
  BY <1>3, OthersSameEvery DEF moveAfterClient, Beside, StateSame, ListsSame
<1>4. CASE w[c].wantsTabFocus
  <2>1. g = [f EXCEPT !.chains = [d \in DOMAIN f.chains |-> InChainOf(d)],
                      !.mostRecentlyUsed = Moved(f.mostRecentlyUsed)]
    BY <1>4 DEF moveAfterClient
  <2>2. \A s \in Chains :
          /\ Moved(s) \in Chains
          /\ \A x : Contains(Moved(s), x) <=> Contains(s, x) \/ (x = c /\ Contains(s, r))
          /\ OthersOrder(Moved(s), s, c)
    BY MoveAfterEvery
  <2> HIDE DEF Moved
  <2>3. [d \in DOMAIN f.chains |-> InChainOf(d)] \in [1 .. m -> Chains]
    BY <1>1, <2>2
  <2>4. g \in FocusChains(m) /\ StateSame(g, f)
    BY <1>1, <2>1, <2>2, <2>3 DEF FocusChains, StateSame
  <2>5. /\ g.mostRecentlyUsed = Moved(f.mostRecentlyUsed)
        /\ \A d \in 1 .. m : g.chains[d] =
             IF isOnDesktop(w[c], d) THEN Moved(f.chains[d]) ELSE f.chains[d]
    BY <1>1, <2>1 DEF FocusChains
  <2> HIDE DEF g, InChainOf
  <2>6. /\ \A x : Listed(g, x) <=> Listed(f, x) \/ (x = c /\ Listed(f, r))
        /\ \A d \in 1 .. m : \A x :
             contains(g, x, d) <=>
               contains(f, x, d) \/ (x = c /\ contains(f, r, d) /\ isOnDesktop(w[c], d))
    BY <1>1, <2>2, <2>5 DEF Listed, contains
  <2>7. OthersInOrder(g, f, c, m)
    BY <1>1, <2>2, <2>5, OthersOrderEvery DEF OthersInOrder
  <2>8. Beside(g, f, w, c, r, m)
    BY <2>4, <2>6, <2>7 DEF Beside, OthersSame
  <2>9. QED
    BY <2>8 DEF g
<1>5. QED
  BY <1>2, <1>3, <1>4

LEMMA MoveEvery ==
  \A m \in Nat : \A f \in FocusChains(m) : \A w \in Windows : \A c \in Clients :
  \A r : Beside(moveAfterClient(f, w, c, r), f, w, c, r, m)
  BY MoveFacts

------------------------------------------------------------------------------
(* The invariant, for one window at a time, in states of the chains f and  *)
(* of the windows w that a step goes through: the first n of the chains    *)
(* are the ones that count.                                                *)

(* A window is listed only where it is, and not once it has gone.          *)
Sound(f, w, n, x) ==
  /\ \A d \in 1 .. n : contains(f, x, d) => Listed(f, x) /\ isOnDesktop(w[x], d)
  /\ Listed(f, x) => w[x].desk # 0

(* A window that takes the focus for ever is listed, on all desktops at    *)
(* least on the first one.                                                 *)
home(w, x) == IF w[x].desk = OnAllDesktops THEN 1 ELSE w[x].desk

AtHome(f, w, x) ==
  w[x].desk # 0 /\ x \notin Fickle => contains(f, x, home(w, x))

Fits(f, w, n, x) == Sound(f, w, n, x) /\ AtHome(f, w, x)

(* The active window is visible and, if it takes the focus for ever, is in *)
(* the chain.                                                              *)
ActiveOK(f, w, cur) ==
  f.activeClient # NoClient =>
    /\ isShown(w[f.activeClient]) /\ isOnDesktop(w[f.activeClient], cur)
    /\ f.activeClient \notin Fickle => contains(f, f.activeClient, cur)

FixedFocus(w) == \A x \in Clients \ Fickle : w[x].wantsTabFocus

WindowsOf(n) ==
  {w \in Windows : /\ \A x \in Clients : w[x].desk \in 1 .. n \cup {0, OnAllDesktops}
                   /\ FixedFocus(w)}

WindowsInv ==
  /\ win \in WindowsOf(count)
  /\ fc \in FocusChains(count) /\ fc.currentDesktop = current
  /\ \A x \in Clients : Fits(fc, win, count, x)
  /\ ActiveOK(fc, win, current)

IInv == DesktopsValid /\ WindowsInv

LEMMA UpdateFits ==
  ASSUME NEW m \in Nat \ {0}, NEW n \in 1 .. m, NEW f, NEW g,
         NEW w \in WindowsOf(n), NEW c \in Clients, w[c].desk # 0,
         Updated(g, f, w, c, m)
  PROVE  /\ Fits(g, w, n, c)
         /\ \A x \in Clients \ {c} : Fits(f, w, n, x) => Fits(g, w, n, x)
<1>1. /\ w \in Windows /\ FixedFocus(w) /\ w[c].wantsTabFocus \in BOOLEAN
      /\ \A x \in Clients : w[x].desk # 0 => home(w, x) \in 1 .. n
  BY DEF WindowsOf, Windows, home
<1>2. 1 .. n \subseteq 1 .. m
  OBVIOUS
<1>3. Sound(g, w, n, c)
  BY <1>1, <1>2 DEF Updated, Sound
<1>4. AtHome(g, w, c)
  <2>1. isOnDesktop(w[c], home(w, c))
    BY DEF isOnDesktop, home
  <2>2. QED
    BY <1>1, <1>2, <2>1 DEF Updated, AtHome, FixedFocus
<1>5. ASSUME NEW x \in Clients \ {c}, Fits(f, w, n, x) PROVE Fits(g, w, n, x)
  BY <1>1, <1>2, <1>5 DEF Updated, OthersSame, Fits, Sound, AtHome
<1>6. QED
  BY <1>3, <1>4, <1>5 DEF Fits

LEMMA UpdateActive ==
  ASSUME NEW m \in Nat \ {0}, NEW cur \in 1 .. m, NEW f, NEW g,
         NEW w \in Windows, FixedFocus(w), NEW c \in Clients, Updated(g, f, w, c, m),
         ActiveOK(f, w, cur) \/ (f.activeClient = c /\ isShown(w[c]) /\ isOnDesktop(w[c], cur))
  PROVE  ActiveOK(g, w, cur)
<1>1. CASE f.activeClient = c
  <2>1. c # NoClient
    BY FocusChainAssumption
  <2>2. QED
    BY <1>1, <2>1 DEF Updated, StateSame, ActiveOK, FixedFocus
<1>2. CASE f.activeClient # c
  BY <1>2 DEF Updated, StateSame, OthersSame, ActiveOK
<1>3. QED
  BY <1>1, <1>2

LEMMA UpdateKeeps ==
  \A m \in Nat \ {0} : \A n, cur \in 1 .. m : \A f \in FocusChains(m) :
  \A w \in WindowsOf(n) : \A c \in Clients : \A change :
    LET g == update(f, w, c, change)
    IN  /\ g \in FocusChains(m) /\ StateSame(g, f)
        /\ OthersSame(g, f, c, m)
        /\ w[c].desk # 0 =>
             /\ Fits(g, w, n, c)
             /\ \A x \in Clients \ {c} : Fits(f, w, n, x) => Fits(g, w, n, x)
        /\ ActiveOK(f, w, cur) \/ (f.activeClient = c /\ isShown(w[c]) /\ isOnDesktop(w[c], cur))
             => ActiveOK(g, w, cur)
<1> SUFFICES ASSUME NEW m \in Nat \ {0}, NEW n \in 1 .. m, NEW cur \in 1 .. m,
                    NEW f \in FocusChains(m), NEW w \in WindowsOf(n), NEW c \in Clients,
                    NEW change
             PROVE  LET g == update(f, w, c, change)
                    IN  /\ g \in FocusChains(m) /\ StateSame(g, f)
                        /\ OthersSame(g, f, c, m)
                        /\ w[c].desk # 0 =>
                             /\ Fits(g, w, n, c)
                             /\ \A x \in Clients \ {c} : Fits(f, w, n, x) => Fits(g, w, n, x)
                        /\ ActiveOK(f, w, cur)
                             \/ (f.activeClient = c /\ isShown(w[c]) /\ isOnDesktop(w[c], cur))
                             => ActiveOK(g, w, cur)
  OBVIOUS
<1> DEFINE g == update(f, w, c, change)
<1>1. w \in Windows /\ FixedFocus(w)
  BY DEF WindowsOf
<1>2. Updated(g, f, w, c, m)
  BY <1>1, UpdateEvery
<1> HIDE DEF g
<1>3. g \in FocusChains(m) /\ StateSame(g, f) /\ OthersSame(g, f, c, m)
  BY <1>2 DEF Updated
<1>4. w[c].desk # 0 => /\ Fits(g, w, n, c)
                       /\ \A x \in Clients \ {c} : Fits(f, w, n, x) => Fits(g, w, n, x)
  BY <1>2, UpdateFits
<1>5. ActiveOK(f, w, cur) \/ (f.activeClient = c /\ isShown(w[c]) /\ isOnDesktop(w[c], cur))
        => ActiveOK(g, w, cur)
  BY <1>1, <1>2, UpdateActive
<1>6. QED
  BY <1>3, <1>4, <1>5 DEF g

LEMMA ListsDecide ==
  ASSUME NEW f, NEW g, ListsSame(g, f)
  PROVE  /\ \A x : Listed(g, x) <=> Listed(f, x)
         /\ \A x, d : contains(g, x, d) <=> contains(f, x, d)
         /\ \A w, n, x : Fits(g, w, n, x) <=> Fits(f, w, n, x)
BY DEF ListsSame, Listed, contains, Fits, Sound, AtHome

LEMMA DeactivatedFacts ==
  ASSUME NEW m, NEW f \in FocusChains(m)
  PROVE  LET g == [f EXCEPT !.activeClient = NoClient]
         IN  /\ g \in FocusChains(m) /\ ListsSame(g, f) /\ g.activeClient = NoClient
             /\ g.currentDesktop = f.currentDesktop
BY DEF FocusChains, ListsSame

LEMMA HiddenKeeps ==
  \A m : \A f \in FocusChains(m) : \A c :
    LET g == clientHidden(f, c)
    IN  /\ g \in FocusChains(m) /\ ListsSame(g, f)
        /\ g.currentDesktop = f.currentDesktop
        /\ g.activeClient = IF c = f.activeClient THEN NoClient ELSE f.activeClient
  BY DeactivatedFacts DEF clientHidden, ListsSame

LEMMA SetDesktopKeeps ==
  \A m \in Nat \ {0} : \A n, cur \in 1 .. m : \A f \in FocusChains(m) :
  \A w \in WindowsOf(n) : \A c \in Clients : w[c].desk # 0 =>
    LET g == setDesktop(f, w, c, cur)
    IN  /\ g \in FocusChains(m) /\ g.currentDesktop = f.currentDesktop
        /\ g.activeClient \in {f.activeClient, NoClient}
        /\ OthersSame(g, f, c, m)
        /\ Fits(g, w, n, c)
        /\ \A x \in Clients \ {c} : Fits(f, w, n, x) => Fits(g, w, n, x)
        /\ ActiveOK(f, w, cur) \/ (f.activeClient = c /\ isShown(w[c])) => ActiveOK(g, w, cur)
<1> SUFFICES ASSUME NEW m \in Nat \ {0}, NEW n \in 1 .. m, NEW cur \in 1 .. m,
                    NEW f \in FocusChains(m), NEW w \in WindowsOf(n), NEW c \in Clients,
                    w[c].desk # 0
             PROVE  LET g == setDesktop(f, w, c, cur)
                    IN  /\ g \in FocusChains(m) /\ g.currentDesktop = f.currentDesktop
                        /\ g.activeClient \in {f.activeClient, NoClient}
                        /\ OthersSame(g, f, c, m)
                        /\ Fits(g, w, n, c)
                        /\ \A x \in Clients \ {c} : Fits(f, w, n, x) => Fits(g, w, n, x)
                        /\ ActiveOK(f, w, cur) \/ (f.activeClient = c /\ isShown(w[c]))
                             => ActiveOK(g, w, cur)
  OBVIOUS
<1> DEFINE u == update(f, w, c, "MakeFirst")
           g == setDesktop(f, w, c, cur)
<1>1. /\ u \in FocusChains(m) /\ StateSame(u, f) /\ OthersSame(u, f, c, m)
      /\ Fits(u, w, n, c)
      /\ \A x \in Clients \ {c} : Fits(f, w, n, x) => Fits(u, w, n, x)
      /\ ActiveOK(f, w, cur) \/ (f.activeClient = c /\ isShown(w[c]) /\ isOnDesktop(w[c], cur))
           => ActiveOK(u, w, cur)
  BY UpdateKeeps
<1>2. g = IF isOnDesktop(w[c], cur) THEN u ELSE clientHidden(u, c)
  BY DEF setDesktop
<1> HIDE DEF u, g
<1>3. CASE isOnDesktop(w[c], cur)
  BY <1>1, <1>2, <1>3 DEF g, StateSame
<1>4. CASE ~isOnDesktop(w[c], cur)
  <2>1. /\ g \in FocusChains(m) /\ ListsSame(g, u) /\ g.currentDesktop = u.currentDesktop
        /\ g.activeClient = IF c = u.activeClient THEN NoClient ELSE u.activeClient
    BY <1>1, <1>2, <1>4, HiddenKeeps
  <2>2. /\ \A x : Listed(g, x) <=> Listed(u, x)
        /\ \A x, d : contains(g, x, d) <=> contains(u, x, d)
        /\ \A x : Fits(g, w, n, x) <=> Fits(u, w, n, x)
    BY <2>1, ListsDecide
  <2>3. OthersSame(g, f, c, m)
    BY <1>1, <2>1, OthersSameEvery
  <2>4. ASSUME ActiveOK(f, w, cur) \/ (f.activeClient = c /\ isShown(w[c]))
        PROVE  ActiveOK(g, w, cur)
    BY <1>1, <2>1, <2>2, <2>4 DEF ActiveOK, StateSame
  <2>5. QED
    BY <1>1, <2>1, <2>2, <2>3, <2>4 DEF g, StateSame
<1>5. QED
  BY <1>3, <1>4

(* A restack names no window where it is not.                              *)
LEMMA RestackFacts ==
  ASSUME NEW m \in Nat \ {0}, NEW n \in 1 .. m, NEW cur \in 1 .. m,
         NEW f \in FocusChains(m), NEW w \in WindowsOf(n), NEW c \in Clients,
         w[c].desk # 0, \A x \in Clients : Sound(f, w, n, x),
         NEW under \in Clients, NEW g \in restack(f, w, c, under)
  PROVE  /\ g \in FocusChains(m) /\ StateSame(g, f) /\ OthersSame(g, f, c, m)
         /\ \A x \in Clients : Sound(g, w, n, x)
         /\ \A x \in Clients : AtHome(f, w, x) => AtHome(g, w, x)
         /\ ActiveOK(f, w, cur) => ActiveOK(g, w, cur)
<1>1. PICK r \in Clients : g = moveAfterClient(f, w, c, r)
  BY DEF restack, managed
<1>2. w \in Windows /\ \A x \in Clients : w[x].desk # 0 => home(w, x) \in 1 .. n
  BY DEF WindowsOf, home
<1>3. Beside(g, f, w, c, r, m) /\ 1 .. n \subseteq 1 .. m
  BY <1>1, <1>2, MoveEvery
<1>4. g \in FocusChains(m) /\ StateSame(g, f) /\ OthersSame(g, f, c, m)
  BY <1>3 DEF Beside
<1>5. Sound(g, w, n, c)
  <2>1. Sound(f, w, n, c) /\ Sound(f, w, n, r)
    OBVIOUS
  <2>2. QED
    BY <1>3, <2>1 DEF Beside, Sound
<1>6. ASSUME NEW x \in Clients, x # c PROVE Sound(g, w, n, x)
  <2>1. Sound(f, w, n, x)
    OBVIOUS
  <2>2. QED
    BY <1>3, <1>4, <1>6, <2>1 DEF OthersSame, Sound
<1>7. ASSUME NEW x \in Clients, AtHome(f, w, x) PROVE AtHome(g, w, x)
  <2>1. CASE x = c
    BY <1>2, <1>3, <1>7, <2>1 DEF AtHome, Beside
  <2>2. CASE x # c
    BY <1>2, <1>3, <1>7, <2>2 DEF AtHome, Beside, OthersSame
  <2>3. QED
    BY <2>1, <2>2
<1>8. ActiveOK(f, w, cur) => ActiveOK(g, w, cur)
  <2>1. CASE f.activeClient = c
    BY <1>3, <1>4, <2>1 DEF ActiveOK, Beside, StateSame
  <2>2. CASE f.activeClient # c
    BY <1>4, <2>2 DEF ActiveOK, OthersSame, StateSame
  <2>3. QED
    BY <2>1, <2>2
<1>9. QED
  BY <1>4, <1>5, <1>6, <1>7, <1>8

LEMMA RestackKeeps ==
  \A m \in Nat \ {0} : \A n, cur \in 1 .. m : \A f \in FocusChains(m) :
  \A w \in WindowsOf(n) : \A c, under \in Clients :
    w[c].desk # 0 /\ (\A x \in Clients : Sound(f, w, n, x)) =>
    \A g \in restack(f, w, c, under) :
      /\ g \in FocusChains(m) /\ StateSame(g, f) /\ OthersSame(g, f, c, m)
      /\ \A x \in Clients : Sound(g, w, n, x)
      /\ \A x \in Clients : AtHome(f, w, x) => AtHome(g, w, x)
      /\ ActiveOK(f, w, cur) => ActiveOK(g, w, cur)
  BY RestackFacts

LEMMA StackedFacts ==
  ASSUME NEW m \in Nat \ {0}, NEW n \in 1 .. m, NEW cur \in 1 .. m,
         NEW f \in FocusChains(m), NEW w \in WindowsOf(n), NEW c \in Clients,
         w[c].desk # 0, \A x \in Clients : Sound(f, w, n, x),
         NEW g \in StackedUnderActive(f, w, c)
  PROVE  /\ g \in FocusChains(m) /\ StateSame(g, f) /\ OthersSame(g, f, c, m)
         /\ \A x \in Clients : Sound(g, w, n, x)
         /\ \A x \in Clients : AtHome(f, w, x) => AtHome(g, w, x)
         /\ ActiveOK(f, w, cur) => ActiveOK(g, w, cur)
<1>1. CASE g = f
  BY <1>1, OthersSameEvery DEF StateSame, ListsSame
<1>2. CASE g # f
  <2>1. f.activeClient \in Clients /\ g \in restack(f, w, c, f.activeClient)
    BY <1>2 DEF StackedUnderActive, FocusChains
  <2>2. QED
    BY <2>1, RestackKeeps
<1>3. QED
  BY <1>1, <1>2

LEMMA StackedKeeps ==
  \A m \in Nat \ {0} : \A n, cur \in 1 .. m : \A f \in FocusChains(m) :
  \A w \in WindowsOf(n) : \A c \in Clients :
    w[c].desk # 0 /\ (\A x \in Clients : Sound(f, w, n, x)) =>
    \A g \in StackedUnderActive(f, w, c) :
      /\ g \in FocusChains(m) /\ StateSame(g, f) /\ OthersSame(g, f, c, m)
      /\ \A x \in Clients : Sound(g, w, n, x)
      /\ \A x \in Clients : AtHome(f, w, x) => AtHome(g, w, x)
      /\ ActiveOK(f, w, cur) => ActiveOK(g, w, cur)
  BY StackedFacts

(* What is activated on a desktop is in its chain, and visible.            *)
LEMMA ActivationFacts ==
  ASSUME NEW m, NEW f \in FocusChains(m), NEW w, NEW d \in 1 .. m,
         getForActivation(f, w, d) # NoClient
  PROVE  /\ contains(f, getForActivation(f, w, d), d)
         /\ isShown(w[getForActivation(f, w, d)])
<1> DEFINE chain == f.chains[d]
           I == {j \in 1 .. Len(chain) : isShown(w[chain[j]])}
           i == SelectLastInSeq(chain, LAMBDA x : isShown(w[x]))
<1>1. chain \in Chains
  BY DEF FocusChains
<1>2. Len(chain) \in Nat
  BY <1>1 DEF Chains
<1>3. getForActivation(f, w, d) = IF i = 0 THEN NoClient ELSE chain[i]
  BY DEF getForActivation
<1>4. i = IF I # {} THEN Max(I) ELSE 0
  BY DEF SelectLastInSeq
<1> HIDE DEF i
<1>5. i # 0
  BY <1>3
<1>6. I # {} /\ I \in SUBSET (1 .. Len(chain)) /\ i = Max(I)
  BY <1>4, <1>5
<1>7. i \in I
  <2> HIDE DEF I
  <2>1. Max(I) \in I
    BY <1>2, <1>6, LastOfSome
  <2>2. QED
    BY <1>6, <2>1
<1>8. i \in 1 .. Len(chain) /\ isShown(w[chain[i]])
  BY <1>7
<1>9. QED
  BY <1>3, <1>5, <1>8 DEF contains, Contains

LEMMA MovedAlong ==
  ASSUME NEW n \in Nat \ {0}, NEW w \in WindowsOf(n), NEW d \in 1 .. n,
         NEW moving \in Clients \cup {NoClient}, moving # NoClient => isShown(w[moving])
  PROVE  LET w2 == WinsOnSwitch(w, d, moving)
         IN  /\ w2 \in WindowsOf(n)
             /\ \A x \in Clients \ {moving} : w2[x] = w[x]
             /\ moving # NoClient => isShown(w2[moving]) /\ isOnDesktop(w2[moving], d)
             /\ w2 # w => moving # NoClient /\ w2[moving].desk # w[moving].desk
<1> USE FocusChainAssumption
<1>1. /\ w \in Windows /\ FixedFocus(w)
      /\ \A x \in Clients : w[x].desk \in 1 .. n \cup {0, OnAllDesktops}
  BY DEF WindowsOf
<1>2. CASE moving # NoClient /\ ~isOnDesktop(w[moving], d)
  <2> DEFINE w2 == [w EXCEPT ![moving].desk = d]
  <2>1. WinsOnSwitch(w, d, moving) = w2 /\ moving \in Clients
    BY <1>2 DEF WinsOnSwitch
  <2>2. /\ w2 \in Windows
        /\ \A x \in Clients \ {moving} : w2[x] = w[x]
        /\ w2[moving].desk = d /\ w2[moving].minimized = w[moving].minimized
        /\ w2[moving].wantsTabFocus = w[moving].wantsTabFocus
    BY <1>1, <2>1 DEF Windows
  <2> HIDE DEF w2
  <2>3. w2 \in WindowsOf(n)
    BY <1>1, <2>1, <2>2 DEF WindowsOf, FixedFocus
  <2>4. isShown(w2[moving]) /\ isOnDesktop(w2[moving], d)
    BY <1>2, <2>2 DEF isShown, isOnDesktop
  <2>5. QED
    BY <1>2, <2>1, <2>2, <2>3, <2>4 DEF isOnDesktop
<1>3. CASE ~(moving # NoClient /\ ~isOnDesktop(w[moving], d))
  BY <1>3 DEF WinsOnSwitch
<1>4. QED
  BY <1>2, <1>3

(* A switch of the desktop, with the window that is taken along.           *)
LEMMA SwitchFacts ==
  ASSUME NEW n \in Nat \ {0}, NEW f \in FocusChains(n), NEW w \in WindowsOf(n),
         NEW d \in 1 .. n, NEW moving \in Clients \cup {NoClient},
         moving # NoClient => isShown(w[moving]),
         f.activeClient # NoClient => Fits(f, w, n, f.activeClient)
  PROVE  LET w2 == WinsOnSwitch(w, d, moving)
             g  == ChainsOnSwitch(f, w, d, moving)
         IN  /\ g \in FocusChains(n) /\ g.currentDesktop = d
             /\ g.activeClient \in {f.activeClient, NoClient}
             /\ OthersSame(g, f, moving, n) /\ (w2 = w => ListsSame(g, f))
             /\ \A x \in Clients : Fits(f, w, n, x) => Fits(g, w2, n, x)
             /\ ActiveOK(g, w2, d)
<1> USE FocusChainAssumption
<1> DEFINE a == f.activeClient
           there == [f EXCEPT !.currentDesktop = d]
           hidden == IF a \notin {NoClient, moving} /\ ~isOnDesktop(w[a], d)
                     THEN clientHidden(there, a) ELSE there
           w2 == WinsOnSwitch(w, d, moving)
           moved == IF w2 # w THEN setDesktop(hidden, w2, moving, d) ELSE hidden
           c == IF moving # NoClient /\ StaysActive(moved, moving, d) THEN moving
                ELSE getForActivation(moved, w2, d)
           g == ChainsOnSwitch(f, w, d, moving)
<1>1. g = IF c = moved.activeClient THEN moved ELSE [moved EXCEPT !.activeClient = NoClient]
  BY DEF ChainsOnSwitch
<1>2. /\ there \in FocusChains(n) /\ ListsSame(there, f) /\ there.currentDesktop = d
      /\ there.activeClient = a
  BY DEF FocusChains, ListsSame
<1> HIDE DEF there
<1>3. /\ hidden \in FocusChains(n) /\ ListsSame(hidden, f) /\ hidden.currentDesktop = d
      /\ hidden.activeClient \in {a, NoClient}
  BY <1>2, HiddenKeeps DEF ListsSame
<1>4. /\ w2 \in WindowsOf(n)
      /\ \A x \in Clients \ {moving} : w2[x] = w[x]
      /\ moving # NoClient => isShown(w2[moving]) /\ isOnDesktop(w2[moving], d)
      /\ w2 # w => moving # NoClient
  BY MovedAlong
<1> HIDE DEF hidden, a, w2
<1>5. /\ moved \in FocusChains(n) /\ moved.currentDesktop = d
      /\ moved.activeClient \in {a, NoClient}
      /\ OthersSame(moved, f, moving, n) /\ (w2 = w => ListsSame(moved, f))
      /\ \A x \in Clients : Fits(f, w, n, x) => Fits(moved, w2, n, x)
      /\ w2 # w => Fits(moved, w2, n, moving)
  <2>1. /\ \A x : Listed(hidden, x) <=> Listed(f, x)
        /\ \A x, e : contains(hidden, x, e) <=> contains(f, x, e)
        /\ \A x : Fits(hidden, w, n, x) <=> Fits(f, w, n, x)
    BY <1>3, ListsDecide
  <2>2. CASE w2 = w
    BY <1>3, <2>1, <2>2, OthersSameEvery
  <2>3. CASE w2 # w
    <3>1. moving \in Clients /\ w2[moving].desk # 0
      BY <1>4, <2>3 DEF isShown
    <3>2. moved = setDesktop(hidden, w2, moving, d)
      BY <2>3
    <3>3. /\ moved \in FocusChains(n) /\ moved.currentDesktop = hidden.currentDesktop
          /\ moved.activeClient \in {hidden.activeClient, NoClient}
          /\ OthersSame(moved, hidden, moving, n)
          /\ Fits(moved, w2, n, moving)
          /\ \A x \in Clients \ {moving} : Fits(hidden, w2, n, x) => Fits(moved, w2, n, x)
      BY <1>3, <1>4, <3>1, <3>2, SetDesktopKeeps
    <3>4. OthersSame(moved, f, moving, n)
      BY <1>3, <3>3, OthersSameEvery
    <3>5. \A x \in Clients \ {moving} : Fits(f, w, n, x) => Fits(hidden, w2, n, x)
      BY <1>4, <2>1 DEF Fits, Sound, AtHome, home
    <3>6. QED
      BY <1>3, <2>3, <3>3, <3>4, <3>5
  <2>4. QED
    BY <2>2, <2>3
<1> HIDE DEF moved
<1>6. /\ g \in FocusChains(n) /\ ListsSame(g, moved) /\ g.currentDesktop = d
      /\ g.activeClient = IF c = moved.activeClient THEN moved.activeClient ELSE NoClient
  <2>1. CASE c = moved.activeClient
    BY <1>1, <1>5, <2>1 DEF ListsSame
  <2>2. CASE c # moved.activeClient
    BY <1>1, <1>5, <2>2, DeactivatedFacts
  <2>3. QED
    BY <2>1, <2>2
<1>7. ActiveOK(g, w2, d)
  <2> SUFFICES ASSUME g.activeClient # NoClient PROVE ActiveOK(g, w2, d)
    BY DEF ActiveOK
  <2>1. /\ c = g.activeClient /\ c = moved.activeClient /\ c = a /\ c # NoClient
    BY <1>5, <1>6
  <2>2. Fits(moved, w2, n, c)
    BY <1>5, <2>1 DEF a, FocusChains
  <2>3. contains(moved, c, d) /\ isShown(w2[c])
    <3>1. CASE moving # NoClient /\ StaysActive(moved, moving, d)
      BY <1>4, <3>1 DEF StaysActive
    <3>2. CASE ~(moving # NoClient /\ StaysActive(moved, moving, d))
      <4>1. c = getForActivation(moved, w2, d)
        BY <3>2
      <4> HIDE DEF c
      <4>2. QED
        BY <1>5, <2>1, <4>1, ActivationFacts
    <3>3. QED
      BY <3>1, <3>2
  <2>4. isOnDesktop(w2[c], d)
    BY <2>2, <2>3 DEF Fits, Sound
  <2>5. contains(g, c, d)
    BY <1>6, <2>3, ListsDecide
  <2> HIDE DEF c, g
  <2>6. QED
    BY <2>1, <2>3, <2>4, <2>5 DEF ActiveOK
<1>8. /\ \A x : Listed(g, x) <=> Listed(moved, x)
      /\ \A x, e : contains(g, x, e) <=> contains(moved, x, e)
      /\ \A x : Fits(g, w2, n, x) <=> Fits(moved, w2, n, x)
  BY <1>6, ListsDecide
<1> HIDE DEF g, c
<1>9. OthersSame(g, f, moving, n) /\ (w2 = w => ListsSame(g, f))
  <2>1. OthersSame(g, f, moving, n)
    BY <1>5, <1>6, OthersSameEvery
  <2>2. w2 = w => ListsSame(g, f)
    BY <1>5, <1>6 DEF ListsSame
  <2>3. QED
    BY <2>1, <2>2
<1>10. g.activeClient \in {a, NoClient}
  BY <1>5, <1>6
<1>11. \A x \in Clients : Fits(f, w, n, x) => Fits(g, w2, n, x)
  BY <1>5, <1>8
<1>12. QED
  BY <1>6, <1>7, <1>9, <1>10, <1>11 DEF g, w2, a

------------------------------------------------------------------------------
(* The steps *)

(* Another state for one window.                                           *)
With(w, c, cl) == [w EXCEPT ![c] = cl]

LEMMA WindowChanges ==
  \A n \in Nat : \A w \in WindowsOf(n) : \A c \in Clients : \A cl \in ClientStates(1 .. n) :
    (c \notin Fickle => cl.wantsTabFocus) =>
    /\ With(w, c, cl) \in WindowsOf(n) /\ With(w, c, cl)[c] = cl
    /\ \A x \in Clients \ {c} : With(w, c, cl)[x] = w[x]
  BY DEF With, WindowsOf, Windows, ClientStates, FixedFocus, OnAllDesktops

(* What one window has to do with the others.                              *)
LEMMA OthersFit ==
  ASSUME NEW f, NEW w, NEW v, NEW n, NEW x, v[x] = w[x]
  PROVE  /\ Sound(f, v, n, x) <=> Sound(f, w, n, x)
         /\ AtHome(f, v, x) <=> AtHome(f, w, x)
         /\ Fits(f, v, n, x) <=> Fits(f, w, n, x)
BY DEF Sound, AtHome, Fits, home

LEMMA OthersActive ==
  ASSUME NEW f, NEW w, NEW v, NEW cur,
         f.activeClient # NoClient => v[f.activeClient] = w[f.activeClient]
  PROVE  ActiveOK(f, w, cur) <=> ActiveOK(f, v, cur)
BY DEF ActiveOK

LEMMA WindowType ==
  ASSUME NEW n \in Nat, NEW w \in WindowsOf(n), NEW c \in Clients
  PROVE  /\ w[c] \in ClientStates(1 .. n)
         /\ c \notin Fickle => w[c].wantsTabFocus
BY DEF WindowsOf, Windows, ClientStates, FixedFocus, OnAllDesktops

LEMMA WindowsInvFacts ==
  ASSUME IInv
  PROVE  /\ count \in Nat \ {0} /\ current \in 1 .. count
         /\ win \in WindowsOf(count)
         /\ fc \in FocusChains(count) /\ fc.currentDesktop = current
         /\ fc.activeClient # NoClient => fc.activeClient \in managed
         /\ \A x \in Clients : Sound(fc, win, count, x) /\ Fits(fc, win, count, x)
         /\ ActiveOK(fc, win, current)
  BY DesktopsRange DEF IInv, WindowsInv, Fits, ActiveOK, managed, isShown, FocusChains

(* Only c changes its place, or besides it windows that change desktops.   *)
OneMoves(c) ==
  \E M : /\ OrderKept(fc', fc, M, SmallerOf(count, count'))
         /\ \A z \in Clients : z \in M /\ z # c => win'[z].desk # win[z].desk

LEMMA OneMovesIf ==
  ASSUME NEW c, count \in Nat, count' = count, OthersSame(fc', fc, c, count)
  PROVE  OneMoves(c)
<1>1. SmallerOf(count, count') = count
  BY DEF SmallerOf
<1>2. OrderKept(fc', fc, {c}, count)
  BY OrderKeptEvery
<1>3. QED
  BY <1>1, <1>2 DEF OneMoves

LEMMA ManageKeeps ==
  ASSUME IInv, NEW c \in Clients, Manage(c)
  PROVE  WindowsInv' /\ OneMoves(c)
<1>1. PICK cl \in ManagedStates(c) :
       /\ win' = [win EXCEPT ![c] = cl]
       /\ LET early == IF cl.minimized THEN update(fc, win', c, "MakeFirst") ELSE fc
          IN  \E f \in IF isOnDesktop(cl, current) /\ ~cl.minimized
                       THEN StackedUnderActive(early, win', c) ELSE {early} :
                fc' = update(f, win', c, "Update")
  BY DEF Manage
<1> DEFINE early == IF cl.minimized THEN update(fc, win', c, "MakeFirst") ELSE fc
<1>2. PICK f \in IF isOnDesktop(cl, current) /\ ~cl.minimized
                THEN StackedUnderActive(early, win', c) ELSE {early} :
          fc' = update(f, win', c, "Update")
  BY <1>1
<1>3. /\ cl \in ClientStates(1 .. count) /\ cl.desk # 0
      /\ c \notin Fickle => cl.wantsTabFocus
      /\ UNCHANGED <<count, current>> /\ win[c].desk = 0
  BY <1>1 DEF ManagedStates, Manage, managed, desktopVars
<1>4. /\ count \in Nat \ {0} /\ current \in 1 .. count /\ count \in 1 .. count
      /\ win \in WindowsOf(count) /\ fc \in FocusChains(count)
      /\ fc.currentDesktop = current
      /\ fc.activeClient # NoClient => fc.activeClient \in managed
      /\ \A x \in Clients : Sound(fc, win, count, x) /\ Fits(fc, win, count, x)
      /\ ActiveOK(fc, win, current)
  BY WindowsInvFacts
<1>5. /\ win' \in WindowsOf(count) /\ win'[c] = cl
      /\ \A x \in Clients \ {c} : win'[x] = win[x]
  <2>1. win' = With(win, c, cl)
    BY <1>1 DEF With
  <2>2. QED
    BY <1>3, <1>4, <2>1, WindowChanges
<1>6. /\ \A x \in Clients \ {c} : Fits(fc, win', count, x)
      /\ Sound(fc, win', count, c)
      /\ ActiveOK(fc, win', current)
  <2>1. \A x \in Clients \ {c} : Fits(fc, win', count, x)
    BY <1>4, <1>5, OthersFit
  <2>2. Sound(fc, win', count, c)
    BY <1>3, <1>4 DEF Sound
  <2>3. ActiveOK(fc, win', current)
    BY <1>3, <1>4, <1>5, OthersActive DEF managed
  <2>4. QED
    BY <2>1, <2>2, <2>3
<1> HIDE DEF early
<1>7. /\ early \in FocusChains(count) /\ early.currentDesktop = current
      /\ \A x \in Clients \ {c} : Fits(early, win', count, x)
      /\ Sound(early, win', count, c)
      /\ ActiveOK(early, win', current) /\ OthersSame(early, fc, c, count)
  <2>1. CASE cl.minimized
    <3>1. early = update(fc, win', c, "MakeFirst")
      BY <2>1 DEF early
    <3>2. /\ early \in FocusChains(count) /\ StateSame(early, fc)
          /\ OthersSame(early, fc, c, count)
          /\ Fits(early, win', count, c)
          /\ \A x \in Clients \ {c} : Fits(fc, win', count, x) => Fits(early, win', count, x)
          /\ ActiveOK(early, win', current)
      BY <1>3, <1>4, <1>5, <1>6, <3>1, UpdateKeeps
    <3>3. QED
      BY <1>4, <1>6, <3>2 DEF StateSame, Fits
  <2>2. CASE ~cl.minimized
    BY <1>4, <1>6, <2>2, OthersSameEvery DEF early, ListsSame
  <2>3. QED
    BY <2>1, <2>2
<1>8. /\ f \in FocusChains(count) /\ f.currentDesktop = current
      /\ \A x \in Clients \ {c} : Fits(f, win', count, x)
      /\ ActiveOK(f, win', current) /\ OthersSame(f, fc, c, count)
  <2>1. CASE f = early
    BY <1>7, <2>1
  <2>2. CASE f \in StackedUnderActive(early, win', c)
    <3>1. \A x \in Clients : Sound(early, win', count, x)
      BY <1>7 DEF Fits
    <3>2. /\ f \in FocusChains(count) /\ StateSame(f, early)
          /\ OthersSame(f, early, c, count)
          /\ \A x \in Clients : Sound(f, win', count, x)
          /\ \A x \in Clients : AtHome(early, win', x) => AtHome(f, win', x)
          /\ ActiveOK(early, win', current) => ActiveOK(f, win', current)
      BY <1>3, <1>4, <1>5, <1>7, <2>2, <3>1, StackedKeeps
    <3>3. QED
      BY <1>7, <3>2, OthersSameEvery DEF StateSame, Fits
  <2>3. QED
    BY <1>2, <2>1, <2>2
<1>9. /\ fc' \in FocusChains(count) /\ StateSame(fc', f) /\ OthersSame(fc', f, c, count)
      /\ Fits(fc', win', count, c)
      /\ \A x \in Clients \ {c} : Fits(f, win', count, x) => Fits(fc', win', count, x)
      /\ ActiveOK(fc', win', current)
  BY <1>2, <1>3, <1>4, <1>5, <1>8, UpdateKeeps
<1>10. OneMoves(c)
  <2>1. OthersSame(fc', fc, c, count)
    BY <1>8, <1>9, OthersSameEvery
  <2>2. QED
    BY <1>3, <1>4, <2>1, OneMovesIf
<1>11. QED
  BY <1>3, <1>5, <1>8, <1>9, <1>10 DEF WindowsInv, StateSame

LEMMA ReleaseKeeps ==
  ASSUME IInv, NEW c \in Clients, Release(c)
  PROVE  WindowsInv' /\ OneMoves(c)
<1> DEFINE h == clientHidden(fc, c)
<1>1. /\ count \in Nat \ {0} /\ win \in WindowsOf(count) /\ fc \in FocusChains(count)
      /\ current \in 1 .. count /\ fc.currentDesktop = current
      /\ \A x \in Clients : Sound(fc, win, count, x) /\ Fits(fc, win, count, x)
      /\ ActiveOK(fc, win, current)
  BY WindowsInvFacts
<1>2. win' = With(win, c, Unmanaged) /\ fc' = remove(h, c) /\ UNCHANGED <<count, current>>
  BY DEF Release, With, desktopVars
<1>3. /\ win' \in WindowsOf(count) /\ win'[c] = Unmanaged
      /\ \A x \in Clients \ {c} : win'[x] = win[x]
  <2>1. Unmanaged \in ClientStates(1 .. count) /\ Unmanaged.wantsTabFocus
    BY DEF Unmanaged, ClientStates
  <2>2. QED
    BY <1>1, <1>2, <2>1, WindowChanges
<1>4. /\ h \in FocusChains(count) /\ ListsSame(h, fc) /\ h.currentDesktop = current
      /\ h.activeClient = IF c = fc.activeClient THEN NoClient ELSE fc.activeClient
  BY <1>1, HiddenKeeps
<1> HIDE DEF h
<1>5. /\ fc' \in FocusChains(count) /\ StateSame(fc', h) /\ OthersSame(fc', h, c, count)
      /\ ~Listed(fc', c) /\ \A d \in 1 .. count : ~contains(fc', c, d)
  BY <1>1, <1>2, <1>4, RemovedFacts
<1>6. /\ \A x : Listed(h, x) <=> Listed(fc, x)
      /\ \A x, d : contains(h, x, d) <=> contains(fc, x, d)
  BY <1>4, ListsDecide
<1>7. Fits(fc', win', count, c)
  BY <1>3, <1>5 DEF Fits, Sound, AtHome, Unmanaged
<1>8. ASSUME NEW x \in Clients \ {c} PROVE Fits(fc', win', count, x)
  <2>1. Fits(fc, win', count, x)
    BY <1>1, <1>3, OthersFit
  <2>2. win'[x].desk # 0 => home(win', x) \in 1 .. count
    BY <1>1, <1>3 DEF home, WindowsOf
  <2>3. QED
    BY <1>5, <1>6, <2>1, <2>2 DEF OthersSame, Fits, Sound, AtHome
<1>9. ActiveOK(fc', win', current)
  <2> SUFFICES ASSUME fc'.activeClient # NoClient PROVE ActiveOK(fc', win', current)
    BY DEF ActiveOK
  <2>1. fc'.activeClient = fc.activeClient /\ fc.activeClient # c
    BY <1>4, <1>5 DEF StateSame
  <2>2. fc.activeClient \in Clients
    BY <1>1, <2>1 DEF FocusChains
  <2>3. win'[fc.activeClient] = win[fc.activeClient]
    BY <1>3, <2>1, <2>2
  <2>4. QED
    BY <1>1, <1>5, <1>6, <2>1, <2>3 DEF ActiveOK, OthersSame
<1>10. OneMoves(c)
  <2>1. OthersSame(fc', fc, c, count)
    BY <1>4, <1>5, OthersSameEvery
  <2>2. QED
    BY <1>1, <1>2, <2>1, OneMovesIf
<1>11. QED
  BY <1>2, <1>3, <1>4, <1>5, <1>7, <1>8, <1>9, <1>10 DEF WindowsInv, StateSame

LEMMA FocusInKeeps ==
  ASSUME IInv, NEW c \in Clients, FocusIn(c)
  PROVE  WindowsInv' /\ OneMoves(c)
<1> DEFINE left == [fc EXCEPT !.activeClient = NoClient]
           u == update(left, win, c, "MakeFirst")
<1>1. /\ count \in Nat \ {0} /\ win \in WindowsOf(count) /\ fc \in FocusChains(count)
      /\ current \in 1 .. count /\ fc.currentDesktop = current /\ count \in 1 .. count
      /\ \A x \in Clients : Fits(fc, win, count, x)
  BY WindowsInvFacts
<1>2. /\ isShown(win[c]) /\ isOnDesktop(win[c], current) /\ win[c].desk # 0
      /\ fc' = [u EXCEPT !.activeClient = c]
      /\ UNCHANGED <<win, count, current>>
  BY DEF FocusIn, setActiveClient, active, managed, desktopVars
<1>3. /\ left \in FocusChains(count) /\ ListsSame(left, fc)
      /\ left.currentDesktop = current
  BY <1>1, DeactivatedFacts
<1> HIDE DEF left
<1>4. /\ u \in FocusChains(count) /\ StateSame(u, left) /\ OthersSame(u, left, c, count)
      /\ Fits(u, win, count, c)
      /\ \A x \in Clients \ {c} : Fits(left, win, count, x) => Fits(u, win, count, x)
  BY <1>1, <1>2, <1>3, UpdateKeeps
<1>5. c \notin Fickle => contains(u, c, current)
  <2>1. Updated(u, left, win, c, count) /\ FixedFocus(win)
    BY <1>1, <1>3, UpdateEvery DEF WindowsOf
  <2>2. QED
    BY <1>1, <1>2, <2>1 DEF Updated, FixedFocus
<1>6. \A x \in Clients : Fits(u, win, count, x)
  BY <1>1, <1>3, <1>4, ListsDecide
<1> HIDE DEF u
<1>7. /\ fc' \in FocusChains(count) /\ ListsSame(fc', u)
      /\ fc'.activeClient = c /\ fc'.currentDesktop = current
  BY <1>2, <1>3, <1>4 DEF FocusChains, ListsSame, StateSame
<1>8. \A x \in Clients : Fits(fc', win, count, x)
  BY <1>6, <1>7, ListsDecide
<1>9. c \notin Fickle => contains(fc', c, current)
  BY <1>5, <1>7, ListsDecide
<1>10. ActiveOK(fc', win, current)
  BY <1>2, <1>7, <1>9 DEF ActiveOK
<1>11. OneMoves(c)
  <2>1. OthersSame(fc', u, c, count) /\ OthersSame(left, fc, c, count)
    BY <1>3, <1>7, OthersSameEvery
  <2>2. OthersSame(fc', fc, c, count)
    BY <1>4, <2>1, OthersSameEvery
  <2>3. QED
    BY <1>1, <1>2, <2>2, OneMovesIf
<1>12. QED
  BY <1>1, <1>2, <1>7, <1>8, <1>10, <1>11 DEF WindowsInv

LEMMA FocusOutKeeps ==
  ASSUME IInv, FocusOut
  PROVE  WindowsInv' /\ \E c \in Clients \cup {NoClient} : OneMoves(c)
<1>1. /\ win \in WindowsOf(count) /\ fc \in FocusChains(count)
      /\ fc.currentDesktop = current
      /\ \A x \in Clients : Fits(fc, win, count, x)
  BY WindowsInvFacts
<1>2. fc' = clientHidden(fc, fc.activeClient) /\ UNCHANGED <<win, count, current>>
  BY DEF FocusOut, active, desktopVars
<1>3. /\ fc' \in FocusChains(count) /\ ListsSame(fc', fc)
      /\ fc'.currentDesktop = current /\ fc'.activeClient = NoClient
  BY <1>1, <1>2, HiddenKeeps
<1>4. \A x \in Clients : Fits(fc', win, count, x)
  BY <1>1, <1>3, ListsDecide
<1>5. OneMoves(NoClient)
  <2>1. OthersSame(fc', fc, NoClient, count) /\ count \in Nat
    BY <1>3, OthersSameEvery, WindowsInvFacts
  <2>2. QED
    BY <1>2, <2>1, OneMovesIf
<1>6. QED
  BY <1>1, <1>2, <1>3, <1>4, <1>5 DEF WindowsInv, ActiveOK

LEMMA MinimizeKeeps ==
  ASSUME IInv, NEW c \in Clients, Minimize(c)
  PROVE  WindowsInv' /\ OneMoves(c)
<1> DEFINE cl == [win[c] EXCEPT !.minimized = TRUE]
           h == clientHidden(fc, c)
<1>1. /\ count \in Nat \ {0} /\ win \in WindowsOf(count) /\ fc \in FocusChains(count)
      /\ current \in 1 .. count /\ fc.currentDesktop = current /\ count \in 1 .. count
      /\ \A x \in Clients : Fits(fc, win, count, x)
      /\ ActiveOK(fc, win, current)
  BY WindowsInvFacts
<1>2. /\ win' = With(win, c, cl) /\ fc' = update(h, win', c, "MakeFirst")
      /\ win[c].desk # 0 /\ UNCHANGED <<count, current>>
  BY <1>1 DEF Minimize, With, managed, desktopVars, WindowsOf, Windows
<1>n. count \in Nat
  BY <1>1
<1>3. /\ cl \in ClientStates(1 .. count) /\ cl.desk = win[c].desk
      /\ c \notin Fickle => cl.wantsTabFocus
  <2>1. win[c] \in ClientStates(1 .. count) /\ (c \notin Fickle => win[c].wantsTabFocus)
    BY <1>1, <1>n, WindowType
  <2>2. QED
    BY <2>1 DEF ClientStates
<1> HIDE DEF cl
<1>4. /\ win' \in WindowsOf(count) /\ win'[c] = cl
      /\ \A x \in Clients \ {c} : win'[x] = win[x]
  BY <1>1, <1>n, <1>2, <1>3, WindowChanges
<1>5. /\ h \in FocusChains(count) /\ ListsSame(h, fc) /\ h.currentDesktop = current
      /\ h.activeClient = IF c = fc.activeClient THEN NoClient ELSE fc.activeClient
  BY <1>1, HiddenKeeps
<1> HIDE DEF h
<1>6. \A x \in Clients \ {c} : Fits(h, win', count, x)
  BY <1>1, <1>4, <1>5, OthersFit, ListsDecide
<1>7. ActiveOK(h, win', current)
  <2>1. h.activeClient # NoClient => h.activeClient \in Clients \ {c}
    BY <1>5 DEF FocusChains
  <2>2. ActiveOK(h, win, current)
    BY <1>1, <1>5, ListsDecide DEF ActiveOK
  <2>3. QED
    BY <1>4, <2>1, <2>2, OthersActive
<1>8. /\ fc' \in FocusChains(count) /\ StateSame(fc', h) /\ OthersSame(fc', h, c, count)
      /\ Fits(fc', win', count, c)
      /\ \A x \in Clients \ {c} : Fits(h, win', count, x) => Fits(fc', win', count, x)
      /\ ActiveOK(fc', win', current)
  BY <1>1, <1>2, <1>3, <1>4, <1>5, <1>7, UpdateKeeps
<1>9. OneMoves(c)
  <2>1. OthersSame(fc', fc, c, count)
    BY <1>5, <1>8, OthersSameEvery
  <2>2. QED
    BY <1>1, <1>2, <2>1, OneMovesIf
<1>10. QED
  BY <1>2, <1>4, <1>5, <1>6, <1>8, <1>9 DEF WindowsInv, StateSame

(* Unminimizing and hints change neither desktops nor lists.               *)
LEMMA LookKeeps ==
  ASSUME IInv, NEW c \in Clients, win[c].desk # 0,
         NEW cl \in ClientStates(1 .. count), c \notin Fickle => cl.wantsTabFocus,
         cl.desk = win[c].desk, isShown(win[c]) => isShown(cl),
         win' = With(win, c, cl), UNCHANGED <<count, current, fc>>
  PROVE  WindowsInv' /\ OneMoves(c)
<1>1. /\ count \in Nat \ {0} /\ win \in WindowsOf(count) /\ fc \in FocusChains(count)
      /\ current \in 1 .. count /\ fc.currentDesktop = current
      /\ \A x \in Clients : Fits(fc, win, count, x)
      /\ ActiveOK(fc, win, current)
  BY WindowsInvFacts
<1>2. /\ win' \in WindowsOf(count) /\ win'[c] = cl
      /\ \A x \in Clients \ {c} : win'[x] = win[x]
  BY <1>1, WindowChanges
<1>3. \A x \in Clients : win'[x].desk = win[x].desk /\ (isShown(win[x]) => isShown(win'[x]))
  BY <1>2
<1>4. \A x \in Clients : Fits(fc, win', count, x)
  BY <1>1, <1>3 DEF Fits, Sound, AtHome, home, isOnDesktop
<1>5. ActiveOK(fc, win', current)
  <2>1. fc.activeClient # NoClient => fc.activeClient \in Clients
    BY <1>1 DEF FocusChains
  <2>2. QED
    BY <1>1, <1>3, <2>1 DEF ActiveOK, isOnDesktop
<1>6. OneMoves(c)
  <2>1. OthersSame(fc', fc, c, count)
    BY OthersSameEvery DEF ListsSame
  <2>2. QED
    BY <1>1, <2>1, OneMovesIf
<1>7. QED
  BY <1>1, <1>2, <1>4, <1>5, <1>6 DEF WindowsInv

LEMMA UnminimizeKeeps ==
  ASSUME IInv, NEW c \in Clients, Unminimize(c)
  PROVE  WindowsInv' /\ OneMoves(c)
<1> DEFINE cl == [win[c] EXCEPT !.minimized = FALSE]
<1>1. count \in Nat /\ win \in WindowsOf(count)
  BY WindowsInvFacts
<1>2. /\ win' = With(win, c, cl)
      /\ win[c].desk # 0 /\ UNCHANGED <<count, current, fc>>
  BY <1>1 DEF Unminimize, With, managed, desktopVars, WindowsOf, Windows
<1>3. /\ cl \in ClientStates(1 .. count) /\ cl.desk = win[c].desk
      /\ c \notin Fickle => cl.wantsTabFocus
      /\ isShown(win[c]) => isShown(cl)
  BY <1>1, WindowType DEF ClientStates, isShown
<1> HIDE DEF cl
<1>4. QED
  BY <1>2, <1>3, LookKeeps

LEMMA HintsChangeKeeps ==
  ASSUME IInv, NEW c \in Clients, HintsChange(c)
  PROVE  WindowsInv' /\ OneMoves(c)
<1> DEFINE cl == [win[c] EXCEPT !.wantsTabFocus = ~win[c].wantsTabFocus]
<1>1. count \in Nat /\ win \in WindowsOf(count)
  BY WindowsInvFacts
<1>2. /\ win' = With(win, c, cl) /\ c \in Fickle
      /\ win[c].desk # 0 /\ UNCHANGED <<count, current, fc>>
  BY <1>1 DEF HintsChange, With, managed, desktopVars, WindowsOf, Windows
<1>3. /\ cl \in ClientStates(1 .. count) /\ cl.desk = win[c].desk
      /\ isShown(win[c]) => isShown(cl)
  BY <1>1, WindowType DEF ClientStates, isShown
<1> HIDE DEF cl
<1>4. QED
  BY <1>2, <1>3, LookKeeps

(* A window that is shown stays where it is.                               *)
LEMMA ShownFacts ==
  ASSUME NEW n \in Nat, NEW w \in WindowsOf(n), NEW c \in Clients
  PROVE  LET v == Shown(w, c)
         IN  /\ v \in WindowsOf(n)
             /\ \A x \in Clients : /\ v[x].desk = w[x].desk
                                   /\ isShown(w[x]) => isShown(v[x])
             /\ \A x \in Clients : \A f : Fits(f, w, n, x) => Fits(f, v, n, x)
             /\ \A m, cur : \A f \in FocusChains(m) : ActiveOK(f, w, cur) => ActiveOK(f, v, cur)
<1> DEFINE v == Shown(w, c)
           cl == [w[c] EXCEPT !.minimized = FALSE]
<1>1. /\ cl \in ClientStates(1 .. n) /\ cl.desk = w[c].desk
      /\ c \notin Fickle => cl.wantsTabFocus
      /\ isShown(w[c]) => isShown(cl)
  BY WindowType DEF ClientStates, isShown
<1>2. v = With(w, c, cl)
  BY DEF Shown, With, WindowsOf, Windows
<1> HIDE DEF cl, v
<1>3. /\ v \in WindowsOf(n) /\ v[c] = cl
      /\ \A x \in Clients \ {c} : v[x] = w[x]
  BY <1>1, <1>2, WindowChanges
<1>4. \A x \in Clients : v[x].desk = w[x].desk /\ (isShown(w[x]) => isShown(v[x]))
  BY <1>1, <1>3
<1>5. \A x \in Clients : \A f : Fits(f, w, n, x) => Fits(f, v, n, x)
  BY <1>4 DEF Fits, Sound, AtHome, home, isOnDesktop
<1>6. ASSUME NEW m, NEW cur, NEW f \in FocusChains(m), ActiveOK(f, w, cur)
      PROVE  ActiveOK(f, v, cur)
  <2>1. f.activeClient # NoClient => f.activeClient \in Clients
    BY DEF FocusChains
  <2>2. QED
    BY <1>4, <1>6, <2>1 DEF ActiveOK, isOnDesktop
<1>7. QED
  BY <1>3, <1>4, <1>5, <1>6 DEF v

LEMMA ShownKeeps ==
  \A n \in Nat : \A w \in WindowsOf(n) : \A c \in Clients :
    LET v == Shown(w, c)
    IN  /\ v \in WindowsOf(n)
        /\ \A x \in Clients : v[x].desk = w[x].desk /\ (isShown(w[x]) => isShown(v[x]))
        /\ \A x \in Clients : \A f : Fits(f, w, n, x) => Fits(f, v, n, x)
        /\ \A m, cur : \A f \in FocusChains(m) : ActiveOK(f, w, cur) => ActiveOK(f, v, cur)
  BY ShownFacts

LEMMA MapRequestKeeps ==
  ASSUME IInv, NEW c \in Clients, MapRequest(c)
  PROVE  WindowsInv' /\ OneMoves(c)
<1>1. /\ count \in Nat \ {0} /\ win \in WindowsOf(count) /\ fc \in FocusChains(count)
      /\ current \in 1 .. count /\ fc.currentDesktop = current /\ count \in 1 .. count
      /\ count \in Nat
      /\ \A x \in Clients : Fits(fc, win, count, x)
      /\ ActiveOK(fc, win, current)
  BY WindowsInvFacts
<1>2. /\ win' = Shown(win, c) /\ fc' = update(fc, win', c, "Update") /\ win[c].desk # 0
      /\ UNCHANGED <<count, current>>
  BY DEF MapRequest, managed, desktopVars
<1>3. /\ win' \in WindowsOf(count) /\ win'[c].desk # 0
      /\ \A x \in Clients : Fits(fc, win', count, x)
      /\ ActiveOK(fc, win', current)
  BY <1>1, <1>2, ShownKeeps
<1>4. /\ fc' \in FocusChains(count) /\ StateSame(fc', fc) /\ OthersSame(fc', fc, c, count)
      /\ Fits(fc', win', count, c)
      /\ \A x \in Clients \ {c} : Fits(fc, win', count, x) => Fits(fc', win', count, x)
      /\ ActiveOK(fc', win', current)
  BY <1>1, <1>2, <1>3, UpdateKeeps
<1>5. QED
  BY <1>1, <1>2, <1>3, <1>4, OneMovesIf DEF WindowsInv, StateSame

LEMMA RestackWindowKeeps ==
  ASSUME IInv, NEW c \in Clients, RestackWindow(c)
  PROVE  WindowsInv' /\ OneMoves(c)
<1>1. /\ count \in Nat \ {0} /\ win \in WindowsOf(count) /\ fc \in FocusChains(count)
      /\ current \in 1 .. count /\ fc.currentDesktop = current /\ count \in 1 .. count
      /\ \A x \in Clients : Sound(fc, win, count, x) /\ Fits(fc, win, count, x)
      /\ ActiveOK(fc, win, current)
  BY WindowsInvFacts
<1>2. /\ win[c].desk # 0 /\ UNCHANGED <<win, count, current>>
      /\ \E under \in Clients : fc' \in restack(fc, win, c, under)
  BY DEF RestackWindow, managed, desktopVars
<1>3. PICK under \in Clients : fc' \in restack(fc, win, c, under)
  BY <1>2
<1>4. /\ fc' \in FocusChains(count) /\ StateSame(fc', fc) /\ OthersSame(fc', fc, c, count)
      /\ \A x \in Clients : Sound(fc', win, count, x)
      /\ \A x \in Clients : AtHome(fc, win, x) => AtHome(fc', win, x)
      /\ ActiveOK(fc', win, current)
  BY <1>1, <1>2, <1>3, RestackKeeps
<1>5. \A x \in Clients : Fits(fc', win, count, x)
  BY <1>1, <1>4 DEF Fits
<1>6. QED
  BY <1>1, <1>2, <1>4, <1>5, OneMovesIf DEF WindowsInv, StateSame

(* A window is given another desktop and told the chains.                  *)
OnDesktop(w, c, d) == [w EXCEPT ![c].desk = d]

LEMMA DesktopSet ==
  ASSUME IInv, NEW c \in Clients, win[c].desk # 0,
         NEW d \in 1 .. count \cup {OnAllDesktops},
         NEW w, w = OnDesktop(win, c, d), NEW g, g = setDesktop(fc, w, c, current)
  PROVE  /\ w \in WindowsOf(count) /\ w[c].desk = d
         /\ g \in FocusChains(count) /\ g.currentDesktop = current
         /\ \A x \in Clients : Fits(g, w, count, x)
         /\ ActiveOK(g, w, current) /\ OthersSame(g, fc, c, count)
<1> DEFINE cl == [win[c] EXCEPT !.desk = d]
<1>1. /\ count \in Nat \ {0} /\ win \in WindowsOf(count) /\ fc \in FocusChains(count)
      /\ current \in 1 .. count /\ fc.currentDesktop = current /\ count \in 1 .. count
      /\ \A x \in Clients : Fits(fc, win, count, x)
      /\ ActiveOK(fc, win, current)
  BY WindowsInvFacts
<1>2. w = With(win, c, cl)
  BY <1>1 DEF OnDesktop, With, WindowsOf, Windows
<1>3. /\ cl \in ClientStates(1 .. count) /\ cl.desk = d /\ d # 0
      /\ c \notin Fickle => cl.wantsTabFocus
      /\ isShown(win[c]) => isShown(cl)
  BY <1>1, WindowType DEF ClientStates, isShown, OnAllDesktops
<1> HIDE DEF cl
<1>n. count \in Nat
  BY <1>1
<1>4. /\ w \in WindowsOf(count) /\ w[c] = cl
      /\ \A x \in Clients \ {c} : w[x] = win[x]
  BY <1>1, <1>n, <1>2, <1>3, WindowChanges
<1>5. \A x \in Clients \ {c} : Fits(fc, w, count, x)
  BY <1>1, <1>4, OthersFit
<1>6. ActiveOK(fc, w, current) \/ (fc.activeClient = c /\ isShown(w[c]))
  <2>1. CASE fc.activeClient = c
    BY <1>1, <1>3, <1>4, <2>1, FocusChainAssumption DEF ActiveOK
  <2>2. CASE fc.activeClient # c
    BY <1>1, <1>4, <2>2, OthersActive DEF FocusChains
  <2>3. QED
    BY <2>1, <2>2
<1>7. /\ g \in FocusChains(count) /\ g.currentDesktop = current
      /\ Fits(g, w, count, c)
      /\ \A x \in Clients \ {c} : Fits(fc, w, count, x) => Fits(g, w, count, x)
      /\ ActiveOK(g, w, current) /\ OthersSame(g, fc, c, count)
  BY <1>1, <1>3, <1>4, <1>6, SetDesktopKeeps
<1>8. QED
  BY <1>3, <1>4, <1>5, <1>7

LEMMA SetOnAllDesktopsKeeps ==
  ASSUME IInv, NEW c \in Clients, NEW b \in BOOLEAN, SetOnAllDesktops(c, b)
  PROVE  WindowsInv' /\ OneMoves(c)
<1> DEFINE d == IF b THEN OnAllDesktops ELSE current
<1>1. /\ win[c].desk # 0 /\ win' = OnDesktop(win, c, d)
      /\ fc' = setDesktop(fc, win', c, current) /\ UNCHANGED <<count, current>>
  BY DEF OnDesktop, SetOnAllDesktops, managed, desktopVars
<1>2. d \in 1 .. count \cup {OnAllDesktops}
  BY WindowsInvFacts
<1> HIDE DEF d
<1>3. /\ win' \in WindowsOf(count)
      /\ fc' \in FocusChains(count) /\ fc'.currentDesktop = current
      /\ \A x \in Clients : Fits(fc', win', count, x)
      /\ ActiveOK(fc', win', current) /\ OthersSame(fc', fc, c, count)
  BY <1>1, <1>2, DesktopSet
<1>4. OneMoves(c)
  BY <1>1, <1>3, OneMovesIf, WindowsInvFacts
<1>5. QED
  BY <1>1, <1>3, <1>4 DEF WindowsInv

LEMMA SendToDesktopKeeps ==
  ASSUME IInv, NEW c \in Clients, NEW d \in 1 .. count \cup {OnAllDesktops},
         SendToDesktop(c, d)
  PROVE  WindowsInv' /\ OneMoves(c)
<1> DEFINE arrived == IF win[c].desk = d THEN fc ELSE setDesktop(fc, win', c, current)
<1>1. /\ count \in Nat \ {0} /\ win \in WindowsOf(count) /\ fc \in FocusChains(count)
      /\ current \in 1 .. count /\ fc.currentDesktop = current /\ count \in 1 .. count
      /\ \A x \in Clients : Fits(fc, win, count, x)
      /\ ActiveOK(fc, win, current)
  BY WindowsInvFacts
<1>2. /\ win[c].desk # 0 /\ win' = OnDesktop(win, c, d)
      /\ UNCHANGED <<count, current>>
      /\ fc' = arrived \/ fc' \in StackedUnderActive(arrived, win', c)
  BY DEF OnDesktop, SendToDesktop, managed, desktopVars
<1>3. /\ win' \in WindowsOf(count) /\ win'[c].desk # 0
      /\ arrived \in FocusChains(count) /\ arrived.currentDesktop = current
      /\ \A x \in Clients : Fits(arrived, win', count, x)
      /\ ActiveOK(arrived, win', current) /\ OthersSame(arrived, fc, c, count)
  <2>1. CASE win[c].desk = d
    <3>1. win' = win /\ arrived = fc
      BY <1>1, <1>2, <2>1 DEF OnDesktop, WindowsOf, Windows
    <3>2. QED
      BY <1>1, <1>2, <3>1, OthersSameEvery DEF ListsSame
  <2>2. CASE win[c].desk # d
    <3>1. d # 0 /\ arrived = setDesktop(fc, win', c, current)
      BY <2>2 DEF OnAllDesktops
    <3> HIDE DEF arrived
    <3>2. /\ win' \in WindowsOf(count) /\ win'[c].desk = d
          /\ arrived \in FocusChains(count) /\ arrived.currentDesktop = current
          /\ \A x \in Clients : Fits(arrived, win', count, x)
          /\ ActiveOK(arrived, win', current) /\ OthersSame(arrived, fc, c, count)
      BY <1>2, <3>1, DesktopSet
    <3>3. QED
      BY <3>1, <3>2
  <2>3. QED
    BY <2>1, <2>2
<1> HIDE DEF arrived
<1>4. CASE fc' = arrived
  BY <1>1, <1>2, <1>3, <1>4, OneMovesIf DEF WindowsInv
<1>5. CASE fc' \in StackedUnderActive(arrived, win', c)
  <2>1. \A x \in Clients : Sound(arrived, win', count, x)
    BY <1>3 DEF Fits
  <2>2. /\ fc' \in FocusChains(count) /\ StateSame(fc', arrived)
        /\ OthersSame(fc', arrived, c, count)
        /\ \A x \in Clients : Sound(fc', win', count, x)
        /\ \A x \in Clients : AtHome(arrived, win', x) => AtHome(fc', win', x)
        /\ ActiveOK(fc', win', current)
    BY <1>1, <1>3, <1>5, <2>1, StackedKeeps
  <2>3. OneMoves(c)
    <3>1. OthersSame(fc', fc, c, count)
      BY <1>3, <2>2, OthersSameEvery
    <3>2. QED
      BY <1>1, <1>2, <3>1, OneMovesIf
  <2>4. QED
    BY <1>2, <1>3, <2>2, <2>3 DEF WindowsInv, StateSame, Fits
<1>6. QED
  BY <1>2, <1>4, <1>5

LEMMA Switched ==
  ASSUME NEW n \in Nat \ {0}, NEW f \in FocusChains(n), NEW w \in WindowsOf(n),
         NEW d \in 1 .. n, NEW moving \in Clients \cup {NoClient},
         moving # NoClient => isShown(w[moving]),
         f.activeClient # NoClient => Fits(f, w, n, f.activeClient),
         NEW w2, w2 = WinsOnSwitch(w, d, moving),
         NEW g, g = ChainsOnSwitch(f, w, d, moving)
  PROVE  /\ w2 \in WindowsOf(n) /\ \A x \in Clients \ {moving} : w2[x] = w[x]
         /\ OthersSame(g, f, moving, n)
         /\ ListsSame(g, f) \/ (moving # NoClient /\ w2[moving].desk # w[moving].desk)
         /\ g \in FocusChains(n) /\ g.currentDesktop = d
         /\ g.activeClient \in {f.activeClient, NoClient}
         /\ \A x \in Clients : Fits(f, w, n, x) => Fits(g, w2, n, x)
         /\ ActiveOK(g, w2, d)
  BY SwitchFacts, MovedAlong

LEMMA MovableShown ==
  \A moving \in Movable :
    /\ moving \in Clients \cup {NoClient}
    /\ moving # NoClient => moving \in managed /\ isShown(win[moving])
  BY DEF Movable, managed

LEMMA SwitchDesktopKeeps ==
  ASSUME IInv, NEW d, SwitchDesktop(d)
  PROVE  WindowsInv' /\ \E c \in Clients \cup {NoClient} : OneMoves(c)
<1>1. /\ count \in Nat \ {0} /\ win \in WindowsOf(count) /\ fc \in FocusChains(count)
      /\ \A x \in Clients : Fits(fc, win, count, x)
  BY WindowsInvFacts
<1>2. d \in 1 .. count /\ current' = d /\ count' = count
  BY DEF SwitchDesktop, setCurrent
<1>3. PICK moving \in Movable : /\ win' = WinsOnSwitch(win, d, moving)
                               /\ fc' = ChainsOnSwitch(fc, win, d, moving)
  BY DEF SwitchDesktop
<1>4. /\ moving \in Clients \cup {NoClient}
      /\ moving # NoClient => isShown(win[moving])
  BY MovableShown
<1>5. fc.activeClient # NoClient => Fits(fc, win, count, fc.activeClient)
  BY <1>1 DEF FocusChains
<1>6. /\ win' \in WindowsOf(count)
      /\ fc' \in FocusChains(count) /\ fc'.currentDesktop = d
      /\ \A x \in Clients : Fits(fc, win, count, x) => Fits(fc', win', count, x)
      /\ ActiveOK(fc', win', d) /\ OthersSame(fc', fc, moving, count)
  BY <1>1, <1>2, <1>3, <1>4, <1>5, Switched
<1>7. OneMoves(moving)
  BY <1>1, <1>2, <1>6, OneMovesIf
<1>8. QED
  BY <1>1, <1>2, <1>4, <1>6, <1>7 DEF WindowsInv

LEMMA ActivateKeeps ==
  ASSUME IInv, NEW c \in Clients, Activate(c)
  PROVE  WindowsInv' /\ \E x \in Clients \cup {NoClient} : OneMoves(x)
<1> DEFINE d == win[c].desk
<1>1. /\ count \in Nat \ {0} /\ win \in WindowsOf(count) /\ fc \in FocusChains(count)
      /\ count \in Nat
      /\ \A x \in Clients : Fits(fc, win, count, x)
  BY WindowsInvFacts
<1>2. PICK moving \in Movable : /\ win' = Shown(WinsOnSwitch(win, d, moving), c)
                               /\ fc' = ChainsOnSwitch(fc, win, d, moving)
  BY DEF Activate
<1>3. d \in 1 .. count /\ current' = d /\ count' = count
  BY DEF Activate, setCurrent
<1>4. /\ moving \in Clients \cup {NoClient}
      /\ moving # NoClient => isShown(win[moving])
  BY MovableShown
<1>5. fc.activeClient # NoClient => Fits(fc, win, count, fc.activeClient)
  BY <1>1 DEF FocusChains
<1> DEFINE v == WinsOnSwitch(win, d, moving)
<1>6. /\ v \in WindowsOf(count)
      /\ fc' \in FocusChains(count) /\ fc'.currentDesktop = d
      /\ \A x \in Clients : Fits(fc, win, count, x) => Fits(fc', v, count, x)
      /\ ActiveOK(fc', v, d) /\ OthersSame(fc', fc, moving, count)
  BY <1>1, <1>2, <1>3, <1>4, <1>5, Switched
<1>7. win' = Shown(v, c)
  BY <1>2
<1> HIDE DEF v
<1>8. /\ win' \in WindowsOf(count) /\ \A x \in Clients : Fits(fc', win', count, x)
      /\ ActiveOK(fc', win', d)
  BY <1>1, <1>6, <1>7, ShownKeeps
<1>9. OneMoves(moving)
  BY <1>1, <1>3, <1>6, OneMovesIf
<1>10. QED
  BY <1>3, <1>4, <1>6, <1>8, <1>9 DEF WindowsInv

(* A switch of desktops that one window besides the one that is taken      *)
(* along is told to the chains.                                            *)
LEMMA MovesAfterSwitch ==
  ASSUME NEW c, NEW moving, NEW s, count \in Nat, count' = count,
         OthersSame(s, fc, moving, count), OthersSame(fc', s, c, count),
         \/ ListsSame(s, fc)
         \/ moving \in Clients /\ win'[moving].desk # win[moving].desk
  PROVE  OneMoves(c)
<1>1. CASE ListsSame(s, fc)
  <2>1. OthersSame(fc', fc, c, count)
    BY <1>1, OthersSameEvery
  <2>2. QED
    BY <2>1, OneMovesIf
<1>2. CASE moving \in Clients /\ win'[moving].desk # win[moving].desk
  <2> DEFINE M == {c, moving}
  <2>1. c \in M /\ moving \in M
    OBVIOUS
  <2>2. \A z \in Clients : z \in M /\ z # c => win'[z].desk # win[z].desk
    BY <1>2
  <2> HIDE DEF M
  <2>3. OrderKept(fc', fc, M, count)
    BY <2>1, OrderKeptEvery
  <2>4. SmallerOf(count, count') = count
    BY DEF SmallerOf
  <2>5. QED
    BY <2>2, <2>3, <2>4 DEF OneMoves
<1>3. QED
  BY <1>1, <1>2

LEMMA MapRequestElsewhereKeeps ==
  ASSUME IInv, NEW c \in Clients, MapRequestElsewhere(c)
  PROVE  WindowsInv' /\ OneMoves(c)
<1> DEFINE w == Shown(win, c)
           d == win[c].desk
<1>1. /\ count \in Nat \ {0} /\ win \in WindowsOf(count) /\ fc \in FocusChains(count)
      /\ count \in 1 .. count /\ count \in Nat
      /\ \A x \in Clients : Fits(fc, win, count, x)
  BY WindowsInvFacts
<1>2. PICK moving \in Movable :
       /\ win' = WinsOnSwitch(w, d, moving)
       /\ fc' = update(ChainsOnSwitch(fc, w, d, moving), win', c, "Update")
  BY DEF MapRequestElsewhere
<1> DEFINE s == ChainsOnSwitch(fc, w, d, moving)
<1>3. /\ win' = WinsOnSwitch(w, d, moving) /\ fc' = update(s, win', c, "Update")
      /\ d \in 1 .. count /\ d # 0 /\ current' = d /\ count' = count
      /\ ~isOnDesktop(win[c], current)
  BY <1>2 DEF setCurrent, MapRequestElsewhere
<1>4. /\ w \in WindowsOf(count) /\ w[c].desk = d
      /\ \A x \in Clients : w[x].desk = win[x].desk /\ (isShown(win[x]) => isShown(w[x]))
      /\ \A x \in Clients : Fits(fc, w, count, x)
  BY <1>1, ShownKeeps
<1>5. s = ChainsOnSwitch(fc, w, d, moving)
  OBVIOUS
<1> HIDE DEF s, w
<1>6. /\ moving \in Clients \cup {NoClient} /\ moving # c
      /\ moving # NoClient => isShown(w[moving])
  <2>1. moving # c
    BY <1>3, FocusChainAssumption DEF Movable
  <2>2. QED
    BY <1>4, <2>1, MovableShown
<1>7. fc.activeClient # NoClient => Fits(fc, w, count, fc.activeClient)
  BY <1>1, <1>4 DEF FocusChains
<1>8. /\ win' \in WindowsOf(count) /\ \A x \in Clients \ {moving} : win'[x] = w[x]
      /\ s \in FocusChains(count) /\ s.currentDesktop = d
      /\ \A x \in Clients : Fits(fc, w, count, x) => Fits(s, win', count, x)
      /\ ActiveOK(s, win', d) /\ OthersSame(s, fc, moving, count)
      /\ ListsSame(s, fc) \/ (moving # NoClient /\ win'[moving].desk # w[moving].desk)
  BY <1>1, <1>3, <1>4, <1>5, <1>6, <1>7, Switched
<1>9. win'[c].desk # 0
  BY <1>3, <1>4, <1>6, <1>8
<1>10. /\ fc' \in FocusChains(count) /\ StateSame(fc', s) /\ OthersSame(fc', s, c, count)
       /\ Fits(fc', win', count, c)
       /\ \A x \in Clients \ {c} : Fits(s, win', count, x) => Fits(fc', win', count, x)
       /\ ActiveOK(fc', win', d)
  BY <1>1, <1>3, <1>8, <1>9, UpdateKeeps
<1>11. ListsSame(s, fc) \/ (moving \in Clients /\ win'[moving].desk # win[moving].desk)
  BY <1>4, <1>6, <1>8
<1>12. OneMoves(c)
  BY <1>1, <1>3, <1>8, <1>10, <1>11, MovesAfterSwitch
<1>13. QED
  BY <1>3, <1>4, <1>8, <1>10, <1>12 DEF WindowsInv, StateSame

LEMMA ManageElsewhereKeeps ==
  ASSUME IInv, NEW c \in Clients, ManageElsewhere(c)
  PROVE  WindowsInv' /\ OneMoves(c)
<1>1. /\ count \in Nat \ {0} /\ win \in WindowsOf(count) /\ fc \in FocusChains(count)
      /\ count \in 1 .. count /\ count \in Nat
      /\ fc.activeClient # NoClient => fc.activeClient \in managed
      /\ \A x \in Clients : Fits(fc, win, count, x)
  BY WindowsInvFacts
<1>2. PICK cl \in ManagedStates(c), moving \in Movable :
       /\ setCurrent(cl.desk)
       /\ LET w == [win EXCEPT ![c] = cl]
          IN  /\ win' = WinsOnSwitch(w, cl.desk, moving)
              /\ fc' = update(ChainsOnSwitch(fc, w, cl.desk, moving), win', c, "Update")
  BY DEF ManageElsewhere
<1> DEFINE w == With(win, c, cl)
           d == cl.desk
           s == ChainsOnSwitch(fc, w, d, moving)
<1>3. /\ win' = WinsOnSwitch(w, d, moving) /\ fc' = update(s, win', c, "Update")
      /\ d \in 1 .. count /\ d # 0 /\ current' = d /\ count' = count
      /\ cl \in ClientStates(1 .. count) /\ (c \notin Fickle => cl.wantsTabFocus)
      /\ win[c].desk = 0
  BY <1>2 DEF With, setCurrent, ManagedStates, ManageElsewhere, managed
<1>4. /\ w \in WindowsOf(count) /\ w[c] = cl
      /\ \A x \in Clients \ {c} : w[x] = win[x]
  BY <1>1, <1>3, WindowChanges
<1>5. s = ChainsOnSwitch(fc, w, d, moving)
  OBVIOUS
<1> HIDE DEF s, w
<1>6. /\ moving \in Clients \cup {NoClient} /\ moving # c
      /\ moving # NoClient => isShown(w[moving])
  <2>1. /\ moving \in Clients \cup {NoClient}
        /\ moving # NoClient => moving \in managed /\ isShown(win[moving])
    BY <1>2, MovableShown
  <2>2. c \notin managed
    BY <1>3 DEF managed
  <2>3. moving # c
    BY <2>1, <2>2, FocusChainAssumption
  <2>4. QED
    BY <1>4, <2>1, <2>3
<1>7. \A x \in Clients \ {c} : Fits(fc, w, count, x)
  BY <1>1, <1>4, OthersFit
<1>8. fc.activeClient # NoClient => Fits(fc, w, count, fc.activeClient)
  BY <1>1, <1>3, <1>7 DEF managed
<1>9. /\ win' \in WindowsOf(count) /\ \A x \in Clients \ {moving} : win'[x] = w[x]
      /\ s \in FocusChains(count) /\ s.currentDesktop = d
      /\ \A x \in Clients : Fits(fc, w, count, x) => Fits(s, win', count, x)
      /\ ActiveOK(s, win', d) /\ OthersSame(s, fc, moving, count)
      /\ ListsSame(s, fc) \/ (moving # NoClient /\ win'[moving].desk # w[moving].desk)
  BY <1>1, <1>3, <1>4, <1>5, <1>6, <1>8, Switched
<1>10. win'[c].desk # 0
  BY <1>3, <1>4, <1>6, <1>9
<1>11. /\ fc' \in FocusChains(count) /\ StateSame(fc', s) /\ OthersSame(fc', s, c, count)
       /\ Fits(fc', win', count, c)
       /\ \A x \in Clients \ {c} : Fits(s, win', count, x) => Fits(fc', win', count, x)
       /\ ActiveOK(fc', win', d)
  BY <1>1, <1>3, <1>9, <1>10, UpdateKeeps
<1>12. OneMoves(c)
  <2>1. ListsSame(s, fc) \/ (moving \in Clients /\ win'[moving].desk # win[moving].desk)
    BY <1>4, <1>6, <1>9
  <2>2. QED
    BY <1>1, <1>3, <1>9, <1>11, <2>1, MovesAfterSwitch
<1>13. QED
  BY <1>3, <1>7, <1>9, <1>11, <1>12 DEF WindowsInv, StateSame

LEMMA ResizeFits ==
  ASSUME NEW m \in Nat \ {0}, NEW n \in Nat \ {0}, NEW k \in 1 .. m, k \in 1 .. n,
         k = m \/ k = n, NEW f \in FocusChains(m), NEW w \in WindowsOf(k),
         NEW cur \in 1 .. k,
         \A x \in Clients : Fits(f, w, k, x), ActiveOK(f, w, cur),
         NEW g, g = resize(f, n)
  PROVE  /\ g \in FocusChains(n) /\ g.currentDesktop = f.currentDesktop
         /\ \A x \in Clients : Fits(g, w, n, x)
         /\ ActiveOK(g, w, cur) /\ \A M : OrderKept(g, f, M, k)
<1> DEFINE chains == [d \in 1 .. n |-> IF d \in DOMAIN f.chains THEN f.chains[d] ELSE <<>>]
<1>1. /\ f.mostRecentlyUsed \in Chains /\ f.chains \in [1 .. m -> Chains]
      /\ DOMAIN f.chains = 1 .. m
  BY DEF FocusChains
<1>2. g = [f EXCEPT !.chains = chains]
  BY DEF resize
<1>3. chains \in [1 .. n -> Chains]
  BY <1>1, EmptyChain
<1>4. \A d \in 1 .. n : chains[d] = IF d \in 1 .. m THEN f.chains[d] ELSE <<>>
  BY <1>1
<1> HIDE DEF chains
<1>5. /\ g \in FocusChains(n) /\ StateSame(g, f) /\ g.chains = chains
      /\ g.mostRecentlyUsed = f.mostRecentlyUsed
  BY <1>2, <1>3 DEF FocusChains, StateSame
<1>6. /\ \A x : Listed(g, x) <=> Listed(f, x)
      /\ \A x : \A d \in 1 .. n : contains(g, x, d) <=> d \in 1 .. m /\ contains(f, x, d)
  BY <1>4, <1>5, EmptyChain DEF Listed, contains
<1>7. \A d \in 1 .. n : d \in 1 .. m <=> d \in 1 .. k
  OBVIOUS
<1>8. \A d \in 1 .. k : d \in 1 .. n /\ d \in 1 .. m
  OBVIOUS
<1>9. ASSUME NEW x \in Clients PROVE Fits(g, w, n, x)
  <2>1. Fits(f, w, k, x) /\ (w[x].desk # 0 => home(w, x) \in 1 .. k)
    BY DEF WindowsOf, home
  <2>2. QED
    BY <1>6, <1>7, <1>8, <2>1 DEF Fits, Sound, AtHome
<1>10. ActiveOK(g, w, cur)
  BY <1>5, <1>6, <1>8 DEF ActiveOK, StateSame
<1>11. \A M : OrderKept(g, f, M, k)
  BY <1>4, <1>5, <1>8, SameOrderEvery DEF OrderKept
<1>12. QED
  BY <1>5, <1>9, <1>10, <1>11 DEF StateSame

LEMMA AddDesktopsKeeps ==
  ASSUME IInv, NEW n \in Desktops, AddDesktops(n)
  PROVE  WindowsInv' /\ \E c \in Clients \cup {NoClient} : OneMoves(c)
<1>1. /\ count \in Nat \ {0} /\ win \in WindowsOf(count) /\ fc \in FocusChains(count)
      /\ count \in 1 .. count /\ current \in 1 .. count /\ fc.currentDesktop = current
      /\ \A x \in Clients : Fits(fc, win, count, x)
      /\ ActiveOK(fc, win, current)
  BY WindowsInvFacts
<1>2. /\ n > count /\ n \in Nat \ {0} /\ count \in 1 .. n
      /\ count' = n /\ current' = current /\ fc' = resize(fc, n) /\ win' = win
  BY <1>1, DesktopsAssumption DEF AddDesktops, setCount, SmallerOf, Desktops
<1>3. /\ fc' \in FocusChains(n) /\ fc'.currentDesktop = current
      /\ \A x \in Clients : Fits(fc', win, n, x)
      /\ ActiveOK(fc', win, current) /\ OrderKept(fc', fc, {}, count)
  BY <1>1, <1>2, ResizeFits
<1>4. win \in WindowsOf(n)
  BY <1>1, <1>2 DEF WindowsOf
<1>5. OneMoves(NoClient)
  <2>1. SmallerOf(count, count') = count
    BY <1>1, <1>2 DEF SmallerOf
  <2>2. QED
    BY <1>3, <2>1 DEF OneMoves
<1>6. QED
  BY <1>2, <1>3, <1>4, <1>5 DEF WindowsInv

(* When desktops are removed, the windows are sent to the last one that    *)
(* remains one after the other; until a window's turn comes nothing but    *)
(* the place where it is listed may be wrong.                              *)
Half(m, n, w, cur) ==
  {f \in FocusChains(m) : /\ f.currentDesktop = cur
                          /\ \A x \in Clients : Sound(f, w, n, x)
                          /\ ActiveOK(f, w, cur)}

LEMMA OthersKeep ==
  ASSUME NEW m \in Nat \ {0}, NEW n \in 1 .. m, NEW f, NEW g, NEW w \in WindowsOf(n),
         NEW c, NEW x \in Clients, x # c, OthersSame(g, f, c, m)
  PROVE  /\ Sound(f, w, n, x) => Sound(g, w, n, x)
         /\ AtHome(f, w, x) => AtHome(g, w, x)
<1>1. /\ Listed(g, x) <=> Listed(f, x)
      /\ \A d \in 1 .. m : contains(g, x, d) <=> contains(f, x, d)
  BY DEF OthersSame
<1>2. \A d \in 1 .. n : d \in 1 .. m
  OBVIOUS
<1>3. w[x].desk # 0 => home(w, x) \in 1 .. n
  BY DEF WindowsOf, home
<1>4. QED
  BY <1>1, <1>2, <1>3 DEF Sound, AtHome

LEMMA ArrivedFacts ==
  ASSUME NEW m \in Nat \ {0}, NEW n \in 1 .. m, NEW cur \in 1 .. n, NEW w \in WindowsOf(n),
         NEW c \in Clients, w[c].desk # 0, NEW f \in Half(m, n, w, cur),
         NEW g, g = setDesktop(f, w, c, cur)
  PROVE  /\ g \in Half(m, n, w, cur) /\ AtHome(g, w, c)
         /\ \A x \in Clients : AtHome(f, w, x) => AtHome(g, w, x)
         /\ OthersSame(g, f, c, m)
<1>1. /\ f \in FocusChains(m) /\ f.currentDesktop = cur
      /\ \A x \in Clients : Sound(f, w, n, x)
      /\ ActiveOK(f, w, cur) /\ cur \in 1 .. m
  BY DEF Half
<1>2. /\ g \in FocusChains(m) /\ g.currentDesktop = cur
      /\ OthersSame(g, f, c, m) /\ Fits(g, w, n, c) /\ ActiveOK(g, w, cur)
  BY <1>1, SetDesktopKeeps
<1>3. \A x \in Clients : x # c => /\ Sound(g, w, n, x)
                                  /\ AtHome(f, w, x) => AtHome(g, w, x)
  BY <1>1, <1>2, OthersKeep
<1>4. Sound(g, w, n, c) /\ AtHome(g, w, c)
  BY <1>2 DEF Fits
<1>5. QED
  BY <1>2, <1>3, <1>4 DEF Half

LEMMA SentFacts ==
  ASSUME NEW m \in Nat \ {0}, NEW n \in 1 .. m, NEW cur \in 1 .. n, NEW w \in WindowsOf(n),
         NEW c \in Clients, w[c].desk # 0, NEW sent \in SUBSET Half(m, n, w, cur),
         NEW g \in SentToLast(sent, w, c, n, cur)
  PROVE  \E f \in sent :
           /\ g \in Half(m, n, w, cur) /\ AtHome(g, w, c)
           /\ \A x \in Clients : AtHome(f, w, x) => AtHome(g, w, x)
           /\ OthersSame(g, f, c, m)
<1>1. PICK f \in sent : g \in LET arrived == setDesktop(f, w, c, cur)
                              IN  IF n = cur THEN StackedUnderActive(arrived, w, c)
                                             ELSE {arrived}
  BY DEF SentToLast
<1> DEFINE arrived == setDesktop(f, w, c, cur)
<1>2. g = arrived \/ g \in StackedUnderActive(arrived, w, c)
  BY <1>1
<1>3. f \in Half(m, n, w, cur) /\ arrived = setDesktop(f, w, c, cur)
  OBVIOUS
<1> HIDE DEF arrived
<1>4. /\ arrived \in Half(m, n, w, cur) /\ AtHome(arrived, w, c)
      /\ \A x \in Clients : AtHome(f, w, x) => AtHome(arrived, w, x)
      /\ OthersSame(arrived, f, c, m)
  BY <1>3, ArrivedFacts
<1>5. CASE g = arrived
  BY <1>4, <1>5
<1>6. CASE g \in StackedUnderActive(arrived, w, c)
  <2>1. /\ arrived \in FocusChains(m) /\ arrived.currentDesktop = cur
        /\ \A x \in Clients : Sound(arrived, w, n, x)
        /\ ActiveOK(arrived, w, cur) /\ cur \in 1 .. m
    BY <1>4 DEF Half
  <2>2. /\ g \in FocusChains(m) /\ StateSame(g, arrived) /\ OthersSame(g, arrived, c, m)
        /\ \A x \in Clients : Sound(g, w, n, x)
        /\ \A x \in Clients : AtHome(arrived, w, x) => AtHome(g, w, x)
        /\ ActiveOK(g, w, cur)
    BY <1>6, <2>1, StackedKeeps
  <2>3. g \in Half(m, n, w, cur)
    BY <2>1, <2>2 DEF Half, StateSame
  <2>4. QED
    BY <1>4, <2>2, <2>3, OthersSameEvery
<1>7. QED
  BY <1>2, <1>5, <1>6

LEMMA SentEvery ==
  \A m \in Nat \ {0} : \A n \in 1 .. m : \A cur \in 1 .. n : \A w \in WindowsOf(n) :
  \A c \in Clients : \A sent \in SUBSET Half(m, n, w, cur) :
    w[c].desk # 0 =>
    \A g \in SentToLast(sent, w, c, n, cur) : \E f \in sent :
      /\ g \in Half(m, n, w, cur) /\ AtHome(g, w, c)
      /\ \A x \in Clients : AtHome(f, w, x) => AtHome(g, w, x)
      /\ OthersSame(g, f, c, m)
  BY SentFacts

LEMMA SentInOrderFacts ==
  ASSUME NEW m \in Nat \ {0}, NEW n \in 1 .. m, NEW cur \in 1 .. n, NEW w \in WindowsOf(n),
         NEW order \in Seq(Clients), \A i \in 1 .. Len(order) : w[order[i]].desk # 0,
         NEW S, \A i \in 1 .. Len(order) : order[i] \in S,
         NEW f \in Half(m, n, w, cur), NEW g \in SentInOrder(f, w, order, n, cur)
  PROVE  /\ g \in Half(m, n, w, cur)
         /\ \A i \in 1 .. Len(order) : AtHome(g, w, order[i])
         /\ \A x \in Clients : AtHome(f, w, x) => AtHome(g, w, x)
         /\ OrderKept(g, f, S, m)
<1> DEFINE V == SUBSET Half(m, n, w, cur)
           sent == CHOOSE sent : sent = [i \in 0 .. Len(order) |->
                     IF i = 0 THEN {f}
                     ELSE SentToLast(sent[i - 1], w, order[i], n, cur)]
           step == [i \in 1 .. Len(order) |-> [T \in V |-> SentToLast(T, w, order[i], n, cur)]]
<1>1. Len(order) \in Nat /\ \A i \in 1 .. Len(order) : order[i] \in Clients
  OBVIOUS
<1>2. SentInOrder(f, w, order, n, cur) = sent[Len(order)]
  BY DEF SentInOrder
<1>3. \A i \in 1 .. Len(order) : \A T \in V : SentToLast(T, w, order[i], n, cur) \in V
  BY <1>1, SentEvery
<1>4. PICK F \in [0 .. Len(order) -> V] :
        F[0] = {f} /\ \A i \in 1 .. Len(order) : F[i] = step[i][F[i - 1]]
  <2>1. step \in [1 .. Len(order) -> [V -> V]]
    BY <1>3
  <2>2. {f} \in V
    OBVIOUS
  <2>3. step \in Steps(V, Len(order))
    BY <2>1 DEF Steps
  <2> HIDE DEF step, V
  <2>4. \E F : Recursion(F, V, Len(order), {f}, step)
    BY <1>1, <2>2, <2>3, RecursionEvery
  <2>5. QED
    BY <2>4 DEF Recursion
<1>5. \A i \in 1 .. Len(order) : F[i] = SentToLast(F[i - 1], w, order[i], n, cur)
  <2> TAKE i \in 1 .. Len(order)
  <2> HIDE DEF V
  <2>1. F[i - 1] \in V
    BY <1>1, <1>4
  <2>2. QED
    BY <1>4, <2>1
<1>6. F = [i \in 0 .. Len(order) |->
              IF i = 0 THEN {f} ELSE SentToLast(F[i - 1], w, order[i], n, cur)]
  <2>1. \A i \in 0 .. Len(order) :
          F[i] = IF i = 0 THEN {f} ELSE SentToLast(F[i - 1], w, order[i], n, cur)
    <3> TAKE i \in 0 .. Len(order)
    <3>1. CASE i = 0
      BY <1>4, <3>1
    <3>2. CASE i # 0
      <4>1. i \in 1 .. Len(order)
        BY <1>1, <3>2
      <4>2. QED
        BY <1>5, <3>2, <4>1, Zenon
    <3>3. QED
      BY <3>1, <3>2
  <2>2. F = [i \in 0 .. Len(order) |-> F[i]]
    BY <1>4
  <2>3. QED
    BY <2>1, <2>2, Zenon
<1>7. sent = [i \in 0 .. Len(order) |->
              IF i = 0 THEN {f} ELSE SentToLast(sent[i - 1], w, order[i], n, cur)]
  BY <1>6
<1> HIDE DEF sent, step
<1>8. sent[0] = {f} /\ \A i \in 1 .. Len(order) :
        sent[i] = SentToLast(sent[i - 1], w, order[i], n, cur)
  <2>1. \A i \in 0 .. Len(order) :
          sent[i] = IF i = 0 THEN {f} ELSE SentToLast(sent[i - 1], w, order[i], n, cur)
    BY <1>7, Zenon
  <2>2. QED
    BY <1>1, <2>1
<1> DEFINE Right(k) ==
      \A h \in sent[k] :
        /\ h \in Half(m, n, w, cur)
        /\ \A i \in 1 .. k : AtHome(h, w, order[i])
        /\ \A x \in Clients : AtHome(f, w, x) => AtHome(h, w, x)
        /\ OrderKept(h, f, S, m)
           wrong == {k \in 0 .. Len(order) : ~Right(k)}
<1>9. Right(0)
  <2>1. OrderKept(f, f, S, m)
    BY OrderKeptEvery DEF ListsSame
  <2>2. QED
    BY <1>8, <2>1
<1>10. ASSUME NEW k \in 1 .. Len(order), Right(k - 1) PROVE Right(k)
  <2> SUFFICES ASSUME NEW h \in sent[k]
               PROVE  /\ h \in Half(m, n, w, cur)
                      /\ \A i \in 1 .. k : AtHome(h, w, order[i])
                      /\ \A x \in Clients : AtHome(f, w, x) => AtHome(h, w, x)
                      /\ OrderKept(h, f, S, m)
    OBVIOUS
  <2>1. sent[k] = SentToLast(sent[k - 1], w, order[k], n, cur)
    BY <1>8
  <2>2. sent[k - 1] \in SUBSET Half(m, n, w, cur) /\ order[k] \in Clients
        /\ w[order[k]].desk # 0
    BY <1>1, <1>10
  <2>3. PICK e \in sent[k - 1] :
          /\ h \in Half(m, n, w, cur) /\ AtHome(h, w, order[k])
          /\ \A x \in Clients : AtHome(e, w, x) => AtHome(h, w, x)
          /\ OthersSame(h, e, order[k], m)
    BY <2>1, <2>2, SentEvery
  <2>4. \A i \in 1 .. k : i \in 1 .. k - 1 \/ i = k
    OBVIOUS
  <2>5. \A i \in 1 .. k - 1 : AtHome(e, w, order[i]) /\ order[i] \in Clients
    BY <1>1, <1>10
  <2>6. OrderKept(e, f, S, m) /\ OrderKept(h, e, S, m)
    BY <1>10, <2>3, OrderKeptEvery
  <2>7. OrderKept(h, f, S, m)
    BY <2>6, OrderKeptEvery
  <2>8. QED
    BY <1>10, <2>3, <2>4, <2>5, <2>7
<1>11. Right(Len(order))
  <2> HIDE DEF Right
  <2>1. ASSUME wrong # {} PROVE FALSE
    <3>1. wrong \in SUBSET Nat
      OBVIOUS
    <3>2. PICK k \in wrong : \A j \in wrong : ~(j < k)
      <4> HIDE DEF wrong
      <4>1. QED
        BY <2>1, <3>1, LeastNumber
    <3>3. k \in 1 .. Len(order) /\ k - 1 \in 0 .. Len(order) /\ k - 1 \notin wrong
      BY <1>1, <1>9, <3>2
    <3>4. QED
      BY <1>10, <3>2, <3>3
  <2>2. QED
    BY <1>1, <2>1
<1>12. QED
  BY <1>2, <1>11

(* Lists of all elements of a finite set leave none out.                   *)
LEMMA ListedAll ==
  ASSUME NEW S, IsFiniteSet(S), NEW order \in SetToSeqs(S)
  PROVE  /\ order \in Seq(S)
         /\ \A x \in S : \E i \in 1 .. Len(order) : order[i] = x
<1> DEFINE k == Cardinality(S)
<1>1. k \in Nat
  BY FS_CardinalityType
<1>2. order \in [1 .. k -> S] /\ \A i, j \in 1 .. k : i # j => order[i] # order[j]
  BY DEF SetToSeqs
<1>3. order \in Injection(1 .. k, S)
  BY <1>2 DEF Injection, IsInjective
<1>4. Cardinality(1 .. k) = k
  <2> HIDE DEF k
  <2>1. Cardinality(1 .. k) = IF 1 > k THEN 0 ELSE k - 1 + 1
    BY <1>1, FS_Interval
  <2>2. QED
    BY <1>1, <2>1
<1>5. order \in Surjection(1 .. k, S)
  BY <1>3, <1>4, FS_Injection
<1> HIDE DEF k
<1>6. order \in Seq(S) /\ Len(order) = k
  BY <1>1, <1>2
<1>7. QED
  BY <1>5, <1>6 DEF Surjection

FiniteManaged == IsFiniteSet(managed)

(* The windows of the removed desktops, and what becomes of them.          *)
Leaving(w, n) == {c \in Clients : w[c].desk > n}

Gathered(w, n) ==
  [c \in Clients |-> IF w[c].desk > n THEN [w[c] EXCEPT !.desk = n] ELSE w[c]]

LEMMA LeavingFacts ==
  ASSUME NEW m \in Nat \ {0}, NEW n \in 1 .. m, NEW cur \in 1 .. n,
         NEW w \in WindowsOf(m), NEW f \in FocusChains(m), f.currentDesktop = cur,
         \A x \in Clients : Fits(f, w, m, x), ActiveOK(f, w, cur),
         NEW S, S = Leaving(w, n), NEW w2, w2 = Gathered(w, n)
  PROVE  /\ w2 \in WindowsOf(n) /\ f \in Half(m, n, w2, cur)
         /\ \A x \in S : w2[x].desk # 0
         /\ \A x \in Clients \ S : AtHome(f, w2, x)
<1>1. \A x \in Clients : /\ w[x] \in ClientStates(1 .. m) /\ w[x].desk \in Int
                         /\ x \notin Fickle => w[x].wantsTabFocus
  BY WindowType DEF ClientStates, OnAllDesktops
<1>2. \A x \in Clients \ S : w2[x] = w[x] /\ ~(w[x].desk > n)
  BY DEF Leaving, Gathered
<1>3. \A x \in S : w2[x] = [w[x] EXCEPT !.desk = n] /\ w[x].desk > n /\ x \in Clients
  BY DEF Leaving, Gathered
<1>4. n \in 1 .. n /\ n # 0
  OBVIOUS
<1>o. \A x \in S : \A d \in 1 .. n : ~isOnDesktop(w[x], d)
  <2> SUFFICES ASSUME NEW x \in S, NEW d \in 1 .. n PROVE w[x].desk \notin {d, OnAllDesktops}
    BY DEF isOnDesktop
  <2>1. w[x].desk \in Int /\ w[x].desk > n
    BY <1>1, <1>3
  <2>2. QED
    BY <2>1 DEF OnAllDesktops
<1>5. ASSUME NEW x \in Clients
      PROVE  /\ w2[x] \in ClientStates(1 .. n)
             /\ x \notin Fickle => w2[x].wantsTabFocus
  <2>1. CASE x \in S
    BY <1>1, <1>3, <1>4, <2>1 DEF ClientStates
  <2>2. CASE x \notin S
    BY <1>1, <1>2, <2>2 DEF ClientStates, OnAllDesktops
  <2>3. QED
    BY <2>1, <2>2
<1>6. DOMAIN w2 = Clients /\ w2 = [x \in Clients |-> w2[x]]
  BY DEF Gathered
<1>7. w2 \in WindowsOf(n)
  <2>1. \A x \in Clients : /\ w2[x] \in [desk : Int, minimized : BOOLEAN, wantsTabFocus : BOOLEAN]
                           /\ w2[x].desk \in 1 .. n \cup {0, OnAllDesktops}
    BY <1>5 DEF ClientStates, OnAllDesktops
  <2>2. w2 \in Windows
    BY <1>6, <2>1 DEF Windows
  <2>3. QED
    BY <1>5, <2>1, <2>2 DEF WindowsOf, FixedFocus
<1>8. \A x \in S : w2[x].desk = n /\ w2[x].desk # 0
  BY <1>1, <1>3, <1>4 DEF ClientStates
<1>9. \A d \in 1 .. n : d \in 1 .. m
  OBVIOUS
<1>10. ASSUME NEW x \in Clients PROVE Sound(f, w2, n, x)
  <2>1. Sound(f, w, m, x)
    BY DEF Fits
  <2>2. CASE x \in S
    <3>1. \A d \in 1 .. n : ~isOnDesktop(w[x], d)
      BY <1>o, <2>2
    <3>2. QED
      BY <1>8, <1>9, <2>1, <2>2, <3>1 DEF Sound
  <2>3. CASE x \notin S
    BY <1>2, <1>9, <2>1, <2>3 DEF Sound
  <2>4. QED
    BY <2>2, <2>3
<1>11. ActiveOK(f, w2, cur)
  <2>1. ASSUME f.activeClient # NoClient PROVE f.activeClient \in Clients \ S
    <3>1. f.activeClient \in Clients /\ isOnDesktop(w[f.activeClient], cur)
      BY <2>1 DEF FocusChains, ActiveOK
    <3>2. \A x \in S : ~isOnDesktop(w[x], cur)
      BY <1>o
    <3>3. QED
      BY <3>1, <3>2
  <2>2. QED
    BY <1>2, <2>1 DEF ActiveOK
<1>12. \A x \in Clients \ S : AtHome(f, w2, x)
  BY <1>2, OthersFit DEF Fits
<1>13. QED
  BY <1>7, <1>8, <1>10, <1>11, <1>12 DEF Half

LEMMA RemoveDesktopsKeeps ==
  ASSUME IInv, FiniteManaged, NEW n \in Desktops, RemoveDesktops(n)
  PROVE  WindowsInv' /\ \E c \in Clients \cup {NoClient} : OneMoves(c)
<1>1. /\ count \in Nat \ {0} /\ win \in WindowsOf(count) /\ fc \in FocusChains(count)
      /\ count \in 1 .. count /\ current \in 1 .. count /\ fc.currentDesktop = current
      /\ \A x \in Clients : Fits(fc, win, count, x)
      /\ ActiveOK(fc, win, current)
  BY WindowsInvFacts
<1>2. /\ n \in Nat \ {0} /\ n \in 1 .. count /\ count' = n
      /\ current' = IF current > n THEN n ELSE current
      /\ current' \in 1 .. n
  BY <1>1, DesktopsAssumption DEF RemoveDesktops, setCount, SmallerOf, Desktops
<1> DEFINE F(moving) == IF current > n THEN ChainsOnSwitch(fc, win, n, moving) ELSE fc
           W(moving) == IF current > n THEN WinsOnSwitch(win, n, moving) ELSE win
<1>3. PICK moving \in Movable :
        LET left == current > n
            f == IF left THEN ChainsOnSwitch(fc, win, n, moving) ELSE fc
            w == IF left THEN WinsOnSwitch(win, n, moving) ELSE win
            leaving == SetToSeqs({c \in Clients : w[c].desk > n})
            w2 == [c \in Clients |-> IF w[c].desk > n THEN [w[c] EXCEPT !.desk = n]
                                                      ELSE w[c]]
        IN  /\ win' = w2
            /\ \E order \in leaving :
                 \E g \in SentInOrder(f, w2, order, n, current') : fc' = resize(g, n)
  BY DEF RemoveDesktops
<1> DEFINE f == F(moving)
           w == W(moving)
           S == {c \in Clients : w[c].desk > n}
           w2 == [c \in Clients |-> IF w[c].desk > n THEN [w[c] EXCEPT !.desk = n]
                                    ELSE w[c]]
<1>4. win' = w2
  BY <1>3
<1>5. PICK order \in SetToSeqs(S) :
        \E g \in SentInOrder(f, w2, order, n, current') : fc' = resize(g, n)
  BY <1>3
<1>6. PICK g \in SentInOrder(f, w2, order, n, current') : fc' = resize(g, n)
  BY <1>5
<1>7. /\ moving \in Clients \cup {NoClient}
      /\ moving # NoClient => moving \in managed /\ isShown(win[moving])
  BY MovableShown
<1>8. /\ w \in WindowsOf(count) /\ \A x \in Clients \ {moving} : w[x] = win[x]
      /\ f \in FocusChains(count) /\ f.currentDesktop = current'
      /\ \A x \in Clients : Fits(f, w, count, x)
      /\ ActiveOK(f, w, current') /\ OthersSame(f, fc, moving, count)
  <2>1. CASE current > n
    <3>1. w = WinsOnSwitch(win, n, moving) /\ f = ChainsOnSwitch(fc, win, n, moving)
      BY <2>1
    <3>2. current' = n
      BY <1>2, <2>1
    <3>3. fc.activeClient # NoClient => Fits(fc, win, count, fc.activeClient)
      BY <1>1 DEF FocusChains
    <3> HIDE DEF f, w
    <3>4. QED
      BY <1>1, <1>2, <1>7, <3>1, <3>2, <3>3, Switched
  <2>2. CASE ~(current > n)
    BY <1>1, <1>2, <2>2, OthersSameEvery DEF ListsSame
  <2>3. QED
    BY <2>1, <2>2
<1> HIDE DEF f, w, F, W
<1>9. IsFiniteSet(S)
  <2>1. \A x \in Clients : w[x].desk > n => x \in managed
    <3>1. ASSUME NEW x \in Clients, w[x].desk > n PROVE x \in managed
      <4>1. CASE x = moving
        BY <1>7, <4>1, FocusChainAssumption
      <4>2. CASE x # moving
        <5>1. win[x].desk > n
          BY <1>8, <3>1, <4>2
        <5>2. QED
          BY <1>2, <5>1 DEF managed
      <4>3. QED
        BY <4>1, <4>2
    <3>2. QED
      BY <3>1
  <2>2. S \in SUBSET managed
    BY <2>1
  <2>3. IsFiniteSet(managed)
    BY DEF FiniteManaged
  <2> HIDE DEF S
  <2>4. QED
    BY <2>2, <2>3, FS_Subset
<1>10. S = Leaving(w, n) /\ S \subseteq Clients
  BY DEF Leaving
<1>11. w2 = Gathered(w, n)
  BY DEF Gathered
<1> HIDE DEF S, w2
<1>12. /\ w2 \in WindowsOf(n) /\ f \in Half(count, n, w2, current')
       /\ \A x \in S : w2[x].desk # 0
       /\ \A x \in Clients \ S : AtHome(f, w2, x)
  BY <1>1, <1>2, <1>8, <1>10, <1>11, LeavingFacts
<1>13. /\ order \in Seq(S)
       /\ \A x \in S : \E i \in 1 .. Len(order) : order[i] = x
  BY <1>9, ListedAll
<1>14. /\ order \in Seq(Clients) /\ \A i \in 1 .. Len(order) : w2[order[i]].desk # 0
       /\ \A i \in 1 .. Len(order) : order[i] \in S
  BY <1>10, <1>12, <1>13
<1>15. /\ g \in Half(count, n, w2, current')
       /\ \A i \in 1 .. Len(order) : AtHome(g, w2, order[i])
       /\ \A x \in Clients : AtHome(f, w2, x) => AtHome(g, w2, x)
       /\ OrderKept(g, f, S, count)
  BY <1>1, <1>2, <1>12, <1>14, SentInOrderFacts
<1>16. \A x \in Clients : Fits(g, w2, n, x)
  BY <1>12, <1>13, <1>15 DEF Half, Fits
<1>17. /\ g \in FocusChains(count) /\ g.currentDesktop = current'
       /\ ActiveOK(g, w2, current')
  BY <1>15 DEF Half
<1>18. n \in 1 .. n
  BY <1>2
<1>19. /\ fc' \in FocusChains(n) /\ fc'.currentDesktop = current'
       /\ \A x \in Clients : Fits(fc', w2, n, x)
       /\ ActiveOK(fc', w2, current') /\ \A M : OrderKept(fc', g, M, n)
  BY <1>1, <1>2, <1>6, <1>12, <1>16, <1>17, <1>18, ResizeFits
<1>20. OneMoves(moving)
  <2> DEFINE M == S \cup {moving}
  <2>1. SmallerOf(count, count') = n
    BY <1>1, <1>2 DEF SmallerOf
  <2>2. \A z \in Clients : z \in M /\ z # moving => win'[z].desk # win[z].desk
    <3> SUFFICES ASSUME NEW z \in S, z # moving PROVE win'[z].desk # win[z].desk
      OBVIOUS
    <3>1. z \in Clients /\ w[z].desk > n /\ w[z] = win[z]
      BY <1>8, <1>10 DEF Leaving
    <3>2. win'[z].desk = n
      BY <1>1, <1>4, <1>8, <1>11, <3>1 DEF Gathered, WindowsOf, Windows
    <3>3. QED
      BY <1>2, <3>1, <3>2
  <2>3. moving \in M /\ S \subseteq M
    OBVIOUS
  <2> HIDE DEF M
  <2>4. OrderKept(f, fc, M, count)
    BY <1>8, <2>3, OrderKeptEvery
  <2>5. OrderKept(g, f, M, count)
    BY <1>15, <2>3, SameOrderEvery DEF OrderKept
  <2>6. OrderKept(g, fc, M, count)
    BY <2>4, <2>5, OrderKeptEvery
  <2>7. \A d \in 1 .. n : d \in 1 .. count
    BY <1>1, <1>2
  <2>8. OrderKept(g, fc, M, n)
    BY <2>6, <2>7 DEF OrderKept
  <2>9. OrderKept(fc', fc, M, n)
    BY <1>19, <2>8, OrderKeptEvery
  <2>10. QED
    BY <2>1, <2>2, <2>9 DEF OneMoves
<1>21. QED
  BY <1>2, <1>4, <1>7, <1>12, <1>19, <1>20 DEF WindowsInv

------------------------------------------------------------------------------
(* The specification *)

LEMMA WindowsOfDomain == \A n : \A w \in WindowsOf(n) : DOMAIN w = Clients
  BY DEF WindowsOf, Windows

LEMMA MovedAlongOnly ==
  ASSUME NEW w, DOMAIN w = Clients, NEW d, NEW moving, NEW x \in Clients, x # moving
  PROVE  DOMAIN WinsOnSwitch(w, d, moving) = Clients /\ WinsOnSwitch(w, d, moving)[x] = w[x]
  BY DEF WinsOnSwitch

(* A step brings one more window at most. *)
LEMMA OneMore ==
  ASSUME IInv, [Next]_kwinVars
  PROVE  \E c : \A x \in Clients \ {c} : win'[x].desk # 0 => win[x].desk # 0
<1>1. /\ count \in Nat \ {0} /\ win \in WindowsOf(count) /\ DOMAIN win = Clients
  BY WindowsInvFacts, WindowsOfDomain
<1>2. ASSUME NEW moving \in Movable PROVE moving # NoClient => win[moving].desk # 0
  BY <1>2, MovableShown DEF managed
<1>3. ASSUME NEW c \in Clients,
             \/ Manage(c) \/ Release(c) \/ Minimize(c) \/ Unminimize(c) \/ HintsChange(c)
             \/ MapRequest(c)
             \/ \E d \in 1 .. count \cup {OnAllDesktops} : SendToDesktop(c, d)
             \/ \E b \in BOOLEAN : SetOnAllDesktops(c, b)
      PROVE  \A x \in Clients \ {c} : win'[x] = win[x]
  <2>1. CASE Manage(c)
    BY <1>1, <2>1 DEF Manage
  <2>2. CASE Release(c)
    BY <1>1, <2>2 DEF Release
  <2>3. CASE Minimize(c)
    BY <1>1, <2>3 DEF Minimize
  <2>4. CASE Unminimize(c)
    BY <1>1, <2>4 DEF Unminimize
  <2>5. CASE HintsChange(c)
    BY <1>1, <2>5 DEF HintsChange
  <2>6. CASE \E d \in 1 .. count \cup {OnAllDesktops} : SendToDesktop(c, d)
    BY <1>1, <2>6 DEF SendToDesktop
  <2>7. CASE \E b \in BOOLEAN : SetOnAllDesktops(c, b)
    BY <1>1, <2>7 DEF SetOnAllDesktops
  <2>8. CASE MapRequest(c)
    BY <1>1, <2>8 DEF MapRequest, Shown
  <2>9. QED
    BY <1>3, <2>1, <2>2, <2>3, <2>4, <2>5, <2>6, <2>7, <2>8
<1>a. ASSUME NEW c \in Clients, Activate(c) \/ MapRequestElsewhere(c)
      PROVE  \A x \in Clients \ {c} : win'[x].desk # 0 => win[x].desk # 0
  <2>1. \E moving \in Movable :
          \/ win' = Shown(WinsOnSwitch(win, win[c].desk, moving), c)
          \/ win' = WinsOnSwitch(Shown(win, c), win[c].desk, moving)
    BY <1>a DEF Activate, MapRequestElsewhere
  <2>2. PICK moving \in Movable :
          \/ win' = Shown(WinsOnSwitch(win, win[c].desk, moving), c)
          \/ win' = WinsOnSwitch(Shown(win, c), win[c].desk, moving)
    BY <2>1
  <2>3. \A w : DOMAIN w = Clients =>
          /\ DOMAIN Shown(w, c) = Clients
          /\ \A x \in Clients : x # c => Shown(w, c)[x] = w[x]
    BY DEF Shown
  <2>4. \A x \in Clients : x # moving /\ x # c => win'[x] = win[x]
    <3>1. CASE win' = Shown(WinsOnSwitch(win, win[c].desk, moving), c)
      BY <1>1, <2>3, <3>1, MovedAlongOnly
    <3>2. CASE win' = WinsOnSwitch(Shown(win, c), win[c].desk, moving)
      BY <1>1, <2>3, <3>2, MovedAlongOnly
    <3>3. QED
      BY <2>2, <3>1, <3>2
  <2>5. QED
    BY <1>2, <2>4, FocusChainAssumption
<1>4. ASSUME NEW c \in Clients, ManageElsewhere(c)
      PROVE  \A x \in Clients \ {c} : win'[x].desk # 0 => win[x].desk # 0
  <2>1. PICK cl \in ManagedStates(c), moving \in Movable :
          win' = WinsOnSwitch(With(win, c, cl), cl.desk, moving)
    BY <1>4 DEF ManageElsewhere, With
  <2>2. /\ DOMAIN With(win, c, cl) = Clients
        /\ \A x \in Clients \ {c} : With(win, c, cl)[x] = win[x]
    BY <1>1 DEF With
  <2>3. \A x \in Clients : x # moving => win'[x] = With(win, c, cl)[x]
    BY <2>1, <2>2, MovedAlongOnly
  <2>4. QED
    BY <1>2, <2>2, <2>3, FocusChainAssumption
<1>5. ASSUME NEW d \in Desktops, SwitchDesktop(d)
      PROVE  \A x \in Clients : win'[x].desk # 0 => win[x].desk # 0
  <2>1. PICK moving \in Movable : win' = WinsOnSwitch(win, d, moving)
    BY <1>5 DEF SwitchDesktop
  <2>2. \A x \in Clients : x # moving => win'[x] = win[x]
    BY <1>1, <2>1, MovedAlongOnly
  <2>3. QED
    BY <1>2, <2>2, FocusChainAssumption
<1>6. ASSUME NEW n \in Desktops, RemoveDesktops(n)
      PROVE  \A x \in Clients : win'[x].desk # 0 => win[x].desk # 0
  <2>1. PICK moving \in Movable :
          LET w == IF current > n THEN WinsOnSwitch(win, n, moving) ELSE win
          IN  win' = [c \in Clients |-> IF w[c].desk > n THEN [w[c] EXCEPT !.desk = n]
                                                         ELSE w[c]]
    BY <1>6 DEF RemoveDesktops
  <2> DEFINE w == IF current > n THEN WinsOnSwitch(win, n, moving) ELSE win
  <2>2. \A x \in Clients : x # moving => w[x] = win[x]
    BY <1>1, MovedAlongOnly
  <2>3. \A x \in Clients : win'[x] = IF w[x].desk > n THEN [w[x] EXCEPT !.desk = n] ELSE w[x]
    BY <2>1
  <2> HIDE DEF w
  <2>4. n \in Nat
    BY DesktopsAssumption DEF Desktops
  <2>5. \A x \in Clients : x # moving /\ win[x].desk = 0 => win'[x].desk = 0
    <3> SUFFICES ASSUME NEW x \in Clients, x # moving, win[x].desk = 0
                 PROVE  win'[x].desk = 0
      OBVIOUS
    <3>1. w[x].desk = 0
      BY <2>2
    <3>2. ~(w[x].desk > n)
      BY <2>4, <3>1
    <3>3. win'[x] = w[x]
      BY <2>3, <3>2
    <3>4. QED
      BY <3>1, <3>3
  <2>6. QED
    BY <1>2, <2>5, FocusChainAssumption
<1>7. ASSUME \/ \E c \in Clients : FocusIn(c) \/ RestackWindow(c)
             \/ FocusOut
             \/ \E n \in Desktops : AddDesktops(n)
             \/ UNCHANGED kwinVars
      PROVE  win' = win
  BY <1>7 DEF FocusIn, RestackWindow, FocusOut, AddDesktops, kwinVars
<1>8. QED
  BY <1>3, <1>a, <1>4, <1>5, <1>6, <1>7 DEF Next

LEMMA FiniteKeeps ==
  ASSUME IInv, FiniteManaged, [Next]_kwinVars
  PROVE  FiniteManaged'
<1>1. PICK c : \A x \in Clients \ {c} : win'[x].desk # 0 => win[x].desk # 0
  BY OneMore
<1>2. managed' \in SUBSET (managed \cup {c})
  BY <1>1 DEF managed
<1>3. IsFiniteSet(managed \cup {c})
  BY FS_AddElement DEF FiniteManaged
<1>4. IsFiniteSet(managed')
  BY <1>2, <1>3, FS_Subset
<1>5. QED
  BY <1>4 DEF FiniteManaged

LEMMA WindowsInit == Init => IInv /\ FiniteManaged
<1> SUFFICES ASSUME Init PROVE IInv /\ FiniteManaged
  OBVIOUS
<1>1. DesktopsValid /\ count \in Nat \ {0} /\ current \in 1 .. count
  BY DesktopsInitValid, DesktopsRange DEF Init
<1>2. /\ win = [c \in Clients |-> Unmanaged] /\ fc = FocusChainOf(count, current)
  BY DEF Init
<1>3. win \in WindowsOf(count) /\ \A x \in Clients : win[x].desk = 0
  BY <1>2 DEF WindowsOf, Windows, FixedFocus, Unmanaged
<1>4. [d \in 1 .. count |-> <<>>] \in [1 .. count -> Chains] /\ <<>> \in Chains
  BY EmptyChain
<1>5. /\ fc \in FocusChains(count) /\ fc.currentDesktop = current
      /\ fc.activeClient = NoClient /\ fc.mostRecentlyUsed = <<>>
      /\ \A d \in 1 .. count : fc.chains[d] = <<>>
  BY <1>1, <1>2, <1>4 DEF FocusChainOf, FocusChains
<1>6. \A x \in Clients : Fits(fc, win, count, x)
  BY <1>3, <1>5, EmptyChain DEF Fits, Sound, AtHome, Listed, contains
<1>7. ActiveOK(fc, win, current)
  BY <1>5 DEF ActiveOK
<1>8. managed = {}
  BY <1>3 DEF managed
<1>9. FiniteManaged
  BY <1>8, FS_EmptySet DEF FiniteManaged
<1>10. QED
  BY <1>1, <1>3, <1>5, <1>6, <1>7, <1>9 DEF IInv, WindowsInv

LEMMA WindowsStep == IInv /\ FiniteManaged /\ [Next]_kwinVars => IInv' /\ FiniteManaged'
<1> SUFFICES ASSUME IInv, FiniteManaged, [Next]_kwinVars PROVE IInv' /\ FiniteManaged'
  OBVIOUS
<1>1. DesktopsValid'
  BY KWinStepOfDesktops, DesktopsStepValid DEF IInv
<1>2. ASSUME NEW c \in Clients,
             \/ Manage(c) \/ ManageElsewhere(c) \/ Release(c) \/ FocusIn(c) \/ Minimize(c)
             \/ Unminimize(c) \/ HintsChange(c) \/ Activate(c) \/ MapRequest(c)
             \/ MapRequestElsewhere(c) \/ RestackWindow(c)
      PROVE  WindowsInv'
  BY <1>2, ManageKeeps, ManageElsewhereKeeps, ReleaseKeeps, FocusInKeeps, MinimizeKeeps,
     UnminimizeKeeps, HintsChangeKeeps, ActivateKeeps, MapRequestKeeps,
     MapRequestElsewhereKeeps, RestackWindowKeeps
<1>3. ASSUME NEW c \in Clients, NEW d \in 1 .. count \cup {OnAllDesktops}, SendToDesktop(c, d)
      PROVE  WindowsInv'
  BY <1>3, SendToDesktopKeeps
<1>4. ASSUME NEW c \in Clients, NEW b \in BOOLEAN, SetOnAllDesktops(c, b)
      PROVE  WindowsInv'
  BY <1>4, SetOnAllDesktopsKeeps
<1>5. ASSUME NEW n \in Desktops, SwitchDesktop(n) \/ AddDesktops(n) \/ RemoveDesktops(n)
      PROVE  WindowsInv'
  BY <1>5, SwitchDesktopKeeps, AddDesktopsKeeps, RemoveDesktopsKeeps
<1>6. ASSUME FocusOut PROVE WindowsInv'
  BY <1>6, FocusOutKeeps
<1>7. ASSUME UNCHANGED kwinVars PROVE WindowsInv'
  BY <1>7 DEF kwinVars, IInv, WindowsInv, ActiveOK, Fits, Sound, AtHome, home, Listed, contains
<1>8. WindowsInv'
  BY <1>2, <1>3, <1>4, <1>5, <1>6, <1>7 DEF Next
<1>9. QED
  BY <1>1, <1>8, FiniteKeeps DEF IInv

(* The inductive invariant: windows are listed where they are, and the     *)
(* active one is among those the user can see.                             *)
LEMMA AllHolds == Spec => [](IInv /\ FiniteManaged)
  BY WindowsInit, WindowsStep, PTL DEF Spec

LEMMA WindowsHold == Spec => []IInv
  BY AllHolds, PTL

(* The chains keep their shape, and the current desktop and all windows    *)
(* are in range, whatever windows and desktops come and go.                *)
THEOREM WindowsTyped == Spec => []TypeOK
<1>1. IInv => TypeOK
  <2> SUFFICES ASSUME IInv PROVE TypeOK
    OBVIOUS
  <2>1. /\ count \in Nat \ {0} /\ current \in 1 .. count
        /\ win \in WindowsOf(count)
        /\ fc \in FocusChains(count) /\ fc.currentDesktop = current
    BY WindowsInvFacts
  <2>2. DesktopsTypeOK /\ 1 .. count \subseteq Desktops
    BY DesktopsAssumption DEF IInv, DesktopsValid, DesktopsTypeOK, Desktops
  <2>3. win \in [Clients -> ClientStates(Desktops)]
    <3>1. \A x \in Clients : win[x] \in ClientStates(Desktops)
      BY <2>1, <2>2, WindowType DEF ClientStates
    <3>2. win = [x \in Clients |-> win[x]]
      BY <2>1 DEF WindowsOf, Windows
    <3>3. QED
      BY <3>1, <3>2
  <2>4. /\ fc.mostRecentlyUsed \in Seq(Clients)
        /\ fc.chains \in [1 .. count -> Seq(Clients)]
        /\ fc.activeClient \in Clients \cup {NoClient}
    BY <2>1 DEF FocusChains, Chains
  <2>5. QED
    BY <2>1, <2>2, <2>3, <2>4 DEF TypeOK
<1>2. QED
  BY <1>1, WindowsHold, PTL

(* The focus chains have one list for each desktop that there is, and know *)
(* which desktop is the current one (FocusChain::resize,                   *)
(* setCurrentDesktop).                                                     *)
THEOREM ChainsFollowDesktops == Spec => []FollowsDesktops
<1>1. IInv => FollowsDesktops
  BY WindowsInvFacts DEF FollowsDesktops, FocusChains
<1>2. QED
  BY <1>1, WindowsHold, PTL

(* A step leaves the order of the windows as it was, but for one and for   *)
(* those that are gathered from removed desktops or taken along in a       *)
(* switch (FocusChain::update, moveAfterClient, remove, resize).           *)
THEOREM OrderIsKept == Spec => OthersKeepOrder
<1> DEFINE Kept ==
      \E c \in Clients \cup {NoClient} :
       \A x, y \in {z \in Clients \ {c} : win'[z].desk = win[z].desk} :
         /\ InOrder(fc'.mostRecentlyUsed, x, y) <=> InOrder(fc.mostRecentlyUsed, x, y)
         /\ \A d \in 1 .. SmallerOf(count, count') :
              InOrder(fc'.chains[d], x, y) <=> InOrder(fc.chains[d], x, y)
<1>1. ASSUME IInv, FiniteManaged, Next
      PROVE  \E c \in Clients \cup {NoClient} : OneMoves(c)
  <2>1. ASSUME NEW c \in Clients,
               \/ Manage(c) \/ ManageElsewhere(c) \/ Release(c) \/ FocusIn(c) \/ Minimize(c)
               \/ Unminimize(c) \/ HintsChange(c) \/ MapRequest(c)
               \/ MapRequestElsewhere(c) \/ RestackWindow(c)
        PROVE  OneMoves(c)
    BY <1>1, <2>1, ManageKeeps, ManageElsewhereKeeps, ReleaseKeeps, FocusInKeeps,
       MinimizeKeeps, UnminimizeKeeps, HintsChangeKeeps, MapRequestKeeps,
       MapRequestElsewhereKeeps, RestackWindowKeeps
  <2>a. ASSUME NEW c \in Clients, Activate(c)
        PROVE  \E x \in Clients \cup {NoClient} : OneMoves(x)
    BY <1>1, <2>a, ActivateKeeps
  <2>2. ASSUME NEW c \in Clients,
               \/ \E d \in 1 .. count \cup {OnAllDesktops} : SendToDesktop(c, d)
               \/ \E b \in BOOLEAN : SetOnAllDesktops(c, b)
        PROVE  OneMoves(c)
    BY <1>1, <2>2, SendToDesktopKeeps, SetOnAllDesktopsKeeps
  <2>3. ASSUME NEW n \in Desktops, SwitchDesktop(n) \/ AddDesktops(n) \/ RemoveDesktops(n)
        PROVE  \E c \in Clients \cup {NoClient} : OneMoves(c)
    BY <1>1, <2>3, SwitchDesktopKeeps, AddDesktopsKeeps, RemoveDesktopsKeeps
  <2>4. ASSUME FocusOut PROVE \E c \in Clients \cup {NoClient} : OneMoves(c)
    BY <1>1, <2>4, FocusOutKeeps
  <2>5. QED
    BY <1>1, <2>1, <2>a, <2>2, <2>3, <2>4 DEF Next
<1>2. ASSUME IInv, FiniteManaged, Next PROVE Kept
  <2>1. PICK c \in Clients \cup {NoClient} : OneMoves(c)
    BY <1>1, <1>2
  <2>2. PICK M : /\ OrderKept(fc', fc, M, SmallerOf(count, count'))
                 /\ \A z \in Clients : z \in M /\ z # c => win'[z].desk # win[z].desk
    BY <2>1 DEF OneMoves
  <2>3. ASSUME NEW x \in {z \in Clients \ {c} : win'[z].desk = win[z].desk},
               NEW y \in {z \in Clients \ {c} : win'[z].desk = win[z].desk}
        PROVE  /\ InOrder(fc'.mostRecentlyUsed, x, y) <=> InOrder(fc.mostRecentlyUsed, x, y)
               /\ \A d \in 1 .. SmallerOf(count, count') :
                    InOrder(fc'.chains[d], x, y) <=> InOrder(fc.chains[d], x, y)
    <3>1. x \notin M /\ y \notin M
      BY <2>2
    <3>2. QED
      BY <2>2, <3>1 DEF OrderKept, SameOrder
  <2>4. QED
    BY <2>3
<1>3. IInv /\ FiniteManaged /\ [Next]_kwinVars => [Kept]_kwinVars
  BY <1>2
<1>4. Spec => [][Kept]_kwinVars
  BY <1>3, AllHolds, PTL DEF Spec
<1>5. QED
  BY <1>4 DEF OthersKeepOrder

LEMMA OnceFacts ==
  ASSUME NEW s \in Chains
  PROVE  Cardinality(ToSet(s)) = Len(s)
<1>1. /\ s \in Seq(Clients) /\ Len(s) \in Nat /\ DOMAIN s = 1 .. Len(s)
      /\ \A i, j \in 1 .. Len(s) : i # j => s[i] # s[j]
  BY DEF Chains
<1>2. ToSet(s) = {s[i] : i \in 1 .. Len(s)}
  BY <1>1 DEF ToSet
<1>3. s \in Surjection(1 .. Len(s), ToSet(s)) /\ s \in Injection(1 .. Len(s), ToSet(s))
  BY <1>1, <1>2 DEF Surjection, Injection, IsInjective
<1>4. IsFiniteSet(1 .. Len(s)) /\ Cardinality(1 .. Len(s)) = Len(s)
  <2> DEFINE n == Len(s)
  <2> HIDE DEF n
  <2>1. n \in Nat
    BY <1>1 DEF n
  <2>2. /\ IsFiniteSet(1 .. n)
        /\ Cardinality(1 .. n) = IF 1 > n THEN 0 ELSE n - 1 + 1
    BY <2>1, FS_Interval
  <2>3. Cardinality(1 .. n) = n
    BY <2>1, <2>2
  <2>4. QED
    BY <2>2, <2>3 DEF n
<1>5. Cardinality(ToSet(s)) = Cardinality(1 .. Len(s))
  BY <1>3, <1>4, FS_Surjection
<1>6. QED
  BY <1>4, <1>5

(* No chain names a window twice or one that is gone: kwin never follows a *)
(* pointer to a window that was destroyed (FocusChain::remove).            *)
THEOREM ChainsNameOnce == Spec => []ChainsOnce
<1>1. IInv => ChainsOnce
  <2> SUFFICES ASSUME IInv, NEW chain \in {fc.mostRecentlyUsed} \cup
                                          {fc.chains[d] : d \in 1 .. count}
               PROVE  ToSet(chain) \subseteq managed /\ Cardinality(ToSet(chain)) = Len(chain)
    BY DEF ChainsOnce
  <2>1. /\ fc \in FocusChains(count)
        /\ \A x \in Clients : Sound(fc, win, count, x)
    BY WindowsInvFacts
  <2>2. chain \in Chains
    BY <2>1 DEF FocusChains
  <2>3. \A x : Contains(chain, x) => Listed(fc, x) \/ \E d \in 1 .. count : contains(fc, x, d)
    BY DEF Listed, contains
  <2>4. \A x \in ToSet(chain) : Contains(chain, x)
    BY <2>2 DEF ToSet, Contains, Chains
  <2>5. \A x \in ToSet(chain) : x \in managed
    BY <2>1, <2>2, <2>3, <2>4, ChainMembers DEF Sound, managed
  <2>6. QED
    BY <2>2, <2>5, OnceFacts
<1>2. QED
  BY <1>1, WindowsHold, PTL

(* A window is in the chains of its own desktops only, with the tab box's  *)
(* list naming it, and in one of them for ever if it takes the focus for   *)
(* ever (FocusChain::update, moveAfterClient, resize).                     *)
THEOREM ChainsListTogether == Spec => []ListedTogether
<1>1. IInv => ListedTogether
  <2> SUFFICES ASSUME IInv, NEW c \in Clients
               PROVE  LET listed == {d \in 1 .. count : contains(fc, c, d)}
                      IN  /\ \A d \in listed : isOnDesktop(win[c], d)
                          /\ listed # {} => Contains(fc.mostRecentlyUsed, c)
                          /\ c \notin Fickle /\ Contains(fc.mostRecentlyUsed, c) => listed # {}
    BY DEF ListedTogether
  <2>1. /\ count \in Nat \ {0} /\ win \in WindowsOf(count)
        /\ Sound(fc, win, count, c) /\ AtHome(fc, win, c)
    BY WindowsInvFacts DEF Fits
  <2>2. win[c].desk # 0 => home(win, c) \in 1 .. count
    BY <2>1 DEF WindowsOf, home
  <2>3. QED
    BY <2>1, <2>2 DEF Sound, AtHome, Listed
<1>2. QED
  BY <1>1, WindowsHold, PTL

(* The active window is managed, not minimized and on the current desktop, *)
(* through all switches and removals (slotCurrentDesktopChanged,           *)
(* clientHidden).                                                          *)
THEOREM ActiveStaysShown == Spec => []ActiveIsShown
<1>1. IInv => ActiveIsShown
  BY WindowsInvFacts DEF ActiveIsShown, ActiveOK, active
<1>2. QED
  BY <1>1, WindowsHold, PTL

(* The active window, unless it is one that may cease to take the focus,   *)
(* is in the chain of the current desktop, although the chains of new      *)
(* desktops begin without it (FocusChain::resize, findClientToActivate-    *)
(* OnDesktop).                                                             *)
THEOREM ActiveStaysHere == Spec => []ActiveHere
<1>1. IInv => ActiveHere
  BY WindowsInvFacts DEF ActiveHere, ActiveOK, active
<1>2. QED
  BY <1>1, WindowsHold, PTL

(* The walk of the tab box goes down the list, and from its begin to its   *)
(* end.                                                                    *)
LEMMA WalkStep ==
  ASSUME NEW f, f.mostRecentlyUsed \in Chains, NEW j \in 1 .. Len(f.mostRecentlyUsed)
  PROVE  nextMostRecentlyUsed(f, f.mostRecentlyUsed[j]) =
           f.mostRecentlyUsed[IF j = 1 THEN Len(f.mostRecentlyUsed) ELSE j - 1]
<1> DEFINE list == f.mostRecentlyUsed
           I == {i \in 1 .. Len(list) : list[i] = list[j]}
           i0 == SelectInSeq(list, LAMBDA x : x = list[j])
<1>1. /\ list \in Seq(Clients) /\ Len(list) \in Nat /\ j \in 1 .. Len(list)
      /\ \A i, k \in 1 .. Len(list) : i # k => list[i] # list[k]
  BY DEF Chains
<1>2. nextMostRecentlyUsed(f, list[j]) =
        IF list = <<>> THEN NoClient
        ELSE IF i0 \in {0, 1} THEN Last(list) ELSE list[i0 - 1]
  BY DEF nextMostRecentlyUsed
<1>3. i0 = IF I # {} THEN Min(I) ELSE 0
  BY DEF SelectInSeq
<1> HIDE DEF list, i0
<1>4. j \in I /\ I \in SUBSET (1 .. Len(list))
  BY <1>1
<1>5. \A i \in I : i = j
  BY <1>1
<1>6. i0 = j
  <2> HIDE DEF I
  <2>1. Min(I) \in I
    BY <1>1, <1>4, FirstOfSome
  <2>2. QED
    BY <1>3, <1>4, <1>5, <2>1
<1>7. list # <<>> /\ Last(list) = list[Len(list)]
  BY <1>1 DEF Last
<1>8. nextMostRecentlyUsed(f, list[j]) = list[IF j = 1 THEN Len(list) ELSE j - 1]
  BY <1>1, <1>2, <1>6, <1>7
<1>9. QED
  BY <1>8 DEF list

(* The place in a list of n windows after k steps from place j. *)
Place(j, n, k) == IF k < j THEN j - k ELSE j - k + n

LEMMA WalkFacts ==
  ASSUME NEW f, f.mostRecentlyUsed \in Chains, NEW j \in 1 .. Len(f.mostRecentlyUsed)
  PROVE  LET list == f.mostRecentlyUsed
             walk[k \in 0 .. Len(list)] ==
               IF k = 0 THEN list[j] ELSE nextMostRecentlyUsed(f, walk[k - 1])
         IN  \A k \in 0 .. Len(list) : walk[k] = list[Place(j, Len(list), k)]
<1> DEFINE list == f.mostRecentlyUsed
           n == Len(list)
           walk == CHOOSE walk : walk = [k \in 0 .. n |->
                     IF k = 0 THEN list[j] ELSE nextMostRecentlyUsed(f, walk[k - 1])]
           F == [k \in 0 .. n |-> list[Place(j, n, k)]]
<1>1. n \in Nat /\ j \in 1 .. n
  BY DEF Chains
<1>2. /\ \A i \in 1 .. n :
           nextMostRecentlyUsed(f, list[i]) = list[IF i = 1 THEN n ELSE i - 1]
  BY WalkStep
<1> SUFFICES \A k \in 0 .. n : walk[k] = list[Place(j, n, k)]
  OBVIOUS
<1> HIDE DEF list, n
<1>3. Place(j, n, 0) = j
  BY <1>1 DEF Place
<1>4. ASSUME NEW k \in 1 .. n
      PROVE  /\ k - 1 \in 0 .. n /\ Place(j, n, k - 1) \in 1 .. n
             /\ Place(j, n, k) = IF Place(j, n, k - 1) = 1 THEN n ELSE Place(j, n, k - 1) - 1
  BY <1>1 DEF Place
<1>5. \A k \in 1 .. n :
        list[Place(j, n, k)] = nextMostRecentlyUsed(f, list[Place(j, n, k - 1)])
  <2> TAKE k \in 1 .. n
  <2> DEFINE i == Place(j, n, k - 1)
  <2>1. i \in 1 .. n /\ Place(j, n, k) = IF i = 1 THEN n ELSE i - 1
    BY <1>4
  <2> HIDE DEF i
  <2>2. nextMostRecentlyUsed(f, list[i]) = list[Place(j, n, k)]
    BY <1>2, <2>1
  <2>3. QED
    BY <2>2 DEF i
<1>6. F = [k \in 0 .. n |->
             IF k = 0 THEN list[j] ELSE nextMostRecentlyUsed(f, F[k - 1])]
  <2>1. ASSUME NEW k \in 0 .. n
        PROVE  list[Place(j, n, k)] =
                 IF k = 0 THEN list[j] ELSE nextMostRecentlyUsed(f, F[k - 1])
    <3>1. CASE k = 0
      BY <1>3, <3>1
    <3>2. CASE k # 0
      <4>1. k \in 1 .. n /\ k - 1 \in 0 .. n
        BY <1>1, <3>2
      <4>2. F[k - 1] = list[Place(j, n, k - 1)]
        BY <4>1
      <4> HIDE DEF F
      <4>3. QED
        BY <1>5, <3>2, <4>1, <4>2
    <3>3. QED
      BY <3>1, <3>2
  <2>2. QED
    BY <2>1, Zenon
<1>7. walk = [k \in 0 .. n |->
                IF k = 0 THEN list[j] ELSE nextMostRecentlyUsed(f, walk[k - 1])]
  <2> HIDE DEF F
  <2>1. QED
    BY <1>6
<1> HIDE DEF walk, F
<1>8. walk[0] = list[j] /\ \A k \in 1 .. n : walk[k] = nextMostRecentlyUsed(f, walk[k - 1])
  <2>1. \A k \in 0 .. n :
          walk[k] = IF k = 0 THEN list[j] ELSE nextMostRecentlyUsed(f, walk[k - 1])
    BY <1>7, Zenon
  <2>2. QED
    BY <1>1, <2>1
<1> DEFINE wrong == {k \in 0 .. n : walk[k] # list[Place(j, n, k)]}
<1>9. ASSUME wrong # {} PROVE FALSE
  <2>1. wrong \in SUBSET Nat
    OBVIOUS
  <2>2. PICK k \in wrong : \A i \in wrong : ~(i < k)
    <3> HIDE DEF wrong
    <3>1. QED
      BY <1>9, <2>1, LeastNumber
  <2>3. k \in 1 .. n
    BY <1>1, <1>3, <1>8, <2>2
  <2>4. k - 1 \in 0 .. n /\ k - 1 \notin wrong
    BY <1>1, <2>2, <2>3
  <2>5. walk[k - 1] = list[Place(j, n, k - 1)]
    BY <2>4
  <2>6. walk[k] = list[Place(j, n, k)]
    BY <1>5, <1>8, <2>3, <2>5
  <2>7. QED
    BY <2>2, <2>6
<1>10. QED
  BY <1>9

(* The walk of the tab box sees every window of the list, whatever their   *)
(* number, and ends where it began (FocusChain::nextMostRecentlyUsed, on   *)
(* which the loop of TabBox::ClientModel relies).                          *)
THEOREM WalkComesBack == Spec => []WalkSeesAll
<1>1. IInv => WalkSeesAll
  <2> SUFFICES ASSUME IInv, NEW start \in ToSet(fc.mostRecentlyUsed)
               PROVE  LET list == fc.mostRecentlyUsed
                          walk[k \in 0 .. Len(list)] ==
                            IF k = 0 THEN start ELSE nextMostRecentlyUsed(fc, walk[k - 1])
                      IN  /\ {walk[k] : k \in 1 .. Len(list)} = ToSet(list)
                          /\ walk[Len(list)] = start
    BY DEF WalkSeesAll
  <2> DEFINE list == fc.mostRecentlyUsed
             n == Len(list)
             walk == CHOOSE walk : walk = [k \in 0 .. n |->
                       IF k = 0 THEN start ELSE nextMostRecentlyUsed(fc, walk[k - 1])]
  <2>1. list \in Chains
    BY WindowsInvFacts DEF FocusChains
  <2>2. n \in Nat /\ ToSet(list) = {list[i] : i \in 1 .. n}
    BY <2>1 DEF Chains, ToSet
  <2>3. PICK j \in 1 .. n : start = list[j]
    BY <2>2
  <2>4. \A k \in 0 .. n : walk[k] = list[Place(j, n, k)]
    BY <2>1, <2>3, WalkFacts
  <2> SUFFICES {walk[k] : k \in 1 .. n} = ToSet(list) /\ walk[n] = start
    OBVIOUS
  <2> HIDE DEF list, n, walk
  <2>5. \A k \in 1 .. n : k \in 0 .. n /\ Place(j, n, k) \in 1 .. n
    BY <2>2 DEF Place
  <2>6. \A i \in 1 .. n : Place(j, n, Place(j, n, i)) = i /\ Place(j, n, i) \in 0 .. n
    BY <2>2 DEF Place
  <2>7. n \in 1 .. n /\ Place(j, n, n) = j
    BY <2>2 DEF Place
  <2>8. \A k \in 1 .. n : walk[k] \in ToSet(list)
    BY <2>2, <2>4, <2>5
  <2>9. \A i \in 1 .. n : list[i] = walk[Place(j, n, i)]
    BY <2>4, <2>6
  <2>10. \A x \in ToSet(list) : \E k \in 1 .. n : x = walk[k]
    BY <2>2, <2>5, <2>9
  <2>11. walk[n] = start
    BY <2>3, <2>4, <2>5, <2>7
  <2>12. QED
    BY <2>8, <2>10, <2>11
<1>2. QED
  BY <1>1, WindowsHold, PTL
==============================================================================
