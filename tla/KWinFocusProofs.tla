---------------------------- MODULE KWinFocusProofs ----------------------------
(***************************************************************************)
(* What is proved of the virtual desktops of kwin, for any number of them  *)
(* and any windows.  DesktopsValid is inductive; BackIsPrevious follows    *)
(* from it, and both carry over to KWinFocus because each of its steps is, *)
(* to the desktops, one of VirtualDesktops or none.                        *)
(***************************************************************************)
EXTENDS KWinFocus, WellFoundedInduction, TLAPS

(* A set of numbers that is not empty has a least one.                     *)
LEMMA LeastNumber ==
  ASSUME NEW S \in SUBSET Nat, S # {}
  PROVE  \E m \in S : \A k \in S : ~(k < m)
<1>1. PICK m \in S : \A k \in S : <<k, m>> \notin OpToRel(<, Nat)
  BY WFMin, NatLessThanWellFounded, Zenon
<1>2. \A k \in S : k < m => <<k, m>> \in OpToRel(<, Nat)
  BY Zenon DEF OpToRel
<1>3. QED
  BY <1>1, <1>2

(* The place of a desktop in a chain that has it is the first of them.     *)
LEMMA FirstPlace ==
  ASSUME NEW s, NEW d, Len(s) \in Nat, InDesktopChain(s, d)
  PROVE  /\ IndexOfDesktop(s, d) \in 1 .. Len(s)
         /\ s[IndexOfDesktop(s, d)] = d
         /\ \A j \in 1 .. IndexOfDesktop(s, d) - 1 : s[j] # d
<1> DEFINE places == {i \in 1 .. Len(s) : s[i] = d}
<1>1. places \in SUBSET Nat /\ places # {}
  BY DEF InDesktopChain
<1>2. PICK m \in places : \A k \in places : ~(k < m)
  BY <1>1, LeastNumber
<1>3. /\ m \in 1 .. Len(s) /\ s[m] = d
      /\ \A j \in 1 .. m - 1 : s[j] # d
  BY <1>2
<1>4. QED
  BY <1>3 DEF IndexOfDesktop

(* The chains of n desktops that exist.                                    *)
ChainsOf(n) == [1 .. n -> 1 .. n]

(* Adding a desktop keeps the length and names existing desktops, this one *)
(* first.                                                                  *)
LEMMA AddDesktopFacts ==
  ASSUME NEW n \in Nat, NEW s \in ChainsOf(n), NEW d \in 1 .. n
  PROVE  AddDesktop(s, d) \in ChainsOf(n) /\ AddDesktop(s, d)[1] = d
<1>1. Len(s) = n
  BY DEF ChainsOf
<1> DEFINE index == IF InDesktopChain(s, d) THEN IndexOfDesktop(s, d) ELSE Len(s)
           new == [i \in 1 .. n |-> IF i = 1 THEN d
                                    ELSE IF i <= index THEN s[i - 1] ELSE s[i]]
<1>2. AddDesktop(s, d) = new
  BY <1>1 DEF AddDesktop
<1>3. \A i \in 1 .. n : s[i] \in 1 .. n /\ (i # 1 => s[i - 1] \in 1 .. n)
  BY DEF ChainsOf
<1> HIDE DEF index
<1>4. new[1] = d
  OBVIOUS
<1>5. new \in ChainsOf(n)
  BY <1>3 DEF ChainsOf
<1> HIDE DEF new
<1>6. QED
  BY <1>2, <1>4, <1>5

(* The same as a fact about every chain.                                   *)
LEMMA AddDesktopEvery ==
  \A n \in Nat : \A s \in ChainsOf(n) : \A d \in 1 .. n :
     AddDesktop(s, d) \in ChainsOf(n) /\ AddDesktop(s, d)[1] = d
  BY AddDesktopFacts

(* A resized chain is as long as asked for and names no desktop beyond.    *)
LEMMA ResizeFacts ==
  ASSUME NEW m \in Nat \ {0}, NEW s \in ChainsOf(m), NEW n \in Nat \ {0}
  PROVE  /\ ResizeDesktopChain(s, n) \in ChainsOf(n)
         /\ ResizeDesktopChain(s, n)[1] = SmallerOf(s[1], n)
<1>1. Len(s) = m
  BY DEF ChainsOf
<1>2. \A i \in 1 .. m : s[i] \in 1 .. m
  BY DEF ChainsOf
<1>3. CASE n < m
  BY <1>1, <1>2, <1>3 DEF ResizeDesktopChain, SmallerOf, ChainsOf
<1>4. CASE ~(n < m)
  <2>1. ResizeDesktopChain(s, n) = [i \in 1 .. n |-> IF i <= m THEN s[i] ELSE i]
    BY <1>1, <1>4 DEF ResizeDesktopChain
  <2>2. \A i \in 1 .. n : (IF i <= m THEN s[i] ELSE i) \in 1 .. n
    BY <1>2, <1>4
  <2>3. SmallerOf(s[1], n) = s[1]
    BY <1>2, <1>4 DEF SmallerOf
  <2>4. QED
    BY <2>1, <2>2, <2>3 DEF ChainsOf
<1>5. QED
  BY <1>3, <1>4

LEMMA ResizeEvery ==
  \A m \in Nat \ {0} : \A s \in ChainsOf(m) : \A n \in Nat \ {0} :
     /\ ResizeDesktopChain(s, n) \in ChainsOf(n)
     /\ ResizeDesktopChain(s, n)[1] = SmallerOf(s[1], n)
  BY ResizeFacts

(* DesktopsValid in the form the steps need.                               *)
LEMMA DesktopsRange ==
  DesktopsValid => /\ count \in Desktops /\ count \in Nat \ {0}
                   /\ current \in 1 .. count
                   /\ desktopChain \in ChainsOf(count)
                   /\ desktopChain[1] = current
<1>1. \A c \in 1 .. MaxDesktops : \A s \in [1 .. c -> 1 .. MaxDesktops] :
        (\A i \in 1 .. c : s[i] <= c) => s \in ChainsOf(c)
  BY DesktopsAssumption DEF ChainsOf
<1>2. QED
  BY <1>1, DesktopsAssumption DEF DesktopsValid, DesktopsTypeOK, Desktops

(* ... and in which they give it back.                                     *)
LEMMA DesktopsRangeNext ==
  ASSUME count' \in Desktops, current' \in 1 .. count',
         desktopChain' \in ChainsOf(count'),
         desktopChain'[1] = current'
  PROVE  DesktopsValid'
<1>1. \A c \in 1 .. MaxDesktops : \A s \in ChainsOf(c) :
        s \in [1 .. c -> 1 .. MaxDesktops] /\ \A i \in 1 .. c : s[i] <= c
  BY DesktopsAssumption DEF ChainsOf
<1>2. count' \in 1 .. MaxDesktops /\ current' \in 1 .. MaxDesktops /\ current' <= count'
  BY DesktopsAssumption DEF Desktops
<1>3. desktopChain' \in [1 .. count' -> 1 .. MaxDesktops]
      /\ \A i \in 1 .. count' : desktopChain'[i] <= count'
  BY <1>1, <1>2
<1>4. QED
  BY <1>2, <1>3 DEF DesktopsValid, DesktopsTypeOK, Desktops

------------------------------------------------------------------------------
(* The desktops alone *)

LEMMA DesktopsInitValid == DesktopsInit => DesktopsValid
  BY DesktopsAssumption DEF DesktopsInit, DesktopsValid, DesktopsTypeOK, Desktops

(* setCurrent keeps the chain valid and puts the new desktop first.        *)
LEMMA SetCurrentValid ==
  ASSUME DesktopsValid, NEW d, setCurrent(d)
  PROVE  DesktopsValid'
<1>1. /\ count \in Nat /\ count \in Desktops
      /\ desktopChain \in ChainsOf(count)
  BY DesktopsRange
<1>2. d \in 1 .. count /\ current' = d /\ count' = count
      /\ desktopChain' = AddDesktop(desktopChain, d)
  BY DEF setCurrent
<1>3. desktopChain' \in ChainsOf(count') /\ desktopChain'[1] = current'
  <2>1. /\ AddDesktop(desktopChain, d) \in ChainsOf(count)
        /\ AddDesktop(desktopChain, d)[1] = d
    BY <1>1, <1>2, AddDesktopEvery
  <2>2. QED
    BY <1>2, <2>1
<1>4. count' \in Desktops /\ current' \in 1 .. count'
  BY <1>1, <1>2
<1>5. QED
  BY <1>3, <1>4, DesktopsRangeNext

(* setCount: the chain is resized after the desktop that remains was added.*)
LEMMA SetCountValid ==
  ASSUME DesktopsValid, NEW n, setCount(n)
  PROVE  DesktopsValid'
<1> DEFINE added == IF current > n THEN AddDesktop(desktopChain, n) ELSE desktopChain
<1>1. /\ count \in Nat \ {0} /\ count \in Desktops
      /\ current \in 1 .. count
      /\ desktopChain \in ChainsOf(count)
      /\ desktopChain[1] = current
  BY DesktopsRange
<1>2. /\ n \in Nat \ {0} /\ n \in Desktops /\ count' = n
      /\ current' = SmallerOf(current, n)
      /\ desktopChain' = ResizeDesktopChain(added, n)
  BY DesktopsAssumption DEF setCount, Desktops
<1>3. /\ added \in ChainsOf(count)
      /\ SmallerOf(added[1], n) = SmallerOf(current, n)
  <2>1. CASE current > n
    <3>1. n \in 1 .. count
      BY <1>1, <1>2, <2>1
    <3>2. /\ added \in ChainsOf(count) /\ added[1] = n
      BY <1>1, <2>1, <3>1, AddDesktopEvery
    <3>3. SmallerOf(added[1], n) = SmallerOf(current, n)
      BY <1>1, <1>2, <2>1, <3>2 DEF SmallerOf
    <3> HIDE DEF added
    <3>4. QED
      BY <3>2, <3>3
  <2>2. CASE ~(current > n)
    <3>1. added = desktopChain
      BY <2>2
    <3> HIDE DEF added
    <3>2. QED
      BY <1>1, <3>1
  <2>3. QED
    BY <2>1, <2>2
<1> HIDE DEF added
<1>4. /\ desktopChain' \in ChainsOf(n)
      /\ desktopChain'[1] = current'
  BY <1>1, <1>2, <1>3, ResizeEvery
<1>5. current' \in 1 .. n
  BY <1>1, <1>2 DEF SmallerOf
<1>6. /\ count' \in Desktops /\ current' \in 1 .. count'
      /\ desktopChain' \in ChainsOf(count')
      /\ desktopChain'[1] = current'
  BY <1>2, <1>4, <1>5
<1>7. QED
  BY <1>6, DesktopsRangeNext

LEMMA DesktopsStepValid == DesktopsValid /\ [DesktopsNext]_desktopVars => DesktopsValid'
<1> SUFFICES ASSUME DesktopsValid, [DesktopsNext]_desktopVars PROVE DesktopsValid'
  OBVIOUS
<1>1. CASE DesktopsNext
  BY <1>1, SetCurrentValid, SetCountValid DEF DesktopsNext
<1>2. CASE UNCHANGED desktopVars
  BY <1>2 DEF desktopVars, DesktopsValid, DesktopsTypeOK, Desktops
<1>3. QED
  BY <1>1, <1>2

(* Every chain the tab box keeps of the desktops names existing desktops   *)
(* only and begins with the current one (DesktopChain::add and resize).    *)
THEOREM DesktopsStayValid == DesktopsSpec => []DesktopsValid
  BY DesktopsInitValid, DesktopsStepValid, PTL DEF DesktopsSpec
(* In the chain to which d was added, the one that was first follows it.   *)
LEMMA AddThenNext ==
  ASSUME NEW n \in Nat, NEW s \in ChainsOf(n), NEW d \in 1 .. n, d # s[1]
  PROVE  NextDesktop(AddDesktop(s, d), d) = s[1]
<1> DEFINE index == IF InDesktopChain(s, d) THEN IndexOfDesktop(s, d) ELSE Len(s)
           new == AddDesktop(s, d)
<1>1. s \in [1 .. n -> 1 .. n] /\ Len(s) = n /\ n >= 2
  BY DEF ChainsOf
<1>2. index \in 2 .. n
  <2>1. CASE InDesktopChain(s, d)
    BY <1>1, <2>1, FirstPlace
  <2>2. CASE ~InDesktopChain(s, d)
    BY <1>1, <2>2
  <2>3. QED
    BY <2>1, <2>2
<1>3. new = [i \in 1 .. n |-> IF i = 1 THEN d ELSE IF i <= index THEN s[i - 1] ELSE s[i]]
  BY <1>1 DEF AddDesktop
<1> HIDE DEF index
<1>4. new[1] = d /\ new[2] = s[1] /\ Len(new) = n
  BY <1>1, <1>2, <1>3
<1> HIDE DEF new
<1>5. InDesktopChain(new, d)
  BY <1>1, <1>4 DEF InDesktopChain
<1>6. IndexOfDesktop(new, d) = 1
  <2>1. /\ IndexOfDesktop(new, d) \in 1 .. n
        /\ \A j \in 1 .. IndexOfDesktop(new, d) - 1 : new[j] # d
    BY <1>4, <1>5, FirstPlace
  <2>2. QED
    BY <1>4, <2>1
<1>7. NextDesktop(new, d) = s[1]
  BY <1>1, <1>4, <1>5, <1>6 DEF NextDesktop
<1>8. QED
  BY <1>7 DEF new

LEMMA AddThenNextEvery ==
  \A n \in Nat : \A s \in ChainsOf(n) : \A d \in 1 .. n :
     d # s[1] => NextDesktop(AddDesktop(s, d), d) = s[1]
  BY AddThenNext

LEMMA StepGoesBack ==
  ASSUME DesktopsValid, [DesktopsNext]_desktopVars
  PROVE  [current' # current /\ count' = count
            => NextDesktop(desktopChain', current') = current]_desktopVars
<1> SUFFICES ASSUME DesktopsNext, current' # current, count' = count
             PROVE  NextDesktop(desktopChain', current') = current
  OBVIOUS
<1>1. count \in Nat /\ desktopChain \in ChainsOf(count) /\ desktopChain[1] = current
  BY DesktopsRange
<1>2. PICK d \in Desktops : setCurrent(d)
  BY DEF DesktopsNext, setCount
<1>3. d \in 1 .. count /\ d # current /\ current' = d
      /\ desktopChain' = AddDesktop(desktopChain, d)
  BY <1>2 DEF setCurrent
<1>4. NextDesktop(AddDesktop(desktopChain, d), d) = current
  BY <1>1, <1>3, AddThenNextEvery
<1>5. QED
  BY <1>3, <1>4

(* After a switch the next desktop of the chain is the one that was left,  *)
(* also when removals have left repetitions (DesktopChain::next, add).     *)
THEOREM DesktopsGoBack == DesktopsSpec => BackIsPrevious
<1>1. DesktopsValid /\ [DesktopsNext]_desktopVars
        => [current' # current /\ count' = count
              => NextDesktop(desktopChain', current') = current]_desktopVars
  BY StepGoesBack
<1>2. QED
  BY <1>1, DesktopsStayValid, PTL DEF DesktopsSpec, BackIsPrevious

------------------------------------------------------------------------------
(* The desktops among the windows *)

LEMMA KWinStepOfDesktops ==
  DesktopsValid /\ [Next]_kwinVars => [DesktopsNext]_desktopVars
<1> SUFFICES ASSUME DesktopsValid, [Next]_kwinVars PROVE [DesktopsNext]_desktopVars
  OBVIOUS
<1>1. ASSUME NEW c \in Clients, Manage(c) \/ Release(c) \/ FocusIn(c) \/ FocusOut
                                \/ Minimize(c) \/ Unminimize(c) \/ HintsChange(c)
                                \/ MapRequest(c) \/ RestackWindow(c)
      PROVE  UNCHANGED desktopVars
  BY <1>1 DEF Manage, Release, FocusIn, FocusOut, Minimize, Unminimize, HintsChange,
              MapRequest, RestackWindow
<1>2. ASSUME FocusOut PROVE UNCHANGED desktopVars
  BY <1>2 DEF FocusOut
<1>3. ASSUME NEW c, NEW d, SendToDesktop(c, d) PROVE UNCHANGED desktopVars
  BY <1>3 DEF SendToDesktop
<1>4. ASSUME NEW c, NEW b, SetOnAllDesktops(c, b) PROVE UNCHANGED desktopVars
  BY <1>4 DEF SetOnAllDesktops
<1>5. ASSUME NEW c \in Clients,
             ManageElsewhere(c) \/ Activate(c) \/ MapRequestElsewhere(c)
      PROVE  DesktopsNext
  <2>1. PICK d : setCurrent(d)
    BY <1>5 DEF ManageElsewhere, Activate, MapRequestElsewhere
  <2>2. d \in Desktops
    BY <2>1, DesktopsAssumption DEF setCurrent, DesktopsValid, DesktopsTypeOK, Desktops
  <2>3. QED
    BY <2>1, <2>2 DEF DesktopsNext
<1>6. ASSUME NEW d \in Desktops, SwitchDesktop(d) \/ AddDesktops(d) \/ RemoveDesktops(d)
      PROVE  DesktopsNext
  BY <1>6 DEF SwitchDesktop, AddDesktops, RemoveDesktops, DesktopsNext
<1>7. ASSUME UNCHANGED kwinVars PROVE UNCHANGED desktopVars
  BY <1>7 DEF kwinVars, desktopVars
<1>8. QED
  BY <1>1, <1>2, <1>3, <1>4, <1>5, <1>6, <1>7 DEF Next

(* Whatever windows do, to its desktops kwin is VirtualDesktops: every     *)
(* step of the windows' specification is a step of theirs or none.         *)
THEOREM ImplementsDesktops == Spec => DesktopsSpec
<1>1. Init => DesktopsInit
  BY DEF Init
<1>2. QED
  BY <1>1, DesktopsInitValid, DesktopsStepValid, KWinStepOfDesktops, PTL
     DEF Spec, DesktopsSpec

(* The chain of desktops stays valid while windows come and go, are moved  *)
(* and activated (DesktopChain, VirtualDesktopManager).                    *)
THEOREM KWinDesktopsValid == Spec => []DesktopsValid
  BY ImplementsDesktops, DesktopsStayValid, PTL

(* The way back to the previous desktop is open among windows, too.        *)
THEOREM KWinGoesBack == Spec => BackIsPrevious
  BY ImplementsDesktops, DesktopsGoBack, PTL
==============================================================================
