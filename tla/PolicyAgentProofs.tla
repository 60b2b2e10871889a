-------------------------- MODULE PolicyAgentProofs --------------------------
(***************************************************************************)
(* Proofs about PolicyAgent, for any services and any number of            *)
(* inhibitions: its tables agree, and its listeners know what is           *)
(* unavailable.                                                            *)
(***************************************************************************)
EXTENDS PolicyAgent, TLAPS

AgentInv == AgentTypeOK /\ TablesAgree /\ AnnouncedIsTrue

(* An inhibition takes one new cookie into the tables. *)
LEMMA AddKeepsTypes ==
  ASSUME AgentTypeOK, NEW types \in SUBSET Policies, NEW s \in Services,
         AddInhibition(types, s)
  PROVE  AgentTypeOK'
<1> USE PolicyAgentAssumption DEF AgentTypeOK, Cookies
<1> DEFINE cookie == lastCookie + 1
<1>1. cookie \in Cookies /\ lastCookie' = cookie
  BY DEF AddInhibition
<1>2. held' \subseteq 1 .. lastCookie'
  BY <1>1 DEF AddInhibition
<1>3. cookieToBusService' \in [Cookies -> Services \cup {NoService}]
  BY <1>1 DEF AddInhibition
<1>4. typesToCookie' \in [Policies -> SUBSET Cookies]
  BY <1>1 DEF AddInhibition
<1>5. watched' \subseteq Services
  BY DEF AddInhibition
<1>6. announced' \subseteq Policies
  BY DEF AddInhibition, unavailablePolicies
<1> QED
  BY <1>1, <1>2, <1>3, <1>4, <1>5, <1>6

LEMMA AddKeepsTables ==
  ASSUME AgentTypeOK, TablesAgree, NEW types \in SUBSET Policies, NEW s \in Services,
         AddInhibition(types, s)
  PROVE  TablesAgree'
<1> USE PolicyAgentAssumption DEF AgentTypeOK, Cookies
<1> DEFINE cookie == lastCookie + 1
<1>1. cookie \in Cookies /\ cookie \notin held
  BY DEF AddInhibition
<1>2. held' = held \cup {cookie} /\ watched' = watched \cup {s}
  BY DEF AddInhibition
<1>3. \A c \in Cookies : cookieToBusService'[c] = IF c = cookie THEN s ELSE cookieToBusService[c]
  BY DEF AddInhibition
<1>4. \A p \in Policies : typesToCookie'[p] = IF p \in Implied(types)
                                              THEN typesToCookie[p] \cup {cookie}
                                              ELSE typesToCookie[p]
  BY DEF AddInhibition
<1>5. held' = {c \in Cookies : cookieToBusService'[c] # NoService}
  BY <1>1, <1>2, <1>3 DEF TablesAgree
<1>6. watched' = {cookieToBusService'[c] : c \in held'}
  BY <1>1, <1>2, <1>3 DEF TablesAgree
<1>7. \A p \in Policies : typesToCookie'[p] \subseteq held'
  BY <1>2, <1>4 DEF TablesAgree
<1>8. typesToCookie'["ChangeScreenSettings"] \subseteq typesToCookie'["InterruptSession"]
  BY <1>4 DEF TablesAgree, Implied, Policies
<1> QED
  BY <1>5, <1>6, <1>7, <1>8 DEF TablesAgree

LEMMA AddKeepsAnnounced ==
  ASSUME AgentTypeOK, AnnouncedIsTrue, NEW types \in SUBSET Policies, NEW s \in Services,
         AddInhibition(types, s)
  PROVE  AnnouncedIsTrue'
<1>1. CASE \E p \in Implied(types) : typesToCookie[p] = {}
  BY <1>1 DEF AddInhibition, AnnouncedIsTrue
<1>2. CASE \A p \in Implied(types) : typesToCookie[p] # {}
  <2>1. \A p \in Policies : typesToCookie'[p] = {} <=> typesToCookie[p] = {}
    BY <1>2 DEF AddInhibition
  <2>2. announced' = announced
    BY <1>2 DEF AddInhibition
  <2> QED
    BY <2>1, <2>2 DEF AnnouncedIsTrue, unavailablePolicies
<1> QED
  BY <1>1, <1>2

(* A release takes cookies out of the tables. *)
LEMMA ReleaseKeepsTypes ==
  ASSUME AgentTypeOK, NEW cookies, Release(cookies)
  PROVE  AgentTypeOK'
<1>1. lastCookie' = lastCookie /\ held' \subseteq held /\ watched' \subseteq watched
  BY DEF Release
<1>2. cookieToBusService' \in [Cookies -> Services \cup {NoService}]
  BY DEF Release, AgentTypeOK
<1>3. typesToCookie' \in [Policies -> SUBSET Cookies]
  BY DEF Release, AgentTypeOK
<1>4. announced' \subseteq Policies
  BY DEF Release, AgentTypeOK, unavailablePolicies
<1> QED
  BY <1>1, <1>2, <1>3, <1>4 DEF AgentTypeOK

LEMMA ReleaseKeepsTables ==
  ASSUME AgentTypeOK, TablesAgree, NEW cookies, Release(cookies)
  PROVE  TablesAgree'
<1> USE PolicyAgentAssumption
<1>1. held' = held \ cookies
  BY DEF Release
<1>2. \A c \in Cookies : cookieToBusService'[c] = IF c \in cookies THEN NoService
                                                  ELSE cookieToBusService[c]
  BY DEF Release
<1>3. \A p \in Policies : typesToCookie'[p] = typesToCookie[p] \ cookies
  BY DEF Release
<1>4. held' = {c \in Cookies : cookieToBusService'[c] # NoService}
  BY <1>1, <1>2 DEF TablesAgree
<1>5. watched' = {cookieToBusService'[c] : c \in held'}
  <2>1. watched' = watched \ {s \in {cookieToBusService[c] : c \in cookies \cap Cookies}
                                      \ {NoService} :
                                \A c \in Cookies : cookieToBusService'[c] # s}
    BY DEF Release
  <2>2. ASSUME NEW s \in watched'
        PROVE  s \in {cookieToBusService'[c] : c \in held'}
    <3>1. PICK c \in held : s = cookieToBusService[c]
      BY <2>1 DEF TablesAgree
    <3>2. c \in Cookies /\ s # NoService
      BY <3>1 DEF TablesAgree
    <3>3. CASE c \notin cookies
      BY <3>1, <3>2, <3>3, <1>1, <1>2
    <3>4. CASE c \in cookies
      <4>1. PICK d \in Cookies : cookieToBusService'[d] = s
        BY <3>1, <3>2, <3>4, <2>1
      <4> QED
        BY <4>1, <3>2, <1>4
    <3> QED
      BY <3>3, <3>4
  <2>3. ASSUME NEW c \in held'
        PROVE  cookieToBusService'[c] \in watched'
    BY <2>1, <1>1, <1>2, <1>4 DEF TablesAgree
  <2> QED
    BY <2>2, <2>3
<1>6. \A p \in Policies : typesToCookie'[p] \subseteq held'
  BY <1>1, <1>3 DEF TablesAgree
<1>7. typesToCookie'["ChangeScreenSettings"] \subseteq typesToCookie'["InterruptSession"]
  BY <1>3 DEF TablesAgree, Policies
<1> QED
  BY <1>4, <1>5, <1>6, <1>7 DEF TablesAgree

LEMMA ReleaseKeepsAnnounced ==
  ASSUME AgentTypeOK, AnnouncedIsTrue, NEW cookies, Release(cookies)
  PROVE  AnnouncedIsTrue'
<1> DEFINE emptied(p) == /\ typesToCookie[p] \cap cookies # {}
                         /\ typesToCookie[p] \subseteq cookies
<1>1. CASE \E p \in Policies : emptied(p)
  BY <1>1 DEF Release, AnnouncedIsTrue
<1>2. CASE \A p \in Policies : ~emptied(p)
  <2>1. \A p \in Policies : typesToCookie'[p] = typesToCookie[p] \ cookies
    BY DEF Release
  <2>2. \A p \in Policies : typesToCookie'[p] = {} <=> typesToCookie[p] = {}
    BY <1>2, <2>1
  <2>3. announced' = announced
    BY <1>2 DEF Release
  <2> QED
    BY <2>2, <2>3 DEF AnnouncedIsTrue, unavailablePolicies
<1> QED
  BY <1>1, <1>2

LEMMA AgentStarts ==
  ASSUME lastCookie = 0, held = {}, cookieToBusService = [c \in Cookies |-> NoService],
         typesToCookie = [p \in Policies |-> {}], watched = {}, announced = {}
  PROVE  AgentInv
BY PolicyAgentAssumption
   DEF AgentInv, AgentTypeOK, TablesAgree, AnnouncedIsTrue, unavailablePolicies, Cookies, Policies

(* Every operation of the agent keeps its invariant. *)
LEMMA AgentInvStep == AgentInv /\ [AgentNext]_agentVars => AgentInv'
<1> SUFFICES ASSUME AgentInv, [AgentNext]_agentVars PROVE AgentInv'
  OBVIOUS
<1> USE DEF AgentInv
<1>1. ASSUME NEW types \in SUBSET Policies, NEW s \in Services, AddInhibition(types, s)
      PROVE  AgentInv'
  BY <1>1, AddKeepsTypes, AddKeepsTables, AddKeepsAnnounced
<1>2. ASSUME NEW cookies, Release(cookies)
      PROVE  AgentInv'
  BY <1>2, ReleaseKeepsTypes, ReleaseKeepsTables, ReleaseKeepsAnnounced
<1>3. CASE AgentRestart
  <2>1. AgentTypeOK'
    BY <1>3, PolicyAgentAssumption DEF AgentRestart, AgentTypeOK, Cookies
  <2>2. TablesAgree'
    BY <1>3, PolicyAgentAssumption DEF AgentRestart, TablesAgree, Policies
  <2>3. AnnouncedIsTrue'
    BY <1>3 DEF AgentRestart, AnnouncedIsTrue, unavailablePolicies
  <2> QED
    BY <2>1, <2>2, <2>3
<1>4. CASE UNCHANGED agentVars
  BY <1>4 DEF agentVars, AgentTypeOK, TablesAgree, AnnouncedIsTrue, unavailablePolicies
<1> QED
  BY <1>1, <1>2, <1>3, <1>4
  DEF AgentNext, ReleaseInhibition, onServiceUnregistered, releaseAllInhibitions

LEMMA AgentInvHolds == AgentSpec => []AgentInv
<1>1. AgentInit => AgentInv
  BY AgentStarts DEF AgentInit
<1> QED
  BY <1>1, AgentInvStep, PTL DEF AgentSpec

(* The variables of the agent are of their types. *)
THEOREM AgentTypeCorrect == AgentSpec => []AgentTypeOK
<1>1. AgentInv => AgentTypeOK
  BY DEF AgentInv
<1> QED
  BY <1>1, AgentInvHolds, PTL

(* The tables of the agent agree: what inhibits a policy is held for a     *)
(* service that is watched, and nothing is watched for longer.             *)
THEOREM AgentTablesAgree == AgentSpec => []TablesAgree
<1>1. AgentInv => TablesAgree
  BY DEF AgentInv
<1> QED
  BY <1>1, AgentInvHolds, PTL

(* What the listeners were told last is what is unavailable now. *)
THEOREM AgentAnnouncesTruth == AgentSpec => []AnnouncedIsTrue
<1>1. AgentInv => AnnouncedIsTrue
  BY DEF AgentInv
<1> QED
  BY <1>1, AgentInvHolds, PTL
==============================================================================
