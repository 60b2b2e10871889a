----------------------------- MODULE PolicyAgent -----------------------------
(***************************************************************************)
(* The policy agent of powerdevil (powerdevilpolicyagent.cpp) and its two  *)
(* faces on the session bus, its own interface and that of the connector   *)
(* for org.freedesktop.PowerManagement (powerdevilfdoconnector.cpp).       *)
(*                                                                         *)
(* A service of the bus adds an inhibition of some policies and is given a *)
(* cookie; it releases the inhibition with the cookie.  The agent has the  *)
(* bus watch the services it holds inhibitions for, and tells its          *)
(* listeners which policies are unavailable whenever that may have changed.*)
(*                                                                         *)
(* This module is the agent alone: its variables, its operations, and a    *)
(* specification in which they are called in any order with any argument.  *)
(* SessionServices puts it on a bus.  The login manager (m_sdAvailable,    *)
(* m_wasLastActiveSession) is left out.                                    *)
(*                                                                         *)
(* Definitions named Slip... are variants with a mistake.                  *)
(***************************************************************************)
EXTENDS Integers, FiniteSets

CONSTANTS
  Services,     \* names on the bus that may ask for an inhibition
  NoService,    \* no name
  MaxCookie     \* bound: inhibitions in the life of an agent

ASSUME PolicyAgentAssumption ==
  /\ NoService \notin Services
  /\ MaxCookie \in Nat

Policies == {"InterruptSession", "ChangeProfile", "ChangeScreenSettings"}

VARIABLES
  lastCookie,           \* m_lastCookie
  held,                 \* the cookies of m_cookieToAppName
  cookieToBusService,   \* m_cookieToBusService: the service, or NoService
  typesToCookie,        \* m_typesToCookie: the cookies that inhibit a policy
  watched,              \* the services m_busWatcher watches
  announced             \* the policies of the last unavailablePoliciesChanged

agentVars == <<lastCookie, held, cookieToBusService, typesToCookie, watched,
               announced>>

Cookies == 1 .. MaxCookie

AgentTypeOK ==
  /\ lastCookie \in 0 .. MaxCookie
  /\ held \subseteq 1 .. lastCookie
  /\ cookieToBusService \in [Cookies -> Services \cup {NoService}]
  /\ typesToCookie \in [Policies -> SUBSET Cookies]
  /\ watched \subseteq Services
  /\ announced \subseteq Policies

------------------------------------------------------------------------------

unavailablePolicies == {p \in Policies : typesToCookie[p] # {}}

(* ChangeScreenSettings implies InterruptSession. *)
Implied(types) ==
  types \cup (IF "ChangeScreenSettings" \in types THEN {"InterruptSession"} ELSE {})

cookiesOf(service) == {c \in Cookies : cookieToBusService[c] = service}

SlipCookieBefore(types, service) ==
  LET cookie == lastCookie
  IN /\ lastCookie < MaxCookie
     /\ lastCookie' = lastCookie + 1
     /\ held' = held \cup {cookie}
     /\ cookieToBusService' = [cookieToBusService EXCEPT ![cookie] = service]
     /\ watched' = watched \cup {service}
     /\ typesToCookie' = [p \in Policies |->
          IF p \in Implied(types) THEN typesToCookie[p] \cup {cookie} ELSE typesToCookie[p]]
     /\ announced' = announced \cup Implied(types)

SlipReuse(types, service) ==
  LET free   == {c \in Cookies : c \notin held}
      cookie == CHOOSE c \in free : \A d \in free : c <= d
      added  == Implied(types)
  IN /\ lastCookie < MaxCookie
     /\ lastCookie' = cookie
     /\ held' = held \cup {cookie}
     /\ cookieToBusService' = [cookieToBusService EXCEPT ![cookie] = service]
     /\ watched' = watched \cup {service}
     /\ typesToCookie' = [p \in Policies |->
          IF p \in added THEN typesToCookie[p] \cup {cookie} ELSE typesToCookie[p]]
     /\ announced' = IF \E p \in added : typesToCookie[p] = {}
                     THEN unavailablePolicies' ELSE announced

AddInhibition(types, service) ==
  LET cookie == lastCookie + 1
      added  == Implied(types)
  IN /\ lastCookie < MaxCookie
     /\ lastCookie' = cookie
     /\ held' = held \cup {cookie}
     /\ cookieToBusService' = [cookieToBusService EXCEPT ![cookie] = service]
     /\ watched' = watched \cup {service}
     /\ typesToCookie' = [p \in Policies |->
          IF p \in added THEN typesToCookie[p] \cup {cookie} ELSE typesToCookie[p]]
     /\ announced' = IF \E p \in added : typesToCookie[p] = {}
                     THEN unavailablePolicies' ELSE announced

(* ReleaseInhibition for each of some cookies, which may be unknown.  The  *)
(* listeners are told when the list of a policy becomes empty; what they   *)
(* are told before the last cookie is released is overtaken by then.       *)
SlipReleaseUnwatch(cookies) ==
  /\ held' = held \ cookies
  /\ cookieToBusService' = [c \in Cookies |->
       IF c \in cookies THEN NoService ELSE cookieToBusService[c]]
  /\ watched' = watched \ {cookieToBusService[c] : c \in cookies \cap Cookies}
  /\ typesToCookie' = [p \in Policies |-> typesToCookie[p] \ cookies]
  /\ announced' = unavailablePolicies'
  /\ UNCHANGED lastCookie

SlipReleaseQuietly(cookies) ==
  LET left == cookieToBusService'
      services == {cookieToBusService[c] : c \in cookies \cap Cookies} \ {NoService}
  IN /\ held' = held \ cookies
     /\ cookieToBusService' = [c \in Cookies |->
          IF c \in cookies THEN NoService ELSE cookieToBusService[c]]
     /\ watched' = watched \ {s \in services : \A c \in Cookies : left[c] # s}
     /\ typesToCookie' = [p \in Policies |-> typesToCookie[p] \ cookies]
     /\ announced' = IF held \subseteq cookies THEN {} ELSE announced
     /\ UNCHANGED lastCookie

Release(cookies) ==
  LET left == cookieToBusService'
      services == {cookieToBusService[c] : c \in cookies \cap Cookies} \ {NoService}
  IN /\ held' = held \ cookies
     /\ cookieToBusService' = [c \in Cookies |->
          IF c \in cookies THEN NoService ELSE cookieToBusService[c]]
     /\ watched' = watched \ {s \in services : \A c \in Cookies : left[c] # s}
     /\ typesToCookie' = [p \in Policies |-> typesToCookie[p] \ cookies]
     /\ announced' = IF \E p \in Policies : /\ typesToCookie[p] \cap cookies # {}
                                            /\ typesToCookie[p] \subseteq cookies
                     THEN unavailablePolicies' ELSE announced
     /\ UNCHANGED lastCookie

ReleaseInhibition(cookie) == Release({cookie})

releaseAllInhibitions == Release(held)

SlipOneOfService(service) ==
  LET cookies == cookiesOf(service)
  IN Release({c \in cookies : \A d \in cookies : c <= d})

onServiceUnregistered(service) == Release(cookiesOf(service))

(* A new process: its agent starts from nothing. *)
AgentRestart ==
  /\ lastCookie' = 0
  /\ held' = {}
  /\ cookieToBusService' = [c \in Cookies |-> NoService]
  /\ typesToCookie' = [p \in Policies |-> {}]
  /\ watched' = {}
  /\ announced' = {}

AgentInit ==
  /\ lastCookie = 0
  /\ held = {}
  /\ cookieToBusService = [c \in Cookies |-> NoService]
  /\ typesToCookie = [p \in Policies |-> {}]
  /\ watched = {}
  /\ announced = {}

AgentNext ==
  \/ \E types \in SUBSET Policies, s \in Services : AddInhibition(types, s)
  \/ \E c \in Cookies : ReleaseInhibition(c)
  \/ \E s \in Services : onServiceUnregistered(s)
  \/ releaseAllInhibitions
  \/ AgentRestart

AgentSpec == AgentInit /\ [][AgentNext]_agentVars

------------------------------------------------------------------------------
(* The tables agree: the cookies that inhibit a policy are the ones that   *)
(* are held, each for a service that is watched, and a service is watched  *)
(* only for a cookie; what inhibits the screen settings inhibits the       *)
(* interruption of the session.  ReleaseInhibition takes a cookie out of   *)
(* four tables, and stops to watch a service once none of its cookies is   *)
(* left.                                                                   *)
TablesAgree ==
  /\ \A p \in Policies : typesToCookie[p] \subseteq held
  /\ held = {c \in Cookies : cookieToBusService[c] # NoService}
  /\ watched = {cookieToBusService[c] : c \in held}
  /\ typesToCookie["ChangeScreenSettings"] \subseteq typesToCookie["InterruptSession"]

(* Whoever listens to unavailablePoliciesChanged (HasInhibitChanged, the   *)
(* DPMS action) knows the policies that are unavailable now, although      *)
(* nothing is announced when a list grows or shrinks without having been   *)
(* or becoming empty.                                                      *)
AnnouncedIsTrue == announced = unavailablePolicies
==============================================================================
