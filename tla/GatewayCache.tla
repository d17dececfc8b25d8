------------------------------ MODULE GatewayCache ------------------------------
(***************************************************************************)
(* GET requests through the gateway: the copy of a whole response, the     *)
(* list of trending keywords that the gateway and the ingestion service    *)
(* keep under one and the same key, and the services that are asked.  What *)
(* is kept is the age of an answer: the ticks since a service made it.     *)
(***************************************************************************)
EXTENDS Naturals

CONSTANTS
    Gets,       \* requests under way
    RouteTtl,   \* request_cache_ttl
    ListTtl,    \* trending_cache_ttl
    GetTime     \* bound on the ticks a request takes

ASSUME GatewayCacheAssumption ==
    /\ RouteTtl \in Nat \ {0} /\ ListTtl \in Nat \ {0} /\ GetTime \in Nat
    /\ GetTime < ListTtl   \* a call ends after 10 seconds, the list lives for 30

Routes == {"trending", "proxied"}

VARIABLES
    response,   \* route_cache: the copy of each response, its age and ticks left
    list,       \* trending:list: the keywords, their age and ticks left
    get         \* each request: where it is, its route, the age of its answer

gatewayCacheVars == <<response, list, get>>

\* What async_get finds of a key that is not set, and what async_set stores.
NoAnswer == [age |-> 0, left |-> 0]
CopyOf(age, ttl) == [age |-> age, left |-> ttl]
NoGet == [at |-> "idle", route |-> "proxied", age |-> 0, ticks |-> 0]

GatewayCacheInit ==
    /\ response = [u \in Routes |-> NoAnswer]
    /\ list = NoAnswer
    /\ get = [g \in Gets |-> NoGet]

MoveOn(g, from, to, age) ==
    /\ get[g].at = from
    /\ get' = [get EXCEPT ![g].at = to, ![g].age = age]

\* The handler of CacheControlRoute: a copy is the answer, and a request without
\* one goes to its own handler.
Arrive(g, u) ==
    /\ get[g].at = "idle" /\ response[u].left = 0
    /\ get' = [get EXCEPT ![g] = [NoGet EXCEPT !.at = IF u = "trending" THEN "look" ELSE "ask",
                                               !.route = u]]
    /\ UNCHANGED <<response, list>>

\* get_trending of the gateway: the list, or the service.
Look(g) ==
    /\ IF list.left > 0 THEN MoveOn(g, "look", "respond", list.age) ELSE MoveOn(g, "look", "ask", 0)
    /\ UNCHANGED <<response, list>>

\* get_trending of the service looks under the same key, and stores there what it
\* had to compute.
ServiceFinds(g) ==
    /\ get[g].route = "trending" /\ list.left > 0
    /\ MoveOn(g, "ask", "relist", list.age)
    /\ UNCHANGED <<response, list>>
ServiceComputes(g) ==
    /\ get[g].route = "trending" /\ list.left = 0
    /\ MoveOn(g, "ask", "listing", 0)
    /\ UNCHANGED <<response, list>>
ServiceStores(g) ==
    /\ MoveOn(g, "listing", "relist", get[g].age)
    /\ list' = CopyOf(get[g].age, ListTtl)
    /\ UNCHANGED response

\* The gateway stores the list again, whether or not it is new.
Relist(g) ==
    /\ MoveOn(g, "relist", "respond", get[g].age)
    /\ list' = CopyOf(get[g].age, ListTtl)
    /\ UNCHANGED response

\* A proxied service answers with 200 ...
Proxy(g) ==
    /\ get[g].route = "proxied" /\ MoveOn(g, "ask", "respond", 0)
    /\ UNCHANGED <<response, list>>

\* ... and what any other answer, or none, becomes is not stored.
AskFails(g) ==
    /\ get[g].at = "ask"
    /\ get' = [get EXCEPT ![g] = NoGet]
    /\ UNCHANGED <<response, list>>

Respond(g) ==
    /\ get[g].at = "respond"
    /\ response' = [response EXCEPT ![get[g].route] = CopyOf(get[g].age, RouteTtl)]
    /\ get' = [get EXCEPT ![g] = NoGet]
    /\ UNCHANGED list

Oldest == RouteTtl + ListTtl + 3 * GetTime

Grown(age) == IF age <= Oldest THEN age + 1 ELSE age
Aged(a) == IF a.left > 1 THEN CopyOf(Grown(a.age), a.left - 1) ELSE NoAnswer

GatewayCacheTick ==
    /\ \A g \in Gets : get[g].at # "idle" => get[g].ticks < GetTime
    /\ get' = [g \in Gets |->
                 IF get[g].at = "idle" THEN NoGet
                 ELSE [get[g] EXCEPT !.ticks = @ + 1,
                                     !.age = IF get[g].at \in {"look", "ask"} THEN 0 ELSE Grown(@)]]
    /\ response' = [u \in Routes |-> Aged(response[u])]
    /\ list' = Aged(list)

GatewayCacheNext ==
    \/ \E g \in Gets :
         \/ \E u \in Routes : Arrive(g, u)
         \/ Look(g) \/ ServiceFinds(g) \/ ServiceComputes(g) \/ ServiceStores(g)
         \/ Relist(g) \/ Proxy(g) \/ AskFails(g) \/ Respond(g)
    \/ GatewayCacheTick

GatewayCacheSpec == GatewayCacheInit /\ [][GatewayCacheNext]_gatewayCacheVars

-----------------------------------------------------------------------------
GatewayCacheTypeOK ==
    /\ response \in [Routes -> [age : 0 .. Oldest + 1, left : 0 .. RouteTtl]]
    /\ list \in [age : 0 .. Oldest + 1, left : 0 .. ListTtl]
    /\ get \in [Gets -> [at : {"idle", "look", "ask", "listing", "relist", "respond"},
                         route : Routes, age : 0 .. Oldest + 1, ticks : 0 .. GetTime]]

\* The list is never older than its own ttl and two requests, and a response than
\* both ttls and three requests, though gateway and service store the list under one
\* key and each starts its ttl anew.
AnswersCurrent ==
    /\ list.left > 0 => list.age + list.left <= ListTtl + 2 * GetTime
    /\ \A u \in Routes :
         response[u].left > 0 => response[u].age + response[u].left <= Oldest
=============================================================================
