----------------------------- MODULE TokenBucket -----------------------------
(***************************************************************************)
(* The Redis token buckets: MarketplaceRateLimiter of the publisher,       *)
(* UserRateLimiter of the gateway and AdapterRateLimiter of the signal     *)
(* ingestion are the same optimistic transaction on one counter key, which *)
(* expires a window after its first use.  One bucket is modelled, with the *)
(* requests that compete for its tokens.                                   *)
(*                                                                         *)
(* A request walks WATCH, GET, MULTI and EXEC, each a round trip to Redis. *)
(* Requests under /optimizations, /monitoring and /analytics go through    *)
(* two limiters of the gateway, whose keys for a user are the same.        *)
(***************************************************************************)
EXTENDS Integers, FiniteSets

CONSTANTS
    Requests,   \* concurrent users of the bucket, each for many requests
    Doubles,    \* those whose route asks a second limiter
    Waiters,    \* those that wait for a token (AdapterRateLimiter)
    Limit,      \* tokens per window
    Window,     \* seconds until the key expires
    MaxCuts     \* bound on the connections Redis loses

ASSUME BucketAssumption ==
    /\ IsFiniteSet(Requests)
    /\ Doubles \subseteq Requests
    /\ Waiters \subseteq Requests
    /\ Limit \in Nat
    /\ Window \in Nat \ {0}
    /\ MaxCuts \in Nat

VARIABLES
    tokens,   \* the value of the key
    ttl,      \* seconds it has left, 0 when there is no key
    pc,       \* where each request is
    left,     \* limiters it has still to pass
    dirty,    \* requests whose watched key has changed
    taken,    \* tokens handed out since the key was created
    recent,   \* tokens handed out in each of the last Window seconds
    cuts      \* connections lost

bucket == <<tokens, ttl, taken, recent>>
vars == <<bucket, pc, left, dirty, cuts>>

\* The ttl of a key without an expiry.
Forever == Window + 1

Trying == {"watch", "get", "set", "decr", "empty"}
Answered == {"admitted", "refused", "failed"}

Init ==
    /\ tokens = 0
    /\ ttl = 0
    /\ pc = [r \in Requests |-> "idle"]
    /\ left = [r \in Requests |-> 0]
    /\ dirty = {}
    /\ taken = 0
    /\ recent = [age \in 0 .. Window - 1 |-> 0]
    /\ cuts = 0

-----------------------------------------------------------------------------
(***************************************************************************)
(* The key in Redis.                                                       *)
(***************************************************************************)

\* A change of the key breaks every transaction that watches it.
Touch == dirty' = dirty \union {r \in Requests : pc[r] \in {"get", "set", "decr"}}

Shifted == [age \in DOMAIN recent |-> IF age = 0 THEN 0 ELSE recent[age - 1]]

\* A second passes, which may be the last of the key.
Tick ==
    /\ ttl' = IF ttl \in {0, Forever} THEN ttl ELSE ttl - 1
    /\ recent' = Shifted
    /\ IF ttl = 1
       THEN taken' = 0 /\ Touch
       ELSE UNCHANGED <<taken, dirty>>
    /\ UNCHANGED <<tokens, pc, left, cuts>>

\* Slip: the first request of a window does not pay.
SetFull(r) == tokens' = Limit /\ ttl' = Window

\* SET key limit-1 EX window
Set(r) == tokens' = Limit - 1 /\ ttl' = Window

\* DECR key, which makes a key that never expires when there is none.
Decr(r) ==
    /\ tokens' = (IF ttl = 0 THEN 0 ELSE tokens) - 1
    /\ ttl' = IF ttl = 0 THEN Forever ELSE ttl

\* What EXEC does once the watched key is found unchanged.
Apply(r) ==
    /\ \/ pc[r] = "set" /\ Set(r)
       \/ pc[r] = "decr" /\ Decr(r)
    /\ Touch
    /\ taken' = taken + 1
    /\ recent' = [recent EXCEPT ![0] = @ + 1]

-----------------------------------------------------------------------------
(***************************************************************************)
(* acquire, one round trip at a time.                                      *)
(***************************************************************************)

Goto(r, from, to) ==
    /\ pc[r] = from
    /\ pc' = [pc EXCEPT ![r] = to]

Passes(r) == IF r \in Doubles THEN 2 ELSE 1

Arrive(r) ==
    /\ Goto(r, "idle", "watch")
    /\ left' = [left EXCEPT ![r] = Passes(r)]
    /\ UNCHANGED <<bucket, dirty, cuts>>

\* Slip: the second WATCH after a WatchError is forgotten.
WatchStale(r) == Goto(r, "watch", "get") /\ UNCHANGED <<bucket, left, dirty, cuts>>

Watch(r) ==
    /\ Goto(r, "watch", "get")
    /\ dirty' = dirty \ {r}
    /\ UNCHANGED <<bucket, left, cuts>>

\* Slip: < for <= in the test for an empty bucket.
GetOverdrawn(r) ==
    /\ \/ ttl = 0 /\ Goto(r, "get", "set")
       \/ ttl # 0 /\ tokens < 0 /\ Goto(r, "get", "empty")
       \/ ttl # 0 /\ tokens >= 0 /\ Goto(r, "get", "decr")
    /\ UNCHANGED <<bucket, left, dirty, cuts>>

\* The value decides what the transaction will hold.
Get(r) ==
    /\ \/ ttl = 0 /\ Goto(r, "get", "set")
       \/ ttl # 0 /\ tokens <= 0 /\ Goto(r, "get", "empty")
       \/ ttl # 0 /\ tokens > 0 /\ Goto(r, "get", "decr")
    /\ UNCHANGED <<bucket, left, dirty, cuts>>

\* EXEC with an untouched key: this limiter is passed.
Exec(r) ==
    /\ r \notin dirty
    /\ Apply(r)
    /\ left' = [left EXCEPT ![r] = @ - 1]
    /\ pc' = [pc EXCEPT ![r] = IF left[r] = 1 THEN "admitted" ELSE "watch"]
    /\ UNCHANGED cuts

\* EXEC with a touched key: WatchError, and the loop goes on.
Abort(r) ==
    /\ r \in dirty
    /\ \E held \in {"set", "decr"} : Goto(r, held, "watch")
    /\ UNCHANGED <<bucket, left, dirty, cuts>>

\* The bucket is empty: a waiter sleeps for a window and tries again.
TurnAway(r) ==
    /\ Goto(r, "empty", IF r \in Waiters THEN "watch" ELSE "refused")
    /\ UNCHANGED <<bucket, left, dirty, cuts>>

\* redis-py turns a connection lost under WATCH into a WatchError, whether or
\* not the server has applied the transaction; before WATCH, it is an error.
LoseConnection(r) ==
    /\ cuts < MaxCuts
    /\ cuts' = cuts + 1
    /\ UNCHANGED left
    /\ \/ Goto(r, "watch", "failed") /\ UNCHANGED <<bucket, dirty>>
       \/ \E at \in {"get", "set", "decr"} : Goto(r, at, "watch")
          /\ UNCHANGED <<bucket, dirty>>
       \/ /\ r \notin dirty
          /\ Apply(r)
          /\ pc' = [pc EXCEPT ![r] = "watch"]

\* The response is sent; the user may come back.
Leave(r) ==
    /\ \E answer \in Answered : Goto(r, answer, "idle")
    /\ UNCHANGED <<bucket, left, dirty, cuts>>

Acquire(r) == Watch(r) \/ Get(r) \/ Exec(r) \/ Abort(r) \/ TurnAway(r)

Next ==
    \/ Tick
    \/ \E r \in Requests :
         Arrive(r) \/ Acquire(r) \/ LoseConnection(r) \/ Leave(r)

Spec == Init /\ [][Next]_vars

\* Coroutines are scheduled and time passes; nobody is obliged to come back.
FairSpec == Spec /\ WF_vars(Tick) /\ \A r \in Requests : WF_vars(Acquire(r))

-----------------------------------------------------------------------------
(***************************************************************************)
(* What the limiters promise.                                              *)
(***************************************************************************)

TypeOK ==
    /\ tokens \in Int
    /\ ttl \in 0 .. Forever
    /\ pc \in [Requests -> Trying \union Answered \union {"idle"}]
    /\ left \in [Requests -> 0 .. 2]
    /\ \A r \in Requests : pc[r] \in Trying => left[r] > 0
    /\ dirty \subseteq Requests
    /\ taken \in Nat
    /\ recent \in [0 .. Window - 1 -> Nat]
    /\ cuts \in 0 .. MaxCuts

\* The value of the key tells exactly how many tokens are out, and the key
\* always goes away: a bucket can neither leak tokens nor lock its users out.
Accounted ==
    IF ttl = 0 THEN taken = 0 ELSE ttl # Forever /\ tokens + taken = Limit

\* A transaction that EXEC will still accept was built on the present key.
FreshReads ==
    \A r \in Requests \ dirty :
        /\ pc[r] = "set" => ttl = 0
        /\ pc[r] = "decr" => ttl # 0 /\ tokens > 0

\* The inductive form of WindowBounded and KeyExpires.
IInv == Accounted /\ FreshReads /\ (Limit > 0 => taken <= Limit)

\* However their transactions interleave, the requests of one window take at
\* most Limit tokens.
WindowBounded == taken <= Limit

\* The key of a bucket never outlives its window: whatever requests do when it
\* expires under them, no DECR leaves a key behind that stays empty for ever.
KeyExpires == ttl # Forever

\* The tokens of the last Window seconds: how long ago, and the number in that second.
Recently == UNION {{age} \X (1 .. recent[age]) : age \in DOMAIN recent}

\* A window starts with its first request, so a stretch of Window seconds sees
\* two of them at most, and twice the tokens.
AnyStretchBounded == Cardinality(Recently) <= 2 * Limit

\* Optimistic transactions do not live-lock: if requests keep trying, some
\* request gets its answer.
SomebodyAnswered ==
    (\E r \in Requests : pc[r] \in Trying) ~> (\E r \in Requests : pc[r] \in Answered)

=============================================================================
