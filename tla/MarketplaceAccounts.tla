-------------------------- MODULE MarketplaceAccounts --------------------------
(***************************************************************************)
(* The publisher's account at one marketplace: the token a client object   *)
(* keeps and the row of oauth_token that outlives it.  The client object   *)
(* is shared by the threads of its process, and assigns a new token and    *)
(* its expiry one after the other.                                         *)
(***************************************************************************)
EXTENDS Integers, FiniteSets

CONSTANTS
    Uses,       \* calls that use the client, each made once
    Homes,      \* processes that import CLIENTS: the publisher, the feedback loop
    HomeOf,     \* the process of each use
    Life,       \* expires_in of every grant, in ticks; 0 if the answer names none
    CallTime,   \* bound on the ticks from a grant to the end of the use it is for
    MaxClock,   \* bound on the clock
    None

ASSUME AccountAssumption ==
    /\ IsFiniteSet(Uses) /\ HomeOf \in [Uses -> Homes]
    /\ Life \in Nat /\ CallTime \in Nat /\ MaxClock \in Nat
    /\ None \notin Nat

VARIABLES
    clock,
    home,       \* of each process: whether it is up, and its client's attributes
    row,        \* the row of oauth_token
    use,        \* each use: its kind, how far it is, when it began, its token
    logins,     \* the number of logins started
    oldest      \* history: the ticks a token was the oldest at that a request carried

accountVars == <<clock, home, row, use, logins, oldest>>

\* A token is named by the time it was granted at.
Fresh == [up |-> "down", token |-> None, expiry |-> None, state |-> None]

Untouched == [kind |-> "none", at |-> "new", since |-> 0, token |-> None, known |-> FALSE]
Over == [Untouched EXCEPT !.at = "over"]

AccountInit ==
    /\ clock = 0 /\ logins = 0
    /\ home = [h \in Homes |-> Fresh]
    /\ row = {}
    /\ use = [u \in Uses |-> Untouched] /\ oldest = 0

Up(u) == home[HomeOf[u]].up = "up"

\* The use u goes on from one step to another, or is over.
Proceed(u, from, to) ==
    /\ Up(u) /\ use[u].at = from
    /\ use' = [use EXCEPT ![u] = IF to = "over" THEN Over ELSE [@ EXCEPT !.at = to]]

-----------------------------------------------------------------------------
(***************************************************************************)
(* Processes.                                                              *)
(***************************************************************************)

\* BaseClient.__init__ reads the row.  It is expired by the commit that ends the
\* session, and can no longer be read from outside it: the import fails.
StartHome(h) ==
    /\ home[h].up = "down"
    /\ home' = [home EXCEPT ![h].up = IF row = {} THEN "up" ELSE "failed"]
    /\ UNCHANGED <<clock, row, use, logins, oldest>>

\* What its uses were at is over.
StopHome(h) ==
    /\ home' = [home EXCEPT ![h] = Fresh]
    /\ use' = [u \in Uses |-> IF HomeOf[u] = h /\ use[u].at # "new"
                              THEN Over ELSE use[u]]
    /\ UNCHANGED <<clock, row, logins, oldest>>

-----------------------------------------------------------------------------
(***************************************************************************)
(* Tokens.                                                                 *)
(***************************************************************************)

\* Slip: an expired token is used.
CheckPresence(u) ==
    LET c == home[HomeOf[u]]
    IN  /\ Up(u) /\ use[u].at = "new"
        /\ use' = [use EXCEPT ![u] = [@ EXCEPT !.kind = "call", !.since = clock,
                        !.at = IF c.token = None THEN "ask" ELSE "send"]]
        /\ UNCHANGED <<clock, home, row, logins, oldest>>

\* _get_token, for publish_design or get_listing_metrics: the kept token is taken
\* until its expiry, and for ever if it has none.
GetToken(u) ==
    LET c == home[HomeOf[u]]
    IN  /\ Up(u) /\ use[u].at = "new"
        /\ use' = [use EXCEPT ![u] = [@ EXCEPT !.kind = "call", !.since = clock,
                        !.at = IF c.token = None \/ (c.expiry # None /\ c.expiry <= clock)
                               THEN "ask" ELSE "send"]]
        /\ UNCHANGED <<clock, home, row, logins, oldest>>

\* get_authorization_url: the next login replaces the state of the last one.
Login(h) ==
    /\ home[h].up = "up" /\ logins < Cardinality(Uses)
    /\ logins' = logins + 1
    /\ home' = [home EXCEPT ![h].state = logins + 1]
    /\ UNCHANGED <<clock, row, use, oldest>>

\* fetch_token, of the redirect of a login: another state than the one kept is
\* refused, and none is compared when none is kept.
Callback(u, n) ==
    /\ Up(u) /\ use[u].at = "new" /\ n \in 1 .. logins
    /\ use' = [use EXCEPT ![u] =
                 IF home[HomeOf[u]].state \in {n, None}
                 THEN [@ EXCEPT !.kind = "login", !.at = "ask", !.since = clock] ELSE Over]
    /\ UNCHANGED <<clock, home, row, logins, oldest>>

\* The marketplace grants a token, which ends Life ticks later ...
Grant(u) ==
    /\ Up(u) /\ use[u].at = "ask"
    /\ use' = [use EXCEPT ![u].at = "granted", ![u].token = clock, ![u].since = clock]
    /\ UNCHANGED <<clock, home, row, logins, oldest>>

\* ... or cannot be reached.
Refuse(u) == Proceed(u, "ask", "over") /\ UNCHANGED <<clock, home, row, logins, oldest>>

KeepToken(u) ==
    /\ Proceed(u, "granted", "kept")
    /\ home' = [home EXCEPT ![HomeOf[u]].token = use[u].token]
    /\ UNCHANGED <<clock, row, logins, oldest>>

KeepExpiry(u) ==
    /\ Proceed(u, "kept", "find")
    /\ home' = [home EXCEPT ![HomeOf[u]].expiry = IF Life = 0 THEN None ELSE clock + Life]
    /\ UNCHANGED <<clock, row, logins, oldest>>

\* upsert_oauth_token_sync: looks for the row ...
FindToken(u) ==
    /\ Up(u) /\ use[u].at = "find"
    /\ use' = [use EXCEPT ![u].at = "upsert", ![u].known = row # {}]
    /\ UNCHANGED <<clock, home, row, logins, oldest>>

\* ... and changes it or adds one, which fails if another call has by then.
Upsert(u) ==
    LET c == home[HomeOf[u]]
    IN  /\ \/ /\ row # {} /\ ~use[u].known
              /\ Proceed(u, "upsert", "over")
              /\ UNCHANGED row
           \/ /\ row = {} \/ use[u].known
              /\ Proceed(u, "upsert", IF use[u].kind = "call" THEN "send" ELSE "over")
              /\ row' = {[token |-> c.token, expiry |-> c.expiry]}
        /\ UNCHANGED <<clock, home, logins, oldest>>

\* The request is sent with what the client keeps now.
Send(u) ==
    /\ Proceed(u, "send", "over")
    /\ LET age == clock - home[HomeOf[u]].token
       IN  oldest' = IF age > oldest THEN age ELSE oldest
    /\ UNCHANGED <<clock, home, row, logins>>

AccountTick ==
    /\ clock < MaxClock /\ clock' = clock + 1
    /\ \A u \in Uses : use[u].at \notin {"new", "over"} => clock < use[u].since + CallTime
    /\ UNCHANGED <<home, row, use, logins, oldest>>

AccountNext ==
    \/ \E h \in Homes : StartHome(h) \/ StopHome(h) \/ Login(h)
    \/ \E u \in Uses :
         \/ GetToken(u) \/ Grant(u) \/ Refuse(u) \/ KeepToken(u) \/ KeepExpiry(u)
         \/ FindToken(u) \/ Upsert(u) \/ Send(u)
         \/ \E n \in 1 .. Cardinality(Uses) : Callback(u, n)
    \/ AccountTick

AccountSpec == AccountInit /\ [][AccountNext]_accountVars

-----------------------------------------------------------------------------
(***************************************************************************)
(* Which token a request carries.                                          *)
(***************************************************************************)

AccountTypeOK ==
    LET Times == 0 .. MaxClock \union {None}
        Ends == 0 .. MaxClock + Life \union {None}
        Steps == {"new", "ask", "granted", "kept", "find", "upsert", "send", "over"}
    IN  /\ clock \in 0 .. MaxClock /\ logins \in 0 .. Cardinality(Uses)
        /\ home \in [Homes -> [up : {"down", "up", "failed"}, token : Times, expiry : Ends,
                               state : 0 .. Cardinality(Uses) \union {None}]]
        /\ row \subseteq [token : Times, expiry : Ends]
        /\ Cardinality(row) <= 1
        /\ \A u \in Uses :
             /\ use[u].kind \in {"none", "call", "login"} /\ use[u].at \in Steps
             /\ use[u].since \in 0 .. MaxClock /\ use[u].token \in Times
             /\ use[u].known \in BOOLEAN
        /\ oldest \in 0 .. MaxClock

\* A request never carries a token that ended three calls ago, two that may have been
\* renewing it and the request's own, although a client can keep the token of one
\* grant with the expiry of another.
TokenFresh == Life > 0 => oldest < Life + 3 * CallTime
=============================================================================
