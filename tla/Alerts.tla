--------------------------------- MODULE Alerts ---------------------------------
(***************************************************************************)
(* Replicas of the monitoring service that page somebody when the queue is *)
(* long or ideas are published late, and are to leave a cooldown between   *)
(* two pages.  The time of the last page is in Redis.                      *)
(***************************************************************************)
EXTENDS Naturals, FiniteSets

CONSTANTS
    Kinds,      \* what is paged: a late publish, a long queue
    Replicas,   \* processes of the service
    Cooldown,   \* sla_alert_cooldown_minutes, queue_backlog_alert_cooldown_minutes
    PageTime,   \* bound on the ticks from a decision to its mark
    MaxTime,    \* bound on the clock
    MaxMisses,  \* bound on marks that fail
    Never

ASSUME AlertAssumption ==
    /\ IsFiniteSet(Replicas) /\ Never \notin Nat /\ MaxTime \in Nat /\ MaxMisses \in Nat
    /\ PageTime \in Nat /\ Cooldown \in Nat /\ PageTime < Cooldown

VARIABLES
    lastPage,   \* when somebody was paged last, of each kind
    duty,       \* what each replica is doing, since when
    clock,
    pages,      \* history: the pages decided at each time, of each kind
    misses      \* history: the marks that were lost

alertVars == <<lastPage, duty, clock, pages, misses>>

Off(k) == [at |-> "idle", kind |-> k, now |-> 0]
Busy(r) == duty[r].at \in {"page", "mark"}

AlertInit ==
    /\ lastPage = [k \in Kinds |-> Never]
    /\ duty \in [Replicas -> {Off(k) : k \in Kinds}]
    /\ clock = 0 /\ misses = 0
    /\ pages = [k \in Kinds |-> [t \in 0 .. MaxTime |-> 0]]

\* _check_queue_backlog and _check_sla with a figure above the threshold; any
\* other figure leaves everything as it is.
Check(r, k) ==
    /\ duty[r].at = "idle"
    /\ duty' = [duty EXCEPT ![r] = [Off(k) EXCEPT !.at = "decide"]]
    /\ UNCHANGED <<lastPage, clock, pages, misses>>

DecideOn(r, due) ==
    /\ duty[r].at = "decide"
    /\ duty' = [duty EXCEPT ![r] =
                  IF due THEN [@ EXCEPT !.at = "page", !.now = clock] ELSE Off(@.kind)]
    /\ UNCHANGED <<lastPage, clock, pages, misses>>

\* Slip: the last page is compared as if it were the end of its cooldown.
DecideEarly(r) ==
    LET last == lastPage[duty[r].kind]
    IN  DecideOn(r, last = Never \/ clock >= last)

\* The last page is read, and compared with now.
Decide(r) ==
    LET last == lastPage[duty[r].kind]
    IN  DecideOn(r, last = Never \/ clock - last >= Cooldown)

\* _send_event: what becomes of the request is not looked at.
Page(r) ==
    /\ duty[r].at = "page" /\ duty' = [duty EXCEPT ![r].at = "mark"]
    /\ pages' = [pages EXCEPT ![duty[r].kind][duty[r].now] = @ + 1]
    /\ UNCHANGED <<lastPage, misses, clock>>

\* The time of the decision is stored, not the time of the page ...
Mark(r) ==
    /\ duty[r].at = "mark" /\ duty' = [duty EXCEPT ![r] = Off(@.kind)]
    /\ lastPage' = [lastPage EXCEPT ![duty[r].kind] = duty[r].now]
    /\ UNCHANGED <<pages, misses, clock>>

\* ... unless Redis cannot be reached.
MarkFails(r) ==
    /\ duty[r].at = "mark" /\ duty' = [duty EXCEPT ![r] = Off(@.kind)]
    /\ misses < MaxMisses /\ misses' = misses + 1
    /\ UNCHANGED <<lastPage, pages, clock>>

AlertTick ==
    /\ clock < MaxTime /\ clock' = clock + 1
    /\ \A r \in Replicas : Busy(r) => clock - duty[r].now < PageTime
    /\ UNCHANGED <<lastPage, duty, pages, misses>>

AlertNext ==
    \/ AlertTick
    \/ \E r \in Replicas :
         \/ \E k \in Kinds : Check(r, k)
         \/ Decide(r) \/ Page(r) \/ Mark(r) \/ MarkFails(r)

AlertSpec == AlertInit /\ [][AlertNext]_alertVars

-----------------------------------------------------------------------------
(***************************************************************************)
(* What holds.                                                             *)
(***************************************************************************)

AlertTypeOK ==
    /\ lastPage \in [Kinds -> 0 .. MaxTime \union {Never}]
    /\ duty \in [Replicas -> [at : {"idle", "decide", "page", "mark"}, kind : Kinds,
                              now : 0 .. MaxTime]]
    /\ clock \in 0 .. MaxTime /\ misses \in 0 .. MaxMisses
    /\ pages \in [Kinds -> [0 .. MaxTime -> Nat]]

\* The times of a cooldown from t, less the time from a decision to its mark, and
\* the pages decided in them.
Spell(t) == {u \in t .. MaxTime : u < t + Cooldown - PageTime}
PagesIn(k, t) == UNION {{u} \X (1 .. pages[k][u]) : u \in Spell(t)}

\* In a cooldown, less the time from a decision to its mark, nobody is paged more
\* often than there are replicas, and once more for each mark that was lost: the
\* check, the page and the mark are three calls, and an older decision may be marked
\* over a newer one.
PagesSpaced ==
    \A k \in Kinds, t \in 0 .. MaxTime :
        Cardinality(PagesIn(k, t)) <= Cardinality(Replicas) + misses
=============================================================================
