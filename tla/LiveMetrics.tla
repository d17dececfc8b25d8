------------------------------- MODULE LiveMetrics -------------------------------
(***************************************************************************)
(* Metrics on a page of the dashboard: the gateway asks two services again *)
(* and again and sends what they answer over a WebSocket; the page takes a *)
(* message only when an interval has passed since the last one it took,    *)
(* and connects anew when the connection is lost.                          *)
(***************************************************************************)
EXTENDS Naturals, Sequences, SequencesExt

CONSTANTS
    Interval,   \* ws_interval_ms, in ticks
    AskTime,    \* bound on the ticks that the services take to answer
    Transit,    \* bound on the ticks that a message takes
    MaxRetries  \* NEXT_PUBLIC_WS_MAX_RETRIES

ASSUME LiveAssumption ==
    /\ Interval \in Nat \ {0} /\ AskTime \in Nat /\ MaxRetries \in Nat
    /\ Transit \in 0 .. Interval

Services == {"overview", "analytics"}

VARIABLES
    view,       \* whether the page is mounted; retries, the timer of a new connection
    shown,      \* the age of what it shows, the ticks since it took that
    stream,     \* the gateway's loop: its point, who is asked, the ticks at it
    wire,       \* the messages on their way: the age of what is in them, the ticks
    fed,        \* history: a message of this connection was taken
    orphaned    \* history: the page went while a timer of its was running

liveVars == <<view, shown, stream, wire, fed, orphaned>>

\* An age beyond every bound.
Stalest == 2 * Interval + 3 * AskTime + 2 * Transit

NothingShown == [age |-> Stalest, since |-> Stalest]
Asking == [at |-> "ask", asked |-> Services, ticks |-> 0]
Closed == [at |-> "closed", asked |-> {}, ticks |-> 0]
Connecting == [Closed EXCEPT !.at = "connecting"]

\* The page is mounted and connects.
LiveInit ==
    /\ view = [mounted |-> TRUE, retries |-> 0, timer |-> FALSE]
    /\ shown = NothingShown /\ stream = Connecting /\ wire = <<>>
    /\ fed = FALSE /\ orphaned = FALSE

-----------------------------------------------------------------------------
(***************************************************************************)
(* The gateway.                                                            *)
(***************************************************************************)

\* metrics_ws: accepts, tells its interval, and begins to ask.
Accept ==
    /\ stream.at = "connecting" /\ stream' = Asking
    /\ UNCHANGED <<view, shown, wire, fed, orphaned>>

\* A service answers, with what there is or with an error, which is left out.
Answers(s) ==
    /\ stream.at = "ask" /\ s \in stream.asked
    /\ stream' = [stream EXCEPT !.asked = @ \ {s}]
    /\ UNCHANGED <<view, shown, wire, fed, orphaned>>

\* Both have answered: what they did is sent, and the loop sleeps.
Send ==
    /\ stream.at = "ask" /\ stream.asked = {}
    /\ stream' = [stream EXCEPT !.at = "sleep", !.ticks = 0]
    /\ wire' = Append(wire, [age |-> stream.ticks, ticks |-> 0])
    /\ UNCHANGED <<view, shown, fed, orphaned>>

AskAnew ==
    /\ stream.at = "sleep" /\ stream.ticks = Interval
    /\ stream' = Asking
    /\ UNCHANGED <<view, shown, wire, fed, orphaned>>

\* The connection ends, and what is on its way is lost.
Lost == stream' = Closed /\ wire' = <<>>

\* onclose: a page that is mounted sets a timer, as often as it may.
OnClose ==
    /\ Lost
    /\ view' = IF view.mounted /\ view.retries < MaxRetries
               THEN [view EXCEPT !.retries = @ + 1, !.timer = TRUE] ELSE view
    /\ UNCHANGED <<shown, fed, orphaned>>

\* An exception of either request ends the loop, and so does the gateway when it
\* stops and closes its clients, or the network.
AskRaises == stream.at = "ask" /\ stream.asked # {} /\ OnClose
ConnectionLost == stream.at # "closed" /\ OnClose

-----------------------------------------------------------------------------
(***************************************************************************)
(* The page.                                                               *)
(***************************************************************************)

\* The timer connects, whatever has become of the page.
Connect ==
    /\ view.timer /\ view' = [view EXCEPT !.timer = FALSE]
    /\ view.retries <= MaxRetries /\ stream' = Connecting
    /\ fed' = FALSE
    /\ UNCHANGED <<shown, wire, orphaned>>

\* onmessage takes what comes an interval after the last that was taken.
OnMessage ==
    /\ wire # <<>> /\ wire' = Tail(wire)
    /\ IF shown.since < Interval THEN UNCHANGED <<shown, fed>>
       ELSE shown' = [age |-> Head(wire).age, since |-> 0] /\ fed' = TRUE
    /\ UNCHANGED <<view, stream, orphaned>>

\* The page goes and closes its connection, but not its timer.
Unmount ==
    /\ view.mounted /\ view' = [view EXCEPT !.mounted = FALSE]
    /\ orphaned' = view.timer
    /\ Lost
    /\ UNCHANGED <<shown, fed>>

-----------------------------------------------------------------------------
AgeAfter(n) == IF n < Stalest THEN n + 1 ELSE n

\* Time passes, but not beyond what a service, a message and the sleep may take.
LiveTick ==
    /\ stream.at # "closed"
    /\ stream.at = "ask" => stream.asked # {} /\ stream.ticks < AskTime
    /\ stream.at = "sleep" => stream.ticks < Interval
    /\ \A i \in DOMAIN wire : wire[i].ticks < Transit
    /\ stream' = [stream EXCEPT !.ticks = IF stream.at = "connecting" THEN 0 ELSE @ + 1]
    /\ shown' = [age |-> AgeAfter(shown.age), since |-> AgeAfter(shown.since)]
    /\ wire' = [i \in DOMAIN wire |-> [age |-> wire[i].age + 1, ticks |-> wire[i].ticks + 1]]
    /\ UNCHANGED <<view, fed, orphaned>>

LiveNext ==
    \/ Connect \/ Accept \/ (\E s \in Services : Answers(s)) \/ Send \/ AskAnew
    \/ AskRaises \/ ConnectionLost \/ OnMessage \/ Unmount \/ LiveTick

LiveSpec == LiveInit /\ [][LiveNext]_liveVars

-----------------------------------------------------------------------------
LiveTypeOK ==
    /\ view \in [mounted : BOOLEAN, retries : 0 .. MaxRetries, timer : BOOLEAN]
    /\ shown \in [age : 0 .. Stalest, since : 0 .. Stalest]
    /\ stream \in [at : {"closed", "connecting", "ask", "sleep"}, asked : SUBSET Services,
                   ticks : 0 .. Interval + AskTime]
    /\ wire \in BoundedSeq([age : 0 .. AskTime + Transit, ticks : 0 .. Transit], 2)
    /\ fed \in BOOLEAN /\ orphaned \in BOOLEAN

\* While a connection goes on that the page has taken a message of, what it shows is
\* never older than two intervals and the delays around them, though messages that
\* come a little early are passed over; and a page that has gone is connected only
\* if it went while it was waiting to connect.
PageCurrent ==
    /\ fed /\ stream.at # "closed" /\ view.mounted => shown.age < Stalest
    /\ ~view.mounted /\ stream.at # "closed" => orphaned
=============================================================================
