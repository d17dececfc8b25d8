--------------------------- MODULE PerformanceFigures ---------------------------
(***************************************************************************)
(* The performance of listings: jobs of the feedback loop that ask every   *)
(* marketplace about every listing and store what they are answered, the   *)
(* aggregates and exports of it that several services read, and the        *)
(* weights that are updated from it.                                       *)
(***************************************************************************)
EXTENDS Naturals, FiniteSets

CONSTANTS
    Jobs,       \* runs of the job, in any process
    Markets,    \* CLIENTS
    Watched,    \* the listings of MARKETPLACE_LISTING_IDS
    Lookers     \* those who read the table, once each

ASSUME FiguresAssumption == IsFiniteSet(Markets) /\ IsFiniteSet(Watched)

VARIABLES
    job,        \* each run: its point, what it has still to ask, what it was answered
    figures,    \* the rows: who stored it, from which market, of which listing
    looker,     \* each reader: its point, its listings, the rows it read, rows sent
    informed    \* history: the jobs whose rows weights were updated from

figureVars == <<job, figures, looker, informed>>

Questions == Markets \X Watched
Rows == Jobs \X Markets \X Watched

FiguresInit ==
    /\ job = [j \in Jobs |-> [at |-> "new", asks |-> {}, answers |-> {}]]
    /\ figures = {}
    /\ looker = [k \in Lookers |-> [at |-> "new", about |-> {}, cursor |-> {}, sent |-> {}]]
    /\ informed = {}

\* _job, and _fetch_metrics_async: all questions are asked at once.
StartJob(j) ==
    /\ job[j].at = "new"
    /\ job' = [job EXCEPT ![j].at = "ask", ![j].asks = Questions]
    /\ UNCHANGED <<figures, looker, informed>>

Answered(j, q) ==
    /\ job[j].at = "ask" /\ q \in job[j].asks
    /\ job' = [job EXCEPT ![j].asks = @ \ {q}, ![j].answers = @ \union {q}]
    /\ UNCHANGED <<figures, looker, informed>>

\* The market cannot be reached, and the question is passed over.
NotAnswered(j, q) ==
    /\ job[j].at = "ask" /\ q \in job[j].asks
    /\ job' = [job EXCEPT ![j].asks = @ \ {q}]
    /\ UNCHANGED <<figures, looker, informed>>

\* An answer that is not numbers raises outside the try, in the task group, which
\* cancels the other questions; a process may also be killed.
EndJob(j) ==
    /\ job[j].at \in {"ask", "update"}
    /\ job' = [job EXCEPT ![j].at = "failed", ![j].asks = {}]
    /\ UNCHANGED <<figures, looker, informed>>

Collected(j) == {<<j, q[1], q[2]>> : q \in job[j].answers}

\* Slip: rows are stored as they come in.
StoreEarly(j) ==
    /\ job[j].at = "ask"
    /\ figures' = figures \union Collected(j)
    /\ job' = [job EXCEPT ![j].at = IF job[j].asks = {} THEN "update" ELSE "ask"]
    /\ UNCHANGED <<looker, informed>>

\* store_marketplace_metrics: one transaction, and none if there is nothing.
Store(j) ==
    /\ job[j].at = "ask" /\ job[j].asks = {}
    /\ figures' = figures \union Collected(j)
    /\ job' = [job EXCEPT ![j].at = "update"]
    /\ UNCHANGED <<looker, informed>>

\* update_weights_from_db sums up all rows there are.
UpdateFromFigures(j) ==
    /\ job[j].at = "update"
    /\ informed' = informed \union {r[1] : r \in figures}
    /\ job' = [job EXCEPT ![j].at = "done"]
    /\ UNCHANGED <<figures, looker>>

\* An export opens a cursor, on the rows of a listing; an aggregate, of a listing or
\* of all, is one statement.
Look(k, about) ==
    /\ looker[k].at = "new"
    /\ looker' = [looker EXCEPT ![k] = [at |-> "stream", about |-> about, sent |-> {},
                                        cursor |-> {r \in figures : r[3] \in about}]]
    /\ UNCHANGED <<job, figures, informed>>

\* A batch of the rows, or the last of them.
SendRows(k) ==
    /\ looker[k].at = "stream"
    /\ \E batch \in SUBSET (looker[k].cursor \ looker[k].sent) :
         /\ batch # {} \/ looker[k].sent = looker[k].cursor
         /\ looker' = [looker EXCEPT ![k].sent = @ \union batch,
                         ![k].at = IF looker[k].sent \union batch = looker[k].cursor
                                   THEN "done" ELSE "stream"]
    /\ UNCHANGED <<job, figures, informed>>

FiguresNext ==
    \/ \E j \in Jobs :
         \/ StartJob(j) \/ EndJob(j) \/ Store(j) \/ UpdateFromFigures(j)
         \/ \E q \in Questions : Answered(j, q) \/ NotAnswered(j, q)
    \/ \E k \in Lookers :
         SendRows(k) \/ \E about \in {Watched} \union {{l} : l \in Watched} : Look(k, about)

FiguresSpec == FiguresInit /\ [][FiguresNext]_figureVars

-----------------------------------------------------------------------------
FiguresTypeOK ==
    /\ \A j \in Jobs :
         /\ job[j].at \in {"new", "ask", "update", "done", "failed"}
         /\ job[j].asks \subseteq Questions /\ job[j].answers \subseteq Questions
    /\ figures \subseteq Rows
    /\ \A k \in Lookers :
         /\ looker[k].at \in {"new", "stream", "done"}
         /\ looker[k].about \subseteq Watched
         /\ looker[k].sent \subseteq looker[k].cursor /\ looker[k].cursor \subseteq Rows
    /\ informed \subseteq Jobs

\* Whatever is read holds all of what a job was answered about the listings it is of,
\* or nothing: half of a job is neither shown, nor are weights updated from it, and a
\* job that came to its end has informed the weights.
FiguresWhole ==
    /\ \A k \in Lookers, j \in Jobs :
         looker[k].at = "done" =>
           {r \in looker[k].sent : r[1] = j}
             \in {{}, {r \in Collected(j) : r[3] \in looker[k].about}}
    /\ \A j \in Jobs :
         /\ j \in informed => job[j].asks = {} /\ Collected(j) \subseteq figures
         /\ job[j].at = "done" /\ job[j].answers # {} => j \in informed
=============================================================================
