----------------------------- MODULE PublishTask -----------------------------
(***************************************************************************)
(* The publish task of the marketplace publisher: the publish_task rows of *)
(* db.py, the background publishes of main.py that work on them, and the   *)
(* handlers that touch the same rows meanwhile (retry, PATCH, webhook).    *)
(*                                                                         *)
(* A chain is what one POST /publish or POST /tasks/{id}/retry starts: a   *)
(* _background_publish and, as long as it fails and may retry, the next    *)
(* one it creates with asyncio.create_task.  A chain lives in the memory   *)
(* of one process only, and several chains can work on the same task.      *)
(* Each action ends where the coroutine awaits the database.               *)
(***************************************************************************)
EXTENDS Integers, FiniteSets

CONSTANTS
    Tasks,         \* publish_task ids
    Chains,        \* one per POST /publish or POST /tasks/{id}/retry
    Editors,       \* one per PATCH /tasks/{id}
    HookStatuses,  \* the statuses marketplaces report to /webhooks
    MaxAttempts,   \* settings.max_attempts
    HttpRetries,   \* DEFAULT_RETRIES: POSTs request_with_retry sends at most
    NoTask         \* the task of a chain that has not begun

PublishStatus == {"pending", "in_progress", "success", "failed"}

ASSUME ConstantsAssumption ==
    /\ IsFiniteSet(Chains)
    /\ IsFiniteSet(Editors)
    /\ HookStatuses \subseteq PublishStatus
    /\ NoTask \notin Tasks
    /\ MaxAttempts \in Nat \ {0}
    /\ HttpRetries \in Nat \ {0}

VARIABLES
    status,     \* PublishTask.status, "absent" before the row exists
    attempts,   \* PublishTask.attempts
    metadata,   \* PublishTask.metadata_json, as the number of edits stored
    events,     \* WebhookEvent.status of the rows of a task
    listings,   \* listings the marketplace has created for the task
    published,  \* the metadata those listings were created with
    measured,   \* MarketplacePerformanceMetric rows inserted for the task
    notified,   \* notify_failure calls for the task
    pc,         \* where each chain is
    task,       \* the task a chain works on
    tries,      \* background publishes the chain has begun
    seen,       \* attempts in the session's identity map
    carried,    \* the metadata the running publish has loaded
    lost,       \* chains cut by a restart or an uncaught exception
    editor      \* where each PATCH is, and its task

rows == <<status, attempts, metadata, events>>
world == <<listings, published, measured, notified>>
session == <<tries, seen, carried>>
vars == <<rows, world, session, pc, task, lost, editor>>

\* The identity map holds no attempts: a rollback has expired the row.
Expired == -1

\* The steps of a chain that some process still has to take.
Pending == {"scheduled", "loaded", "started", "refused", "listed",
            "confirmed", "failing", "counted", "marked", "checked"}

Live(c) == pc[c] \in Pending /\ c \notin lost

Init ==
    /\ status = [t \in Tasks |-> "absent"]
    /\ attempts = [t \in Tasks |-> 0]
    /\ metadata = [t \in Tasks |-> 0]
    /\ events = [t \in Tasks |-> {}]
    /\ listings = [t \in Tasks |-> 0]
    /\ published = [t \in Tasks |-> {}]
    /\ measured = [t \in Tasks |-> 0]
    /\ notified = [t \in Tasks |-> 0]
    /\ pc = [c \in Chains |-> "idle"]
    /\ task = [c \in Chains |-> NoTask]
    /\ tries = [c \in Chains |-> 0]
    /\ seen = [c \in Chains |-> 0]
    /\ carried = [c \in Chains |-> 0]
    /\ lost = {}
    /\ editor = [e \in Editors |-> [step |-> "idle", task |-> NoTask]]

-----------------------------------------------------------------------------
(***************************************************************************)
(* Handlers that start a chain.                                            *)
(***************************************************************************)

Begin(c, t) ==
    /\ pc[c] = "idle"
    /\ pc' = [pc EXCEPT ![c] = "scheduled"]
    /\ task' = [task EXCEPT ![c] = t]
    /\ UNCHANGED <<attempts, metadata, events, world, session, lost, editor>>

\* POST /publish, once the feature flag, the rate limiter and validate_mockup
\* have let the request through: the row is committed, then the publish is
\* handed to BackgroundTasks.
CreateTask(c, t) ==
    /\ status[t] = "absent"
    /\ status' = [status EXCEPT ![t] = "pending"]
    /\ Begin(c, t)

\* POST /tasks/{id}/retry asks only that the row exists.
RetryTask(c, t) ==
    /\ status[t] # "absent"
    /\ Begin(c, t)
    /\ UNCHANGED status

-----------------------------------------------------------------------------
(***************************************************************************)
(* One background publish, from await to await.                            *)
(***************************************************************************)

Step(c, from, to) ==
    /\ pc[c] = from
    /\ c \notin lost
    /\ pc' = [pc EXCEPT ![c] = to]
    /\ UNCHANGED <<metadata, events, task, lost, editor>>

\* update_task_status commits s whatever the row says.
WriteStatus(c, s) ==
    /\ status' = [status EXCEPT ![task[c]] = s]
    /\ UNCHANGED <<attempts, world, session>>

Notify(c) ==
    /\ notified' = [notified EXCEPT ![task[c]] = @ + 1]
    /\ UNCHANGED <<status, attempts, listings, published, measured, session>>

\* n of the POSTs of one publish_design reached the marketplace and made a
\* listing; the answers of all but the last were lost.
Upload(c, n) ==
    /\ listings' = [listings EXCEPT ![task[c]] = @ + n]
    /\ published' = IF n = 0 THEN published
                    ELSE [published EXCEPT ![task[c]] = @ \union {carried[c]}]
    /\ UNCHANGED <<status, attempts, measured, notified, session>>

\* The task is read into the session; the session keeps what it has read.
Load(c) ==
    /\ Step(c, "scheduled", "loaded")
    /\ seen' = [seen EXCEPT ![c] = attempts[task[c]]]
    /\ carried' = [carried EXCEPT ![c] = metadata[task[c]]]
    /\ tries' = [tries EXCEPT ![c] = @ + 1]
    /\ UNCHANGED <<status, attempts, world>>

Start(c) == Step(c, "loaded", "started") /\ WriteStatus(c, "in_progress")

\* validate_mockup or publish_design gives a policy reason: the task fails
\* for good, whatever its attempts.
Refuse(c) == Step(c, "started", "refused") /\ WriteStatus(c, "failed")

\* Slip: a refused design is tried again.
ReportRefusalAndRetry(c) == Step(c, "refused", "scheduled") /\ Notify(c)

ReportRefusal(c) == Step(c, "refused", "rejected") /\ Notify(c)

UploadAnswered(c) ==
    Step(c, "started", "listed") /\ \E n \in 1 .. HttpRetries : Upload(c, n)

\* request_with_retry gives up: RequestException.
UploadFails(c) ==
    Step(c, "started", "failing") /\ \E n \in 0 .. HttpRetries : Upload(c, n)

\* An update of the row raises SQLAlchemyError at its commit; the rollback
\* expires what the session has read.
WriteFails(c) ==
    /\ \E step \in {"loaded", "started", "listed"} : Step(c, step, "failing")
    /\ seen' = [seen EXCEPT ![c] = Expired]
    /\ UNCHANGED <<status, attempts, world, tries, carried>>

Confirm(c) == Step(c, "listed", "confirmed") /\ WriteStatus(c, "success")

\* Slip: a failure to fetch the metrics marks the task as failed.
MeasureOrFail(c) == Step(c, "confirmed", "done") /\ WriteStatus(c, "failed")

\* The metrics of the new listing are fetched and stored.
Measure(c) ==
    /\ Step(c, "confirmed", "done")
    /\ measured' = [measured EXCEPT ![task[c]] = @ + 1]
    /\ UNCHANGED <<status, attempts, listings, published, notified, session>>

\* increment_attempts adds one in SQL; the session applies the same increment
\* to the value it holds, however old.
Count(c) ==
    /\ Step(c, "failing", "counted")
    /\ attempts' = [attempts EXCEPT ![task[c]] = @ + 1]
    /\ seen' = [seen EXCEPT ![c] = IF @ = Expired THEN Expired ELSE @ + 1]
    /\ UNCHANGED <<status, world, tries, carried>>

\* Slip: the status of a failed attempt is not written.
MarkFailedForgotten(c) ==
    Step(c, "counted", "marked") /\ UNCHANGED <<status, attempts, world, session>>

MarkFailed(c) == Step(c, "counted", "marked") /\ WriteStatus(c, "failed")

\* Slip: > for >= in the exhaustion test.
CheckExhaustedStrictly(c) ==
    /\ Step(c, "marked", "checked")
    /\ \/ attempts[task[c]] > MaxAttempts /\ Notify(c)
       \/ attempts[task[c]] <= MaxAttempts
          /\ UNCHANGED <<status, attempts, world, session>>

\* Slip: while for if: the column is read until it has reached the limit.
CheckExhaustedForEver(c) ==
    /\ Step(c, "marked", "checked")
    /\ attempts[task[c]] >= MaxAttempts /\ Notify(c)

\* publish_with_retry reads the column and notifies on its value.
CheckExhausted(c) ==
    /\ Step(c, "marked", "checked")
    /\ \/ attempts[task[c]] >= MaxAttempts /\ Notify(c)
       \/ attempts[task[c]] < MaxAttempts
          /\ UNCHANGED <<status, attempts, world, session>>

\* What get_task returns in the same session: the identity map's value, or
\* the row's when a rollback has expired it.
Refreshed(c) == IF seen[c] = Expired THEN attempts[task[c]] ELSE seen[c]

Continue(c, again) ==
    /\ Step(c, "checked", IF again THEN "scheduled" ELSE "exhausted")
    /\ UNCHANGED <<status, attempts, world, session>>

\* Slip: the chain counts its own tries, not the attempts of the row.
DecideOnOwnTries(c) == Continue(c, tries[c] < MaxAttempts)

\* _background_publish decides on that value whether to create the next one.
Decide(c) == Continue(c, Refreshed(c) < MaxAttempts)

\* A restart of the process, or an exception publish_with_retry does not
\* catch: nothing on disk says that the chain was to go on.
Lose(c) ==
    /\ Live(c)
    /\ lost' = lost \union {c}
    /\ UNCHANGED <<rows, world, session, pc, task, editor>>

-----------------------------------------------------------------------------
(***************************************************************************)
(* The other handlers of the rows.                                         *)
(***************************************************************************)

chains == <<session, pc, task, lost>>

Report(t, event, s) ==
    /\ status[t] # "absent"
    /\ events' = [events EXCEPT ![t] = @ \union {event}]
    /\ status' = [status EXCEPT ![t] = s]
    /\ UNCHANGED <<attempts, metadata, world, chains, editor>>

\* create_webhook_event stores the event and its status over any other.
Webhook(t, s) == Report(t, s, s)

\* update_task_metadata looks at the status in one statement ...
PatchCheck(e, t) ==
    /\ editor[e].step = "idle"
    /\ status[t] = "pending"
    /\ editor' = [editor EXCEPT ![e] = [step |-> "allowed", task |-> t]]
    /\ UNCHANGED <<rows, world, chains>>

\* ... and writes the metadata in another.
PatchWrite(e) ==
    /\ editor[e].step = "allowed"
    /\ editor' = [editor EXCEPT ![e].step = "stored"]
    /\ metadata' = [metadata EXCEPT ![editor[e].task] = @ + 1]
    /\ UNCHANGED <<status, attempts, events, world, chains>>

-----------------------------------------------------------------------------

Attempt(c) ==
    \/ Load(c)
    \/ Start(c)
    \/ Refuse(c)
    \/ ReportRefusal(c)
    \/ UploadAnswered(c)
    \/ UploadFails(c)
    \/ WriteFails(c)
    \/ Confirm(c)
    \/ Measure(c)
    \/ Count(c)
    \/ MarkFailed(c)
    \/ CheckExhausted(c)
    \/ Decide(c)

Trigger(c) == \E t \in Tasks : CreateTask(c, t) \/ RetryTask(c, t)

Outside ==
    \/ \E t \in Tasks, s \in HookStatuses : Webhook(t, s)
    \/ \E e \in Editors, t \in Tasks : PatchCheck(e, t)
    \/ \E e \in Editors : PatchWrite(e)

Next ==
    \/ \E c \in Chains : Trigger(c) \/ Attempt(c) \/ Lose(c)
    \/ Outside

Spec == Init /\ [][Next]_vars

\* The event loop runs every task it holds: a chain that is not lost goes on.
FairSpec == Spec /\ \A c \in Chains : WF_vars(Attempt(c))

-----------------------------------------------------------------------------
(***************************************************************************)
(* What the rows and the chains keep to.                                   *)
(***************************************************************************)

ChainsOn(t) == {c \in Chains : task[c] = t}

\* Every variable keeps the shape its column or its coroutine gives it; in
\* particular the status of a row is always a PublishStatus.
TypeOK ==
    /\ status \in [Tasks -> PublishStatus \union {"absent"}]
    /\ attempts \in [Tasks -> Nat]
    /\ metadata \in [Tasks -> Nat]
    /\ events \in [Tasks -> SUBSET PublishStatus]
    /\ listings \in [Tasks -> Nat]
    /\ published \in [Tasks -> SUBSET Nat]
    /\ measured \in [Tasks -> Nat]
    /\ notified \in [Tasks -> Nat]
    /\ pc \in [Chains -> Pending \union
                 {"idle", "rejected", "done", "exhausted"}]
    /\ task \in [Chains -> Tasks \union {NoTask}]
    /\ \A c \in Chains : pc[c] # "idle" => task[c] \in Tasks
    /\ tries \in [Chains -> Nat]
    /\ seen \in [Chains -> Nat \union {Expired}]
    /\ carried \in [Chains -> Nat]
    /\ lost \subseteq Chains
    /\ editor \in [Editors -> [step : {"idle", "allowed", "stored"},
                               task : Tasks \union {NoTask}]]
    /\ \A e \in Editors : editor[e].step # "idle" => editor[e].task \in Tasks

\* The failures of a chain: all its publishes but the one under way, or the
\* one that ended it well.
Failures(c) ==
    IF pc[c] \in {"idle", "scheduled", "counted", "marked", "checked",
                  "exhausted"}
    THEN tries[c]
    ELSE tries[c] - 1

\* The failed publishes of a task: the chain, and the number of its failure.
Failed(t) == UNION {{c} \X (1 .. Failures(c)) : c \in ChainsOn(t)}

\* However the publishes of a task interleave, the attempts column has counted
\* each failed one exactly once (increment_attempts is one SQL increment).
AttemptsCounted == \A t \in Tasks : attempts[t] = Cardinality(Failed(t))

\* One POST /publish or /retry never publishes more than max_attempts times,
\* whatever other chains do to the row it decides on.
ChainBounded == \A c \in Chains : tries[c] <= MaxAttempts

\* Chains that run on the same task at the same time decide on old values of
\* attempts, but each of them can exceed the limit by two publishes at most.
AttemptsBounded ==
    \A t \in Tasks : ChainsOn(t) # {} =>
        attempts[t] <= MaxAttempts + 2 * (Cardinality(ChainsOn(t)) - 1)

\* A chain that has yet to write how its publish went.
Owing == {"started", "listed", "failing", "counted"}

\* A row left in_progress is owed another status by some chain (which may have
\* been cut), or a webhook said so: no chain that ends by itself leaves it
\* behind, not even when another chain writes the same row in between.
InProgressOwned ==
    \A t \in Tasks : status[t] = "in_progress" =>
        \/ \E c \in ChainsOn(t) : pc[c] \in Owing
        \/ "in_progress" \in events[t]

\* When every chain of a task has ended by itself and one of them gave up,
\* somebody was told: the chain that decides and the read that notifies look
\* at different values of attempts, but together they never stay silent.
GivenUpNotified ==
    \A t \in Tasks :
        /\ \A c \in ChainsOn(t) : pc[c] \notin Pending
        /\ \E c \in ChainsOn(t) : pc[c] = "exhausted"
        => notified[t] > 0

\* The inductive form of ChainBounded and GivenUpNotified.  What a chain has
\* seen lies between its own failures and the attempts of the row.
ChainOK(c) ==
    /\ pc[c] = "idle" => tries[c] = 0 /\ seen[c] = 0
    /\ pc[c] \notin {"idle", "scheduled"} => tries[c] > 0
    /\ tries[c] <= MaxAttempts
    /\ pc[c] = "scheduled" => tries[c] < MaxAttempts
    /\ pc[c] # "idle" => /\ Failures(c) <= attempts[task[c]]
                        /\ seen[c] <= attempts[task[c]]
    /\ pc[c] \in {"loaded", "started", "listed", "failing",
                  "counted", "marked", "checked"}
         => seen[c] = Expired \/ seen[c] >= Failures(c)

ChainInv == \A c \in Chains : ChainOK(c)

\* Attempts reach the limit in the hands of a chain that will read them there.
ExhaustionInv ==
    /\ \A c \in Chains : pc[c] = "exhausted" => attempts[task[c]] >= MaxAttempts
    /\ \A t \in Tasks : attempts[t] >= MaxAttempts =>
          notified[t] > 0 \/ \E c \in ChainsOn(t) : pc[c] \in {"counted", "marked"}

IInv == ChainInv /\ ExhaustionInv

\* The extra listings a task can have are accounted for by its attempts: each
\* failed publish and each chain's last publish make at most HttpRetries.
DuplicatesAccounted ==
    \A t \in Tasks :
        listings[t] <= HttpRetries * (attempts[t] + Cardinality(ChainsOn(t)))

\* The counter of a task, the limit its chains stop at and the listings they may
\* leave behind add up, however their publishes interleave.
AttemptsAccounted == AttemptsCounted /\ AttemptsBounded /\ DuplicatesAccounted

\* Success and metrics are only ever recorded for a listing that exists,
\* unless the marketplace itself reported the success.
SuccessBacked ==
    \A t \in Tasks :
        /\ status[t] = "success" => listings[t] > 0 \/ "success" \in events[t]
        /\ measured[t] <= listings[t]

\* Only a second chain or a webhook takes a success back: the chain that
\* recorded it never does.
SuccessTakenBack ==
    [][\A t \in Tasks :
         status[t] = "success" /\ status'[t] # "success" =>
            events[t] # {} \/ events'[t] # {} \/ Cardinality(ChainsOn(t)) > 1]_vars

\* A success is recorded for a listing that exists, or on the word of the
\* marketplace, and the chain that recorded it lets it stand.
SuccessSound == []SuccessBacked /\ SuccessTakenBack

\* A chain goes on until it ends or is cut: no combination of stale reads makes
\* it retry for ever.
ChainEnds == \A c \in Chains : Live(c) ~> ~Live(c)

\* An edit that PATCH /tasks/{id} accepted is what every later listing of the
\* task carries.
EditPublished ==
    [][\A t \in Tasks :
         published'[t] # published[t] => metadata[t] \in published'[t]]_vars

-----------------------------------------------------------------------------
(***************************************************************************)
(* A chain keeps the budget of the trigger that started it.                *)
(***************************************************************************)

Phase(c) ==
    CASE pc[c] = "idle" -> "idle"
      [] Live(c) -> "running"
      [] c \in lost -> "cut"
      [] OTHER -> "ended"

Budget == INSTANCE RetryBudget WITH
    Triggers <- Chains,
    Budget <- MaxAttempts,
    phase <- [c \in Chains |-> Phase(c)],
    begun <- tries,
    failed <- [c \in Chains |-> Failures(c)]

\* Whatever the row goes through, each chain takes its publishes one at a time,
\* the next only after a failure, and stops at max_attempts.
KeepsBudget == Budget!Spec
=============================================================================
