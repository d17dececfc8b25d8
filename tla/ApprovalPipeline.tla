-------------------------- MODULE ApprovalPipeline ---------------------------
(***************************************************************************)
(* The Dagster jobs that ask for a manual approval (jobs.py, ops.py of the *)
(* orchestrator), the approvals API of the gateway with its response cache *)
(* (routes.py), and the POSTs to the marketplace publisher.                *)
(*                                                                         *)
(* Dagster starts an op as soon as the ops it takes inputs from are done,  *)
(* and runs it again when it fails, within its retry policy.  One Tick is  *)
(* the period of the approval poll, ten seconds.                           *)
(***************************************************************************)
EXTENDS Naturals, FiniteSets

CONSTANTS
    Runs,        \* Dagster run ids
    Jobs,        \* the jobs that are scheduled, among those of Needs
    Items,       \* what /generate of the mockup service may answer
    MaxRetries,  \* RetryPolicy(max_retries)
    HttpTries,   \* POSTs of _post_with_retry
    KeyTtl,      \* ticks an approval is kept
    CacheTtl,    \* ticks the gateway caches a GET response, 0 for never
    MaxFaults    \* bound on failed polls

Publishing ==
    [ingest_signals |-> {}, score_signals |-> {"ingest_signals"},
     generate_content |-> {"score_signals"}, await_approval |-> {},
     publish_content |-> {"generate_content"}]

\* The ops of each job, with those it takes its inputs from.
Needs ==
    [idea_job |-> Publishing,
     publishing_job |-> Publishing,
     rotate_secrets_job |-> [await_approval |-> {}, rotate_k8s_secrets_op |-> {}],
     rotate_s3_keys_job |-> [await_approval |-> {}, rotate_s3_keys_op |-> {}]]

Ops == UNION {DOMAIN Needs[j] : j \in DOMAIN Needs}

ASSUME PipelineAssumption ==
    /\ Jobs \subseteq DOMAIN Needs
    /\ MaxRetries \in Nat
    /\ HttpTries \in Nat \ {0}
    /\ KeyTtl \in Nat \ {0}
    /\ CacheTtl \in Nat
    /\ MaxFaults \in Nat

VARIABLES
    job,       \* the job of a run, "none" before it is launched
    op,        \* the state of each op of a run
    tries,     \* the retries an op has used
    items,     \* what generate_content has returned
    unsent,    \* POSTs publish_content may still send for an item
    posted,    \* POSTs of an item that reached the publisher
    key,       \* ticks the key approval:{run} has left, 0 when there is none
    cache,     \* the cached GET /approvals/{run}
    poll,      \* where the poll of this tick is
    approved,  \* runs that somebody has approved at some time
    faults     \* polls that failed

dagster == <<job, op, tries>>
publisher == <<items, unsent, posted>>
gateway == <<key, cache, approved>>
vars == <<dagster, publisher, gateway, poll, faults>>

NoResponse == [answer |-> FALSE, ttl |-> 0]

Init ==
    /\ job = [r \in Runs |-> "none"]
    /\ op = [r \in Runs |-> [o \in Ops |-> "waiting"]]
    /\ tries = [r \in Runs |-> [o \in Ops |-> 0]]
    /\ items = [r \in Runs |-> {}]
    /\ unsent = [r \in Runs |-> [i \in Items |-> 0]]
    /\ posted = [r \in Runs |-> [i \in Items |-> 0]]
    /\ key = [r \in Runs |-> 0]
    /\ cache = [r \in Runs |-> NoResponse]
    /\ poll = [r \in Runs |-> "due"]
    /\ approved = {}
    /\ faults = 0

-----------------------------------------------------------------------------
(***************************************************************************)
(* Dagster.                                                                *)
(***************************************************************************)

Launch(r, j) ==
    /\ job[r] = "none"
    /\ job' = [job EXCEPT ![r] = j]
    /\ UNCHANGED <<op, tries, publisher, gateway, poll, faults>>

Plan(r) == IF job[r] = "none" THEN <<>> ELSE Needs[job[r]]

Turn(r, o, from, to) ==
    /\ op[r][o] = from
    /\ op' = [op EXCEPT ![r][o] = to]
    /\ UNCHANGED job

\* An op starts when its inputs are there; publish_content then holds one
\* _publish for each item.
Start(r, o) ==
    /\ o \in DOMAIN Plan(r)
    /\ \A input \in Plan(r)[o] : op[r][input] = "done"
    /\ Turn(r, o, "waiting", "running")
    /\ unsent' = IF o = "publish_content"
                 THEN [unsent EXCEPT ![r] =
                         [i \in Items |-> IF i \in items[r] THEN HttpTries ELSE 0]]
                 ELSE unsent
    /\ UNCHANGED <<tries, items, posted, gateway, poll, faults>>

\* An op raises: Dagster runs it again from its start, or the op has failed
\* and what depends on it never runs.
Raise(r, o) ==
    \/ /\ tries[r][o] < MaxRetries
       /\ tries' = [tries EXCEPT ![r][o] = @ + 1]
       /\ Turn(r, o, "running", "waiting")
    \/ /\ tries[r][o] >= MaxRetries
       /\ Turn(r, o, "running", "failed")
       /\ UNCHANGED tries

\* An exception the op does not catch; when one _publish raises, the others
\* are cancelled.
Fail(r, o) ==
    /\ Raise(r, o)
    /\ unsent' = IF o = "publish_content"
                 THEN [unsent EXCEPT ![r] = [i \in Items |-> 0]] ELSE unsent
    /\ UNCHANGED <<items, posted, gateway, poll, faults>>

\* ingest_signals, score_signals and the rotations return.
Finish(r, o) ==
    /\ o \notin {"generate_content", "await_approval", "publish_content"}
    /\ Turn(r, o, "running", "done")
    /\ UNCHANGED <<tries, publisher, gateway, poll, faults>>

\* generate_content returns the items of the answers; a lone batch that could
\* not be generated counts as no items.
Generate(r) ==
    /\ Turn(r, "generate_content", "running", "done")
    /\ \E answer \in SUBSET Items : items' = [items EXCEPT ![r] = answer]
    /\ UNCHANGED <<tries, unsent, posted, gateway, poll, faults>>

-----------------------------------------------------------------------------
(***************************************************************************)
(* publish_content.                                                        *)
(***************************************************************************)

\* Slip: a POST that failed does not use up a try.
PostForEver(r, i) ==
    /\ op[r]["publish_content"] = "running"
    /\ unsent[r][i] > 0
    /\ \E reached, answered \in {0, 1} :
         /\ answered <= reached
         /\ posted' = [posted EXCEPT ![r][i] = @ + reached]
         /\ unsent' = [unsent EXCEPT ![r][i] = IF answered = 1 THEN 0 ELSE @]
    /\ UNCHANGED <<dagster, items, gateway, poll, faults>>

\* One POST /publish: it may reach the publisher and still be answered by an
\* error or a timeout, and is then sent again; after the last try the item is
\* given up with a warning.
Post(r, i) ==
    /\ op[r]["publish_content"] = "running"
    /\ unsent[r][i] > 0
    /\ \E reached, answered \in {0, 1} :
         /\ answered <= reached
         /\ posted' = [posted EXCEPT ![r][i] = @ + reached]
         /\ unsent' = [unsent EXCEPT ![r][i] = IF answered = 1 THEN 0 ELSE @ - 1]
    /\ UNCHANGED <<dagster, items, gateway, poll, faults>>

Published(r) ==
    /\ \A i \in Items : unsent[r][i] = 0
    /\ Turn(r, "publish_content", "running", "done")
    /\ UNCHANGED <<tries, publisher, gateway, poll, faults>>

-----------------------------------------------------------------------------
(***************************************************************************)
(* await_approval and the approvals API.                                   *)
(***************************************************************************)

Waiting(r) == op[r]["await_approval"] = "running"

\* What await_approval does with an answer.
Answer(r, yes) ==
    /\ IF yes THEN Turn(r, "await_approval", "running", "done")
       ELSE UNCHANGED <<job, op>>
    /\ poll' = [poll EXCEPT ![r] = "done"]
    /\ UNCHANGED <<tries, publisher, key, approved, faults>>

\* CacheControlRoute answers with the cached body.
PollCache(r) ==
    /\ Waiting(r) /\ poll[r] = "due"
    /\ cache[r].ttl > 0
    /\ Answer(r, cache[r].answer)
    /\ UNCHANGED cache

\* check_approval reads the key ...
PollKey(r) ==
    /\ Waiting(r) /\ poll[r] = "due"
    /\ cache[r].ttl = 0
    /\ poll' = [poll EXCEPT ![r] = IF key[r] > 0 THEN "yes" ELSE "no"]
    /\ UNCHANGED <<dagster, publisher, gateway, faults>>

\* Slip: the response is cached for longer than the approval is kept.
PollFillTooLong(r) ==
    /\ Waiting(r) /\ poll[r] \in {"yes", "no"}
    /\ cache' = [cache EXCEPT ![r] = [answer |-> poll[r] = "yes", ttl |-> KeyTtl + 1]]
    /\ Answer(r, poll[r] = "yes")

\* ... and the route caches the response before it is sent.
PollFill(r) ==
    /\ Waiting(r) /\ poll[r] \in {"yes", "no"}
    /\ cache' = [cache EXCEPT ![r] = [answer |-> poll[r] = "yes", ttl |-> CacheTtl]]
    /\ Answer(r, poll[r] = "yes")

\* Slip: a poll that fails is taken for an approval.
PollFailsOpen(r) ==
    /\ Waiting(r) /\ poll[r] # "done"
    /\ faults < MaxFaults
    /\ faults' = faults + 1
    /\ poll' = [poll EXCEPT ![r] = "done"]
    /\ Turn(r, "await_approval", "running", "done")
    /\ UNCHANGED <<tries, publisher, gateway>>

\* The poll times out or is refused: a warning, and the next one in a while.
PollFails(r) ==
    /\ Waiting(r) /\ poll[r] # "done"
    /\ faults < MaxFaults
    /\ faults' = faults + 1
    /\ poll' = [poll EXCEPT ![r] = "done"]
    /\ UNCHANGED <<dagster, publisher, gateway>>

\* POST /approvals/{run_id}. DELETE /approvals/{run_id} is no action: it takes
\* the run out of the set pending_runs only, which nothing here fills or reads.
Approve(r) ==
    /\ key' = [key EXCEPT ![r] = KeyTtl]
    /\ approved' = approved \union {r}
    /\ UNCHANGED <<dagster, publisher, cache, poll, faults>>

Less(n) == IF n = 0 THEN 0 ELSE n - 1

\* Ten seconds: every waiting run has polled, and polls again.
Tick ==
    /\ \A r \in Runs : Waiting(r) => poll[r] = "done"
    /\ poll' = [r \in Runs |-> "due"]
    /\ key' = [r \in Runs |-> Less(key[r])]
    /\ cache' = [r \in Runs |-> [cache[r] EXCEPT !.ttl = Less(@)]]
    /\ UNCHANGED <<dagster, publisher, approved, faults>>

-----------------------------------------------------------------------------

Poll(r) == PollCache(r) \/ PollKey(r) \/ PollFill(r)

Next ==
    \/ \E r \in Runs :
         \/ \E j \in Jobs : Launch(r, j)
         \/ \E o \in Ops : Start(r, o) \/ Fail(r, o) \/ Finish(r, o)
         \/ Generate(r)
         \/ \E i \in Items : Post(r, i)
         \/ Published(r)
         \/ Poll(r) \/ PollFails(r)
         \/ Approve(r)
    \/ Tick

Spec == Init /\ [][Next]_vars

\* Time passes, and the poll loop of a waiting run is scheduled.
FairSpec == Spec /\ WF_vars(Tick) /\ \A r \in Runs : WF_vars(Poll(r))

-----------------------------------------------------------------------------
(***************************************************************************)
(* What the approval is worth.                                             *)
(***************************************************************************)

TypeOK ==
    /\ job \in [Runs -> Jobs \union {"none"}]
    /\ op \in [Runs -> [Ops -> {"waiting", "running", "done", "failed"}]]
    /\ tries \in [Runs -> [Ops -> 0 .. MaxRetries]]
    /\ items \in [Runs -> SUBSET Items]
    /\ unsent \in [Runs -> [Items -> 0 .. HttpTries]]
    /\ posted \in [Runs -> [Items -> Nat]]
    /\ key \in [Runs -> 0 .. KeyTtl]
    /\ cache \in [Runs -> [answer : BOOLEAN, ttl : 0 .. CacheTtl]]
    /\ poll \in [Runs -> {"due", "yes", "no", "done"}]
    /\ approved \subseteq Runs
    /\ faults \in 0 .. MaxFaults

Succeeded(r) ==
    job[r] # "none" /\ \A o \in DOMAIN Plan(r) : op[r][o] = "done"

\* No run of a job with an approval step succeeds before somebody approved
\* that very run, whatever the gateway has cached.
SucceededApproved == \A r \in Runs : Succeeded(r) => r \in approved

\* The inductive form: every copy of an approval goes back to an approval.
IInv ==
    \A r \in Runs \ approved :
        /\ key[r] = 0
        /\ ~(cache[r].answer /\ cache[r].ttl > 0)
        /\ poll[r] # "yes"
        /\ op[r]["await_approval"] # "done"

\* POSTs that time out are sent again and ops that raise start over, so an
\* item can be published several times, but not more often than both retry
\* policies together allow.
PostsBounded ==
    \A r \in Runs, i \in Items :
        posted[r][i] + unsent[r][i] <= HttpTries * (tries[r]["publish_content"] + 1)

\* An approval that is given while a run waits ends the wait: the cached
\* answers and the polls that fail do not outlive the approval's key.
ApprovalHeard ==
    \A r \in Runs : (Waiting(r) /\ key[r] = KeyTtl) ~> ~Waiting(r)

\* The ops that an approval is there for.
Guarded == {"publish_content", "rotate_k8s_secrets_op", "rotate_s3_keys_op"}

\* "The job waits for manual approval via the /approvals API before executing
\* scripts/rotate_secrets.rotate()"; "Click Approve next to a run to unblock
\* publishing".
GuardedWaits ==
    \A r \in Runs, o \in Guarded : op[r][o] # "waiting" => r \in approved
=============================================================================
