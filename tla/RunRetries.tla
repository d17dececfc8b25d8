------------------------------- MODULE RunRetries -------------------------------
(***************************************************************************)
(* The sensors of the orchestrator and the runs they launch.  A daemon     *)
(* evaluates the sensors that the definitions of the code location list,   *)
(* and launches what one of them asks for if the sensor names a job.       *)
(* reschedule_failed_runs goes through all failed runs there ever were and *)
(* relies on the run keys, which are launched once each; it is written,    *)
(* but neither listed nor given a job.                                     *)
(***************************************************************************)
EXTENDS Naturals, FiniteSets

CONSTANTS
    MaxReschedule,  \* MAX_RESCHEDULE_ATTEMPTS
    AutoRun,        \* AUTO_RUN_IDEA is "true"
    MaxRoots        \* bound on the runs that schedules and idea_sensor launch

\* The sensors of the definitions, and those with a job they may launch.
Registered == {"idea_sensor", "run_failure_notifier"}
Targeted == {"idea_sensor"}

Runs == 1 .. MaxRoots * (MaxReschedule + 1)

VARIABLES
    run,        \* of each run: its status, its tag retry_attempt, whom it comes from
    runKeys,    \* the run keys that were launched
    requests    \* what the sensor asked for in this tick, and is not launched yet

retryVars == <<run, runKeys, requests>>

NotLaunched == [status |-> "none", attempt |-> 0, root |-> 0]

RetryInit == run = [r \in Runs |-> NotLaunched] /\ runKeys = {} /\ requests = {}

\* Runs are numbered in the order they are launched in.
Launch(r, attempt, root) ==
    /\ run[r].status = "none" /\ \A s \in Runs : s < r => run[s].status # "none"
    /\ run' = [run EXCEPT ![r] = [status |-> "running", attempt |-> attempt, root |-> root]]

LaunchRoot(r) ==
    /\ Cardinality({s \in Runs : run[s].root = s}) < MaxRoots
    /\ Launch(r, 0, r)
    /\ UNCHANGED <<runKeys, requests>>

\* A schedule launches a run, with no tags ...
ScheduleTick(r) == LaunchRoot(r)

\* ... and so does idea_sensor, if it may: its run key is a cursor that nothing sets,
\* and the daemon tells no two requests without a key from each other.
SensorTick(r) == "idea_sensor" \in Registered \intersect Targeted /\ AutoRun /\ LaunchRoot(r)

EndRun(r) ==
    /\ run[r].status = "running"
    /\ \E status \in {"success", "failure"} : run' = [run EXCEPT ![r].status = status]
    /\ UNCHANGED <<runKeys, requests>>

Failed == {r \in Runs : run[r].status = "failure"}

\* reschedule_failed_runs; the tags are copied to the request.
Tick ==
    /\ "reschedule_failed_runs" \in Registered
    /\ requests = {}
    /\ requests' = {[of |-> r, attempt |-> run[r].attempt + 1, key |-> <<r, run[r].attempt + 1>>]
                      : r \in {q \in Failed : run[q].attempt < MaxReschedule}}
    /\ UNCHANGED <<run, runKeys>>

\* The daemon launches a request whose key was not launched, in whatever order ...
LaunchRequest(q, r) ==
    /\ "reschedule_failed_runs" \in Targeted
    /\ q \in requests /\ requests' = requests \ {q}
    /\ q.key \notin runKeys /\ runKeys' = runKeys \union {q.key}
    /\ Launch(r, q.attempt, run[q.of].root)

\* ... and passes over one that was.
SkipRequest(q) ==
    /\ q \in requests /\ requests' = requests \ {q}
    /\ q.key \in runKeys
    /\ UNCHANGED <<run, runKeys>>

RetryNext ==
    \/ \E r \in Runs : ScheduleTick(r) \/ SensorTick(r) \/ EndRun(r) \/ \E q \in requests : LaunchRequest(q, r)
    \/ \E q \in requests : SkipRequest(q)
    \/ Tick

LaunchOf(r) == \E q \in requests, s \in Runs : q.of = r /\ LaunchRequest(q, s)
SkipLaunched == \E q \in requests : SkipRequest(q)

\* A run ends, and the daemon evaluates what is registered again and again and works
\* through what was asked for.
RetrySpec ==
    /\ RetryInit /\ [][RetryNext]_retryVars
    /\ WF_retryVars(Tick) /\ WF_retryVars(SkipLaunched)
    /\ \A r \in Runs : WF_retryVars(EndRun(r)) /\ WF_retryVars(LaunchOf(r))

-----------------------------------------------------------------------------
Family(r) == {s \in Runs : run[s].root = r}

\* What sensors.py:61 says of reschedule_failed_runs: a run that fails is rescheduled
\* until it has succeeded or MAX_RESCHEDULE_ATTEMPTS is reached.
RetriedToTheEnd ==
    \A r \in Runs : run[r].root = r ~>
        \E s \in Family(r) : \/ run[s].status = "success"
                             \/ run[s].status = "failure" /\ run[s].attempt = MaxReschedule
=============================================================================
