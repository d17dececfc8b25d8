---------------------------- MODULE ResourceMetrics ----------------------------
(***************************************************************************)
(* The optimization service: its startup, the samples of resource usage    *)
(* that threads store, on one shared SQLite connection or on connections   *)
(* of a pool, and the analyses of them.  A sample belongs to the request,  *)
(* or the run of the collecting job, that stores it.                       *)
(***************************************************************************)
EXTENDS Integers, Sequences, FiniteSets, SequencesExt

CONSTANTS
    Calls,      \* calls of the store, each made once
    MaxConn,    \* connections of the pool
    Minutes,    \* the times of samples are 0 .. Minutes
    Usages,     \* what can be measured: resource |-> a number or Missing
    Missing,    \* a sample without disk usage, NaN in the arrays
    Short, Long,        \* samples behind a short-term average, behind a trend
    High, Alarm, Slope, \* the thresholds of averages, of cost alerts, of trends
    Limit       \* recommendations answered at most

Resources == {"cpu", "memory", "disk"}

ASSUME ResourceAssumption ==
    /\ IsFiniteSet(Calls) /\ MaxConn \in Nat \ {0} /\ Minutes \in Nat /\ Missing \notin Int
    /\ \A usage \in Usages, r \in Resources : usage[r] \in Int \union {Missing}
    /\ Short \in Nat \ {0} /\ Long \in Nat \ {0} /\ Limit \in Nat
    /\ High \in Nat /\ Alarm \in Nat /\ Slope \in Nat

VARIABLES
    backend,    \* what METRICS_DB_URL names
    service,    \* where the process is in its startup
    jobs,       \* the jobs of the scheduler
    table,      \* the calls whose sample is committed
    pending,    \* the calls whose sample is in an open transaction
    sample,     \* of each call: its time, whether it has a zone, the usage
    call        \* of each call: what it does and how far it is

resourceVars == <<backend, service, jobs, table, pending, sample, call>>

Unmade == [op |-> "none", at |-> "new", since |-> Missing, before |-> {}, rows |-> <<>>,
           answer |-> {}]
Analyses == {"recent", "optimizations", "recommendations", "alerts"}
Nothing == [time |-> 0, zone |-> TRUE, usage |-> [r \in Resources |-> Missing]]

ResourceInit ==
    /\ backend \in {"sqlite", "postgres", "timescale"}
    /\ service = "down" /\ jobs = {} /\ table = {} /\ pending = {}
    /\ sample = [c \in Calls |-> Nothing]
    /\ call = [c \in Calls |-> Unmade]

-----------------------------------------------------------------------------
(***************************************************************************)
(* Startup and the end of the process.                                     *)
(***************************************************************************)

stored == <<backend, table, pending, sample, call>>

StartCollection ==
    /\ service = "down" /\ service' = "collecting"
    /\ jobs' = {"collect_metrics"}
    /\ UNCHANGED stored

\* The statement of Timescale fails elsewhere, and the one that should stand in
\* for it is refused in the transaction that has failed: startup ends.
CreateAggregate ==
    /\ service = "collecting"
    /\ service' = IF backend = "postgres" THEN "failed" ELSE "created"
    /\ UNCHANGED <<jobs, stored>>

\* The scheduler is running already, so the job is not added.
StartScheduler ==
    /\ service = "created" /\ service' = "up"
    /\ jobs' = IF jobs # {} THEN jobs ELSE {"aggregate"}
    /\ UNCHANGED stored

Busy == {c \in Calls : call[c].at \in {"conn", "insert"}}

\* The process is killed: what it had not committed is gone.
Kill ==
    /\ service \in {"up", "failed"} /\ service' = "down"
    /\ jobs' = {} /\ pending' = {}
    /\ call' = [c \in Calls |-> IF c \in Busy THEN [call[c] EXCEPT !.at = "lost"] ELSE call[c]]
    /\ UNCHANGED <<backend, table, sample>>

-----------------------------------------------------------------------------
(***************************************************************************)
(* Storing a sample.                                                       *)
(***************************************************************************)

Reach(c, from, to) ==
    /\ service = "up" /\ call[c].at = from
    /\ call' = [call EXCEPT ![c].at = to]
    /\ UNCHANGED <<backend, service, jobs>>

Acked == {c \in Calls : call[c].op = "store" /\ call[c].at = "done"}

\* A connection of the pool, or an error if all are lent; SQLite has only one,
\* which every thread is given.
Connected == IF backend = "sqlite" \/ Cardinality(Busy) < MaxConn THEN "conn" ELSE "refused"

Begin(c, op, since) ==
    /\ service = "up" /\ call[c].at = "new"
    /\ call' = [call EXCEPT ![c] = [Unmade EXCEPT !.op = op, !.at = Connected,
                                                 !.before = Acked, !.since = since]]
    /\ UNCHANGED <<backend, service, jobs, table, pending>>

\* add_metric, of a time and a usage that the caller gives ...
AddMetric(c, time, zone, usage) ==
    /\ Begin(c, "store", Missing)
    /\ sample' = [sample EXCEPT ![c] = [time |-> time, zone |-> zone, usage |-> usage]]

\* ... and record_resource_usage, which always has all of it.
RecordUsage(c, time, usage) ==
    /\ "collect_metrics" \in jobs
    /\ \A r \in Resources : usage[r] # Missing
    /\ AddMetric(c, time, TRUE, usage)

Insert(c) ==
    /\ call[c].op = "store" /\ Reach(c, "conn", "insert")
    /\ pending' = pending \union {c}
    /\ UNCHANGED <<table, sample>>

\* Slip: the call answers before the transaction is committed.
CommitLater(c) ==
    /\ Reach(c, "insert", "done")
    /\ UNCHANGED <<table, pending, sample>>

\* On the shared connection a commit commits what every thread has inserted.
Commit(c) ==
    /\ Reach(c, "insert", "done")
    /\ LET mine == IF backend = "sqlite" THEN pending ELSE {c}
       IN  table' = table \union mine /\ pending' = pending \ mine
    /\ UNCHANGED sample

-----------------------------------------------------------------------------
(***************************************************************************)
(* The rules of MetricsAnalyzer, on samples in the order they are read.    *)
(* A comparison with NaN is false.                                         *)
(***************************************************************************)

LastOf(rows, n) == SubSeq(rows, IF Len(rows) > n THEN Len(rows) - n + 1 ELSE 1, Len(rows))

\* average_cpu, average_memory, average_disk_usage: the mean of what was measured is
\* above a threshold if what is over it outweighs what is under it.  The mean of
\* nothing is NaN, and above none.
Exceeds(rows, r, threshold) ==
    LET excess[i \in 0 .. Len(rows)] ==
          IF i = 0 THEN 0
          ELSE LET usage == sample[rows[i]].usage[r]
               IN  excess[i - 1] + (IF usage = Missing THEN 0 ELSE usage - threshold)
    IN  excess[Len(rows)] > 0

\* _trend: per minute, between the first sample and the last one
Grows(rows, r) ==
    /\ Len(rows) >= 2
    /\ LET first == sample[rows[1]]  last == sample[rows[Len(rows)]]
           minutes == last.time - first.time
           growth == last.usage[r] - first.usage[r]
       IN  /\ first.usage[r] # Missing /\ last.usage[r] # Missing
           /\ \/ minutes > 0 /\ growth > Slope * minutes
              \/ minutes < 0 /\ growth < Slope * minutes

Advised(kind, met) ==
    LET Say(r) == IF r \in met THEN <<<<kind, r>>>> ELSE <<>>
    IN  Say("cpu") \o Say("memory") \o Say("disk")

Above(rows, threshold) == {r \in Resources : Exceeds(rows, r, threshold)}
Growing(rows) == {r \in Resources : Grows(rows, r)}

RecommendOptimizations(rows) ==
    Advised("short average", Above(LastOf(rows, Short), High))
    \o Advised("short trend", Growing(LastOf(rows, Long)))

\* The lists have no advice in common, so leaving out what was seen changes nothing.
TopRecommendations(rows) ==
    LET all == Advised("average", Above(rows, High)) \o Advised("trend", Growing(rows))
               \o RecommendOptimizations(rows)
    IN  SubSeq(all, 1, IF Len(all) < Limit THEN Len(all) ELSE Limit)

\* The estimate of the monthly cost adds one alert, of the averages of all samples.
CostAlerts(rows) == Advised("alert", Above(LastOf(rows, Short), Alarm))

-----------------------------------------------------------------------------
(***************************************************************************)
(* Reading and analysing.                                                  *)
(***************************************************************************)

\* A statement on the shared connection also reads what is not committed.
Visible == IF backend = "sqlite" THEN table \union pending ELSE table

\* ORDER BY timestamp
Read(rows) ==
    /\ rows \in SetToSeqs(Visible)
    /\ \A i, j \in DOMAIN rows : i < j => sample[rows[i]].time <= sample[rows[j]].time

\* A window of minutes, or all that is stored.
Ask(c, op, since) ==
    /\ Begin(c, op, since)
    /\ UNCHANGED sample

\* The samples of a window, which are the last ones, as they are read in order.
Within(rows, since) ==
    LET inside == {i \in DOMAIN rows : since = Missing \/ sample[rows[i]].time >= since}
    IN  IF inside = {} THEN <<>> ELSE SubSeq(rows, Min(inside), Len(rows))

\* The text of a time that has no zone gives back a time without one, which cannot
\* be compared with the start of a window; a column with a time zone has one always.
\* Zones other than UTC are left out.
Incomparable(rows, since) ==
    backend = "sqlite" /\ since # Missing /\ \E c \in ToSet(rows) : ~sample[c].zone

Advice(op, rows) ==
    CASE op = "optimizations" -> RecommendOptimizations(rows)
      [] op = "recommendations" -> TopRecommendations(rows)
      [] op = "alerts" -> CostAlerts(rows)
      [] OTHER -> <<>>

\* get_metrics and get_recent_metrics, and what the endpoint makes of the rows.
Analyse(c, rows) ==
    LET q == call[c]
        kept == IF q.op = "recent" THEN LastOf(rows, Short) ELSE Within(rows, q.since)
    IN  /\ service = "up" /\ q.op \in Analyses /\ q.at = "conn"
        /\ Read(rows)
        /\ call' = [call EXCEPT ![c] =
                      IF Incomparable(rows, q.since) THEN [q EXCEPT !.at = "error"]
                      ELSE [q EXCEPT !.at = "done", !.rows = kept,
                                     !.answer = ToSet(Advice(q.op, kept))]]
        /\ UNCHANGED <<backend, service, jobs, table, pending, sample>>

ResourceNext ==
    \/ StartCollection \/ CreateAggregate \/ StartScheduler \/ Kill
    \/ \E c \in Calls :
         \/ \E time \in 0 .. Minutes, usage \in Usages :
              RecordUsage(c, time, usage) \/ \E zone \in BOOLEAN : AddMetric(c, time, zone, usage)
         \/ Insert(c) \/ Commit(c)
         \/ \E op \in Analyses, since \in {Missing, Minutes} :
              (op = "recent" => since = Missing) /\ Ask(c, op, since)
         \/ \E rows \in SetToSeqs(Visible) : Analyse(c, rows)

ResourceSpec == ResourceInit /\ [][ResourceNext]_resourceVars

-----------------------------------------------------------------------------
(***************************************************************************)
(* What the answers are worth.                                             *)
(***************************************************************************)

ResourceTypeOK ==
    /\ backend \in {"sqlite", "postgres", "timescale"}
    /\ service \in {"down", "collecting", "created", "up", "failed"}
    /\ jobs \subseteq {"collect_metrics", "aggregate"}
    /\ table \subseteq Calls /\ pending \subseteq Calls
    /\ \A c \in Calls :
         /\ sample[c].usage \in Usages \union {Nothing.usage}
         /\ call[c].op \in Analyses \union {"none", "store"}
         /\ call[c].at \in {"new", "conn", "insert", "done", "refused", "error", "lost"}
         /\ call[c].before \subseteq Calls /\ ToSet(call[c].rows) \subseteq Calls

\* Whatever threads share the connection and whenever the process was killed, an
\* analysis is of every sample that was acknowledged before it was asked for, the
\* latest ones last, and an alert tells of the latest ones and not of older ones.
AnalysesSound ==
    \A c \in Calls :
        LET q == call[c]
            latest == ToSet(LastOf(q.rows, Short))
        IN  q.op \in Analyses \ {"recent"} /\ q.at = "done" =>
              /\ \A d \in q.before :
                   q.since = Missing \/ sample[d].time >= q.since => d \in ToSet(q.rows)
              /\ \A d \in ToSet(q.rows) \ latest, e \in latest : sample[d].time <= sample[e].time
              /\ \A r \in Resources :
                   <<"alert", r>> \in q.answer =>
                     \E d \in latest : sample[d].usage[r] # Missing /\ sample[d].usage[r] > Alarm
=============================================================================
