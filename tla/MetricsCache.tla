------------------------------ MODULE MetricsCache ------------------------------
(***************************************************************************)
(* The figures of the monitoring service and their copies in Redis: the    *)
(* error rate and the number of active users, computed from the scores,    *)
(* and the average latency, computed from what has been published.  A row  *)
(* is stored and the copies are deleted afterwards; a reader that finds no *)
(* copy computes one and puts it there.                                    *)
(***************************************************************************)
EXTENDS Naturals

CONSTANTS
    Readers,    \* requests for a figure
    FigureTtl,  \* the ttl of the copies
    ReadTime,   \* bound on the ticks a reader takes
    MaxRows,    \* bound on the rows of each kind
    Unknown

ASSUME MetricsAssumption ==
    /\ FigureTtl \in Nat \ {0} /\ ReadTime \in Nat /\ MaxRows \in Nat
    /\ Unknown \notin Nat

Figures == {"scored", "latency"}

VARIABLES
    rows,       \* how many rows each figure is computed from
    copy,       \* each copy: the rows it was computed from, its ticks left
    undeleted,  \* the copies a writer has still to delete
    reader,     \* each reader: where it is, its figure, the rows it saw, its ticks
    recorded,   \* rows in publish_latency
    unseen      \* history: the ticks since each row was stored

metricsVars == <<rows, copy, undeleted, reader, recorded, unseen>>

NoCopy == [rows |-> Unknown, left |-> 0]
Idle == [at |-> "idle", figure |-> "scored", rows |-> 0, ticks |-> 0]

MetricsInit ==
    /\ rows = [f \in Figures |-> 0] /\ recorded = 0
    /\ copy = [f \in Figures |-> NoCopy]
    /\ undeleted = {}
    /\ reader = [r \in Readers |-> Idle]
    /\ unseen = [f \in Figures |-> [n \in 1 .. MaxRows |-> 0]]

Store(f) ==
    /\ rows[f] < MaxRows
    /\ rows' = [rows EXCEPT ![f] = @ + 1]

\* add_score; and a listing that another service creates, of which no copy is told.
AddScore ==
    /\ undeleted = {} /\ undeleted' = {"scored"}
    /\ Store("scored")
    /\ UNCHANGED <<copy, reader, recorded, unseen>>
AddListing ==
    /\ Store("latency")
    /\ UNCHANGED <<copy, undeleted, reader, recorded, unseen>>

\* add_latency stores a row that no figure is computed from, and deletes both.
AddLatency ==
    /\ undeleted = {} /\ undeleted' = Figures
    /\ recorded' = IF recorded < MaxRows THEN recorded + 1 ELSE recorded
    /\ UNCHANGED <<rows, copy, reader, unseen>>

\* sync_get, sync_set, sync_delete.
Cached(f) == copy[f].left > 0
Renewed(f, n) == [copy EXCEPT ![f] = [rows |-> n, left |-> FigureTtl]]
Without(gone) == [f \in Figures |-> IF f \in gone THEN NoCopy ELSE copy[f]]

\* invalidate_latency_cache, invalidate_analytics_cache: what Redis does not
\* delete is passed over.
DeleteCopy(f) ==
    /\ f \in undeleted /\ undeleted' = undeleted \ {f}
    /\ copy' \in {copy, Without({f})}
    /\ UNCHANGED <<rows, reader, recorded, unseen>>

-----------------------------------------------------------------------------
(***************************************************************************)
(* Readers.                                                                *)
(***************************************************************************)

Compute(r, f) ==
    /\ ~Cached(f)
    /\ reader[r].at = "idle"
    /\ reader' = [reader EXCEPT ![r] =
                    [at |-> IF f = "latency" THEN "record" ELSE "fill", figure |-> f,
                     rows |-> rows[f], ticks |-> 0]]
    /\ UNCHANGED <<rows, copy, undeleted, recorded, unseen>>

\* add_latencies stores what there is and deletes the copies, or tries to.
AddLatencies(n) ==
    IF n = 0 THEN UNCHANGED <<recorded, copy>>
    ELSE /\ recorded' = IF recorded + n <= MaxRows THEN recorded + n ELSE MaxRows
         /\ copy' \in {Without(gone) : gone \in SUBSET Figures}

\* _record_latencies stores the latencies of all ideas again.
RecordLatencies(r) ==
    /\ reader[r].at = "record"
    /\ reader' = [reader EXCEPT ![r].at = "fill"]
    /\ AddLatencies(reader[r].rows)
    /\ UNCHANGED <<rows, undeleted, unseen>>

\* sync_set with a ttl, if Redis is there.
FillCopy(r) ==
    /\ reader[r].at = "fill"
    /\ reader' = [reader EXCEPT ![r] = Idle]
    /\ copy' \in {copy, Renewed(reader[r].figure, reader[r].rows)}
    /\ UNCHANGED <<rows, undeleted, recorded, unseen>>

Less(c) == IF c.left > 1 THEN [c EXCEPT !.left = @ - 1] ELSE NoCopy
Longest == FigureTtl + ReadTime

MetricsTick ==
    /\ \A r \in Readers : reader[r].at # "idle" => reader[r].ticks < ReadTime
    /\ reader' = [r \in Readers |->
                    IF reader[r].at = "idle" THEN Idle ELSE [reader[r] EXCEPT !.ticks = @ + 1]]
    /\ copy' = [f \in Figures |-> Less(copy[f])]
    /\ unseen' = [f \in Figures |-> [n \in 1 .. MaxRows |->
                    IF n <= rows[f] /\ unseen[f][n] <= Longest THEN unseen[f][n] + 1
                    ELSE unseen[f][n]]]
    /\ UNCHANGED <<rows, undeleted, recorded>>

MetricsNext ==
    \/ AddScore \/ AddListing \/ AddLatency \/ MetricsTick
    \/ \E f \in Figures : DeleteCopy(f) \/ \E r \in Readers : Compute(r, f)
    \/ \E r \in Readers : RecordLatencies(r) \/ FillCopy(r)

MetricsSpec == MetricsInit /\ [][MetricsNext]_metricsVars

-----------------------------------------------------------------------------
MetricsTypeOK ==
    /\ rows \in [Figures -> 0 .. MaxRows] /\ recorded \in 0 .. MaxRows
    /\ copy \in [Figures -> [rows : 0 .. MaxRows \union {Unknown}, left : 0 .. FigureTtl]]
    /\ undeleted \subseteq Figures
    /\ reader \in [Readers -> [at : {"idle", "record", "fill"}, figure : Figures,
                               rows : 0 .. MaxRows, ticks : 0 .. ReadTime]]
    /\ unseen \in [Figures -> [1 .. MaxRows -> 0 .. Longest + 1]]

\* A figure that is answered lacks a row for one ttl and one read at the most,
\* although a copy computed before the row may be stored after the row has deleted
\* the one that was there, and a delete may fail.
FiguresCurrent ==
    \A f \in Figures : copy[f].left > 0 =>
        \A n \in 1 .. rows[f] :
            n > copy[f].rows => unseen[f][n] + copy[f].left <= Longest
=============================================================================
