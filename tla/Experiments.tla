------------------------------- MODULE Experiments -------------------------------
(***************************************************************************)
(* The A/B test of the feedback loop: impressions and conversions, one     *)
(* transaction each, and summaries of a day, which may be recorded by      *)
(* several callers, and again and again.                                   *)
(***************************************************************************)
EXTENDS Naturals, FiniteSets

CONSTANTS
    Shows,      \* times that a variant is shown to somebody
    Recorders,  \* callers of record_summary
    MaxDay      \* bound on the days

ASSUME ExperimentAssumption == IsFiniteSet(Shows) /\ MaxDay \in Nat

Variants == {"A", "B"}
Days == 0 .. MaxDay

VARIABLES
    today,
    show,       \* what became of each time: its point, variant, success, day
    summary,    \* the rows of daily_summaries: day |-> conversions, of the days that have one
    recorder,   \* each caller: its point, its day, its counts, whether it found a row
    crossed     \* history: the days that two callers summarised at once

experimentVars == <<today, show, summary, recorder, crossed>>

Untold == [at |-> "new", variant |-> "A", success |-> FALSE, day |-> 0]
Counts == [Variants -> 0 .. Cardinality(Shows)]
Zero == [v \in Variants |-> 0]
Quiet == [at |-> "idle", day |-> 0, counts |-> Zero, found |-> FALSE]

ExperimentInit ==
    /\ today = 0
    /\ show = [s \in Shows |-> Untold]
    /\ summary = [d \in {} |-> Zero]
    /\ recorder = [r \in Recorders |-> Quiet] /\ crossed = {}

\* POST /impression and /conversion: the row is stamped ...
RecordResult(s, variant, success) ==
    /\ show[s].at = "new"
    /\ show' = [show EXCEPT ![s] = [at |-> "stamped", variant |-> variant,
                                    success |-> success, day |-> today]]
    /\ UNCHANGED <<today, summary, recorder, crossed>>

\* ... and committed, or rolled back.
EndResult(s) ==
    /\ show[s].at = "stamped"
    /\ \E at \in {"stored", "lost"} : show' = [show EXCEPT ![s].at = at]
    /\ UNCHANGED <<today, summary, recorder, crossed>>

Converted(day, v) ==
    {s \in Shows : show[s].at = "stored" /\ show[s].success
                   /\ show[s].variant = v /\ show[s].day = day}

Conversions(day) == [v \in Variants |-> Cardinality(Converted(day, v))]

\* conversion_totals: what GET /stats tells, of all days.
Totals ==
    [v \in Variants |-> Cardinality({s \in Shows : show[s].at = "stored" /\ show[s].success
                                                   /\ show[s].variant = v})]

\* record_summary: counts the conversions of the day ...
CountToday(r) ==
    LET count == Conversions(today)
        beside == {q \in Recorders : recorder[q].at # "idle" /\ recorder[q].day = today}
    IN  /\ recorder[r].at = "idle"
        /\ recorder' = [recorder EXCEPT ![r] =
             IF count = Zero THEN Quiet
             ELSE [Quiet EXCEPT !.at = "find", !.day = today, !.counts = count]]
        /\ crossed' = IF count # Zero /\ beside # {} THEN crossed \union {today} ELSE crossed
        /\ UNCHANGED <<today, show, summary>>

\* ... looks for the row of the day ...
FindSummary(r) ==
    /\ recorder[r].at = "find"
    /\ recorder' = [recorder EXCEPT ![r].at = "write", ![r].found = recorder[r].day \in DOMAIN summary]
    /\ UNCHANGED <<today, show, summary, crossed>>

\* ... and overwrites it, or adds one, which is refused if there is one by now.
WriteSummary(r) ==
    LET q == recorder[r]
    IN  /\ q.at = "write"
        /\ recorder' = [recorder EXCEPT ![r] = Quiet]
        /\ summary' = IF ~q.found /\ q.day \in DOMAIN summary THEN summary
                      ELSE [d \in DOMAIN summary \union {q.day} |->
                              IF d = q.day THEN q.counts ELSE summary[d]]
        /\ UNCHANGED <<today, show, crossed>>

RecordingFails(r) ==
    /\ recorder[r].at # "idle"
    /\ recorder' = [recorder EXCEPT ![r] = Quiet]
    /\ UNCHANGED <<today, show, summary, crossed>>

Midnight ==
    /\ today < MaxDay /\ today' = today + 1
    /\ UNCHANGED <<show, summary, recorder, crossed>>

ExperimentNext ==
    \/ \E s \in Shows : \/ EndResult(s)
                        \/ \E v \in Variants, b \in BOOLEAN : RecordResult(s, v, b)
    \/ \E r \in Recorders : \/ CountToday(r) \/ FindSummary(r) \/ WriteSummary(r)
                            \/ RecordingFails(r)
    \/ Midnight

ExperimentSpec == ExperimentInit /\ [][ExperimentNext]_experimentVars

-----------------------------------------------------------------------------
ExperimentTypeOK ==
    /\ today \in Days
    /\ show \in [Shows -> [at : {"new", "stamped", "stored", "lost"}, variant : Variants,
                           success : BOOLEAN, day : Days]]
    /\ DOMAIN summary \subseteq Days /\ \A d \in DOMAIN summary : summary[d] \in Counts
    /\ recorder \in [Recorders -> [at : {"idle", "find", "write"}, day : Days,
                                   counts : Counts, found : BOOLEAN]]
    /\ crossed \subseteq Days

\* A summary never tells of conversions that the day does not have, and as long as
\* no two callers summarised the day at once, recording it again takes none away.
SummariesGrow ==
    [][\A d \in DOMAIN summary' :
         /\ \A v \in Variants : summary'[d][v] <= Conversions(d)'[v]
         /\ d \notin crossed' /\ d \in DOMAIN summary =>
              \A v \in Variants : summary[d][v] <= summary'[d][v]]_experimentVars

\* The conversions that summaries tell of, numbered on each day.
Told(v) == UNION {{d} \X (1 .. summary[d][v]) : d \in DOMAIN summary}

\* All summaries together tell of no more conversions than GET /stats.
WithinTotals == \A v \in Variants : Cardinality(Told(v)) <= Totals[v]
=============================================================================
