------------------------------- MODULE DailyReport -------------------------------
(***************************************************************************)
(* The daily summary: three counts, of two databases, written to a file by *)
(* whoever asks for one, the monitoring service, the orchestrator or a     *)
(* person, and read by those who ask for the report.  A summary is about   *)
(* the 24 hours before it began.  What it counts may be taken back: a      *)
(* published design is a task whose status is success.                     *)
(***************************************************************************)
EXTENDS Naturals, FiniteSets

CONSTANTS
    Writers,    \* who generates a summary
    Readers,    \* who reads the report
    Items,      \* the rows that are counted, each with its kind
    NoReport    \* no file

Counted == {"ideas", "mockups", "published"}

ASSUME ReportAssumption == Items \subseteq Counted \X Nat /\ IsFiniteSet(Items)

VARIABLES
    done,       \* ideas and mockups that are there, and tasks that have succeeded
    aged,       \* what was created more than 24 hours ago
    report,     \* the file: what its text is and its counts, or that it is missing
    writer,     \* each writer: its point, its counts, what was too old when it began,
                \* and, history, the counts that were right at some time since
    reader,     \* what each reader is at or was answered
    right,      \* history: these counts of the last to write the file
    torn        \* history: the last to open the file found another one writing it, or
                \* somebody who had it open was killed since

reportVars == <<done, aged, report, writer, reader, right, torn>>

NoCounts == [c \in Counted |-> 0]
NoneRight == [c \in Counted |-> {}]
Empty == [text |-> "empty", counts |-> NoCounts]
Waiting == [at |-> "idle", counts |-> NoCounts, before |-> {}, right |-> NoneRight]

ReportInit ==
    /\ done = {} /\ aged = {} /\ report = NoReport
    /\ writer = [w \in Writers |-> Waiting]
    /\ reader = [r \in Readers |-> "answered"]
    /\ right = NoneRight /\ torn = FALSE

Writing(w) == writer[w].at # "idle"

\* The rows of one kind, of a day that began when those of "before" were there.
Tally(rows, before, c) == Cardinality({i \in rows \ before : i[1] = c})

Becomes(rows) ==
    /\ done' = rows
    /\ writer' = [w \in Writers |->
         IF Writing(w)
         THEN [writer[w] EXCEPT !.right = [c \in Counted |->
                 writer[w].right[c] \union {Tally(rows, writer[w].before, c)}]]
         ELSE writer[w]]
    /\ UNCHANGED <<aged, report, reader, right, torn>>

\* A row is added by the services that do the work, or a task succeeds ...
Add(i) == i \notin done /\ Becomes(done \union {i})

\* ... and update_task_status gives it whatever status a webhook tells.
TakeBack(i) == i \in done /\ i[1] = "published" /\ Becomes(done \ {i})

\* 24 hours have passed since a row was created; a task may not have succeeded yet.
Ages(i) ==
    /\ i \notin aged /\ (i \in done \/ i[1] = "published")
    /\ aged' = aged \union {i}
    /\ UNCHANGED <<done, report, writer, reader, right, torn>>

BeginSummary(w) ==
    /\ ~Writing(w)
    /\ writer' = [writer EXCEPT ![w] =
         [at |-> "ideas", counts |-> NoCounts, before |-> aged,
          right |-> [c \in Counted |-> {Tally(done, aged, c)}]]]
    /\ UNCHANGED <<done, aged, report, reader, right, torn>>

\* _ideas_count, _mockups_count and _marketplace_stats: a statement each
Count(w, c, next) ==
    /\ writer[w].at = c
    /\ writer' = [writer EXCEPT ![w].at = next, ![w].counts[c] = Tally(done, writer[w].before, c)]
    /\ UNCHANGED <<done, aged, report, reader, right, torn>>

\* Slip: published designs are not counted anew.
CountKept(w) ==
    Count(w, "ideas", "mockups") \/ Count(w, "mockups", "truncate")

CountNext(w) ==
    \/ Count(w, "ideas", "mockups") \/ Count(w, "mockups", "published")
    \/ Count(w, "published", "truncate")

HasOpen(w) == writer[w].at = "fill"

\* write_text opens the file, which empties it ...
TruncateReport(w) ==
    /\ writer[w].at = "truncate" /\ report' = Empty
    /\ writer' = [writer EXCEPT ![w].at = "fill"]
    /\ torn' = \E v \in Writers : HasOpen(v)
    /\ UNCHANGED <<done, aged, reader, right>>

\* ... and writes it from its start; the end of a longer text that another one has
\* written meanwhile stays.
FillReport(w) ==
    /\ HasOpen(w)
    /\ \E text \in IF report.text = "empty" THEN {"whole"} ELSE {"whole", "mixed"} :
         report' = [text |-> text, counts |-> writer[w].counts]
    /\ right' = writer[w].right
    /\ writer' = [writer EXCEPT ![w] = Waiting]
    /\ UNCHANGED <<done, aged, reader, torn>>

KillWriter(w) ==
    /\ Writing(w)
    /\ writer' = [writer EXCEPT ![w] = Waiting]
    /\ torn' = (torn \/ HasOpen(w))
    /\ UNCHANGED <<done, aged, report, reader, right>>

\* daily_summary_report: looks whether there is a file ...
AskReport(r) ==
    /\ reader[r] # "read"
    /\ reader' = [reader EXCEPT ![r] = IF report = NoReport THEN "answered" ELSE "read"]
    /\ UNCHANGED <<done, aged, report, writer, right, torn>>

\* ... and parses it, which raises if it is empty or mixed.
ReadReport(r) ==
    /\ reader[r] = "read"
    /\ reader' = [reader EXCEPT ![r] = IF report.text = "whole" THEN "answered" ELSE "error"]
    /\ UNCHANGED <<done, aged, report, writer, right, torn>>

ReportNext ==
    \/ \E i \in Items : Add(i) \/ TakeBack(i) \/ Ages(i)
    \/ \E w \in Writers : \/ BeginSummary(w) \/ CountNext(w) \/ TruncateReport(w)
                          \/ FillReport(w) \/ KillWriter(w)
    \/ \E r \in Readers : AskReport(r) \/ ReadReport(r)

ReportSpec == ReportInit /\ [][ReportNext]_reportVars

-----------------------------------------------------------------------------
ReportTypeOK ==
    LET Amounts == [Counted -> 0 .. Cardinality(Items)]
        Rights == [Counted -> SUBSET (0 .. Cardinality(Items))]
    IN  /\ done \subseteq Items /\ aged \subseteq Items
        /\ right \in Rights /\ torn \in BOOLEAN
        /\ report \in [text : {"empty", "whole", "mixed"}, counts : Amounts] \union {NoReport}
        /\ writer \in [Writers -> [at : Counted \union {"idle", "truncate", "fill"},
                                   counts : Amounts, before : SUBSET Items, right : Rights]]
        /\ reader \in [Readers -> {"answered", "read", "error"}]

\* Each count of a report that can be read was right at some time of the summary that
\* wrote it, though rows came, went and grew old and others wrote and were killed
\* meanwhile; and a file that somebody could open can be read, once nobody writes it, if
\* the last to open it was alone with it and not killed.
ReportCurrent ==
    report # NoReport =>
        /\ report.text = "whole" => \A c \in Counted : report.counts[c] \in right[c]
        /\ (\E w \in Writers : HasOpen(w)) \/ torn \/ report.text = "whole"
=============================================================================
