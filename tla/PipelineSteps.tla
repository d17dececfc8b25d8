------------------------------ MODULE PipelineSteps ------------------------------
(***************************************************************************)
(* The first two ops of a pipeline run: signals are ingested by one call   *)
(* of a service, which is made again when it fails, and every signal is    *)
(* scored by calls of another one, a few at a time.  A call may have been  *)
(* carried out although its answer is lost, and an op that fails is run    *)
(* again.                                                                  *)
(***************************************************************************)
EXTENDS Naturals, FiniteSets

CONSTANTS
    PipelineSignals,  \* what an ingestion may answer
    CallTries,  \* attempts of a call
    OpRuns,     \* runs of an op: one and those of DEFAULT_JOB_RETRY_POLICY
    AtOnce      \* SCORE_CONCURRENCY

ASSUME StepsAssumption ==
    /\ IsFiniteSet(PipelineSignals) /\ CallTries \in Nat \ {0} /\ OpRuns \in Nat \ {0} /\ AtOnce \in Nat \ {0}

VARIABLES
    phase,      \* the op under way, or how the run ended
    opRun,      \* the number of this run of the op
    attempt,    \* the number of this attempt at the ingestion
    ingested,   \* history: ingestions that the service carried out
    signals,    \* what ingest_signals returned
    score       \* of each signal: its point, its attempts, whether it has a score

stepVars == <<phase, opRun, attempt, ingested, signals, score>>

Unscored == [at |-> "waiting", attempt |-> 0, scored |-> FALSE]

StepsInit ==
    /\ phase = "ingest" /\ opRun = 1 /\ attempt = 1 /\ ingested = 0
    /\ signals = {} /\ score = [s \in PipelineSignals |-> Unscored]

\* The op fails, or its process is killed; Dagster runs it again, or the run fails.
OpFails ==
    /\ IF opRun < OpRuns THEN opRun' = opRun + 1 /\ UNCHANGED phase
                         ELSE phase' = "failed" /\ UNCHANGED opRun
    /\ attempt' = 1
    /\ score' = [s \in PipelineSignals |-> Unscored]

\* _post_with_retry: the call fails, before or after the service carried it out.
IngestFails ==
    /\ phase = "ingest"
    /\ ingested' \in {ingested, ingested + 1}
    /\ IF attempt < CallTries
       THEN attempt' = attempt + 1 /\ UNCHANGED <<phase, opRun, score>>
       ELSE OpFails
    /\ UNCHANGED signals

\* What the answer lists is scored, and nothing if it lists nothing.
IngestSucceeds ==
    /\ phase = "ingest"
    /\ ingested' = ingested + 1
    /\ signals' \in SUBSET PipelineSignals
    /\ phase' = "score" /\ opRun' = 1
    /\ UNCHANGED <<attempt, score>>

Scoring == {s \in signals : score[s].at = "call"}

\* Slip: the semaphore lets one too many in.
EnterAll(s) ==
    /\ phase = "score" /\ s \in signals /\ score[s].at = "waiting"
    /\ Cardinality(Scoring) <= AtOnce
    /\ score' = [score EXCEPT ![s].at = "call", ![s].attempt = 1]
    /\ UNCHANGED <<phase, opRun, attempt, ingested, signals>>

\* _score_limited
Enter(s) ==
    /\ phase = "score" /\ s \in signals /\ score[s].at = "waiting"
    /\ Cardinality(Scoring) < AtOnce
    /\ score' = [score EXCEPT ![s].at = "call", ![s].attempt = 1]
    /\ UNCHANGED <<phase, opRun, attempt, ingested, signals>>

Scored(s) ==
    /\ phase = "score" /\ s \in Scoring
    /\ score' = [score EXCEPT ![s].at = "done", ![s].scored = TRUE]
    /\ UNCHANGED <<phase, opRun, attempt, ingested, signals>>

\* A signal whose calls all fail has the score 0.0, and the semaphore is held until then.
ScoreFails(s) ==
    /\ phase = "score" /\ s \in Scoring
    /\ score' = [score EXCEPT ![s].at = IF score[s].attempt < CallTries THEN "call" ELSE "done",
                              ![s].attempt = IF @ < CallTries THEN @ + 1 ELSE @]
    /\ UNCHANGED <<phase, opRun, attempt, ingested, signals>>

\* An answer that is not JSON raises outside the loop, and the task group is cancelled.
ScoringRaises ==
    /\ phase = "score" /\ Scoring # {} /\ OpFails
    /\ UNCHANGED <<ingested, signals>>

EndScoring ==
    /\ phase = "score" /\ \A s \in signals : score[s].at = "done"
    /\ phase' = "scored"
    /\ UNCHANGED <<opRun, attempt, ingested, signals, score>>

StepsNext ==
    \/ IngestFails \/ IngestSucceeds \/ ScoringRaises \/ EndScoring
    \/ \E s \in PipelineSignals : Enter(s) \/ Scored(s) \/ ScoreFails(s)

StepsSpec == StepsInit /\ [][StepsNext]_stepVars

-----------------------------------------------------------------------------
StepsTypeOK ==
    /\ phase \in {"ingest", "score", "scored", "failed"}
    /\ opRun \in 1 .. OpRuns /\ attempt \in 1 .. CallTries
    /\ ingested \in 0 .. CallTries * OpRuns
    /\ signals \subseteq PipelineSignals
    /\ score \in [PipelineSignals -> [at : {"waiting", "call", "done"}, attempt : 0 .. CallTries,
                              scored : BOOLEAN]]

\* However often answers are lost and ops are run again, the service ingests no more
\* often for one run than all the attempts there are; no more signals are scored at
\* once than allowed; and a run that scored its signals left none of them out without
\* trying as often as it may.
StepsBounded ==
    /\ ingested <= CallTries * OpRuns
    /\ Cardinality(Scoring) <= AtOnce
    /\ phase = "scored" =>
         \A s \in signals : score[s].scored \/ score[s].attempt = CallTries
=============================================================================
