----------------------------- MODULE ScoringWeights -----------------------------
(***************************************************************************)
(* The weights of the scoring engine: the table they share with the        *)
(* centroids of the sources, the sessions that update them, the scores     *)
(* that are computed from them and cached, and the job of the feedback     *)
(* loop that sends new ones.                                               *)
(*                                                                         *)
(* The five weights of a row move together and are one number here, a      *)
(* multiple of a unit small enough for the smoothing factor.               *)
(***************************************************************************)
EXTENDS Naturals, FiniteSets

CONSTANTS
    Sources,      \* sources of embeddings
    Global,       \* the source of a row that is given none
    Ids,          \* ids the table may use, 1 .. n
    Scale,        \* weights are 0 .. Scale
    Default,      \* the weight of a new row
    Targets,      \* weights that are asked for
    Inertia,      \* 1 / FEEDBACK_SMOOTHING
    Sessions,     \* database sessions that update weights
    Scorers,      \* requests that read weights or ask for a score
    FeedbackAttempts, \* HTTP_RETRIES
    CacheTtl,     \* SCORE_CACHE_TTL
    MaxCompute,   \* longest time from reading the weights to caching the score
    MaxUpdates,   \* bound on updates that are asked for
    NoRow, NoScore

Weight == 0 .. Scale

ASSUME WeightsAssumption ==
    /\ Global \in Sources
    /\ IsFiniteSet(Ids) /\ Ids = 1 .. Cardinality(Ids)
    /\ Scale \in Nat /\ Default \in Weight /\ Targets \subseteq Weight
    /\ Inertia \in Nat \ {0} /\ FeedbackAttempts \in Nat \ {0}
    /\ CacheTtl \in Nat \ {0} /\ MaxCompute \in Nat /\ MaxUpdates \in Nat
    /\ NoRow \notin [source : Sources, weight : Weight]

VARIABLES
    table,        \* the rows: a source and a weight
    nextId,       \* of the sequence behind the column id
    session,      \* of each session: where it is, and what it will write
    reader,       \* of each reader: where it is, what it read, and for how long
    cached,       \* the score in Redis: the weight it is built on, and its TTL
    held,         \* history: time since a row last had a weight
    feedback, tries,   \* the feedback job: where it is, and its requests
    applied,      \* history: smoothed updates committed for this job
    updates

tableVars == <<table, nextId>>
jobVars == <<feedback, tries, applied>>
weightVars == <<tableVars, session, reader, cached, held, jobVars, updates>>

Present == {i \in Ids : table[i] # NoRow}
Has(source) == \E i \in Present : table[i].source = source
Longest == CacheTtl + MaxCompute + 1
Idle == [at |-> "idle", smooth |-> FALSE, target |-> Default, weight |-> Default]
Waiting == [at |-> "idle", weight |-> Default, age |-> 0]

WeightsInit ==
    /\ table = [i \in Ids |-> NoRow] /\ nextId = 1
    /\ session = [u \in Sessions |-> Idle]
    /\ reader = [r \in Scorers |-> Waiting]
    /\ cached = NoScore
    /\ held = [v \in Weight |-> Longest]
    /\ feedback = "idle" /\ tries = 0 /\ applied = 0
    /\ updates = 0

\* A row for a source, unless its id or its source is taken.
Insert(i, source) ==
    /\ i \notin Present /\ ~Has(source)
    /\ table' = [table EXCEPT ![i] = [source |-> source, weight |-> Default]]
    /\ held' = [held EXCEPT ![Default] = 0]

-----------------------------------------------------------------------------
(***************************************************************************)
(* Updates.                                                                *)
(***************************************************************************)

\* A request for new weights opens a session.
Open(u, target, smooth) ==
    /\ session[u].at = "idle" /\ updates < MaxUpdates
    /\ session' = [session EXCEPT ![u] =
                     [at |-> "read", smooth |-> smooth, target |-> target, weight |-> Default]]
    /\ updates' = updates + 1

\* PUT /weights, which sends the token.
PutWeights(u, target) ==
    /\ Open(u, target, FALSE)
    /\ UNCHANGED <<tableVars, reader, cached, held, jobVars>>

\* A new weight between the old one and the target, a tenth of the way.
Smoothed(current, target) == (current * (Inertia - 1) + target) \div Inertia

\* update_weights reads row 1.  Without it, the attributes of the row it makes
\* are None until they are flushed, and float(None) raises.
ReadRow(u) ==
    /\ session[u].at = "read"
    /\ session' =
         IF 1 \notin Present THEN [session EXCEPT ![u] = Idle]
         ELSE [session EXCEPT ![u].at = "write",
                 ![u].weight = IF session[u].smooth
                               THEN Smoothed(table[1].weight, session[u].target)
                               ELSE session[u].target]
    /\ UNCHANGED <<tableVars, reader, cached, held, jobVars, updates>>

\* ... and writes what it computed from it, whatever is there by now.
WriteRow(u) ==
    /\ session[u].at = "write"
    /\ table' = [table EXCEPT ![1].weight = session[u].weight]
    /\ held' = [held EXCEPT ![session[u].weight] = 0, ![table[1].weight] = 0]
    /\ session' = [session EXCEPT ![u] = Idle]
    /\ applied' = IF session[u].smooth THEN applied + 1 ELSE applied
    /\ UNCHANGED <<nextId, reader, cached, feedback, tries, updates>>

-----------------------------------------------------------------------------
(***************************************************************************)
(* The feedback job.                                                       *)
(***************************************************************************)

\* The interval of the job is longer than any request of its last run takes.
StartFeedback ==
    /\ feedback \in {"idle", "failed"}
    /\ \A u \in Sessions : ~session[u].smooth
    /\ feedback' = "posting" /\ tries' = 0 /\ applied' = 0
    /\ UNCHANGED <<tableVars, session, reader, cached, held, updates>>

\* A request of the job: it opens a session, or it is lost on its way or refused,
\* as it always is where WEIGHTS_TOKEN is set, which the job does not send.
Post(u, target) ==
    /\ feedback = "posting" /\ tries < FeedbackAttempts
    /\ tries' = tries + 1
    /\ Open(u, target, TRUE) \/ UNCHANGED <<session, updates>>
    /\ UNCHANGED <<tableVars, reader, cached, held, feedback, applied>>

\* The answer comes, or the last attempt is refused or times out; the engine may
\* still be at work on a request nobody waits for.
Posted ==
    /\ feedback = "posting" /\ tries > 0
    /\ \/ applied > 0 /\ feedback' = "direct"
       \/ tries = FeedbackAttempts /\ feedback' = "failed"
    /\ UNCHANGED <<tableVars, session, reader, cached, held, tries, applied, updates>>

\* The job then sets the same weights itself, without smoothing.
Direct(u, target) ==
    /\ feedback = "direct"
    /\ Open(u, target, FALSE)
    /\ feedback' = "idle"
    /\ UNCHANGED <<tableVars, reader, cached, held, tries, applied>>

-----------------------------------------------------------------------------
(***************************************************************************)
(* Scores and centroids.                                                   *)
(***************************************************************************)

\* Slip: the score is kept as long as it is asked for.
AskAgain(r) ==
    /\ reader[r].at = "idle"
    /\ IF cached = NoScore
       THEN reader' = [reader EXCEPT ![r].at = "weights"] /\ UNCHANGED cached
       ELSE cached' = [cached EXCEPT !.ttl = CacheTtl] /\ UNCHANGED reader
    /\ UNCHANGED <<tableVars, session, held, jobVars, updates>>

\* A score is asked for that is not in the cache.
AskScore(r) ==
    /\ reader[r].at = "idle" /\ cached = NoScore
    /\ reader' = [reader EXCEPT ![r].at = "weights"]
    /\ UNCHANGED <<tableVars, session, cached, held, jobVars, updates>>

\* get_weights takes the first row the database happens to return.
GetWeights(r) ==
    /\ reader[r].at = "weights"
    /\ \E i \in Present :
          reader' = [reader EXCEPT ![r].at = "store", ![r].weight = table[i].weight]
    /\ UNCHANGED <<tableVars, session, cached, held, jobVars, updates>>

\* An empty table gets row 1; the insert fails if another came first.
FindNone(r) ==
    /\ reader[r].at = "weights" /\ Present = {}
    /\ reader' = [reader EXCEPT ![r].at = "create"]
    /\ UNCHANGED <<tableVars, session, cached, held, jobVars, updates>>

CreateRow(r) ==
    /\ reader[r].at = "create"
    /\ \/ /\ Insert(1, Global)
          /\ reader' = [reader EXCEPT ![r].at = "store"]
       \/ /\ 1 \in Present \/ Has(Global)
          /\ reader' = [reader EXCEPT ![r] = Waiting]
          /\ UNCHANGED <<table, held>>
    /\ UNCHANGED <<nextId, session, cached, jobVars, updates>>

\* The score is cached, or its computation or its metric raises.
StoreScore(r) ==
    /\ reader[r].at = "store"
    /\ cached' \in {cached, [weight |-> reader[r].weight, ttl |-> CacheTtl]}
    /\ reader' = [reader EXCEPT ![r] = Waiting]
    /\ UNCHANGED <<tableVars, session, held, jobVars, updates>>

\* The centroid of a source makes a row of its own if there is none; an id that
\* get_weights chose itself collides, and the sequence moves on all the same.
StoreCentroid(source) ==
    /\ ~Has(source) /\ nextId \in Ids
    /\ nextId' = nextId + 1
    /\ \/ Insert(nextId, source)
       \/ UNCHANGED <<table, held>>
    /\ UNCHANGED <<session, reader, cached, jobVars, updates>>

\* Time passes.
WeightsTick ==
    /\ \A r \in Scorers : reader[r].at = "store" => reader[r].age < MaxCompute
    /\ reader' = [r \in Scorers |-> IF reader[r].at = "store"
                                    THEN [reader[r] EXCEPT !.age = @ + 1] ELSE reader[r]]
    /\ cached' = IF cached = NoScore \/ cached.ttl = 1 THEN NoScore
                 ELSE [cached EXCEPT !.ttl = @ - 1]
    /\ held' = [v \in Weight |->
                  IF \E i \in Present : table[i].weight = v THEN 0
                  ELSE IF held[v] < Longest THEN held[v] + 1 ELSE Longest]
    /\ UNCHANGED <<tableVars, session, jobVars, updates>>

WeightsNext ==
    \/ \E u \in Sessions :
         \/ \E target \in Targets : PutWeights(u, target) \/ Post(u, target) \/ Direct(u, target)
         \/ ReadRow(u) \/ WriteRow(u)
    \/ StartFeedback \/ Posted
    \/ \E r \in Scorers :
         AskScore(r) \/ GetWeights(r) \/ FindNone(r) \/ CreateRow(r) \/ StoreScore(r)
    \/ \E source \in Sources : StoreCentroid(source)
    \/ WeightsTick

WeightsSpec == WeightsInit /\ [][WeightsNext]_weightVars

-----------------------------------------------------------------------------
(***************************************************************************)
(* What a score is worth.                                                  *)
(***************************************************************************)

WeightsTypeOK ==
    /\ table \in [Ids -> [source : Sources, weight : Weight] \union {NoRow}]
    /\ nextId \in 1 .. Cardinality(Ids) + 1
    /\ session \in [Sessions -> [at : {"idle", "read", "write"}, smooth : BOOLEAN,
                                 target : Weight, weight : Weight]]
    /\ reader \in [Scorers -> [at : {"idle", "weights", "create", "store"},
                               weight : Weight, age : 0 .. MaxCompute]]
    /\ cached \in [weight : Weight, ttl : 1 .. CacheTtl] \union {NoScore}
    /\ held \in [Weight -> 0 .. Longest]
    /\ feedback \in {"idle", "posting", "direct", "failed"}
    /\ tries \in 0 .. FeedbackAttempts /\ applied \in Nat /\ updates \in 0 .. MaxUpdates

\* A score is served from the cache that no row has backed for longer than the
\* cache keeps it and its computation took: though an update does not touch the
\* cache, what it replaces is soon gone.
ScoresBacked == cached # NoScore => held[cached.weight] < Longest

\* One run of the feedback job moves the weights by one smoothed step a request
\* at the most, with all the requests that time out and are served all the same.
FeedbackBounded == applied <= tries

\* What was replaced is soon gone from the cache, and one run of the job moves the
\* weights no further than its requests account for.
WeightsSteady == ScoresBacked /\ FeedbackBounded

\* "Return current weighting parameters": what a reader gets is row 1, the only
\* one that updates change.
ReadsCurrent ==
    [][\A r \in Scorers :
         reader[r].at = "weights" /\ reader'[r].at = "store" /\ 1 \in Present
         => reader'[r].weight = table[1].weight]_weightVars
=============================================================================
