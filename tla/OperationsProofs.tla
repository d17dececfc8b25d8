---------------------------- MODULE OperationsProofs ----------------------------
(***************************************************************************)
(* Proofs about the operations, for any number of instances, runs, saves,  *)
(* uses and processes: the number of spot instances, the calls of the      *)
(* first ops of a pipeline run, the rules a publish is checked against,    *)
(* the age of the token it carries, the counts of the daily report, and    *)
(* the keys of the storage.                                                *)
(***************************************************************************)
EXTENDS MCOperations, FiniteSetTheorems, SequenceTheorems, WellFoundedInduction, TLAPS

-----------------------------------------------------------------------------
(***************************************************************************)
(* Spot instances.                                                         *)
(***************************************************************************)

SpotStates == {"none", "pending", "joined", "labelled", "ready", "gone"}

RunShape == [at : {"idle", "request", "wait"}, missing : 0 .. Wanted + 1, mine : Instances \union {NoInstance}]

SpotInv ==
    /\ instance \in [Instances -> SpotStates] /\ maintainer \in [Maintainers -> RunShape]
    /\ overlooked \in Nat /\ byHand \in 0 .. MaxByHand
    /\ \A p \in AtWork : maintainer[p].missing > 0
    /\ NoneTooMany

LEMMA AliveCounted ==
    IsFiniteSet(Alive) /\ IsFiniteSet(ReadyNodes) /\ Cardinality(Alive) \in Nat
    /\ Cardinality(ReadyNodes) \in Nat
<1>1. Alive \in SUBSET Instances /\ ReadyNodes \in SUBSET Instances
  BY DEF Alive, ReadyNodes
<1> QED
  BY <1>1, SpotAssumption, FS_Subset, FS_CardinalityType

LEMMA OutstandingCounted == IsFiniteSet(Outstanding) /\ Cardinality(Outstanding) \in Nat
<1>1. IsFiniteSet(1 .. Wanted + 1)
  BY SpotAssumption, FS_Interval
<1>2. IsFiniteSet(Maintainers \X (1 .. Wanted + 1))
  BY <1>1, SpotAssumption, FS_Product
<1>3. Outstanding \in SUBSET (Maintainers \X (1 .. Wanted + 1))
  BY DEF Outstanding
<1> QED
  BY <1>2, <1>3, FS_Subset, FS_CardinalityType

LEMMA RunShapes ==
    /\ AtRest \in RunShape /\ AtRest.at = "idle"
    /\ \A n \in 0 .. Wanted + 1 :
         LET q == [AtRest EXCEPT !.at = "request", !.missing = n]
         IN  q \in RunShape /\ q.at = "request" /\ q.missing = n
<1>1. 0 \in 0 .. Wanted + 1
  BY SpotAssumption
<1> QED
  BY <1>1 DEF AtRest, RunShape

\* What one run goes on to leaves the requests of the others outstanding.
LEMMA RunMovesOn ==
    ASSUME SpotInv, NEW p \in Maintainers, NEW q \in RunShape, maintainer' = [maintainer EXCEPT ![p] = q]
    PROVE  /\ maintainer' \in [Maintainers -> RunShape] /\ maintainer'[p] = q
           /\ \A r \in Maintainers \ {p} : /\ maintainer'[r] = maintainer[r]
                                           /\ \A k \in Nat : StillToMake(r, k)' <=> StillToMake(r, k)
  BY DEF SpotInv, StillToMake

\* No instance is added and nothing more is to be requested.
LEMMA NeverMore ==
    ASSUME SpotInv, Alive' \in SUBSET Alive, Outstanding' \in SUBSET Outstanding,
           UNCHANGED <<overlooked, byHand>>
    PROVE  NoneTooMany'
<1>1. Cardinality(Alive') \in Nat /\ Cardinality(Alive') <= Cardinality(Alive)
  BY AliveCounted, FS_Subset, FS_CardinalityType
<1>2. Cardinality(Outstanding') \in Nat /\ Cardinality(Outstanding') <= Cardinality(Outstanding)
  BY OutstandingCounted, FS_Subset, FS_CardinalityType
<1> QED
  BY <1>1, <1>2, AliveCounted, OutstandingCounted, SpotAssumption DEF SpotInv, NoneTooMany

LEMMA SpotInitOK == SpotInit => SpotInv
<1> SUFFICES ASSUME SpotInit PROVE SpotInv
  OBVIOUS
<1>1. Alive = {} /\ AtWork = {} /\ Outstanding = {}
  BY DEF SpotInit, Alive, AtWork, AtRest, Outstanding, StillToMake
<1>2. AtRest \in RunShape
  BY SpotAssumption DEF AtRest, RunShape
<1> QED
  BY <1>1, <1>2, FS_EmptySet, SpotAssumption DEF SpotInit, SpotInv, SpotStates, NoneTooMany

\* A run that begins requests what it found missing, and no more than it has overlooked
\* comes on top of what is wanted.
LEMMA CountNodesInv == ASSUME SpotInv, NEW p \in Maintainers, CountNodes(p) PROVE SpotInv'
<1> USE SpotAssumption
<1>1. PICK seen \in Seen : Maintain(p, seen, Wanted - Cardinality(seen))
  BY DEF CountNodes
<1> DEFINE missing == Wanted - Cardinality(seen)
           unseen == Cardinality(Alive \ seen) + Cardinality(Outstanding)
           q == IF missing > 0 THEN [AtRest EXCEPT !.at = "request", !.missing = missing] ELSE AtRest
<1>2. seen \in SUBSET Alive /\ IsFiniteSet(seen) /\ Cardinality(seen) \in Nat
  BY AliveCounted, FS_EmptySet, FS_Subset, FS_CardinalityType DEF Seen, ReadyNodes, Alive
<1>3. Cardinality(Alive \ seen) = Cardinality(Alive) - Cardinality(seen)
  <2>1. Alive \intersect seen = seen
    BY <1>2
  <2> QED
    BY <2>1, AliveCounted, FS_Difference
<1>4. missing \in Int /\ missing <= Wanted /\ unseen \in Nat
      /\ unseen = Cardinality(Alive) - Cardinality(seen) + Cardinality(Outstanding)
  <2>1. IsFiniteSet(Alive \ seen)
    BY AliveCounted, FS_Difference
  <2>2. Cardinality(Alive \ seen) \in Nat
    BY <2>1, FS_CardinalityType
  <2> QED
    BY <1>2, <1>3, <2>2, OutstandingCounted
<1>5. /\ p \notin AtWork /\ maintainer' = [maintainer EXCEPT ![p] = q] /\ UNCHANGED <<instance, byHand>>
      /\ overlooked' = IF missing > 0 /\ unseen > overlooked THEN unseen ELSE overlooked
  BY <1>1 DEF Maintain
<1> HIDE DEF unseen
<1>6. maintainer[p].at = "idle" /\ overlooked \in Nat /\ byHand \in Nat /\ Alive' = Alive
      /\ overlooked' \in Nat /\ overlooked <= overlooked'
  BY <1>4, <1>5 DEF AtWork, SpotInv, Alive
<1>7. CASE missing > 0
  <2>0. missing \in 0 .. Wanted + 1 /\ missing \in Nat
    BY <1>4, <1>7
  <2>1. q \in RunShape /\ q.at = "request" /\ q.missing = missing
    BY <1>7, <2>0, RunShapes
  <2> HIDE DEF q, missing
  <2>2. /\ maintainer' \in [Maintainers -> RunShape] /\ maintainer'[p] = q
        /\ \A r \in Maintainers \ {p} : /\ maintainer'[r] = maintainer[r]
                                        /\ \A k \in Nat : StillToMake(r, k)' <=> StillToMake(r, k)
    BY <1>5, <2>1, RunMovesOn
  <2> DEFINE added == {p} \X (1 .. missing)
  <2>3. \A k \in Nat : ~StillToMake(p, k) /\ (StillToMake(p, k)' <=> k <= missing)
    BY <1>6, <2>1, <2>2 DEF StillToMake
  <2>4. Outstanding' = Outstanding \union added /\ Outstanding \intersect added = {}
    <3>1. \A o \in Outstanding : o[1] # p /\ o \in Outstanding'
      BY <2>2, <2>3 DEF Outstanding
    <3>2. \A o \in added : o \in Outstanding'
      BY <1>4, <2>3 DEF Outstanding
    <3>3. \A o \in Outstanding' : o \in Outstanding \/ o \in added
      BY <1>4, <2>2, <2>3 DEF Outstanding
    <3> QED
      BY <3>1, <3>2, <3>3
  <2>5. IsFiniteSet(added) /\ Cardinality(added) = missing
    <3>1. IsFiniteSet({p}) /\ Cardinality({p}) = 1
      BY FS_Singleton
    <3>2. IsFiniteSet(1 .. missing) /\ Cardinality(1 .. missing) = missing
      BY <1>7, <2>0, FS_Interval
    <3>3. IsFiniteSet(added) /\ Cardinality(added) = 1 * missing
      BY <3>1, <3>2, FS_Product
    <3> QED
      BY <2>0, <3>3
  <2>6. Cardinality(Outstanding') = Cardinality(Outstanding) + missing
    <3>1. Cardinality(Outstanding \union added)
            = Cardinality(Outstanding) + Cardinality(added) - Cardinality(Outstanding \intersect added)
      BY <2>5, OutstandingCounted, FS_Union
    <3>2. Cardinality(Outstanding \intersect added) = 0
      BY <2>4, FS_EmptySet
    <3> QED
      BY <2>0, <2>4, <2>5, <3>1, <3>2, OutstandingCounted
  <2>7. NoneTooMany'
    BY <1>2, <1>4, <1>5, <1>6, <1>7, <2>6, AliveCounted, OutstandingCounted DEF NoneTooMany, missing
  <2> QED
    BY <1>5, <1>6, <1>7, <2>1, <2>2, <2>7 DEF SpotInv, AtWork
<1>8. CASE ~(missing > 0)
  <2>1. q = AtRest /\ AtRest \in RunShape /\ AtRest.at = "idle"
    BY <1>8, RunShapes
  <2>2. /\ maintainer' \in [Maintainers -> RunShape] /\ maintainer'[p].at = "idle"
        /\ \A r \in Maintainers \ {p} : /\ maintainer'[r] = maintainer[r]
                                        /\ \A k \in Nat : StillToMake(r, k)' <=> StillToMake(r, k)
    BY <1>5, <2>1, RunMovesOn
  <2>3. Outstanding' \in SUBSET Outstanding
    BY <2>2 DEF Outstanding, StillToMake
  <2>4. NoneTooMany' /\ UNCHANGED overlooked
    BY <1>5, <1>6, <1>8, <2>3, NeverMore
  <2> QED
    BY <1>5, <1>6, <2>2, <2>4 DEF SpotInv, AtWork
<1> QED
  BY <1>7, <1>8

LEMMA RequestByHandInv == ASSUME SpotInv, NEW p \in Maintainers, RequestByHand(p) PROVE SpotInv'
<1> USE SpotAssumption
<1> DEFINE q == [AtRest EXCEPT !.at = "request", !.missing = 1]
<1>1. /\ maintainer' = [maintainer EXCEPT ![p] = q] /\ UNCHANGED <<instance, overlooked>>
      /\ byHand' = byHand + 1 /\ byHand' \in 0 .. MaxByHand /\ Alive' = Alive /\ byHand \in Nat
  BY DEF RequestByHand, SpotInv, Alive
<1>2. q \in RunShape /\ q.at = "request" /\ q.missing = 1
  <2>1. 1 \in 0 .. Wanted + 1
    OBVIOUS
  <2> QED
    BY <2>1, RunShapes
<1> HIDE DEF q
<1>3. /\ maintainer' \in [Maintainers -> RunShape] /\ maintainer'[p] = q
      /\ \A r \in Maintainers \ {p} : /\ maintainer'[r] = maintainer[r]
                                      /\ \A k \in Nat : StillToMake(r, k)' <=> StillToMake(r, k)
  BY <1>1, <1>2, RunMovesOn
<1>4. Outstanding' \in SUBSET (Outstanding \union {<<p, 1>>})
  <2>1. \A k \in 1 .. Wanted + 1 : StillToMake(p, k)' => k = 1
    BY <1>2, <1>3 DEF StillToMake
  <2> QED
    BY <1>3, <2>1 DEF Outstanding
<1>5. /\ IsFiniteSet(Outstanding \union {<<p, 1>>})
      /\ Cardinality(Outstanding \union {<<p, 1>>}) \in Nat
      /\ Cardinality(Outstanding \union {<<p, 1>>}) <= Cardinality(Outstanding) + 1
  <2>1. /\ IsFiniteSet(Outstanding \union {<<p, 1>>})
        /\ Cardinality(Outstanding \union {<<p, 1>>})
             = IF <<p, 1>> \in Outstanding THEN Cardinality(Outstanding) ELSE Cardinality(Outstanding) + 1
    BY OutstandingCounted, FS_AddElement
  <2> QED
    BY <2>1, OutstandingCounted
<1>6. Cardinality(Outstanding') \in Nat /\ Cardinality(Outstanding') <= Cardinality(Outstanding) + 1
  BY <1>4, <1>5, OutstandingCounted, FS_Subset, FS_CardinalityType
<1>7. NoneTooMany'
  BY <1>1, <1>6, AliveCounted, OutstandingCounted DEF NoneTooMany, SpotInv
<1> QED
  BY <1>1, <1>2, <1>3, <1>7 DEF SpotInv, AtWork

\* What was to be requested is an instance now.
LEMMA RequestInstanceInv ==
    ASSUME SpotInv, NEW p \in Maintainers, NEW i \in Instances, RequestInstance(p, i) PROVE SpotInv'
<1> USE SpotAssumption
<1> DEFINE q == [maintainer[p] EXCEPT !.at = "wait", !.mine = i]
           n == maintainer[p].missing
<1>1. /\ maintainer[p].at = "request" /\ instance[i] = "none"
      /\ instance' = [instance EXCEPT ![i] = "pending"]
      /\ maintainer' = [maintainer EXCEPT ![p] = q] /\ UNCHANGED <<overlooked, byHand>>
  BY DEF RequestInstance
<1>2. n \in 1 .. Wanted + 1 /\ maintainer[p] \in RunShape
  BY <1>1 DEF SpotInv, RunShape, AtWork
<1>3. q \in RunShape /\ q.at = "wait" /\ q.missing = n
  BY <1>2 DEF RunShape
<1> HIDE DEF q
<1>4. /\ maintainer' \in [Maintainers -> RunShape] /\ maintainer'[p] = q
      /\ \A r \in Maintainers \ {p} : /\ maintainer'[r] = maintainer[r]
                                      /\ \A k \in Nat : StillToMake(r, k)' <=> StillToMake(r, k)
  BY <1>1, <1>3, RunMovesOn
<1>5. Alive' = Alive \union {i} /\ i \notin Alive /\ instance' \in [Instances -> SpotStates]
  BY <1>1 DEF Alive, SpotInv, SpotStates
<1>6. Cardinality(Alive') = Cardinality(Alive) + 1
  BY <1>5, AliveCounted, FS_AddElement
<1>7. \A k \in Nat : /\ StillToMake(p, k) <=> k <= n
                     /\ StillToMake(p, k)' <=> k < n
  BY <1>1, <1>3, <1>4 DEF StillToMake
<1>8. <<p, n>> \in Outstanding
  BY <1>2, <1>7 DEF Outstanding
<1>9. Outstanding' \in SUBSET (Outstanding \ {<<p, n>>})
  <2>1. ASSUME NEW o \in Outstanding' PROVE o \in Outstanding /\ o # <<p, n>>
    <3>1. o \in Maintainers \X (1 .. Wanted + 1) /\ StillToMake(o[1], o[2])'
      BY DEF Outstanding
    <3>2. CASE o[1] = p
      <4>1. o[2] < n
        BY <1>7, <3>1, <3>2
      <4>2. StillToMake(o[1], o[2])
        BY <1>2, <1>7, <3>1, <3>2, <4>1
      <4> QED
        BY <1>2, <3>1, <4>1, <4>2 DEF Outstanding
    <3>3. CASE o[1] # p
      BY <1>4, <3>1, <3>3 DEF Outstanding
    <3> QED
      BY <3>2, <3>3
  <2> QED
    BY <2>1
<1>10. /\ IsFiniteSet(Outstanding \ {<<p, n>>})
       /\ Cardinality(Outstanding \ {<<p, n>>}) = Cardinality(Outstanding) - 1
  BY <1>8, OutstandingCounted, FS_RemoveElement
<1>11. Cardinality(Outstanding') \in Nat /\ Cardinality(Outstanding') <= Cardinality(Outstanding) - 1
  BY <1>9, <1>10, FS_Subset, FS_CardinalityType
<1>12. NoneTooMany'
  BY <1>1, <1>6, <1>11, AliveCounted, OutstandingCounted DEF NoneTooMany, SpotInv
<1> QED
  BY <1>1, <1>2, <1>3, <1>4, <1>5, <1>12 DEF SpotInv, AtWork

LEMMA LabelNodeInv == ASSUME SpotInv, NEW p \in Maintainers, LabelNode(p) PROVE SpotInv'
<1> USE SpotAssumption
<1> DEFINE left == maintainer[p].missing - 1
           q == IF left > 0 THEN [AtRest EXCEPT !.at = "request", !.missing = left] ELSE AtRest
<1>1. /\ maintainer[p].at = "wait" /\ maintainer' = [maintainer EXCEPT ![p] = q]
      /\ UNCHANGED <<overlooked, byHand>>
      /\ Alive' = Alive /\ instance' \in [Instances -> SpotStates]
  BY DEF LabelNode, Alive, SpotInv, SpotStates
<1>2. left \in 0 .. Wanted /\ left = maintainer[p].missing - 1 /\ maintainer[p].missing \in Nat
  BY <1>1 DEF SpotInv, RunShape, AtWork
<1>3. /\ q \in RunShape
      /\ IF left > 0 THEN q.at = "request" /\ q.missing = left ELSE q.at = "idle"
  <2>1. left \in 0 .. Wanted + 1
    BY <1>2
  <2> HIDE DEF left
  <2>2. CASE left > 0
    BY <2>1, <2>2, RunShapes
  <2>3. CASE ~(left > 0)
    BY <2>3, RunShapes
  <2> QED
    BY <2>2, <2>3
<1> HIDE DEF q, left
<1>4. /\ maintainer' \in [Maintainers -> RunShape] /\ maintainer'[p] = q
      /\ \A r \in Maintainers \ {p} : /\ maintainer'[r] = maintainer[r]
                                      /\ \A k \in Nat : StillToMake(r, k)' <=> StillToMake(r, k)
  BY <1>1, <1>3, RunMovesOn
<1>5. \A k \in Nat : StillToMake(p, k)' => StillToMake(p, k)
  BY <1>1, <1>2, <1>3, <1>4 DEF StillToMake
<1>6. Outstanding' \in SUBSET Outstanding
  <2>1. ASSUME NEW o \in Outstanding' PROVE o \in Outstanding
    <3>1. o \in Maintainers \X (1 .. Wanted + 1) /\ StillToMake(o[1], o[2])'
      BY DEF Outstanding
    <3>2. o[1] \in Maintainers /\ o[2] \in Nat
      BY <3>1
    <3>3. StillToMake(o[1], o[2])
      BY <1>4, <1>5, <3>1, <3>2
    <3> QED
      BY <3>1, <3>3 DEF Outstanding
  <2> QED
    BY <2>1
<1>7. NoneTooMany'
  BY <1>1, <1>6, NeverMore
<1> QED
  BY <1>1, <1>3, <1>4, <1>7 DEF SpotInv, AtWork

LEMMA SpotNextOK == SpotInv /\ [SpotNext]_spotVars => SpotInv'
<1> SUFFICES ASSUME SpotInv, [SpotNext]_spotVars PROVE SpotInv'
  OBVIOUS
<1>1. ASSUME NEW p \in Maintainers, StopMaintaining(p) PROVE SpotInv'
  <2>1. /\ maintainer' = [maintainer EXCEPT ![p] = AtRest] /\ UNCHANGED <<instance, overlooked, byHand>>
        /\ Alive' = Alive
    BY <1>1 DEF StopMaintaining, Alive
  <2>2. AtRest \in RunShape /\ AtRest.at = "idle"
    BY SpotAssumption DEF AtRest, RunShape
  <2>3. /\ maintainer' \in [Maintainers -> RunShape] /\ maintainer'[p].at = "idle"
        /\ \A r \in Maintainers \ {p} : /\ maintainer'[r] = maintainer[r]
                                        /\ \A k \in Nat : StillToMake(r, k)' <=> StillToMake(r, k)
    BY <2>1, <2>2, RunMovesOn
  <2>4. Outstanding' \in SUBSET Outstanding
    BY <2>3 DEF Outstanding, StillToMake
  <2>5. NoneTooMany'
    BY <2>1, <2>4, NeverMore
  <2> QED
    BY <2>1, <2>3, <2>5 DEF SpotInv, AtWork
<1>2. ASSUME NEW i \in Instances, Joins(i) \/ BecomesReady(i) \/ TurnsNotReady(i) \/ Goes(i)
      PROVE  SpotInv'
  <2>1. /\ Alive' \in SUBSET Alive /\ UNCHANGED <<maintainer, overlooked, byHand>>
        /\ instance' \in [Instances -> SpotStates]
    BY <1>2 DEF Joins, BecomesReady, TurnsNotReady, Goes, InstanceMoves, Alive, SpotInv, SpotStates
  <2>2. Outstanding' = Outstanding
    BY <2>1 DEF Outstanding, StillToMake
  <2>3. NoneTooMany'
    BY <2>1, <2>2, NeverMore
  <2> QED
    BY <2>1, <2>3 DEF SpotInv, AtWork
<1>3. CASE UNCHANGED spotVars
  BY <1>3 DEF spotVars, SpotInv, AtWork, NoneTooMany, Alive, Outstanding, StillToMake
<1> QED
  BY <1>1, <1>2, <1>3, CountNodesInv, RequestByHandInv, RequestInstanceInv, LabelNodeInv DEF SpotNext

\* There are never more instances than are wanted, were requested by hand and were
\* overlooked by one count, for any number of instances and of runs, however the runs
\* overlap and are stopped, and whenever the cluster does not answer.
THEOREM NoneTooManyHolds == SpotSpec => []NoneTooMany
<1>1. SpotSpec => []SpotInv
  BY SpotInitOK, SpotNextOK, PTL DEF SpotSpec
<1>2. SpotInv => NoneTooMany
  BY DEF SpotInv
<1> QED
  BY <1>1, <1>2, PTL

-----------------------------------------------------------------------------
(***************************************************************************)
(* Steps of a pipeline run.                                                *)
(***************************************************************************)

ScoreShape == [at : {"waiting", "call", "done"}, attempt : 0 .. CallTries, scored : BOOLEAN]

\* The attempts made before this one, of all runs of the op.
Before == CallTries * (opRun - 1) + (attempt - 1)

\* A signal that is done with has a score, or all its attempts are used up.
Tried == \A s \in PipelineSignals :
           score[s].at = "done" => score[s].scored \/ score[s].attempt = CallTries

StepsInv ==
    /\ phase \in {"ingest", "score", "scored", "failed"}
    /\ opRun \in 1 .. OpRuns /\ attempt \in 1 .. CallTries /\ ingested \in Nat
    /\ signals \subseteq PipelineSignals /\ score \in [PipelineSignals -> ScoreShape]
    /\ phase = "ingest" => ingested <= Before
    /\ ingested <= CallTries * OpRuns
    /\ phase = "ingest" => \A s \in PipelineSignals : score[s].at = "waiting"
    /\ Cardinality(Scoring) <= AtOnce
    /\ Tried
    /\ phase = "scored" => \A s \in signals : score[s].at = "done"

\* The attempts of a run of the op, and of all of them.
LEMMA AttemptsBefore ==
    ASSUME NEW n \in 1 .. OpRuns
    PROVE  /\ CallTries * (n - 1) + CallTries = CallTries * n
           /\ CallTries * (n - 1) \in Nat /\ CallTries * n \in Nat
           /\ CallTries * n <= CallTries * OpRuns
  BY StepsAssumption

LEMMA ScoringCounted ==
    ASSUME StepsInv
    PROVE  IsFiniteSet(Scoring) /\ Cardinality(Scoring) \in Nat
<1>1. Scoring \in SUBSET PipelineSignals
  BY DEF Scoring, StepsInv
<1> QED
  BY <1>1, StepsAssumption, FS_Subset, FS_CardinalityType

LEMMA NoneScoring ==
    ASSUME \A s \in PipelineSignals : score[s].at = "waiting", signals \subseteq PipelineSignals
    PROVE  Cardinality(Scoring) <= AtOnce /\ Tried
<1>1. Scoring = {}
  BY DEF Scoring
<1> QED
  BY <1>1, FS_EmptySet, StepsAssumption DEF Tried

LEMMA StepsInitOK == StepsInit => StepsInv
<1> SUFFICES ASSUME StepsInit PROVE StepsInv
  OBVIOUS
<1>1. CallTries * 0 = 0 /\ CallTries * OpRuns \in Nat
  BY StepsAssumption
<1>2. \A s \in PipelineSignals : score[s] = Unscored
  BY DEF StepsInit
<1>3. Unscored \in ScoreShape /\ Unscored.at = "waiting"
  BY StepsAssumption DEF Unscored, ScoreShape
<1> QED
  BY <1>1, <1>2, <1>3, NoneScoring, StepsAssumption DEF StepsInit, StepsInv, Before

\* An op that fails gives its calls back, and no more than there are of them.
LEMMA OpFailsInv ==
    ASSUME StepsInv, OpFails, phase \in {"ingest", "score"}, UNCHANGED signals,
           ingested' \in Nat, ingested' <= CallTries * OpRuns,
           phase = "ingest" => ingested' <= CallTries * opRun
    PROVE  StepsInv'
<1>1. /\ score' \in [PipelineSignals -> ScoreShape]
      /\ \A s \in PipelineSignals : score'[s].at = "waiting"
  BY StepsAssumption DEF OpFails, Unscored, ScoreShape
<1>2. /\ phase' \in {phase, "failed"} /\ opRun' \in 1 .. OpRuns /\ attempt' = 1
      /\ phase' = "ingest" => phase = "ingest" /\ opRun' = opRun + 1
  BY StepsAssumption DEF OpFails, StepsInv
<1>3. Cardinality(Scoring)' <= AtOnce /\ Tried'
  <2>1. Scoring' = {}
    BY <1>1 DEF Scoring, StepsInv
  <2> QED
    BY <1>1, <2>1, FS_EmptySet, StepsAssumption DEF Tried
<1>4. phase' = "ingest" => ingested' <= Before'
  <2> SUFFICES ASSUME phase' = "ingest" PROVE ingested' <= Before'
    OBVIOUS
  <2>1. Before' = CallTries * (opRun' - 1) + (1 - 1)
    BY <1>2 DEF Before
  <2>2. opRun' - 1 = opRun
    BY <1>2 DEF StepsInv
  <2>3. CallTries * opRun \in Nat
    BY AttemptsBefore DEF StepsInv
  <2> QED
    BY <1>2, <2>1, <2>2, <2>3
<1> QED
  BY <1>1, <1>2, <1>3, <1>4, StepsAssumption DEF StepsInv

LEMMA StepsNextOK == StepsInv /\ [StepsNext]_stepVars => StepsInv'
<1> SUFFICES ASSUME StepsInv, [StepsNext]_stepVars PROVE StepsInv'
  OBVIOUS
<1> USE StepsAssumption
<1>0. /\ phase = "ingest" => ingested + 1 <= CallTries * (opRun - 1) + attempt
      /\ phase = "ingest" => ingested + 1 <= CallTries * opRun
      /\ phase = "ingest" => ingested + 1 <= CallTries * OpRuns
  BY AttemptsBefore DEF StepsInv, Before
<1>1. CASE IngestFails
  <2>1. phase = "ingest" /\ ingested' \in Nat /\ ingested' <= ingested + 1 /\ UNCHANGED signals
    BY <1>1 DEF IngestFails, StepsInv
  <2>2. CASE attempt < CallTries
    <3>1. attempt' = attempt + 1 /\ UNCHANGED <<phase, opRun, score>>
      BY <1>1, <2>2 DEF IngestFails
    <3>2. Scoring' = Scoring
      BY <2>1, <3>1 DEF Scoring
    <3>3. Before' = CallTries * (opRun - 1) + attempt
      <4>1. opRun' = opRun /\ attempt' = attempt + 1
        BY <3>1
      <4>2. Before' = CallTries * (opRun' - 1) + (attempt' - 1)
        BY DEF Before
      <4>3. attempt' - 1 = attempt /\ opRun' - 1 = opRun - 1
        BY <4>1 DEF StepsInv
      <4> QED
        BY <4>2, <4>3
    <3>4. ingested' <= Before' /\ ingested' <= CallTries * OpRuns
      BY <1>0, <2>1, <3>3, AttemptsBefore DEF StepsInv
    <3> QED
      BY <2>1, <2>2, <3>1, <3>2, <3>4 DEF StepsInv, Tried
  <2>3. CASE ~(attempt < CallTries)
    <3>1. OpFails
      BY <1>1, <2>3 DEF IngestFails
    <3>2. ingested' <= CallTries * OpRuns /\ ingested' <= CallTries * opRun
      BY <1>0, <2>1, AttemptsBefore DEF StepsInv
    <3> QED
      BY <2>1, <3>1, <3>2, OpFailsInv
  <2> QED
    BY <2>2, <2>3
<1>2. CASE IngestSucceeds
  <2>1. /\ phase = "ingest" /\ phase' = "score" /\ opRun' = 1 /\ ingested' = ingested + 1
        /\ signals' \subseteq PipelineSignals /\ UNCHANGED <<attempt, score>>
    BY <1>2 DEF IngestSucceeds
  <2>2. Scoring' = {}
    BY <2>1 DEF Scoring, StepsInv
  <2> QED
    BY <1>0, <2>1, <2>2, FS_EmptySet DEF StepsInv, Tried
<1>3. ASSUME NEW s \in PipelineSignals, Enter(s) PROVE StepsInv'
  <2>1. /\ score' \in [PipelineSignals -> ScoreShape] /\ score'[s].at = "call"
        /\ \A o \in PipelineSignals \ {s} : score'[o] = score[o]
    <3> DEFINE new == [score[s] EXCEPT !.at = "call", !.attempt = 1]
    <3>1. score[s] \in ScoreShape /\ 1 \in 0 .. CallTries
      BY DEF StepsInv
    <3>2. new \in ScoreShape /\ new.at = "call"
      BY <3>1 DEF ScoreShape
    <3>3. score' = [score EXCEPT ![s] = new]
      BY <1>3, <3>1 DEF Enter, StepsInv, ScoreShape
    <3> HIDE DEF new
    <3> QED
      BY <3>2, <3>3 DEF StepsInv
  <2>2. Scoring' = Scoring \union {s}
    BY <1>3, <2>1 DEF Enter, Scoring, StepsInv
  <2>3. Cardinality(Scoring') <= AtOnce
    <3>1. /\ s \notin Scoring /\ Cardinality(Scoring) < AtOnce
      BY <1>3 DEF Enter, Scoring
    <3>2. Cardinality(Scoring \union {s}) = Cardinality(Scoring) + 1
      BY <3>1, ScoringCounted, FS_AddElement
    <3>3. Cardinality(Scoring) + 1 <= AtOnce
      BY <3>1, ScoringCounted
    <3> QED
      BY <2>2, <3>2, <3>3
  <2> QED
    BY <1>3, <2>1, <2>3 DEF Enter, StepsInv, Tried, Before
<1>4. ASSUME NEW s \in PipelineSignals, Scored(s) \/ ScoreFails(s) PROVE StepsInv'
  <2>1. /\ score' \in [PipelineSignals -> ScoreShape]
        /\ score'[s].at = "done" => score'[s].scored \/ score'[s].attempt = CallTries
        /\ \A o \in PipelineSignals \ {s} : score'[o] = score[o]
    <3>1. CASE Scored(s)
      BY <3>1 DEF Scored, StepsInv, ScoreShape
    <3>2. CASE ScoreFails(s) /\ score[s].attempt < CallTries
      <4> DEFINE new == [score[s] EXCEPT !.at = "call", !.attempt = @ + 1]
      <4>1. score[s] \in ScoreShape /\ score[s].attempt + 1 \in 0 .. CallTries
        BY <3>2 DEF StepsInv, ScoreShape
      <4>2. new \in ScoreShape /\ new.at = "call"
        BY <4>1 DEF ScoreShape
      <4>3. score' = [score EXCEPT ![s] = new]
        BY <3>2, <4>1 DEF ScoreFails, StepsInv, ScoreShape
      <4> HIDE DEF new
      <4> QED
        BY <4>2, <4>3 DEF StepsInv
    <3>3. CASE ScoreFails(s) /\ ~(score[s].attempt < CallTries)
      <4> DEFINE new == [score[s] EXCEPT !.at = "done"]
      <4>1. score[s] \in ScoreShape /\ score[s].attempt = CallTries
        BY <3>3 DEF StepsInv, ScoreShape
      <4>2. new \in ScoreShape /\ new.attempt = CallTries
        BY <4>1 DEF ScoreShape
      <4>3. score' = [score EXCEPT ![s] = new]
        BY <3>3, <4>1 DEF ScoreFails, StepsInv, ScoreShape
      <4> HIDE DEF new
      <4> QED
        BY <4>2, <4>3 DEF StepsInv
    <3> QED
      BY <1>4, <3>1, <3>2, <3>3
  <2>2. phase = "score" /\ s \in Scoring /\ UNCHANGED <<phase, opRun, attempt, ingested, signals>>
    BY <1>4 DEF Scored, ScoreFails
  <2>3. Scoring' \in SUBSET Scoring
    <3> SUFFICES ASSUME NEW o \in Scoring' PROVE o \in Scoring
      OBVIOUS
    <3>1. o \in signals /\ score'[o].at = "call" /\ o \in PipelineSignals
      BY <2>2 DEF Scoring, StepsInv
    <3>2. CASE o = s
      BY <2>2, <3>2
    <3>3. CASE o # s
      BY <2>1, <3>1, <3>3 DEF Scoring
    <3> QED
      BY <3>2, <3>3
  <2>4. Cardinality(Scoring') <= AtOnce
    BY <2>3, ScoringCounted, FS_Subset, FS_CardinalityType DEF StepsInv
  <2> QED
    BY <2>1, <2>2, <2>4 DEF StepsInv, Tried, Before
<1>5. CASE ScoringRaises
  BY <1>5, OpFailsInv DEF ScoringRaises, StepsInv
<1>6. CASE EndScoring
  <2>1. Scoring' = Scoring
    BY <1>6 DEF EndScoring, Scoring
  <2> QED
    BY <1>6, <2>1 DEF EndScoring, StepsInv, Tried
<1>7. CASE UNCHANGED stepVars
  BY <1>7 DEF stepVars, StepsInv, Scoring, Tried, Before
<1> QED
  BY <1>1, <1>2, <1>3, <1>4, <1>5, <1>6, <1>7 DEF StepsNext

\* No more ingestions, no more calls at once and no signal left out, for any number of
\* signals, attempts and runs of an op.
THEOREM StepsBoundedHolds == StepsSpec => []StepsBounded
<1>1. StepsSpec => []StepsInv
  BY StepsInitOK, StepsNextOK, PTL DEF StepsSpec
<1>2. StepsInv => StepsBounded
  BY DEF StepsInv, StepsBounded, Tried
<1> QED
  BY <1>1, <1>2, PTL

-----------------------------------------------------------------------------
(***************************************************************************)
(* Publisher rules.                                                        *)
(***************************************************************************)

ThreadShape == [at : {"idle", "read", "build", "ended"}, mtime : Nat, rules : Nat, kind : Kinds]

PublishShape == [at : {"new", "asked", "refused", "published", "stuck"}, asked : Nat, made : Nat]

RulesShape ==
    /\ file \in [rules : Nat, kind : Kinds, mtime : Nat] /\ saves \in Nat
    /\ cache \in [rules : Nat, mtime : Nat] /\ registry \in Nat
    /\ observer \in ThreadShape /\ events \in Nat /\ twice \in BOOLEAN
    /\ publish \in [Publishes -> PublishShape]

\* Rules that are none, or no older than these.
Since(rules, old) == rules = 0 \/ old <= rules

\* The rules in use are no newer than the cached ones, nor those than the last save.
RulesOrdered ==
    /\ file.rules \in {0, saves} /\ registry <= saves /\ cache.rules <= saves
    /\ Since(cache.rules, registry)
    /\ observer.at = "build" => observer.rules = cache.rules

\* Whoever was let through with some rules finds none that are older.
PublishesSince ==
    \A p \in Publishes :
        /\ publish[p].at = "asked" =>
             /\ publish[p].asked <= saves
             /\ Since(registry, publish[p].asked) /\ Since(cache.rules, publish[p].asked)
        /\ publish[p].at = "published" => publish[p].made <= saves /\ Since(publish[p].made, publish[p].asked)

\* What the thread knows is of the present file, unless it has still to be told of a
\* change.
ThreadKnows ==
    /\ cache.mtime <= file.mtime /\ (observer.at = "read" => observer.mtime <= file.mtime)
    /\ ~twice =>
         /\ cache.mtime = file.mtime => cache.rules = file.rules
         /\ observer.at = "read" /\ events = 0 => observer.mtime = file.mtime
         /\ observer.at = "build" /\ events = 0 => observer.rules = file.rules
         /\ observer.at = "idle" /\ events = 0 => registry = file.rules

RulesInv == RulesShape /\ RulesOrdered /\ PublishesSince /\ ThreadKnows

LEMMA ThreadShapes ==
    /\ Idling \in ThreadShape /\ [Idling EXCEPT !.at = "ended"] \in ThreadShape
    /\ \A n \in Nat : [Idling EXCEPT !.at = "read", !.mtime = n] \in ThreadShape
    /\ Idling.at = "idle"
  BY DEF Idling, ThreadShape, Kinds

LEMMA RulesInitOK == RulesInit => RulesInv
<1> SUFFICES ASSUME RulesInit PROVE RulesInv
  OBVIOUS
<1>1. Unasked \in PublishShape /\ Unasked.at = "new" /\ "good" \in Kinds
  BY DEF Unasked, PublishShape, Kinds
<1>2. RulesShape
  BY <1>1, ThreadShapes DEF RulesInit, RulesShape
<1>3. RulesOrdered /\ ThreadKnows
  <2>1. /\ file.rules = 1 /\ file.mtime = 1 /\ saves = 1 /\ cache.rules = 1 /\ cache.mtime = 1
        /\ registry = 1 /\ observer.at = "idle"
    BY ThreadShapes DEF RulesInit
  <2> QED
    BY <2>1 DEF RulesOrdered, ThreadKnows, Since
<1>4. PublishesSince
  BY <1>1 DEF RulesInit, PublishesSince
<1> QED
  BY <1>2, <1>3, <1>4 DEF RulesInv

\* A change of the file is newer than all that is known, and has still to be told.
LEMMA FileChanges ==
    ASSUME RulesInv, NEW rules, NEW kind \in Kinds, Changed(rules, kind),
           saves' \in Nat, saves <= saves', rules \in {0, saves'}
    PROVE  RulesInv'
<1> USE DEF RulesInv, RulesShape
<1>1. PICK later \in {0, 1} :
         /\ file' = [rules |-> rules, kind |-> kind, mtime |-> file.mtime + later]
         /\ twice' = (twice \/ later = 0)
  BY DEF Changed
<1>2. events' = events + 1 /\ UNCHANGED <<cache, registry, observer, publish>>
  BY DEF Changed
<1>3. RulesShape'
  BY <1>1, <1>2
<1>4. RulesOrdered'
  BY <1>1, <1>2 DEF RulesOrdered, Since
<1>5. PublishesSince'
  BY <1>2 DEF PublishesSince, Since, PublishShape
<1>6. ThreadKnows'
  <2>1. CASE later = 0
    <3>1. twice'
      BY <1>1, <2>1, Zenon
    <3>2. file'.mtime = file.mtime
      BY <1>1, <2>1
    <3> QED
      BY <1>2, <3>1, <3>2 DEF ThreadKnows
  <2>2. CASE later = 1
    BY <1>1, <1>2, <2>2 DEF ThreadKnows, ThreadShape
  <2> QED
    BY <2>1, <2>2
<1> QED
  BY <1>3, <1>4, <1>5, <1>6

LEMMA RulesNextOK == RulesInv /\ [RulesNext]_rulesVars => RulesInv'
<1> SUFFICES ASSUME RulesInv, [RulesNext]_rulesVars PROVE RulesInv'
  OBVIOUS
<1> USE DEF RulesInv
<1>1. CASE Truncate
  BY <1>1, FileChanges DEF Truncate, RulesShape, Kinds
<1>2. ASSUME NEW kind \in Kinds, Save(kind) PROVE RulesInv'
  BY <1>2, FileChanges DEF Save, RulesShape
<1>3. CASE Stat
  <2>1. /\ observer' = [Idling EXCEPT !.at = "read", !.mtime = file.mtime]
        /\ events' \in Nat /\ UNCHANGED <<file, saves, cache, registry, publish, twice>>
    BY <1>3 DEF Stat, RulesShape
  <2>2. observer' \in ThreadShape /\ observer'.at = "read" /\ observer'.mtime = file.mtime
    BY <2>1, ThreadShapes DEF Idling, RulesShape
  <2>3. RulesShape' /\ RulesOrdered' /\ PublishesSince'
    BY <2>1, <2>2 DEF RulesShape, RulesOrdered, PublishesSince, Since
  <2>4. ThreadKnows'
    BY <2>1, <2>2 DEF ThreadKnows, RulesShape
  <2> QED
    BY <2>3, <2>4
<1>4. CASE Load
  <2>1. /\ observer.at = "read" /\ UNCHANGED <<file, saves, registry, events, publish, twice>>
    BY <1>4 DEF Load
  <2>2. CASE cache.mtime = observer.mtime
    <3>1. /\ observer' \in ThreadShape /\ observer'.at = "build"
          /\ observer'.rules = cache.rules /\ UNCHANGED cache
      BY <1>4, <2>2 DEF Load, Loaded, RulesShape, ThreadShape, Kinds
    <3>2. RulesShape' /\ RulesOrdered' /\ PublishesSince'
      BY <2>1, <3>1 DEF RulesShape, RulesOrdered, PublishesSince, Since
    <3>3. ThreadKnows'
      BY <2>1, <2>2, <3>1 DEF ThreadKnows
    <3> QED
      BY <3>2, <3>3
  <2>3. CASE cache.mtime # observer.mtime /\ file.kind = "unparsable"
    <3>1. observer' \in ThreadShape /\ observer'.at = "ended" /\ UNCHANGED cache
      BY <1>4, <2>3, ThreadShapes DEF Load, Ended, Idling
    <3> QED
      BY <2>1, <3>1 DEF RulesShape, RulesOrdered, PublishesSince, ThreadKnows, Since
  <2>4. CASE cache.mtime # observer.mtime /\ file.kind # "unparsable"
    <3>1. /\ observer' \in ThreadShape /\ observer'.at = "build" /\ observer'.rules = file.rules
          /\ cache' = [rules |-> file.rules, mtime |-> observer.mtime]
      BY <1>4, <2>4 DEF Load, Loaded, RulesShape, ThreadShape
    <3>2. RulesShape' /\ RulesOrdered'
      BY <2>1, <3>1 DEF RulesShape, RulesOrdered, Since, ThreadShape
    <3>3. PublishesSince'
      BY <2>1, <3>1 DEF RulesShape, RulesOrdered, PublishesSince, Since
    <3>4. ThreadKnows'
      BY <2>1, <3>1 DEF ThreadKnows
    <3> QED
      BY <3>2, <3>3, <3>4
  <2> QED
    BY <2>2, <2>3, <2>4
<1>5. CASE Build
  <2>1. observer.at = "build" /\ UNCHANGED <<file, saves, cache, events, publish, twice>>
    BY <1>5 DEF Build
  <2>2. /\ observer' \in ThreadShape
        /\ \/ registry' = observer.rules /\ observer'.at = "idle"
           \/ registry' = registry /\ observer'.at = "ended"
    BY <1>5, ThreadShapes DEF Build, Ended, Idling
  <2>3. RulesShape' /\ RulesOrdered'
    BY <2>1, <2>2 DEF RulesShape, RulesOrdered, Since, ThreadShape
  <2>4. PublishesSince'
    BY <2>1, <2>2 DEF RulesOrdered, PublishesSince, Since
  <2>5. ThreadKnows'
    BY <2>1, <2>2 DEF ThreadKnows
  <2> QED
    BY <2>3, <2>4, <2>5
<1>6. ASSUME NEW p \in Publishes, AskPublish(p) \/ CheckAgain(p) PROVE RulesInv'
  <2>1. PICK new : Checked(p, new) /\
            \/ new = [publish[p] EXCEPT !.at = "asked", !.asked = registry]
            \/ new = [publish[p] EXCEPT !.at = "refused"]
            \/ publish[p].at = "asked" /\ new = [publish[p] EXCEPT !.at = "published", !.made = registry]
            \/ new = [publish[p] EXCEPT !.at = "stuck"]
    BY <1>6 DEF AskPublish, CheckAgain
  <2>2. /\ new \in PublishShape /\ publish' = [publish EXCEPT ![p] = new]
        /\ UNCHANGED <<file, saves, cache, registry, observer, events, twice>>
    BY <2>1 DEF Checked, RulesShape, PublishShape
  <2>3. /\ new.at = "asked" => new.asked = registry
        /\ new.at = "published" => publish[p].at = "asked" /\ new.asked = publish[p].asked
                                   /\ new.made = registry
    BY <2>1 DEF RulesShape, PublishShape
  <2>4. RulesShape' /\ RulesOrdered' /\ ThreadKnows'
    BY <2>2 DEF RulesShape, RulesOrdered, ThreadKnows, Since
  <2> HIDE DEF RulesInv
  <2>5. PublishesSince'
    BY <2>2, <2>3 DEF RulesInv, RulesShape, RulesOrdered, PublishesSince, Since
  <2> QED
    BY <2>4, <2>5 DEF RulesInv
<1>7. CASE UNCHANGED rulesVars
  BY <1>7 DEF rulesVars, RulesShape, RulesOrdered, PublishesSince, ThreadKnows, Since
<1> QED
  BY <1>1, <1>2, <1>3, <1>4, <1>5, <1>6, <1>7 DEF RulesNext

\* The rules in use are the file's once the thread has been told of every change, and
\* nothing is published under older rules than its request was let through with, for
\* any number of saves and publishes.
THEOREM RulesCurrentHolds == RulesSpec => []RulesCurrent
<1>1. RulesSpec => []RulesInv
  BY RulesInitOK, RulesNextOK, PTL DEF RulesSpec
<1>2. RulesInv => RulesCurrent
  BY DEF RulesInv, RulesShape, PublishShape, PublishesSince, ThreadKnows, RulesCurrent, Since
<1> QED
  BY <1>1, <1>2, PTL

-----------------------------------------------------------------------------
(***************************************************************************)
(* Marketplace accounts.                                                   *)
(***************************************************************************)

HomeShape == [up : {"down", "up", "failed"}, token : Nat \union {None},
              expiry : Nat \union {None}, state : Nat \union {None}]

UseShape == [kind : {"none", "call", "login"}, since : Nat, token : Nat \union {None}, known : BOOLEAN,
             at : {"new", "ask", "granted", "kept", "find", "upsert", "send", "over"}]

AccountShape ==
    /\ clock \in Nat /\ logins \in Nat /\ oldest \in Nat
    /\ home \in [Homes -> HomeShape] /\ use \in [Uses -> UseShape]

\* A use whose client keeps a token: it began less than a token's life and two calls
\* after that token's grant, and no more than a call after it if it renewed it.
UseOfToken(q, token) ==
    /\ q.at \in {"kept", "find", "upsert"} => token # None /\ q.since <= token + CallTime
    /\ q.at = "send" => token # None /\ q.since < token + Life + 2 * CallTime

\* A use takes a call's time from its grant, at which it counts its token from.
UseInTime(q, now) ==
    /\ q.at \notin {"new", "over"} => q.since <= now /\ now <= q.since + CallTime
    /\ q.at \in {"granted", "kept"} => q.token = q.since

\* A client's expiry was set by a use that had renewed the token it keeps, or another one
\* at about the same time; and it has none only until the use that kept it sets it.
HomeInTime(h) ==
    LET token == home[h].token
        expiry == home[h].expiry
    IN  /\ token # None => token <= clock
        /\ expiry # None => token # None /\ expiry <= token + Life + 2 * CallTime /\ expiry <= clock + Life
        /\ token # None /\ expiry = None =>
             \E u \in Uses : HomeOf[u] = h /\ use[u].at = "kept" /\ use[u].token = token

AccountInv ==
    /\ AccountShape
    /\ \A u \in Uses : UseInTime(use[u], clock) /\ UseOfToken(use[u], home[HomeOf[u]].token)
    /\ \A h \in Homes : HomeInTime(h)
    /\ oldest < Life + 3 * CallTime

LEMMA UseShapes == Untouched \in UseShape /\ Over \in UseShape /\ Untouched.at = "new" /\ Over.at = "over"
                   /\ Fresh \in HomeShape /\ Fresh.token = None /\ Fresh.expiry = None
  BY DEF Untouched, Over, Fresh, UseShape, HomeShape

LEMMA AccountInitOK == Life > 0 /\ AccountInit => AccountInv
  BY UseShapes, AccountAssumption
  DEF AccountInit, AccountInv, AccountShape, UseInTime, UseOfToken, HomeInTime

\* A use goes a step on, and leaves its client alone.
LEMMA UseStep ==
    ASSUME AccountInv, NEW u \in Uses, NEW q \in UseShape, use' = [use EXCEPT ![u] = q],
           use[u].at # "kept", UNCHANGED <<clock, home>>, logins' \in Nat, oldest' \in Nat,
           oldest' < Life + 3 * CallTime,
           UseInTime(q, clock), UseOfToken(q, home[HomeOf[u]].token)
    PROVE  AccountInv'
<1>1. AccountShape' /\ \A v \in Uses : use'[v] = IF v = u THEN q ELSE use[v]
  BY DEF AccountInv, AccountShape
<1>2. ASSUME NEW v \in Uses PROVE UseInTime(use[v], clock)' /\ UseOfToken(use[v], home[HomeOf[v]].token)'
  BY <1>1 DEF AccountInv
<1>3. ASSUME NEW h \in Homes PROVE HomeInTime(h)'
  BY <1>1 DEF AccountInv, HomeInTime
<1> QED
  BY <1>1, <1>2, <1>3 DEF AccountInv

\* What a client keeps besides its token and the expiry makes no difference.
LEMMA HomeStep ==
    ASSUME AccountInv, home' \in [Homes -> HomeShape], UNCHANGED <<clock, use, oldest>>,
           logins' \in Nat,
           \A h \in Homes : home'[h].token = home[h].token /\ home'[h].expiry = home[h].expiry
    PROVE  AccountInv'
<1>1. AccountShape'
  BY DEF AccountInv, AccountShape
<1>2. ASSUME NEW v \in Uses PROVE UseInTime(use[v], clock)' /\ UseOfToken(use[v], home[HomeOf[v]].token)'
  BY AccountAssumption DEF AccountInv
<1>3. ASSUME NEW h \in Homes PROVE HomeInTime(h)'
  BY DEF AccountInv, HomeInTime
<1> QED
  BY <1>1, <1>2, <1>3 DEF AccountInv

LEMMA AccountNextOK == Life > 0 /\ AccountInv /\ [AccountNext]_accountVars => AccountInv'
<1> SUFFICES ASSUME Life > 0, AccountInv, [AccountNext]_accountVars PROVE AccountInv'
  OBVIOUS
<1> USE AccountAssumption
<1>0. AccountShape
  BY DEF AccountInv
<1>1. ASSUME NEW h \in Homes, StartHome(h) PROVE AccountInv'
  BY <1>0, <1>1, HomeStep DEF StartHome, AccountShape, HomeShape
<1>2. ASSUME NEW h \in Homes, Login(h) PROVE AccountInv'
  <2>1. logins' \in Nat /\ logins' = logins + 1 /\ UNCHANGED <<clock, use, oldest>>
    BY <1>0, <1>2 DEF Login, AccountShape
  <2>2. /\ home' \in [Homes -> HomeShape]
        /\ \A g \in Homes : home'[g].token = home[g].token /\ home'[g].expiry = home[g].expiry
    BY <1>0, <1>2, <2>1 DEF Login, AccountShape, HomeShape
  <2> QED
    BY <2>1, <2>2, HomeStep
<1>3. ASSUME NEW h \in Homes, StopHome(h) PROVE AccountInv'
  <2>1. /\ home' = [home EXCEPT ![h] = Fresh] /\ UNCHANGED <<clock, logins, oldest>>
        /\ use' = [u \in Uses |-> IF HomeOf[u] = h /\ use[u].at # "new" THEN Over ELSE use[u]]
    BY <1>3 DEF StopHome
  <2>2. AccountShape'
    BY <1>0, <2>1, UseShapes DEF AccountShape
  <2>3. ASSUME NEW u \in Uses
        PROVE  UseInTime(use[u], clock)' /\ UseOfToken(use[u], home[HomeOf[u]].token)'
    <3>1. CASE HomeOf[u] = h
      BY <2>1, <3>1, UseShapes DEF AccountInv, UseInTime, UseOfToken
    <3>2. CASE HomeOf[u] # h
      BY <1>0, <2>1, <3>2 DEF AccountInv, AccountShape
    <3> QED
      BY <3>1, <3>2
  <2>4. ASSUME NEW g \in Homes PROVE HomeInTime(g)'
    <3>1. CASE g = h
      BY <1>0, <2>1, <3>1, UseShapes DEF HomeInTime, AccountShape
    <3>2. CASE g # h
      BY <1>0, <2>1, <3>2 DEF AccountInv, HomeInTime, AccountShape
    <3> QED
      BY <3>1, <3>2
  <2> QED
    BY <2>1, <2>2, <2>3, <2>4 DEF AccountInv
<1>4. ASSUME NEW u \in Uses, GetToken(u) PROVE AccountInv'
  <2> DEFINE c == home[HomeOf[u]]
             q == [use[u] EXCEPT !.kind = "call", !.since = clock,
                     !.at = IF c.token = None \/ (c.expiry # None /\ c.expiry <= clock)
                            THEN "ask" ELSE "send"]
  <2>1. /\ use' = [use EXCEPT ![u] = q] /\ use[u].at = "new"
        /\ UNCHANGED <<clock, home, logins, oldest>>
    BY <1>4 DEF GetToken
  <2>2. q \in UseShape /\ q.since = clock /\ q.at \in {"ask", "send"}
        /\ (q.at = "send" => c.token # None /\ (c.expiry = None \/ ~(c.expiry <= clock)))
    BY <1>0 DEF AccountShape, UseShape
  <2>3. UseInTime(q, clock)
    BY <1>0, <2>2 DEF UseInTime, AccountShape
  <2>4. ASSUME q.at = "send" PROVE clock < c.token + Life + 2 * CallTime
    <3>1. HomeInTime(HomeOf[u]) /\ c.token \in Nat /\ c.expiry \in Nat \union {None}
      BY <1>0, <2>2, <2>4 DEF AccountInv, AccountShape, HomeShape
    <3>2. CASE c.expiry = None
      <4>1. PICK v \in Uses : use[v].at = "kept" /\ use[v].token = c.token
        BY <2>2, <2>4, <3>1, <3>2 DEF HomeInTime
      <4>2. use[v].since = c.token /\ clock <= use[v].since + CallTime
        BY <4>1 DEF AccountInv, UseInTime
      <4> QED
        BY <1>0, <3>1, <4>2 DEF AccountShape
    <3>3. CASE c.expiry # None
      BY <1>0, <2>2, <2>4, <3>1, <3>3 DEF HomeInTime, AccountShape
    <3> QED
      BY <3>2, <3>3
  <2>5. UseOfToken(q, c.token)
    BY <2>2, <2>4 DEF UseOfToken
  <2> HIDE DEF q
  <2> QED
    BY <1>0, <2>1, <2>2, <2>3, <2>5, UseStep DEF AccountInv, AccountShape
<1>5. ASSUME NEW u \in Uses, NEW n \in 1 .. Cardinality(Uses), Callback(u, n) PROVE AccountInv'
  <2>1. PICK q : /\ use' = [use EXCEPT ![u] = q] /\ use[u].at = "new"
                 /\ q = Over \/ q = [use[u] EXCEPT !.kind = "login", !.at = "ask", !.since = clock]
                 /\ UNCHANGED <<clock, home, logins, oldest>>
    BY <1>5 DEF Callback
  <2>2. q \in UseShape /\ q.at \in {"ask", "over"} /\ (q.at = "ask" => q.since = clock)
    BY <1>0, <2>1, UseShapes DEF AccountShape, UseShape
  <2>3. UseInTime(q, clock) /\ UseOfToken(q, home[HomeOf[u]].token)
    BY <1>0, <2>2 DEF UseInTime, UseOfToken, AccountShape
  <2> QED
    BY <1>0, <2>1, <2>2, <2>3, UseStep DEF AccountInv, AccountShape
<1>6. ASSUME NEW u \in Uses, Grant(u) PROVE AccountInv'
  <2> DEFINE q == [use[u] EXCEPT !.at = "granted", !.token = clock, !.since = clock]
  <2>1. /\ use' = [use EXCEPT ![u] = q] /\ use[u].at = "ask"
        /\ UNCHANGED <<clock, home, logins, oldest>>
    BY <1>0, <1>6 DEF Grant, AccountShape, UseShape
  <2>2. q \in UseShape /\ q.at = "granted" /\ q.since = clock /\ q.token = clock
    BY <1>0 DEF AccountShape, UseShape
  <2>3. UseInTime(q, clock) /\ UseOfToken(q, home[HomeOf[u]].token)
    BY <1>0, <2>2 DEF UseInTime, UseOfToken, AccountShape
  <2> HIDE DEF q
  <2> QED
    BY <1>0, <2>1, <2>2, <2>3, UseStep DEF AccountInv, AccountShape
<1>7. ASSUME NEW u \in Uses, Refuse(u) PROVE AccountInv'
  <2>1. use' = [use EXCEPT ![u] = Over] /\ use[u].at = "ask" /\ UNCHANGED <<clock, home, logins, oldest>>
    BY <1>7 DEF Refuse, Proceed
  <2>2. UseInTime(Over, clock) /\ UseOfToken(Over, home[HomeOf[u]].token)
    BY UseShapes DEF UseInTime, UseOfToken
  <2> QED
    BY <1>0, <2>1, <2>2, UseShapes, UseStep DEF AccountInv, AccountShape
<1>8. ASSUME NEW u \in Uses, KeepToken(u) PROVE AccountInv'
  <2> DEFINE q == [use[u] EXCEPT !.at = "kept"]
             h == HomeOf[u]
  <2>1. /\ use' = [use EXCEPT ![u] = q] /\ use[u].at = "granted"
        /\ home' = [home EXCEPT ![h].token = use[u].token]
        /\ UNCHANGED <<clock, logins, oldest>>
    BY <1>8 DEF KeepToken, Proceed
  <2>2. /\ h \in Homes /\ use[u] \in UseShape /\ q \in UseShape /\ q.at = "kept"
        /\ q.since = use[u].since /\ q.token = use[u].token
    BY <1>0 DEF AccountShape, UseShape
  <2>3. /\ use[u].token = use[u].since /\ use[u].since <= clock /\ clock <= use[u].since + CallTime
        /\ use[u].since \in Nat
    BY <1>0, <2>1, <2>2 DEF AccountInv, UseInTime, AccountShape, UseShape
  <2>4. AccountShape' /\ home'[h].token = use[u].since /\ home'[h].expiry = home[h].expiry
        /\ \A g \in Homes \ {h} : home'[g] = home[g]
    <3>1. home[h] \in HomeShape
      BY <1>0, <2>2 DEF AccountShape
    <3>2. [home[h] EXCEPT !.token = use[u].token] \in HomeShape
      BY <2>3, <3>1 DEF HomeShape
    <3>3. home' = [home EXCEPT ![h] = [home[h] EXCEPT !.token = use[u].token]]
      BY <2>1
    <3> QED
      BY <1>0, <2>1, <2>2, <2>3, <3>1, <3>2, <3>3 DEF AccountShape, HomeShape
  <2> HIDE DEF q
  <2>5. ASSUME NEW v \in Uses
        PROVE  UseInTime(use[v], clock)' /\ UseOfToken(use[v], home[HomeOf[v]].token)'
    <3>1. CASE v = u
      BY <1>0, <2>1, <2>2, <2>3, <2>4, <3>1 DEF UseInTime, UseOfToken, AccountShape
    <3>2. CASE v # u /\ HomeOf[v] # h
      BY <1>0, <2>1, <2>4, <3>2 DEF AccountInv, AccountShape
    <3>3. CASE v # u /\ HomeOf[v] = h
      <4>1. use'[v] = use[v] /\ use[v] \in UseShape /\ UseInTime(use[v], clock)
        BY <1>0, <2>1, <3>3 DEF AccountInv, AccountShape
      <4>2. use[v].at \notin {"new", "over"} => use[v].since <= use[u].since + CallTime
        BY <1>0, <2>3, <4>1 DEF UseInTime, UseShape, AccountShape
      <4>3. UseOfToken(use[v], use[u].since)
        BY <2>3, <4>1, <4>2 DEF UseOfToken, UseShape
      <4> QED
        BY <2>1, <2>4, <3>3, <4>1, <4>3
    <3> QED
      BY <3>1, <3>2, <3>3
  <2>6. ASSUME NEW g \in Homes PROVE HomeInTime(g)'
    <3>1. HomeInTime(g) /\ home[g] \in HomeShape
      BY <1>0 DEF AccountInv, AccountShape
    <3>2. CASE g = h
      <4>1. use'[u].at = "kept" /\ use'[u].token = use[u].since
        BY <1>0, <2>1, <2>2, <2>3 DEF AccountShape
      <4>2. home[h].expiry # None => home[h].expiry <= use[u].since + Life + 2 * CallTime
        BY <1>0, <2>3, <3>1, <3>2 DEF HomeInTime, HomeShape, AccountShape
      <4> QED
        BY <1>0, <2>1, <2>3, <2>4, <3>1, <3>2, <4>1, <4>2 DEF HomeInTime, AccountShape
    <3>3. CASE g # h
      <4>1. ASSUME NEW v \in Uses, HomeOf[v] = g PROVE use'[v] = use[v]
        BY <1>0, <2>1, <3>3, <4>1 DEF AccountShape
      <4> QED
        BY <2>1, <2>4, <3>1, <3>3, <4>1 DEF HomeInTime
    <3> QED
      BY <3>2, <3>3
  <2> QED
    BY <2>1, <2>4, <2>5, <2>6 DEF AccountInv
<1>9. ASSUME NEW u \in Uses, KeepExpiry(u) PROVE AccountInv'
  <2> DEFINE q == [use[u] EXCEPT !.at = "find"]
             h == HomeOf[u]
  <2>1. /\ use' = [use EXCEPT ![u] = q] /\ use[u].at = "kept"
        /\ home' = [home EXCEPT ![h].expiry = clock + Life]
        /\ UNCHANGED <<clock, logins, oldest>>
    <3>1. Life # 0
      BY <1>0, AccountAssumption
    <3> QED
      BY <1>9, <3>1 DEF KeepExpiry, Proceed
  <2>2. /\ h \in Homes /\ use[u] \in UseShape /\ q \in UseShape /\ q.at = "find"
        /\ q.since = use[u].since /\ q.token = use[u].token
    BY <1>0 DEF AccountShape, UseShape
  <2>3. /\ use[u].since <= clock /\ clock <= use[u].since + CallTime /\ use[u].since \in Nat
        /\ home[h].token \in Nat /\ use[u].since <= home[h].token + CallTime
    BY <1>0, <2>1, <2>2 DEF AccountInv, UseInTime, UseOfToken, AccountShape, UseShape, HomeShape
  <2>4. AccountShape' /\ home'[h].token = home[h].token /\ home'[h].expiry = clock + Life
        /\ \A g \in Homes \ {h} : home'[g] = home[g]
    <3>1. home[h] \in HomeShape /\ clock + Life \in Nat
      BY <1>0, <2>2 DEF AccountShape
    <3>2. [home[h] EXCEPT !.expiry = clock + Life] \in HomeShape
      BY <3>1 DEF HomeShape
    <3>3. home' = [home EXCEPT ![h] = [home[h] EXCEPT !.expiry = clock + Life]]
      BY <2>1
    <3> QED
      BY <1>0, <2>1, <2>2, <3>1, <3>2, <3>3 DEF AccountShape, HomeShape
  <2> HIDE DEF q
  <2>5. ASSUME NEW v \in Uses
        PROVE  UseInTime(use[v], clock)' /\ UseOfToken(use[v], home[HomeOf[v]].token)'
    <3>1. home'[HomeOf[v]].token = home[HomeOf[v]].token
      BY <2>4
    <3>2. CASE v = u
      BY <1>0, <2>1, <2>2, <2>3, <2>4, <3>1, <3>2 DEF UseInTime, UseOfToken, AccountShape
    <3>3. CASE v # u
      BY <1>0, <2>1, <3>1, <3>3 DEF AccountInv, AccountShape
    <3> QED
      BY <3>2, <3>3
  <2>6. ASSUME NEW g \in Homes PROVE HomeInTime(g)'
    <3>1. HomeInTime(g)
      BY DEF AccountInv
    <3>2. CASE g = h
      <4>1. clock + Life <= home[h].token + Life + 2 * CallTime
        BY <1>0, <2>3 DEF AccountShape
      <4>2. home'[h].expiry # None
        BY <1>0, <2>4 DEF AccountShape
      <4>3. home[h].token # None /\ home[h].token <= clock
        BY <2>3, <3>1, <3>2, AccountAssumption DEF HomeInTime
      <4>4. /\ home'[h].token = home[h].token /\ home'[h].expiry = clock + Life /\ clock' = clock
        BY <2>1, <2>4
      <4>5. home'[h].expiry <= clock' + Life
        BY <1>0, <4>4 DEF AccountShape
      <4>6. /\ home'[h].token # None /\ home'[h].token <= clock'
            /\ home'[h].expiry <= home'[h].token + Life + 2 * CallTime
        BY <4>1, <4>3, <4>4
      <4>7. g = h
        BY <3>2
      <4> HIDE DEF h
      <4> QED
        BY <4>2, <4>5, <4>6, <4>7 DEF HomeInTime
    <3>3. CASE g # h
      <4>1. ASSUME NEW v \in Uses, HomeOf[v] = g PROVE use'[v] = use[v]
        BY <1>0, <2>1, <3>3, <4>1 DEF AccountShape
      <4> QED
        BY <2>1, <2>4, <3>1, <3>3, <4>1 DEF HomeInTime
    <3> QED
      BY <3>2, <3>3
  <2> QED
    BY <2>1, <2>4, <2>5, <2>6 DEF AccountInv
<1>10. ASSUME NEW u \in Uses, FindToken(u) PROVE AccountInv'
  <2> DEFINE q == [use[u] EXCEPT !.at = "upsert", !.known = row # {}]
  <2>1. use' = [use EXCEPT ![u] = q] /\ use[u].at = "find" /\ UNCHANGED <<clock, home, logins, oldest>>
    BY <1>0, <1>10 DEF FindToken, AccountShape, UseShape
  <2>2. q \in UseShape /\ q.at = "upsert" /\ q.since = use[u].since
    BY <1>0 DEF AccountShape, UseShape
  <2>3. UseInTime(q, clock) /\ UseOfToken(q, home[HomeOf[u]].token)
    BY <2>1, <2>2 DEF AccountInv, UseInTime, UseOfToken
  <2> HIDE DEF q
  <2> QED
    BY <1>0, <2>1, <2>2, <2>3, UseStep DEF AccountInv, AccountShape
<1>11. ASSUME NEW u \in Uses, Upsert(u) PROVE AccountInv'
  <2>1. PICK q : /\ use' = [use EXCEPT ![u] = q] /\ use[u].at = "upsert"
                 /\ q = Over \/ q = [use[u] EXCEPT !.at = "send"]
                 /\ UNCHANGED <<clock, home, logins, oldest>>
    BY <1>11 DEF Upsert, Proceed
  <2>2. /\ use[u] \in UseShape /\ home[HomeOf[u]] \in HomeShape
        /\ q \in UseShape /\ q.at \in {"send", "over"} /\ (q.at = "send" => q.since = use[u].since)
    BY <1>0, <2>1, UseShapes DEF AccountShape, UseShape
  <2>3. UseInTime(q, clock)
    BY <2>1, <2>2 DEF AccountInv, UseInTime
  <2>4. ASSUME q.at = "send" PROVE UseOfToken(q, home[HomeOf[u]].token)
    BY <2>1, <2>2, <2>4 DEF AccountInv, UseOfToken, UseShape, HomeShape
  <2>5. UseOfToken(q, home[HomeOf[u]].token)
    BY <2>2, <2>4 DEF UseOfToken
  <2> QED
    BY <1>0, <2>1, <2>2, <2>3, <2>5, UseStep DEF AccountInv, AccountShape
<1>12. ASSUME NEW u \in Uses, Send(u) PROVE AccountInv'
  <2> DEFINE age == clock - home[HomeOf[u]].token
  <2>1. /\ use' = [use EXCEPT ![u] = Over] /\ use[u].at = "send" /\ UNCHANGED <<clock, home, logins>>
        /\ oldest' = IF age > oldest THEN age ELSE oldest
    BY <1>12 DEF Send, Proceed
  <2>2. /\ use[u].since \in Nat /\ home[HomeOf[u]].token \in Nat
        /\ use[u].since < home[HomeOf[u]].token + Life + 2 * CallTime
        /\ clock <= use[u].since + CallTime
    BY <1>0, <2>1 DEF AccountInv, UseInTime, UseOfToken, AccountShape, UseShape, HomeShape
  <2>3. age < Life + 3 * CallTime /\ age \in Int
    BY <1>0, <2>2 DEF AccountShape
  <2>4. oldest' < Life + 3 * CallTime /\ oldest' \in Nat
    BY <1>0, <2>1, <2>3 DEF AccountInv, AccountShape
  <2>5. UseInTime(Over, clock) /\ UseOfToken(Over, home[HomeOf[u]].token)
    BY UseShapes DEF UseInTime, UseOfToken
  <2> QED
    BY <1>0, <2>1, <2>4, <2>5, UseShapes, UseStep DEF AccountInv, AccountShape
<1>13. CASE AccountTick
  <2>1. clock' = clock + 1 /\ clock' \in Nat /\ UNCHANGED <<home, use, logins, oldest>>
        /\ \A u \in Uses : use[u].at \notin {"new", "over"} => clock < use[u].since + CallTime
    BY <1>0, <1>13 DEF AccountTick, AccountShape
  <2>2. ASSUME NEW u \in Uses
        PROVE  UseInTime(use[u], clock)' /\ UseOfToken(use[u], home[HomeOf[u]].token)'
    <3>1. UseInTime(use[u], clock) /\ use[u].since \in Nat
      BY <1>0 DEF AccountInv, AccountShape, UseShape
    <3>2. UseInTime(use[u], clock')
      BY <1>0, <2>1, <3>1 DEF UseInTime, AccountShape
    <3> QED
      BY <2>1, <3>2 DEF AccountInv
  <2>3. ASSUME NEW h \in Homes PROVE HomeInTime(h)'
    BY <1>0, <2>1 DEF AccountInv, HomeInTime, AccountShape, HomeShape
  <2>4. AccountShape'
    BY <1>0, <2>1 DEF AccountShape
  <2> QED
    BY <2>1, <2>2, <2>3, <2>4 DEF AccountInv
<1>14. CASE UNCHANGED accountVars
  BY <1>14 DEF accountVars, AccountInv, AccountShape, HomeInTime
<1> QED
  BY <1>1, <1>2, <1>3, <1>4, <1>5, <1>6, <1>7, <1>8, <1>9, <1>10, <1>11, <1>12, <1>13, <1>14 DEF AccountNext

\* No request carries a token that ended three calls ago, for any number of uses,
\* processes and logins and whatever the life of a token.
THEOREM TokenFreshHolds == AccountSpec => []TokenFresh
<1>1. CASE Life > 0
  <2>1. AccountInv => TokenFresh
    BY DEF AccountInv, TokenFresh
  <2> QED
    BY <1>1, <2>1, AccountInitOK, AccountNextOK, PTL DEF AccountSpec
<1>2. CASE ~(Life > 0)
  <2>1. TokenFresh
    BY <1>2 DEF TokenFresh
  <2> QED
    BY <2>1, PTL
<1> QED
  BY <1>1, <1>2

-----------------------------------------------------------------------------
(***************************************************************************)
(* The daily report.                                                       *)
(***************************************************************************)

Bounds == 0 .. Cardinality(Items)

Amounts == [Counted -> Bounds]

Rights == [Counted -> SUBSET Bounds]

Points == Counted \union {"idle", "truncate", "fill"}

SummaryShape == [at : Points, counts : Amounts, before : SUBSET Items, right : Rights]

Files == [text : {"empty", "whole", "mixed"}, counts : Amounts] \union {NoReport}

\* Each count of a summary, once it is taken, was right at some time since it began, as
\* is what it would count now.
CountsSound(q) ==
    /\ q.at # "idle" => \A c \in Counted : Tally(done, q.before, c) \in q.right[c]
    /\ q.at \notin {"idle", "ideas"} => q.counts["ideas"] \in q.right["ideas"]
    /\ q.at \in {"published", "truncate", "fill"} => q.counts["mockups"] \in q.right["mockups"]
    /\ q.at \in {"truncate", "fill"} => q.counts["published"] \in q.right["published"]

ReportTypes ==
    /\ done \in SUBSET Items /\ aged \in SUBSET Items /\ right \in Rights /\ torn \in BOOLEAN
    /\ report \in Files /\ writer \in [Writers -> SummaryShape]
    /\ reader \in [Readers -> {"answered", "read", "error"}]

\* Unless it was torn, the file is open to one writer at the most and empty as long.
OpenToOne ==
    ~torn => /\ \A v, w \in Writers : HasOpen(v) /\ HasOpen(w) => v = w
             /\ (\E w \in Writers : HasOpen(w)) => report = Empty

ReportInv ==
    /\ ReportTypes
    /\ \A w \in Writers : CountsSound(writer[w])
    /\ OpenToOne
    /\ ReportCurrent

LEMMA TallyBounded ==
    ASSUME NEW rows \in SUBSET Items, NEW before, NEW c PROVE Tally(rows, before, c) \in Bounds
<1>1. {i \in rows \ before : i[1] = c} \in SUBSET Items
  OBVIOUS
<1> QED
  BY <1>1, ReportAssumption, FS_Subset, FS_CardinalityType DEF Tally, Bounds

LEMMA RestingShapes ==
    /\ Waiting \in SummaryShape /\ Waiting.at = "idle" /\ CountsSound(Waiting)
    /\ Empty \in Files /\ Empty.text = "empty" /\ NoReport \in Files
    /\ NoCounts \in Amounts /\ NoneRight \in Rights
<1>1. 0 \in Bounds
  BY ReportAssumption, FS_CardinalityType DEF Bounds
<1>2. NoCounts \in Amounts /\ NoneRight \in Rights
  BY <1>1 DEF NoCounts, NoneRight, Amounts, Rights
<1> QED
  BY <1>2 DEF Waiting, SummaryShape, Points, CountsSound, Empty, Files

LEMMA ReportInitOK == ReportInit => ReportInv
<1> SUFFICES ASSUME ReportInit PROVE ReportInv
  OBVIOUS
<1>1. ReportTypes
  BY RestingShapes DEF ReportInit, ReportTypes
<1>2. \A w \in Writers : writer[w] = Waiting
  BY DEF ReportInit
<1> QED
  BY <1>1, <1>2, RestingShapes DEF ReportInit, ReportInv, OpenToOne, HasOpen, ReportCurrent

\* A writer goes a step on.
LEMMA SummaryStep ==
    ASSUME ReportInv, NEW w \in Writers, NEW q \in SummaryShape, CountsSound(q),
           writer' = [writer EXCEPT ![w] = q], UNCHANGED done
    PROVE  /\ writer' \in [Writers -> SummaryShape]
           /\ \A v \in Writers : CountsSound(writer[v])'
           /\ \A v \in Writers : writer'[v] = IF v = w THEN q ELSE writer[v]
<1>1. /\ writer' \in [Writers -> SummaryShape]
      /\ \A v \in Writers : writer'[v] = IF v = w THEN q ELSE writer[v]
  BY DEF ReportInv, ReportTypes
<1>2. ASSUME NEW v \in Writers PROVE CountsSound(writer[v])'
  BY <1>1 DEF ReportInv, CountsSound, Tally
<1> QED
  BY <1>1, <1>2

\* Nothing was opened, closed or written.
LEMMA FileStays ==
    ASSUME ReportInv, UNCHANGED <<report, right, torn>>,
           \A w \in Writers : HasOpen(w)' <=> HasOpen(w)
    PROVE  OpenToOne' /\ ReportCurrent'
  BY DEF ReportInv, OpenToOne, ReportCurrent

LEMMA BecomesInv == ASSUME ReportInv, NEW rows \in SUBSET Items, Becomes(rows) PROVE ReportInv'
<1> DEFINE known(w) == [c \in Counted |->
                          writer[w].right[c] \union {Tally(rows, writer[w].before, c)}]
           q(w) == IF Writing(w) THEN [writer[w] EXCEPT !.right = known(w)] ELSE writer[w]
<1>1. /\ done' = rows /\ writer' = [w \in Writers |-> q(w)]
      /\ UNCHANGED <<aged, report, reader, right, torn>>
  BY DEF Becomes
<1>2. ASSUME NEW w \in Writers
      PROVE  /\ q(w) \in SummaryShape /\ q(w).at = writer[w].at /\ q(w).counts = writer[w].counts
             /\ q(w).before = writer[w].before
             /\ \A c \in Counted : writer[w].right[c] \in SUBSET q(w).right[c]
             /\ Writing(w) => \A c \in Counted : Tally(rows, writer[w].before, c) \in q(w).right[c]
  <2>1. writer[w] \in SummaryShape
    BY DEF ReportInv, ReportTypes
  <2>2. known(w) \in Rights
    BY <2>1, TallyBounded DEF SummaryShape, Rights
  <2>3. \A c \in Counted : known(w)[c] = writer[w].right[c] \union {Tally(rows, writer[w].before, c)}
    OBVIOUS
  <2> HIDE DEF known
  <2> QED
    BY <2>1, <2>2, <2>3 DEF SummaryShape
<1> HIDE DEF q
<1>3. writer' \in [Writers -> SummaryShape] /\ \A w \in Writers : writer'[w] = q(w)
  BY <1>1, <1>2
<1>4. ASSUME NEW w \in Writers PROVE CountsSound(writer[w])'
  <2>1. CountsSound(writer[w])
    BY DEF ReportInv
  <2>2. "ideas" \in Counted /\ "mockups" \in Counted /\ "published" \in Counted
    BY DEF Counted
  <2>3. Writing(w) <=> writer[w].at # "idle"
    BY DEF Writing
  <2>4. q(w).at # "idle" => \A c \in Counted : Tally(rows, q(w).before, c) \in q(w).right[c]
    BY <1>2, <2>3
  <2>5. /\ q(w).at \notin {"idle", "ideas"} => q(w).counts["ideas"] \in q(w).right["ideas"]
        /\ q(w).at \in {"published", "truncate", "fill"} => q(w).counts["mockups"] \in q(w).right["mockups"]
        /\ q(w).at \in {"truncate", "fill"} => q(w).counts["published"] \in q(w).right["published"]
    BY <1>2, <2>1, <2>2 DEF CountsSound
  <2> QED
    BY <1>1, <1>3, <2>4, <2>5 DEF CountsSound, Tally
<1>5. \A w \in Writers : HasOpen(w)' <=> HasOpen(w)
  BY <1>2, <1>3 DEF HasOpen
<1>6. ReportTypes'
  BY <1>1, <1>3 DEF ReportInv, ReportTypes
<1> QED
  BY <1>1, <1>4, <1>5, <1>6, FileStays DEF ReportInv

LEMMA CountInv ==
    ASSUME ReportInv, NEW w \in Writers, NEW c \in Counted, NEW next, Count(w, c, next),
           next = IF c = "ideas" THEN "mockups" ELSE IF c = "mockups" THEN "published" ELSE "truncate"
    PROVE  ReportInv'
<1> DEFINE n == Tally(done, writer[w].before, c)
           q == [writer[w] EXCEPT !.at = next, !.counts[c] = n]
<1>1. /\ writer[w].at = c /\ writer' = [writer EXCEPT ![w] = q]
      /\ UNCHANGED <<done, aged, report, reader, right, torn>>
  BY DEF Count
<1>2. /\ CountsSound(writer[w]) /\ writer[w] \in SummaryShape /\ n \in Bounds
      /\ n \in writer[w].right[c]
  BY <1>1, TallyBounded DEF ReportInv, ReportTypes, CountsSound, Counted
<1> HIDE DEF n
<1>3. [writer[w].counts EXCEPT ![c] = n] \in Amounts /\ next \in Points
  BY <1>2 DEF SummaryShape, Amounts, Points, Counted
<1>4. /\ q \in SummaryShape /\ q.at = next /\ q.before = writer[w].before /\ q.right = writer[w].right
      /\ \A d \in Counted : q.counts[d] = IF d = c THEN n ELSE writer[w].counts[d]
  BY <1>2, <1>3 DEF SummaryShape, Amounts
<1> HIDE DEF q
<1>5. CountsSound(q)
  BY <1>1, <1>2, <1>4 DEF CountsSound, Counted
<1>6. /\ writer' \in [Writers -> SummaryShape]
      /\ \A v \in Writers : CountsSound(writer[v])'
      /\ \A v \in Writers : writer'[v] = IF v = w THEN q ELSE writer[v]
  BY <1>1, <1>4, <1>5, SummaryStep
<1>7. \A v \in Writers : HasOpen(v)' <=> HasOpen(v)
  BY <1>1, <1>4, <1>6 DEF HasOpen, Counted
<1>8. ReportTypes'
  BY <1>1, <1>6 DEF ReportInv, ReportTypes
<1> QED
  BY <1>1, <1>6, <1>7, <1>8, FileStays DEF ReportInv

LEMMA ReportNextOK == ReportInv /\ [ReportNext]_reportVars => ReportInv'
<1> SUFFICES ASSUME ReportInv, [ReportNext]_reportVars PROVE ReportInv'
  OBVIOUS
<1>0. /\ ReportTypes /\ OpenToOne /\ ReportCurrent
      /\ done \in SUBSET Items /\ aged \in SUBSET Items
      /\ \A w \in Writers : CountsSound(writer[w]) /\ writer[w] \in SummaryShape
  BY DEF ReportInv, ReportTypes
<1>1. ASSUME NEW i \in Items, Add(i) \/ TakeBack(i) PROVE ReportInv'
  <2>1. (done \union {i}) \in SUBSET Items /\ (done \ {i}) \in SUBSET Items
    BY <1>0
  <2> QED
    BY <1>1, <2>1, BecomesInv DEF Add, TakeBack
<1>2. ASSUME NEW i \in Items, Ages(i) PROVE ReportInv'
  <2>1. aged' \in SUBSET Items /\ UNCHANGED <<done, report, writer, reader, right, torn>>
    BY <1>0, <1>2 DEF Ages
  <2> QED
    BY <1>0, <2>1 DEF ReportInv, ReportTypes, CountsSound, Tally, OpenToOne, HasOpen, ReportCurrent
<1>3. ASSUME NEW w \in Writers, BeginSummary(w) PROVE ReportInv'
  <2> DEFINE now == [c \in Counted |-> {Tally(done, aged, c)}]
             q == [at |-> "ideas", counts |-> NoCounts, before |-> aged, right |-> now]
  <2>1. /\ writer' = [writer EXCEPT ![w] = q] /\ UNCHANGED <<done, aged, report, reader, right, torn>>
        /\ writer[w].at = "idle"
    BY <1>3 DEF BeginSummary, Writing
  <2>2. now \in Rights /\ \A c \in Counted : now[c] = {Tally(done, aged, c)}
    BY <1>0, TallyBounded DEF Rights
  <2> HIDE DEF now
  <2>3. q \in SummaryShape /\ q.at = "ideas" /\ CountsSound(q)
    BY <1>0, <2>2, RestingShapes DEF SummaryShape, CountsSound, Points, Counted
  <2> HIDE DEF q
  <2>4. /\ writer' \in [Writers -> SummaryShape]
        /\ \A v \in Writers : CountsSound(writer[v])'
        /\ \A v \in Writers : writer'[v] = IF v = w THEN q ELSE writer[v]
    BY <2>1, <2>3, SummaryStep
  <2>5. \A v \in Writers : HasOpen(v)' <=> HasOpen(v)
    BY <2>1, <2>3, <2>4 DEF HasOpen
  <2>6. ReportTypes'
    BY <1>0, <2>1, <2>4 DEF ReportTypes
  <2> QED
    BY <2>1, <2>4, <2>5, <2>6, FileStays DEF ReportInv
<1>4. ASSUME NEW w \in Writers, CountNext(w) PROVE ReportInv'
  BY <1>4, CountInv DEF CountNext, Counted
<1>5. ASSUME NEW w \in Writers, TruncateReport(w) PROVE ReportInv'
  <2> DEFINE q == [writer[w] EXCEPT !.at = "fill"]
  <2>1. /\ writer[w].at = "truncate" /\ writer' = [writer EXCEPT ![w] = q] /\ report' = Empty
        /\ torn' = (\E v \in Writers : HasOpen(v)) /\ UNCHANGED <<done, aged, reader, right>>
    BY <1>5 DEF TruncateReport
  <2>2. q \in SummaryShape /\ q.at = "fill" /\ CountsSound(q)
    BY <1>0, <2>1 DEF SummaryShape, CountsSound, Points
  <2> HIDE DEF q
  <2>3. /\ writer' \in [Writers -> SummaryShape]
        /\ \A v \in Writers : CountsSound(writer[v])'
        /\ \A v \in Writers : writer'[v] = IF v = w THEN q ELSE writer[v]
    BY <2>1, <2>2, SummaryStep
  <2>4. HasOpen(w)' /\ \A v \in Writers \ {w} : HasOpen(v)' <=> HasOpen(v)
    BY <2>2, <2>3 DEF HasOpen
  <2>5. OpenToOne' /\ ReportCurrent'
    BY <2>1, <2>4, RestingShapes DEF OpenToOne, ReportCurrent
  <2>6. ReportTypes'
    BY <1>0, <2>1, <2>3, RestingShapes DEF ReportTypes
  <2> QED
    BY <2>3, <2>5, <2>6 DEF ReportInv
<1>6. ASSUME NEW w \in Writers, FillReport(w) \/ KillWriter(w) PROVE ReportInv'
  <2>1. writer' = [writer EXCEPT ![w] = Waiting] /\ UNCHANGED <<done, aged, reader>>
    BY <1>6 DEF FillReport, KillWriter
  <2>2. /\ writer' \in [Writers -> SummaryShape]
        /\ \A v \in Writers : CountsSound(writer[v])'
        /\ \A v \in Writers : writer'[v] = IF v = w THEN Waiting ELSE writer[v]
    BY <2>1, RestingShapes, SummaryStep
  <2>3. ~HasOpen(w)' /\ \A v \in Writers \ {w} : HasOpen(v)' <=> HasOpen(v)
    BY <2>2, RestingShapes DEF HasOpen
  <2>4. CASE FillReport(w)
    <3>1. PICK text \in {"whole", "mixed"} :
            /\ report' = [text |-> text, counts |-> writer[w].counts]
            /\ report.text = "empty" => text = "whole"
      BY <2>4 DEF FillReport
    <3>2. HasOpen(w) /\ right' = writer[w].right /\ UNCHANGED torn
      BY <2>4 DEF FillReport
    <3>3. report' \in Files /\ right' \in Rights
      BY <1>0, <3>1, <3>2 DEF SummaryShape, Files
    <3>4. \A c \in Counted : writer[w].counts[c] \in writer[w].right[c]
      BY <1>0, <3>2 DEF CountsSound, HasOpen, Counted
    <3>5. ~torn => report'.text = "whole" /\ \A v \in Writers : ~HasOpen(v)'
      BY <1>0, <2>3, <3>1, <3>2, RestingShapes DEF OpenToOne
    <3>6. OpenToOne'
      BY <3>2, <3>5 DEF OpenToOne
    <3>7. ReportCurrent'
      BY <3>1, <3>2, <3>4, <3>5 DEF ReportCurrent
    <3>8. ReportTypes'
      BY <1>0, <2>1, <2>2, <3>2, <3>3 DEF ReportTypes
    <3> QED
      BY <2>2, <3>6, <3>7, <3>8 DEF ReportInv
  <2>5. CASE KillWriter(w)
    <3>1. torn' = (torn \/ HasOpen(w)) /\ UNCHANGED <<report, right>>
      BY <2>5 DEF KillWriter
    <3>2. ~torn' => ~torn /\ \A v \in Writers : HasOpen(v)' <=> HasOpen(v)
      BY <2>3, <3>1
    <3>3. OpenToOne' /\ ReportCurrent'
      BY <1>0, <3>1, <3>2 DEF OpenToOne, ReportCurrent
    <3>4. ReportTypes'
      BY <1>0, <2>1, <2>2, <3>1 DEF ReportTypes
    <3> QED
      BY <2>2, <3>3, <3>4 DEF ReportInv
  <2> QED
    BY <1>6, <2>4, <2>5
<1>7. ASSUME NEW r \in Readers, AskReport(r) \/ ReadReport(r) PROVE ReportInv'
  <2>1. PICK answer \in {"answered", "read", "error"} : reader' = [reader EXCEPT ![r] = answer]
    BY <1>7 DEF AskReport, ReadReport
  <2>2. UNCHANGED <<done, aged, report, writer, right, torn>>
    BY <1>7 DEF AskReport, ReadReport
  <2>3. ReportTypes'
    BY <1>0, <2>1, <2>2 DEF ReportTypes
  <2> QED
    BY <1>0, <2>2, <2>3 DEF ReportInv, CountsSound, Tally, OpenToOne, HasOpen, ReportCurrent
<1>8. CASE UNCHANGED reportVars
  BY <1>0, <1>8 DEF reportVars, ReportInv, ReportTypes, CountsSound, Tally, OpenToOne, HasOpen, ReportCurrent
<1> QED
  BY <1>1, <1>2, <1>3, <1>4, <1>5, <1>6, <1>7, <1>8 DEF ReportNext

\* Each count of a report that can be read was right at some time of its summary, and a
\* file whose last writer was alone with it can be read, for any number of writers,
\* readers and rows, whatever is taken back, grows old or is killed.
THEOREM ReportCurrentHolds == ReportSpec => []ReportCurrent
<1>1. ReportInv => ReportCurrent
  BY DEF ReportInv
<1> QED
  BY <1>1, ReportInitOK, ReportNextOK, PTL DEF ReportSpec

LEMMA ReportTyped == ReportInv => ReportTypeOK
  BY DEF ReportInv, ReportTypes, ReportTypeOK, Bounds, Amounts, Rights, Points, SummaryShape, Files

-----------------------------------------------------------------------------
(***************************************************************************)
(* Rotation of keys: a run with no other beside it leaves the secret and   *)
(* the keys as they should be.                                             *)
(***************************************************************************)

\* A run that has had no other beside it owns its new key, and has seen every other.
Sole(r) ==
    rotation[r].at # "idle" /\ rotation[r].alone =>
      /\ Rotating = {r}
      /\ rotation[r].at \in {"list", "delete"} => rotation[r].new \in keys
      /\ rotation[r].at = "delete" =>
           /\ rotation[r].new \notin rotation[r].left
           /\ keys \subseteq rotation[r].left \union {rotation[r].new}

KeyShape == [at : {"idle", "create", "list", "delete"}, new : Nat, left : SUBSET Nat,
             attempts : Nat, alone : BOOLEAN]

KeyInv ==
    /\ made \in Nat /\ keys \in SUBSET Nat
    /\ rotation \in [Rotators -> KeyShape]
    /\ \A r \in Rotators : Sole(r)
    /\ SecretBacked

USE KeyAssumption DEF KeyInv, KeyShape

-----------------------------------------------------------------------------

LEMMA NoRotationShape == NoRotation \in KeyShape /\ NoRotation.at = "idle"
  BY DEF NoRotation

LEMMA KeyInitOK == KeyInit => KeyInv
  BY NoRotationShape DEF KeyInit, Sole, SecretBacked, Rotating

\* Whatever one run does, no other one is alone; that it goes on leaves Rotating as
\* it is, and that it ends unsettled leaves nothing to show.
LEMMA StepInv ==
    ASSUME KeyInv, NEW r \in Rotators, r \in Rotating, made' \in Nat, keys' \in SUBSET Nat,
           NEW new \in KeyShape, rotation' = [rotation EXCEPT ![r] = new],
           new.at # "idle" /\ new.alone => rotation[r].alone /\ Sole(r)',
           new.at = "idle" => SecretBacked'
    PROVE  KeyInv'
<1>1. rotation' \in [Rotators -> KeyShape] /\ rotation'[r] = new
  OBVIOUS
<1>2. \A s \in Rotators \ {r} : rotation'[s] = rotation[s] /\ s \in Rotating => ~rotation[s].alone
  BY DEF Sole, Rotating
<1>3. \A s \in Rotators \ {r} : rotation'[s] = rotation[s]
  OBVIOUS
<1>4. \A s \in Rotators \ {r} : Sole(s)'
  BY <1>2, <1>3 DEF Sole, Rotating
<1>5. Sole(r)'
  <2>1. CASE new.at # "idle" /\ new.alone
    BY <2>1
  <2>2. CASE ~(new.at # "idle" /\ new.alone)
    BY <2>2, <1>1 DEF Sole
  <2> QED
    BY <2>1, <2>2
<1>6. SecretBacked'
  <2>1. CASE new.at # "idle"
    BY <2>1, <1>1 DEF SecretBacked, Rotating
  <2> QED
    BY <2>1
<1> QED
  BY <1>1, <1>4, <1>5, <1>6

\* An attempt that fails starts from the beginning; a run that fails is not settled.
LEMMA FailInv ==
    ASSUME KeyInv, NEW r \in Rotators, r \in Rotating, Fail(r),
           made' \in Nat, keys' \in SUBSET Nat
    PROVE  KeyInv'
<1>1. CASE rotation[r].attempts < Attempts
  <2> DEFINE new == [rotation[r] EXCEPT !.at = "create", !.attempts = @ + 1]
  <2>0. rotation[r] \in KeyShape
    OBVIOUS
  <2>a. rotation[r].attempts + 1 \in Nat
    BY <2>0
  <2>b. new \in KeyShape
    BY <2>0, <2>a
  <2>1. new \in KeyShape /\ new.at = "create" /\ (new.alone => rotation[r].alone)
    BY <2>0, <2>b
  <2>2. rotation' = [rotation EXCEPT ![r] = new]
    BY <1>1 DEF Fail
  <2>3. new.alone => Sole(r)'
    BY <2>1, <2>2 DEF Sole, Rotating
  <2> HIDE DEF new
  <2> QED
    BY <2>1, <2>2, <2>3, StepInv
<1>2. CASE ~(rotation[r].attempts < Attempts)
  BY <1>2, StepInv, NoRotationShape DEF Fail, SecretBacked
<1> QED
  BY <1>1, <1>2

LEMMA KeyNextOK == KeyInv /\ [KeyNext]_keyVars => KeyInv'
<1> SUFFICES ASSUME KeyInv, [KeyNext]_keyVars PROVE KeyInv'
  OBVIOUS
<1>1. ASSUME NEW r \in Rotators, StartRotation(r) PROVE KeyInv'
  <2>1. /\ rotation' \in [Rotators -> KeyShape]
        /\ rotation'[r].at = "create" /\ rotation'[r].alone = (Rotating = {})
        /\ \A s \in Rotators \ {r} : ~rotation'[s].alone
        /\ \A s \in Rotators \ {r} : rotation'[s].at = rotation[s].at
    BY <1>1 DEF StartRotation, NoRotation
  <2>2. \A s \in Rotators : Sole(s)'
    BY <2>1 DEF Sole, Rotating
  <2>3. SecretBacked'
    BY <2>1 DEF SecretBacked, Rotating
  <2> QED
    BY <1>1, <2>1, <2>2, <2>3 DEF StartRotation
<1>2. ASSUME NEW r \in Rotators, CallFails(r) PROVE KeyInv'
  BY <1>2, FailInv DEF CallFails
<1>3. ASSUME NEW r \in Rotators, KillRotation(r) PROVE KeyInv'
  BY <1>3, StepInv, NoRotationShape DEF KillRotation, SecretBacked
<1>4. ASSUME NEW r \in Rotators, CreateKey(r) PROVE KeyInv'
  <2>0. r \in Rotating
    BY <1>4 DEF CreateKey, Rotating
  <2>1. CASE Cardinality(keys) < KeyLimit
    <3> DEFINE new == [rotation[r] EXCEPT !.at = "list", !.new = made + 1]
    <3>0. rotation[r] \in KeyShape /\ made + 1 \in Nat
      OBVIOUS
    <3>1. /\ new \in KeyShape /\ new.at = "list" /\ new.new = made + 1
          /\ new.alone => rotation[r].alone
      BY <3>0
    <3>2. rotation' = [rotation EXCEPT ![r] = new]
      BY <1>4, <2>1 DEF CreateKey
    <3>3. made' \in Nat /\ keys' \in SUBSET Nat /\ made + 1 \in keys'
      BY <1>4, <2>1 DEF CreateKey
    <3>4. new.alone => Sole(r)'
      BY <2>0, <3>1, <3>2, <3>3 DEF Sole, Rotating
    <3> HIDE DEF new
    <3> QED
      BY <2>0, <3>1, <3>2, <3>3, <3>4, StepInv
  <2>2. CASE ~(Cardinality(keys) < KeyLimit)
    BY <1>4, <2>0, <2>2, FailInv DEF CreateKey
  <2> QED
    BY <2>1, <2>2
<1>5. ASSUME NEW r \in Rotators, ListKeys(r) PROVE KeyInv'
  <2> DEFINE new == [rotation[r] EXCEPT !.at = "delete", !.left = keys \ {rotation[r].new}]
  <2>0. rotation[r] \in KeyShape
    OBVIOUS
  <2>a. keys \ {rotation[r].new} \in SUBSET Nat
    OBVIOUS
  <2>1. /\ new \in KeyShape /\ new.at = "delete" /\ (new.alone => rotation[r].alone)
        /\ new.new = rotation[r].new /\ new.left = keys \ {rotation[r].new}
    BY <2>0, <2>a
  <2>2. r \in Rotating /\ rotation' = [rotation EXCEPT ![r] = new] /\ UNCHANGED <<keys, made>>
    BY <1>5 DEF ListKeys, Rotating
  <2>3. new.alone => Sole(r)'
    BY <1>5, <2>1, <2>2 DEF ListKeys, Sole, Rotating
  <2> HIDE DEF new
  <2> QED
    BY <2>1, <2>2, <2>3, StepInv
<1>6. ASSUME NEW r \in Rotators, NEW k \in 1 .. MaxKeys, DeleteKey(r, k) PROVE KeyInv'
  <2>0. r \in Rotating /\ made' \in Nat /\ keys' \in SUBSET Nat
    BY <1>6 DEF DeleteKey, Rotating
  <2>1. CASE k \in keys
    <3> DEFINE new == [rotation[r] EXCEPT !.left = @ \ {k}]
    <3>1. /\ new \in KeyShape /\ new.at = rotation[r].at /\ new.alone = rotation[r].alone
          /\ new.new = rotation[r].new /\ new.left = rotation[r].left \ {k}
      OBVIOUS
    <3>2. rotation' = [rotation EXCEPT ![r] = new] /\ keys' = keys \ {k}
      BY <1>6, <2>1 DEF DeleteKey
    <3>3. new.at = "delete" /\ k \in rotation[r].left
      BY <1>6, <3>1 DEF DeleteKey
    <3>4. new.alone => Sole(r)'
      BY <3>1, <3>2, <3>3 DEF Sole, Rotating
    <3> HIDE DEF new
    <3> QED
      BY <2>0, <3>1, <3>2, <3>3, <3>4, StepInv
  <2>2. CASE k \notin keys
    BY <1>6, <2>0, <2>2, FailInv DEF DeleteKey
  <2> QED
    BY <2>1, <2>2
<1>7. ASSUME NEW r \in Rotators, PatchSecret(r) PROVE KeyInv'
  <2>1. r \in Rotating /\ UNCHANGED <<keys, made>> /\ rotation' = [rotation EXCEPT ![r] = NoRotation]
    BY <1>7 DEF PatchSecret, Rotating
  <2>2. SecretBacked'
    <3>1. CASE rotation[r].alone
      <4>1. keys = {rotation[r].new}
        <5>1. Sole(r) /\ rotation[r].at = "delete" /\ rotation[r].left = {}
          BY <1>7 DEF PatchSecret
        <5>2. rotation[r].new \in keys /\ keys \subseteq {} \union {rotation[r].new}
          BY <3>1, <5>1 DEF Sole
        <5> QED
          BY <5>2
      <4>2. secret' = rotation[r].new /\ keys' = keys
        BY <1>7 DEF PatchSecret
      <4> QED
        BY <4>1, <4>2 DEF SecretBacked
    <3>2. CASE ~rotation[r].alone
      BY <1>7, <3>2 DEF PatchSecret, SecretBacked
    <3> QED
      BY <3>1, <3>2
  <2> QED
    BY <2>1, <2>2, StepInv, NoRotationShape
<1>8. CASE UNCHANGED keyVars
  BY <1>8 DEF keyVars, Sole, SecretBacked, Rotating
<1> QED
  BY <1>1, <1>2, <1>3, <1>4, <1>5, <1>6, <1>7, <1>8 DEF KeyNext

\* A run that had no other beside it and succeeded leaves the key of the secret as the
\* only one, for any number of runs, attempts and keys, and whatever earlier runs left.
THEOREM SecretBackedHolds == KeySpec => []SecretBacked
<1>1. KeySpec => []KeyInv
  BY KeyInitOK, KeyNextOK, PTL DEF KeySpec
<1>2. KeyInv => SecretBacked
  OBVIOUS
<1> QED
  BY <1>1, <1>2, PTL

-----------------------------------------------------------------------------
(***************************************************************************)
(* The types of all that.                                                  *)
(***************************************************************************)

HIDE KeyAssumption DEF KeyInv, KeyShape

LEMMA SpotTyped == SpotInv => SpotTypeOK
  BY DEF SpotInv, SpotTypeOK, SpotStates, RunShape

LEMMA StepsTyped == StepsInv => StepsTypeOK
<1> SUFFICES ASSUME StepsInv PROVE StepsTypeOK
  OBVIOUS
<1>1. CallTries * OpRuns \in Nat
  BY StepsAssumption
<1>2. ingested \in 0 .. CallTries * OpRuns
  BY <1>1 DEF StepsInv
<1> QED
  BY <1>2 DEF StepsInv, StepsTypeOK, ScoreShape

\* The changes of the file that so many saves can have made.
Changes == IF file.rules = 0 THEN 2 * saves ELSE 2 * saves - 1

\* A file that was emptied is going to be saved once more.
RulesBounds ==
    /\ saves >= 1 /\ saves <= MaxSaves /\ (file.rules = 0 => saves < MaxSaves)
    /\ file.mtime >= 1 /\ file.mtime <= Changes /\ events <= Changes
    /\ cache.mtime >= 1
    /\ observer.mtime <= file.mtime /\ observer.rules <= saves
    /\ observer.at = "read" => observer.mtime >= 1
    /\ \A p \in Publishes : publish[p].asked <= saves /\ publish[p].made <= saves

LEMMA RulesNumbers ==
    ASSUME RulesInv
    PROVE  /\ saves \in Nat /\ file.rules \in Nat /\ file.mtime \in Nat /\ events \in Nat
           /\ cache.rules \in Nat /\ cache.mtime \in Nat /\ registry \in Nat
           /\ observer.mtime \in Nat /\ observer.rules \in Nat /\ MaxSaves \in Nat
           /\ \A p \in Publishes : publish[p].asked \in Nat /\ publish[p].made \in Nat
  BY RulesAssumption DEF RulesInv, RulesShape, ThreadShape, PublishShape

LEMMA RulesBoundsInit == RulesInit => RulesBounds
<1> SUFFICES ASSUME RulesInit PROVE RulesBounds
  OBVIOUS
<1>1. /\ file.rules = 1 /\ file.mtime = 1 /\ saves = 1 /\ cache.mtime = 1 /\ events = 0
      /\ observer.at = "idle" /\ observer.mtime = 0 /\ observer.rules = 0
  BY DEF RulesInit, Idling
<1>2. \A p \in Publishes : publish[p].asked = 0 /\ publish[p].made = 0
  BY DEF RulesInit, Unasked
<1> QED
  BY <1>1, <1>2, RulesAssumption DEF RulesBounds, Changes

LEMMA ChangedBounds ==
    ASSUME RulesInv, RulesBounds, NEW rules, NEW kind, Changed(rules, kind), saves' \in Nat,
           saves' >= saves, saves' <= MaxSaves, rules = 0 => saves' < MaxSaves,
           Changes + 1 <= (IF rules = 0 THEN 2 * saves' ELSE 2 * saves' - 1)
    PROVE  RulesBounds'
<1>1. PICK later \in {0, 1} :
         file' = [rules |-> rules, kind |-> kind, mtime |-> file.mtime + later]
  BY DEF Changed
<1>2. events' = events + 1 /\ UNCHANGED <<cache, registry, observer, publish>>
  BY DEF Changed
<1>3. file'.rules = rules /\ file'.mtime = file.mtime + later
  BY <1>1
<1>4. Changes' = (IF rules = 0 THEN 2 * saves' ELSE 2 * saves' - 1)
  BY <1>3 DEF Changes
<1>5. Changes \in Int /\ Changes + 1 <= Changes' /\ Changes' \in Int
  BY <1>4, RulesNumbers DEF Changes
<1>6. file'.mtime >= 1 /\ file'.mtime <= Changes' /\ events' <= Changes'
      /\ observer'.mtime <= file'.mtime
  BY <1>2, <1>3, <1>5, RulesNumbers DEF RulesBounds
<1>7. /\ observer'.rules <= saves'
      /\ \A p \in Publishes : publish'[p].asked <= saves' /\ publish'[p].made <= saves'
  BY <1>2, RulesNumbers DEF RulesBounds
<1> QED
  BY <1>2, <1>3, <1>6, <1>7, RulesNumbers DEF RulesBounds

LEMMA RulesBoundsOK == RulesInv /\ RulesBounds /\ [RulesNext]_rulesVars => RulesBounds'
<1> SUFFICES ASSUME RulesInv, RulesBounds, [RulesNext]_rulesVars PROVE RulesBounds'
  OBVIOUS
<1>0. /\ saves \in Nat /\ file.rules \in Nat /\ file.mtime \in Nat /\ events \in Nat
      /\ cache.rules \in Nat /\ cache.mtime \in Nat /\ registry \in Nat
      /\ observer.mtime \in Nat /\ observer.rules \in Nat /\ MaxSaves \in Nat
  BY RulesNumbers
<1>o. /\ registry <= saves /\ cache.rules <= saves /\ file.rules <= saves
      /\ cache.mtime <= file.mtime
  BY <1>0 DEF RulesInv, RulesOrdered, ThreadKnows
<1>1. CASE Truncate
  <2>1. saves < MaxSaves /\ file.rules # 0 /\ Changed(0, "good") /\ saves' = saves
    BY <1>1 DEF Truncate
  <2>2. Changes + 1 <= 2 * saves'
    BY <1>0, <2>1 DEF Changes
  <2> QED
    BY <1>0, <2>1, <2>2, ChangedBounds
<1>2. ASSUME NEW kind \in Kinds, Save(kind) PROVE RulesBounds'
  <2>1. file.rules = 0 /\ saves' = saves + 1 /\ Changed(saves + 1, kind)
    BY <1>2 DEF Save
  <2>2. saves < MaxSaves
    BY <2>1 DEF RulesBounds
  <2>3. Changes + 1 <= 2 * saves' - 1 /\ saves + 1 # 0
    BY <1>0, <2>1 DEF Changes
  <2> QED
    BY <1>0, <2>1, <2>2, <2>3, ChangedBounds
<1>3. CASE Stat
  <2>1. /\ observer'.at = "read" /\ observer'.mtime = file.mtime /\ observer'.rules = 0
        /\ events' = events - 1 /\ UNCHANGED <<file, saves, cache, registry, publish, twice>>
    BY <1>3 DEF Stat, Idling
  <2>2. Changes' = Changes /\ Changes \in Int
    BY <1>0, <2>1 DEF Changes
  <2> QED
    BY <1>0, <2>1, <2>2 DEF RulesBounds
<1>4. CASE Load
  <2>1. /\ observer.at = "read" /\ UNCHANGED <<file, saves, registry, events, publish, twice>>
        /\ observer.mtime >= 1
    BY <1>4 DEF Load, RulesBounds
  <2>2. Changes' = Changes
    BY <2>1 DEF Changes
  <2>3. observer \in ThreadShape
    BY DEF RulesInv, RulesShape
  <2>4. /\ observer'.at # "read" /\ observer'.mtime \in {0, observer.mtime}
        /\ observer'.rules \in {0, cache.rules, file.rules}
    BY <1>4, <2>3 DEF Load, Loaded, Ended, Idling, ThreadShape
  <2>5. cache'.mtime \in {cache.mtime, observer.mtime}
    BY <1>4 DEF Load
  <2>6. cache'.mtime >= 1 /\ observer'.mtime <= file.mtime /\ observer'.rules <= saves
    BY <1>0, <1>o, <2>1, <2>4, <2>5 DEF RulesBounds
  <2> QED
    BY <2>1, <2>2, <2>4, <2>6 DEF RulesBounds
<1>5. CASE Build
  <2>1. UNCHANGED <<file, saves, cache, events, publish, twice>>
        /\ observer'.at # "read" /\ observer'.mtime = 0 /\ observer'.rules = 0
    BY <1>5 DEF Build, Ended, Idling
  <2>2. Changes' = Changes
    BY <2>1 DEF Changes
  <2> QED
    BY <1>0, <2>1, <2>2 DEF RulesBounds
<1>6. ASSUME NEW p \in Publishes, AskPublish(p) \/ CheckAgain(p) PROVE RulesBounds'
  <2>1. PICK new : Checked(p, new) /\
            \/ new = [publish[p] EXCEPT !.at = "asked", !.asked = registry]
            \/ new = [publish[p] EXCEPT !.at = "refused"]
            \/ new = [publish[p] EXCEPT !.at = "published", !.made = registry]
            \/ new = [publish[p] EXCEPT !.at = "stuck"]
    BY <1>6 DEF AskPublish, CheckAgain
  <2>2. publish[p] \in PublishShape /\ publish \in [Publishes -> PublishShape]
    BY DEF RulesInv, RulesShape
  <2>3. new.asked \in {publish[p].asked, registry} /\ new.made \in {publish[p].made, registry}
    BY <2>1, <2>2 DEF PublishShape
  <2>4. publish' = [publish EXCEPT ![p] = new]
        /\ UNCHANGED <<file, saves, cache, registry, observer, events, twice>>
    BY <2>1 DEF Checked
  <2>5. new.asked <= saves /\ new.made <= saves
    BY <1>o, <2>3 DEF RulesBounds
  <2>6. \A q \in Publishes : publish'[q].asked <= saves /\ publish'[q].made <= saves
    BY <2>2, <2>4, <2>5 DEF RulesBounds
  <2>7. Changes' = Changes
    BY <2>4 DEF Changes
  <2> QED
    BY <2>4, <2>6, <2>7 DEF RulesBounds
<1>7. CASE UNCHANGED rulesVars
  BY <1>7 DEF rulesVars, RulesBounds, Changes
<1> QED
  BY <1>1, <1>2, <1>3, <1>4, <1>5, <1>6, <1>7 DEF RulesNext

LEMMA RulesTyped == RulesInv /\ RulesBounds => RulesTypeOK
<1> SUFFICES ASSUME RulesInv, RulesBounds PROVE RulesTypeOK
  OBVIOUS
<1>1. /\ file \in [rules : Nat, kind : Kinds, mtime : Nat] /\ cache \in [rules : Nat, mtime : Nat]
      /\ observer \in ThreadShape /\ publish \in [Publishes -> PublishShape] /\ twice \in BOOLEAN
  BY DEF RulesInv, RulesShape
<1>2. /\ registry <= saves /\ cache.rules <= saves /\ file.rules <= saves
      /\ cache.mtime <= file.mtime
  BY RulesNumbers DEF RulesInv, RulesOrdered, ThreadKnows
<1>3. Changes \in Int /\ Changes <= 2 * MaxSaves
  BY RulesNumbers DEF Changes, RulesBounds
<1>4. /\ saves \in 1 .. MaxSaves /\ registry \in 0 .. MaxSaves /\ events \in 0 .. 2 * MaxSaves
      /\ file.rules \in 0 .. MaxSaves /\ cache.rules \in 0 .. MaxSaves
      /\ observer.rules \in 0 .. MaxSaves
  BY <1>2, <1>3, RulesNumbers DEF RulesBounds
<1>5. /\ file.mtime \in 1 .. 2 * MaxSaves /\ cache.mtime \in 1 .. 2 * MaxSaves
      /\ observer.mtime \in 0 .. 2 * MaxSaves
  BY <1>2, <1>3, RulesNumbers DEF RulesBounds
<1>6. \A p \in Publishes : publish[p].asked \in 0 .. MaxSaves /\ publish[p].made \in 0 .. MaxSaves
  BY RulesNumbers DEF RulesBounds
<1>7. publish \in [Publishes -> [at : {"new", "asked", "refused", "published", "stuck"},
                                 asked : 0 .. MaxSaves, made : 0 .. MaxSaves]]
  BY <1>1, <1>6 DEF PublishShape
<1>8. observer \in [at : {"idle", "read", "build", "ended"}, mtime : 0 .. 2 * MaxSaves,
                    rules : 0 .. MaxSaves, kind : Kinds]
  BY <1>1, <1>4, <1>5 DEF ThreadShape
<1> QED
  BY <1>1, <1>4, <1>5, <1>7, <1>8 DEF RulesTypeOK

\* What a client keeps and a use carries, of the clock's time.
Clock == 0 .. MaxClock

Times == Clock \union {None}

Ends == 0 .. MaxClock + Life \union {None}

States == 0 .. Cardinality(Uses) \union {None}

Grants == [token : Times, expiry : Ends]

ClientShape == [up : {"down", "up", "failed"}, token : Times, expiry : Ends, state : States]

StepNames == {"new", "ask", "granted", "kept", "find", "upsert", "send", "over"}

UseKinds == {"none", "call", "login"}

CallShape == [kind : UseKinds, since : Clock, token : Times,
              known : BOOLEAN, at : StepNames]

\* A use that was granted a token has it, and one that is past the keeping of a token
\* finds its client with one.
HasToken(q, token) ==
    /\ q.at = "granted" => q.token # None
    /\ q.at \in {"kept", "find", "upsert", "send"} => token # None

AccountTypes ==
    /\ clock \in 0 .. MaxClock /\ logins \in 0 .. Cardinality(Uses) /\ oldest \in 0 .. MaxClock
    /\ home \in [Homes -> ClientShape] /\ use \in [Uses -> CallShape]
    /\ row = {} \/ \E x \in Grants : row = {x}
    /\ \A u \in Uses : HasToken(use[u], home[HomeOf[u]].token)

LEMMA UsesCounted == Cardinality(Uses) \in Nat /\ MaxClock \in Nat /\ Life \in Nat /\ None \notin Nat
                     /\ HomeOf \in [Uses -> Homes]
  BY AccountAssumption, FS_CardinalityType

LEMMA NoneShapes ==
    /\ None \in Times /\ None \in Ends /\ None \in States
    /\ 0 \in 0 .. MaxClock /\ 0 \in 0 .. Cardinality(Uses)
    /\ \A t \in 0 .. MaxClock : t \in Times /\ t # None
    /\ \A t \in 0 .. MaxClock : t + Life \in Ends
    /\ \A n \in 0 .. Cardinality(Uses) : n \in States
  BY UsesCounted DEF Times, Ends, States, Clock

LEMMA CallShapes ==
    /\ Untouched \in CallShape /\ Untouched.at = "new"
    /\ Over \in CallShape /\ Over.at = "over"
    /\ Fresh \in ClientShape
<1>1. None \in Times /\ None \in Ends /\ None \in States /\ 0 \in Clock
  BY NoneShapes DEF Clock
<1>2. Untouched \in CallShape
  BY <1>1 DEF Untouched, CallShape, StepNames, UseKinds
<1>3. Over \in CallShape
  BY <1>1 DEF Untouched, Over, CallShape, StepNames, UseKinds
<1>4. Untouched.at = "new" /\ Over.at = "over"
  BY DEF Untouched, Over
<1>5. Fresh \in ClientShape
  BY <1>1 DEF Fresh, ClientShape
<1> QED
  BY <1>2, <1>3, <1>4, <1>5

LEMMA AccountTypesInit == AccountInit => AccountTypes
<1> SUFFICES ASSUME AccountInit PROVE AccountTypes
  OBVIOUS
<1>1. use \in [Uses -> CallShape] /\ home \in [Homes -> ClientShape]
  BY CallShapes DEF AccountInit
<1>2. \A u \in Uses : HasToken(use[u], home[HomeOf[u]].token)
  BY CallShapes DEF AccountInit, HasToken
<1>3. clock = 0 /\ logins = 0 /\ oldest = 0 /\ row = {}
  BY DEF AccountInit
<1> QED
  BY <1>1, <1>2, <1>3, NoneShapes DEF AccountTypes

\* A use goes on to what has its type.
LEMMA CallMoves ==
    ASSUME AccountTypes, NEW u \in Uses, NEW q \in CallShape, use' = [use EXCEPT ![u] = q],
           home' \in [Homes -> ClientShape],
           \A h \in Homes : home[h].token # None => home'[h].token # None,
           HasToken(q, home'[HomeOf[u]].token)
    PROVE  use' \in [Uses -> CallShape] /\ (\A v \in Uses : HasToken(use[v], home[HomeOf[v]].token))'
<1>1. use' \in [Uses -> CallShape] /\ \A v \in Uses : use'[v] = IF v = u THEN q ELSE use[v]
  BY DEF AccountTypes
<1>2. ASSUME NEW v \in Uses PROVE HasToken(use'[v], home'[HomeOf[v]].token)
  <2>1. HasToken(use[v], home[HomeOf[v]].token) /\ HomeOf[v] \in Homes
    BY UsesCounted DEF AccountTypes
  <2> QED
    BY <1>1, <2>1 DEF HasToken
<1> QED
  BY <1>1, <1>2

\* The same, when the client stays as it is.
LEMMA CallMovesAlone ==
    ASSUME AccountTypes, NEW u \in Uses, NEW q \in CallShape, use' = [use EXCEPT ![u] = q],
           UNCHANGED home, HasToken(q, home[HomeOf[u]].token),
           clock' \in 0 .. MaxClock, logins' \in 0 .. Cardinality(Uses), oldest' \in 0 .. MaxClock,
           row' = {} \/ \E x \in Grants : row' = {x}
    PROVE  AccountTypes'
<1>1. home' \in [Homes -> ClientShape]
  BY DEF AccountTypes
<1>2. use' \in [Uses -> CallShape] /\ (\A v \in Uses : HasToken(use[v], home[HomeOf[v]].token))'
  BY <1>1, CallMoves
<1> QED
  BY <1>1, <1>2 DEF AccountTypes

\* How a use is changed.
LEMMA CallAt ==
    ASSUME NEW q \in CallShape, NEW at \in StepNames
    PROVE  [q EXCEPT !.at = at] \in CallShape /\ [q EXCEPT !.at = at].at = at
  BY DEF CallShape

LEMMA CallKnown ==
    ASSUME NEW q \in CallShape, NEW at \in StepNames, NEW b \in BOOLEAN
    PROVE  /\ [q EXCEPT !.at = at, !.known = b] \in CallShape
           /\ [q EXCEPT !.at = at, !.known = b].at = at
  BY DEF CallShape

LEMMA StepIsOne ==
    /\ "ask" \in StepNames /\ "granted" \in StepNames /\ "kept" \in StepNames
    /\ "find" \in StepNames /\ "upsert" \in StepNames /\ "send" \in StepNames
    /\ "call" \in UseKinds /\ "login" \in UseKinds
  BY DEF StepNames, UseKinds

LEMMA AccountTypesOK == AccountTypes /\ [AccountNext]_accountVars => AccountTypes'
<1> SUFFICES ASSUME AccountTypes, [AccountNext]_accountVars PROVE AccountTypes'
  OBVIOUS
<1> DEFINE Logins == 0 .. Cardinality(Uses)
           RowOK(r) == r = {} \/ \E x \in Grants : r = {x}
<1>0. /\ clock \in Clock /\ logins \in Logins /\ oldest \in Clock
      /\ home \in [Homes -> ClientShape] /\ use \in [Uses -> CallShape]
      /\ RowOK(row)
      /\ \A u \in Uses : HasToken(use[u], home[HomeOf[u]].token)
  BY DEF AccountTypes, Clock
<1>h. \A u \in Uses : HomeOf[u] \in Homes
  BY UsesCounted
<1>k. ASSUME clock' \in Clock, logins' \in Logins, oldest' \in Clock, home' \in [Homes -> ClientShape],
             use' \in [Uses -> CallShape], RowOK(row'),
             \A u \in Uses : HasToken(use'[u], home'[HomeOf[u]].token)
      PROVE  AccountTypes'
  BY <1>k DEF AccountTypes, Clock
<1>m. ASSUME NEW u \in Uses, NEW q \in CallShape, use' = [use EXCEPT ![u] = q],
             UNCHANGED home, HasToken(q, home[HomeOf[u]].token),
             clock' \in Clock, logins' \in Logins, oldest' \in Clock, RowOK(row')
      PROVE  AccountTypes'
  BY <1>m, CallMovesAlone DEF Clock
<1> HIDE DEF Logins, RowOK
<1>1. ASSUME NEW h \in Homes, StartHome(h) PROVE AccountTypes'
  <2> DEFINE c == [home[h] EXCEPT !.up = IF row = {} THEN "up" ELSE "failed"]
  <2>1. home' = [home EXCEPT ![h] = c] /\ UNCHANGED <<clock, row, use, logins, oldest>>
    BY <1>1 DEF StartHome
  <2>2. c \in ClientShape /\ c.token = home[h].token
    BY <1>0 DEF ClientShape
  <2> HIDE DEF c
  <2>3. home' \in [Homes -> ClientShape] /\ \A g \in Homes : home'[g].token = home[g].token
    BY <1>0, <2>1, <2>2
  <2>4. \A u \in Uses : HasToken(use'[u], home'[HomeOf[u]].token)
    BY <1>0, <1>h, <2>1, <2>3
  <2> QED
    BY <1>0, <1>k, <2>1, <2>3, <2>4
<1>2. ASSUME NEW h \in Homes, StopHome(h) PROVE AccountTypes'
  <2>1. /\ home' = [home EXCEPT ![h] = Fresh] /\ UNCHANGED <<clock, row, logins, oldest>>
        /\ use' = [u \in Uses |-> IF HomeOf[u] = h /\ use[u].at # "new" THEN Over ELSE use[u]]
    BY <1>2 DEF StopHome
  <2>2. use' \in [Uses -> CallShape] /\ home' \in [Homes -> ClientShape]
    BY <1>0, <2>1, CallShapes
  <2>3. ASSUME NEW u \in Uses PROVE HasToken(use'[u], home'[HomeOf[u]].token)
    <3>1. CASE HomeOf[u] = h /\ use[u].at # "new"
      BY <2>1, <3>1, CallShapes DEF HasToken
    <3>2. CASE use[u].at = "new"
      BY <2>1, <3>2 DEF HasToken
    <3>3. CASE HomeOf[u] # h
      BY <1>0, <1>h, <2>1, <3>3
    <3> QED
      BY <3>1, <3>2, <3>3
  <2> QED
    BY <1>0, <1>k, <2>1, <2>2, <2>3
<1>3. ASSUME NEW h \in Homes, Login(h) PROVE AccountTypes'
  <2> DEFINE c == [home[h] EXCEPT !.state = logins + 1]
  <2>1. home' = [home EXCEPT ![h] = c] /\ UNCHANGED <<clock, row, use, oldest>>
        /\ logins < Cardinality(Uses) /\ logins' = logins + 1
    BY <1>3 DEF Login
  <2>2. logins + 1 \in Logins
    BY <1>0, <2>1, UsesCounted DEF Logins
  <2>3. logins + 1 \in States
    BY <2>2, NoneShapes DEF Logins
  <2>4. c \in ClientShape /\ c.token = home[h].token
    BY <1>0, <2>3 DEF ClientShape
  <2> HIDE DEF c
  <2>5. home' \in [Homes -> ClientShape] /\ \A g \in Homes : home'[g].token = home[g].token
    BY <1>0, <2>1, <2>4
  <2>6. \A u \in Uses : HasToken(use'[u], home'[HomeOf[u]].token)
    BY <1>0, <1>h, <2>1, <2>5
  <2> QED
    BY <1>0, <1>k, <2>1, <2>2, <2>5, <2>6
<1>4. ASSUME NEW u \in Uses, GetToken(u) PROVE AccountTypes'
  <2> DEFINE c == home[HomeOf[u]]
             at == IF c.token = None \/ (c.expiry # None /\ c.expiry <= clock) THEN "ask" ELSE "send"
             q == [use[u] EXCEPT !.kind = "call", !.since = clock, !.at = at]
  <2>1. use' = [use EXCEPT ![u] = q] /\ UNCHANGED <<clock, home, row, logins, oldest>>
    BY <1>4 DEF GetToken
  <2>2. at \in {"ask", "send"} /\ (at = "send" => c.token # None)
    OBVIOUS
  <2> HIDE DEF at
  <2>3. q \in CallShape /\ q.at = at
    <3>1. at \in StepNames /\ use[u] \in CallShape /\ clock \in Clock
      BY <1>0, <2>2, StepIsOne
    <3> QED
      BY <2>2, <3>1, StepIsOne DEF CallShape
  <2> HIDE DEF q
  <2>4. HasToken(q, c.token)
    BY <2>2, <2>3 DEF HasToken
  <2> QED
    BY <1>0, <1>m, <2>1, <2>3, <2>4
<1>5. ASSUME NEW u \in Uses, NEW n \in 1 .. Cardinality(Uses), Callback(u, n) PROVE AccountTypes'
  <2>1. PICK q : /\ use' = [use EXCEPT ![u] = q]
                 /\ q = Over \/ q = [use[u] EXCEPT !.kind = "login", !.since = clock, !.at = "ask"]
                 /\ UNCHANGED <<clock, home, row, logins, oldest>>
    BY <1>5 DEF Callback
  <2>2. q \in CallShape /\ q.at \in {"over", "ask"}
    <3>1. use[u] \in CallShape /\ clock \in Clock
      BY <1>0
    <3> QED
      BY <2>1, <3>1, StepIsOne, CallShapes DEF CallShape
  <2>3. HasToken(q, home[HomeOf[u]].token)
    BY <2>2 DEF HasToken
  <2> QED
    BY <1>0, <1>m, <2>1, <2>2, <2>3
<1>6. ASSUME NEW u \in Uses, Grant(u) PROVE AccountTypes'
  <2> DEFINE q == [use[u] EXCEPT !.at = "granted", !.token = clock, !.since = clock]
  <2>1. use' = [use EXCEPT ![u] = q] /\ UNCHANGED <<clock, home, row, logins, oldest>>
    BY <1>6 DEF Grant
  <2>2. clock \in Times /\ clock # None
    BY <1>0, NoneShapes DEF Clock
  <2>3. q \in CallShape /\ q.at = "granted" /\ q.token = clock
    <3>1. use[u] \in CallShape /\ clock \in Clock
      BY <1>0
    <3> QED
      BY <2>2, <3>1, StepIsOne DEF CallShape
  <2> HIDE DEF q
  <2>4. HasToken(q, home[HomeOf[u]].token)
    BY <2>2, <2>3 DEF HasToken
  <2> QED
    BY <1>0, <1>m, <2>1, <2>3, <2>4
<1>7. ASSUME NEW u \in Uses, Refuse(u) PROVE AccountTypes'
  <2>1. use' = [use EXCEPT ![u] = Over] /\ UNCHANGED <<clock, home, row, logins, oldest>>
    BY <1>7 DEF Refuse, Proceed
  <2>2. Over \in CallShape /\ HasToken(Over, home[HomeOf[u]].token)
    BY CallShapes DEF HasToken
  <2> QED
    BY <1>0, <1>m, <2>1, <2>2
<1>8. ASSUME NEW u \in Uses, KeepToken(u) PROVE AccountTypes'
  <2> DEFINE q == [use[u] EXCEPT !.at = "kept"]
             c == [home[HomeOf[u]] EXCEPT !.token = use[u].token]
  <2>1. use' = [use EXCEPT ![u] = q] /\ home' = [home EXCEPT ![HomeOf[u]] = c]
        /\ UNCHANGED <<clock, row, logins, oldest>> /\ use[u].at = "granted"
    BY <1>8 DEF KeepToken, Proceed
  <2>2. use[u] \in CallShape /\ use[u].token \in Times /\ use[u].token # None
    BY <1>0, <2>1 DEF CallShape, HasToken
  <2>3. q \in CallShape /\ q.at = "kept"
    BY <2>2, StepIsOne, CallAt
  <2>4. c \in ClientShape /\ c.token = use[u].token
    BY <1>0, <1>h, <2>2 DEF ClientShape
  <2> HIDE DEF q, c
  <2>5. home' \in [Homes -> ClientShape] /\ home'[HomeOf[u]] = c
        /\ \A g \in Homes : home[g].token # None => home'[g].token # None
    BY <1>0, <1>h, <2>1, <2>2, <2>4
  <2>6. HasToken(q, home'[HomeOf[u]].token)
    BY <2>2, <2>3, <2>4, <2>5 DEF HasToken
  <2>7. use' \in [Uses -> CallShape] /\ (\A v \in Uses : HasToken(use[v], home[HomeOf[v]].token))'
    BY <2>1, <2>3, <2>5, <2>6, CallMoves
  <2> QED
    BY <1>0, <1>k, <2>1, <2>5, <2>7
<1>9. ASSUME NEW u \in Uses, KeepExpiry(u) PROVE AccountTypes'
  <2> DEFINE q == [use[u] EXCEPT !.at = "find"]
             expiry == IF Life = 0 THEN None ELSE clock + Life
             c == [home[HomeOf[u]] EXCEPT !.expiry = expiry]
  <2>1. use' = [use EXCEPT ![u] = q] /\ home' = [home EXCEPT ![HomeOf[u]] = c]
        /\ UNCHANGED <<clock, row, logins, oldest>> /\ use[u].at = "kept"
    BY <1>9 DEF KeepExpiry, Proceed
  <2>2. expiry \in Ends
    BY <1>0, NoneShapes DEF Clock
  <2> HIDE DEF expiry
  <2>3. q \in CallShape /\ q.at = "find"
    <3>1. use[u] \in CallShape
      BY <1>0
    <3> QED
      BY <3>1, StepIsOne, CallAt
  <2>4. c \in ClientShape /\ c.token = home[HomeOf[u]].token
    BY <1>0, <1>h, <2>2 DEF ClientShape
  <2>5. home[HomeOf[u]].token # None
    BY <1>0, <2>1 DEF HasToken
  <2> HIDE DEF q, c
  <2>6. home' \in [Homes -> ClientShape] /\ home'[HomeOf[u]] = c
        /\ \A g \in Homes : home[g].token # None => home'[g].token # None
    BY <1>0, <1>h, <2>1, <2>4
  <2>7. HasToken(q, home'[HomeOf[u]].token)
    BY <2>3, <2>4, <2>5, <2>6 DEF HasToken
  <2>8. use' \in [Uses -> CallShape] /\ (\A v \in Uses : HasToken(use[v], home[HomeOf[v]].token))'
    BY <2>1, <2>3, <2>6, <2>7, CallMoves
  <2> QED
    BY <1>0, <1>k, <2>1, <2>6, <2>8
<1>10. ASSUME NEW u \in Uses, FindToken(u) PROVE AccountTypes'
  <2> DEFINE found == row # {}
             q == [use[u] EXCEPT !.at = "upsert", !.known = found]
  <2>1. use' = [use EXCEPT ![u] = q] /\ UNCHANGED <<clock, home, row, logins, oldest>>
        /\ use[u].at = "find"
    BY <1>10 DEF FindToken
  <2>2. found \in BOOLEAN
    OBVIOUS
  <2> HIDE DEF found
  <2>3. q \in CallShape /\ q.at = "upsert"
    <3>1. use[u] \in CallShape
      BY <1>0
    <3> QED
      BY <2>2, <3>1, StepIsOne, CallKnown
  <2> HIDE DEF q
  <2>4. HasToken(q, home[HomeOf[u]].token)
    BY <1>0, <2>1, <2>3 DEF HasToken
  <2> QED
    BY <1>0, <1>m, <2>1, <2>3, <2>4
<1>11. ASSUME NEW u \in Uses, Upsert(u) PROVE AccountTypes'
  <2> DEFINE c == home[HomeOf[u]]
             x == [token |-> c.token, expiry |-> c.expiry]
  <2>1. /\ use[u].at = "upsert" /\ UNCHANGED <<clock, home, logins, oldest>>
        /\ row' = row \/ row' = {x}
        /\ use' = [use EXCEPT ![u] = Over] \/ use' = [use EXCEPT ![u] = [use[u] EXCEPT !.at = "send"]]
    BY <1>11 DEF Upsert, Proceed
  <2>2. c \in ClientShape
    BY <1>0, <1>h
  <2>3. x \in Grants
    BY <2>2 DEF ClientShape, Grants
  <2>4. RowOK(row')
    BY <1>0, <2>1, <2>3 DEF RowOK
  <2> HIDE DEF x, c
  <2>5. PICK q : /\ use' = [use EXCEPT ![u] = q]
                 /\ q = Over \/ q = [use[u] EXCEPT !.at = "send"]
    BY <2>1
  <2>6. q \in CallShape /\ q.at \in {"over", "send"}
    <3>1. use[u] \in CallShape
      BY <1>0
    <3>2. LET s == [use[u] EXCEPT !.at = "send"] IN s \in CallShape /\ s.at = "send"
      BY <3>1, StepIsOne DEF CallShape
    <3> QED
      BY <2>5, <3>2, CallShapes
  <2>7. HasToken(q, home[HomeOf[u]].token)
    BY <1>0, <2>1, <2>6 DEF HasToken
  <2> QED
    BY <1>0, <1>m, <2>1, <2>4, <2>5, <2>6, <2>7
<1>12. ASSUME NEW u \in Uses, Send(u) PROVE AccountTypes'
  <2> DEFINE token == home[HomeOf[u]].token
             age == clock - token
  <2>1. /\ use[u].at = "send" /\ use' = [use EXCEPT ![u] = Over]
        /\ UNCHANGED <<clock, home, row, logins>>
        /\ oldest' = IF age > oldest THEN age ELSE oldest
    BY <1>12 DEF Send, Proceed
  <2>2. token \in 0 .. MaxClock
    <3>1. home[HomeOf[u]] \in ClientShape /\ token # None
      BY <1>0, <1>h, <2>1 DEF HasToken
    <3> QED
      BY <3>1 DEF ClientShape, Times, Clock
  <2> HIDE DEF token
  <2>3. oldest' \in Clock
    BY <1>0, <2>1, <2>2, UsesCounted DEF Clock
  <2>4. Over \in CallShape /\ HasToken(Over, home[HomeOf[u]].token)
    BY CallShapes DEF HasToken
  <2> QED
    BY <1>0, <1>m, <2>1, <2>3, <2>4
<1>13. CASE AccountTick
  <2>1. clock' \in Clock
    BY <1>0, <1>13, UsesCounted DEF AccountTick, Clock
  <2> QED
    BY <1>0, <1>13, <1>k, <2>1 DEF AccountTick
<1>14. CASE UNCHANGED accountVars
  BY <1>0, <1>14, <1>k DEF accountVars
<1> QED
  BY <1>1, <1>2, <1>3, <1>4, <1>5, <1>6, <1>7, <1>8, <1>9, <1>10, <1>11, <1>12, <1>13, <1>14
  DEF AccountNext

LEMMA AccountTyped == AccountTypes => AccountTypeOK
<1> SUFFICES ASSUME AccountTypes PROVE AccountTypeOK
  OBVIOUS
<1>1. row \subseteq Grants /\ Cardinality(row) <= 1
  <2>1. Cardinality({}) = 0 /\ \A x : Cardinality({x}) = 1
    BY FS_EmptySet, FS_Singleton
  <2>2. CASE row = {}
    BY <2>1, <2>2
  <2>3. CASE row # {}
    <3>1. PICK x \in Grants : row = {x}
      BY <2>3 DEF AccountTypes
    <3> QED
      BY <2>1, <3>1
  <2> QED
    BY <2>2, <2>3
<1>2. home \in [Homes -> ClientShape] /\ use \in [Uses -> CallShape]
      /\ clock \in 0 .. MaxClock /\ logins \in 0 .. Cardinality(Uses) /\ oldest \in 0 .. MaxClock
  BY DEF AccountTypes
<1>3. \A u \in Uses : /\ use[u].kind \in {"none", "call", "login"} /\ use[u].at \in StepNames
                      /\ use[u].since \in 0 .. MaxClock /\ use[u].token \in Times
                      /\ use[u].known \in BOOLEAN
  BY <1>2 DEF CallShape, UseKinds, Clock
<1> QED
  BY <1>1, <1>2, <1>3 DEF AccountTypeOK, Clock, Times, Ends, States, Grants, ClientShape, StepNames


-----------------------------------------------------------------------------

\* A run's key is one of those made, and its keys to delete are.
RunBounds(q, n) ==
    /\ q.new <= n /\ (q.at \in {"list", "delete"} => q.new >= 1)
    /\ q.left \subseteq 1 .. n /\ q.attempts <= Attempts

KeyBounds ==
    /\ made \in 1 .. MaxKeys /\ keys \subseteq 1 .. made /\ secret \in 1 .. made
    /\ Cardinality(keys) <= KeyLimit /\ settled \in BOOLEAN
    /\ \A r \in Rotators : RunBounds(rotation[r], made)

LEMMA KeysCounted ==
    ASSUME KeyBounds
    PROVE  /\ IsFiniteSet(keys) /\ Cardinality(keys) \in Nat
           /\ \A k : /\ Cardinality(keys \union {k}) <= Cardinality(keys) + 1
                     /\ Cardinality(keys \ {k}) <= Cardinality(keys)
<1>1. made \in Nat
  BY KeyAssumption DEF KeyBounds
<1>2. IsFiniteSet(1 .. made)
  BY <1>1, FS_Interval
<1>3. IsFiniteSet(keys)
  BY <1>2, FS_Subset DEF KeyBounds
<1>4. Cardinality(keys) \in Nat
  BY <1>3, FS_CardinalityType
<1>5. ASSUME NEW k
      PROVE  /\ Cardinality(keys \union {k}) <= Cardinality(keys) + 1
             /\ Cardinality(keys \ {k}) <= Cardinality(keys)
  <2>1. CASE k \in keys
    <3>1. keys \union {k} = keys
      BY <2>1
    <3>2. Cardinality(keys \ {k}) = Cardinality(keys) - 1
      BY <1>3, <2>1, FS_RemoveElement
    <3>3. Cardinality(keys \ {k}) <= Cardinality(keys)
      BY <1>4, <3>2
    <3>4. Cardinality(keys \union {k}) <= Cardinality(keys) + 1
      <4>1. Cardinality(keys \union {k}) = Cardinality(keys)
        BY <3>1
      <4> QED
        BY <1>4, <4>1
    <3> QED
      BY <3>3, <3>4
  <2>2. CASE k \notin keys
    <3>1. keys \ {k} = keys
      BY <2>2
    <3>2. Cardinality(keys \union {k}) = Cardinality(keys) + 1
      BY <1>3, <2>2, FS_AddElement
    <3>3. Cardinality(keys \union {k}) <= Cardinality(keys) + 1
      BY <1>4, <3>2
    <3>4. Cardinality(keys \ {k}) <= Cardinality(keys)
      <4>1. Cardinality(keys \ {k}) = Cardinality(keys)
        BY <3>1
      <4> QED
        BY <1>4, <4>1
    <3> QED
      BY <3>3, <3>4
  <2> QED
    BY <2>1, <2>2
<1> QED
  BY <1>3, <1>4, <1>5

LEMMA KeyBoundsInit == KeyInit => KeyBounds
<1> SUFFICES ASSUME KeyInit PROVE KeyBounds
  OBVIOUS
<1>1. keys = {1} /\ made = 1 /\ secret = 1 /\ settled = TRUE
  BY DEF KeyInit
<1>2. Cardinality({1}) = 1
  BY FS_Singleton
<1>3. \A r \in Rotators : RunBounds(rotation[r], 1)
  BY KeyAssumption DEF KeyInit, NoRotation, RunBounds
<1>4. 1 \in 1 .. MaxKeys /\ 1 \in 1 .. 1 /\ {1} \subseteq 1 .. 1 /\ 1 <= KeyLimit
  BY KeyAssumption
<1> QED
  BY <1>1, <1>2, <1>3, <1>4 DEF KeyBounds

LEMMA RunMoves ==
    ASSUME KeyInv, KeyBounds, NEW r \in Rotators, NEW q, rotation' = [rotation EXCEPT ![r] = q],
           made' \in Nat, made <= made', RunBounds(q, made')
    PROVE  \A s \in Rotators : RunBounds(rotation'[s], made')
<1> SUFFICES ASSUME NEW s \in Rotators PROVE RunBounds(rotation'[s], made')
  OBVIOUS
<1>0. rotation \in [Rotators -> KeyShape] /\ made \in Nat
  BY DEF KeyInv
<1>1. CASE s = r
  BY <1>0, <1>1
<1>2. CASE s # r
  <2>1. rotation'[s] = rotation[s] /\ RunBounds(rotation[s], made)
    BY <1>0, <1>2 DEF KeyBounds
  <2>2. rotation[s] \in KeyShape
    BY <1>0
  <2> QED
    BY <1>0, <2>1, <2>2 DEF RunBounds, KeyShape
<1> QED
  BY <1>1, <1>2

LEMMA NoRotationBounds == \A n \in Nat : RunBounds(NoRotation, n)
  BY KeyAssumption DEF NoRotation, RunBounds

LEMMA FailBounds ==
    ASSUME KeyInv, KeyBounds, NEW r \in Rotators, Fail(r), UNCHANGED made
    PROVE  settled' \in BOOLEAN /\ \A s \in Rotators : RunBounds(rotation'[s], made')
<1>0. /\ rotation \in [Rotators -> KeyShape] /\ made \in Nat /\ RunBounds(rotation[r], made)
      /\ settled \in BOOLEAN
  BY DEF KeyInv, KeyBounds
<1>m. made' = made /\ made' \in Nat /\ made <= made'
  BY <1>0
<1>1. CASE rotation[r].attempts < Attempts
  <2> DEFINE q == [rotation[r] EXCEPT !.at = "create", !.attempts = @ + 1]
  <2>1. rotation[r] \in KeyShape
    BY <1>0
  <2>2. /\ q.at = "create" /\ q.new = rotation[r].new /\ q.left = rotation[r].left
        /\ q.attempts = rotation[r].attempts + 1
    BY <2>1 DEF KeyShape
  <2>3. rotation' = [rotation EXCEPT ![r] = q] /\ settled' = settled
    BY <1>1 DEF Fail
  <2> HIDE DEF q
  <2>4. rotation[r].attempts + 1 <= Attempts
    BY <1>1, <2>1, KeyAssumption DEF KeyShape
  <2>5. RunBounds(q, made)
    BY <1>0, <2>2, <2>4 DEF RunBounds
  <2> QED
    BY <1>0, <1>m, <2>3, <2>5, RunMoves
<1>2. CASE ~(rotation[r].attempts < Attempts)
  <2>1. rotation' = [rotation EXCEPT ![r] = NoRotation] /\ settled' = FALSE
    BY <1>2 DEF Fail
  <2> QED
    BY <1>0, <1>m, <2>1, NoRotationBounds, RunMoves
<1> QED
  BY <1>1, <1>2

LEMMA KeyBoundsOK == KeyInv /\ KeyBounds /\ [KeyNext]_keyVars => KeyBounds'
<1> SUFFICES ASSUME KeyInv, KeyBounds, [KeyNext]_keyVars PROVE KeyBounds'
  OBVIOUS
<1> DEFINE Runs == \A r \in Rotators : RunBounds(rotation[r], made)
<1>0. /\ rotation \in [Rotators -> KeyShape] /\ made \in Nat /\ Runs /\ settled \in BOOLEAN
      /\ made \in 1 .. MaxKeys /\ keys \subseteq 1 .. made /\ secret \in 1 .. made
      /\ Cardinality(keys) <= KeyLimit
  BY DEF KeyInv, KeyBounds
<1>a. KeyLimit \in Nat /\ MaxKeys \in Nat /\ Attempts \in Nat /\ Attempts >= 1
  BY KeyAssumption
<1>k. ASSUME UNCHANGED <<keys, made, secret>>, settled' \in BOOLEAN, Runs' PROVE KeyBounds'
  BY <1>0, <1>k DEF KeyBounds
<1> HIDE DEF Runs
<1>1. ASSUME NEW r \in Rotators, StartRotation(r) PROVE KeyBounds'
  <2>1. ASSUME NEW s \in Rotators PROVE RunBounds(rotation'[s], made)
    <3>1. RunBounds(rotation[s], made) /\ rotation[s] \in KeyShape
      BY <1>0 DEF Runs
    <3>2. CASE s = r
      <4> DEFINE alone == Rotating = {}
      <4>1. rotation'[s] = [NoRotation EXCEPT !.at = "create", !.attempts = 1, !.alone = alone]
        BY <1>1, <3>2 DEF StartRotation
      <4> HIDE DEF alone
      <4>2. /\ rotation'[s].at = "create" /\ rotation'[s].attempts = 1
            /\ rotation'[s].new = 0 /\ rotation'[s].left = {}
        BY <4>1 DEF NoRotation
      <4> QED
        BY <1>0, <1>a, <4>2 DEF RunBounds
    <3>3. CASE s # r
      <4>1. rotation'[s] = [rotation[s] EXCEPT !.alone = FALSE]
        BY <1>1, <3>3 DEF StartRotation
      <4>2. /\ rotation'[s].at = rotation[s].at /\ rotation'[s].attempts = rotation[s].attempts
            /\ rotation'[s].new = rotation[s].new /\ rotation'[s].left = rotation[s].left
        BY <3>1, <4>1 DEF KeyShape
      <4> QED
        BY <3>1, <4>2 DEF RunBounds
    <3> QED
      BY <3>2, <3>3
  <2>2. UNCHANGED <<keys, made, secret, settled>>
    BY <1>1 DEF StartRotation
  <2> QED
    BY <1>0, <1>k, <2>1, <2>2 DEF Runs
<1>2. ASSUME NEW r \in Rotators, CallFails(r) PROVE KeyBounds'
  <2>1. Fail(r) /\ UNCHANGED <<keys, made, secret>>
    BY <1>2 DEF CallFails
  <2> QED
    BY <1>k, <2>1, FailBounds DEF Runs
<1>3. ASSUME NEW r \in Rotators, KillRotation(r) PROVE KeyBounds'
  <2>1. /\ rotation' = [rotation EXCEPT ![r] = NoRotation] /\ settled' = FALSE
        /\ UNCHANGED <<keys, made, secret>>
    BY <1>3 DEF KillRotation
  <2>2. Runs'
    BY <1>0, <2>1, NoRotationBounds, RunMoves DEF Runs
  <2> QED
    BY <1>k, <2>1, <2>2
<1>4. ASSUME NEW r \in Rotators, CreateKey(r) PROVE KeyBounds'
  <2>1. CASE Cardinality(keys) < KeyLimit
    <3> DEFINE q == [rotation[r] EXCEPT !.at = "list", !.new = made + 1]
    <3>1. /\ made < MaxKeys /\ made' = made + 1 /\ keys' = keys \union {made + 1}
          /\ rotation' = [rotation EXCEPT ![r] = q] /\ UNCHANGED <<settled, secret>>
      BY <1>4, <2>1 DEF CreateKey
    <3>2. rotation[r] \in KeyShape /\ RunBounds(rotation[r], made)
      BY <1>0 DEF Runs
    <3>3. /\ q.new = made + 1 /\ q.left = rotation[r].left /\ q.attempts = rotation[r].attempts
      BY <3>2 DEF KeyShape
    <3> HIDE DEF q
    <3>4. RunBounds(q, made + 1)
      BY <1>0, <3>2, <3>3 DEF RunBounds
    <3>n. made' \in Nat /\ made <= made' /\ RunBounds(q, made')
      BY <1>0, <3>1, <3>4
    <3>5. Runs'
      BY <3>1, <3>n, RunMoves DEF Runs
    <3>6. made + 1 \in 1 .. MaxKeys /\ keys' \subseteq 1 .. made + 1 /\ secret \in 1 .. made + 1
      BY <1>0, <1>a, <3>1
    <3>7. Cardinality(keys') <= KeyLimit
      <4>1. Cardinality(keys') <= Cardinality(keys) + 1 /\ Cardinality(keys) \in Nat
            /\ Cardinality(keys') \in Nat
        <5>1. IsFiniteSet(keys')
          BY <3>1, KeysCounted, FS_AddElement
        <5> QED
          BY <3>1, <5>1, KeysCounted, FS_CardinalityType
      <4> QED
        BY <1>a, <2>1, <4>1
    <3> QED
      BY <1>0, <3>1, <3>5, <3>6, <3>7 DEF KeyBounds, Runs
  <2>2. CASE ~(Cardinality(keys) < KeyLimit)
    <3>1. Fail(r) /\ UNCHANGED <<keys, made, secret>>
      BY <1>4, <2>2 DEF CreateKey
    <3> QED
      BY <1>k, <3>1, FailBounds DEF Runs
  <2> QED
    BY <2>1, <2>2
<1>5. ASSUME NEW r \in Rotators, ListKeys(r) PROVE KeyBounds'
  <2> DEFINE q == [rotation[r] EXCEPT !.at = "delete", !.left = keys \ {rotation[r].new}]
  <2>1. /\ rotation' = [rotation EXCEPT ![r] = q] /\ UNCHANGED <<keys, made, secret, settled>>
        /\ rotation[r].at = "list"
    BY <1>5 DEF ListKeys
  <2>2. rotation[r] \in KeyShape /\ RunBounds(rotation[r], made)
    BY <1>0 DEF Runs
  <2>3. /\ q.new = rotation[r].new /\ q.left = keys \ {rotation[r].new}
        /\ q.attempts = rotation[r].attempts
    BY <2>2 DEF KeyShape
  <2> HIDE DEF q
  <2>4. RunBounds(q, made)
    BY <1>0, <2>1, <2>2, <2>3 DEF RunBounds
  <2>5. Runs'
    BY <1>0, <2>1, <2>4, RunMoves DEF Runs
  <2> QED
    BY <1>0, <1>k, <2>1, <2>5
<1>6. ASSUME NEW r \in Rotators, NEW k \in 1 .. MaxKeys, DeleteKey(r, k) PROVE KeyBounds'
  <2>1. /\ rotation[r].at = "delete" /\ keys' = keys \ {k} /\ UNCHANGED <<made, secret>>
    BY <1>6 DEF DeleteKey
  <2>2. Runs' /\ settled' \in BOOLEAN
    <3>1. CASE k \in keys
      <4> DEFINE q == [rotation[r] EXCEPT !.left = @ \ {k}]
      <4>1. rotation' = [rotation EXCEPT ![r] = q] /\ settled' = settled
        BY <1>6, <3>1 DEF DeleteKey
      <4>2. rotation[r] \in KeyShape /\ RunBounds(rotation[r], made)
        BY <1>0 DEF Runs
      <4>3. /\ q.at = rotation[r].at /\ q.new = rotation[r].new /\ q.left = rotation[r].left \ {k}
            /\ q.attempts = rotation[r].attempts
        BY <4>2 DEF KeyShape
      <4> HIDE DEF q
      <4>4. RunBounds(q, made)
        BY <4>2, <4>3 DEF RunBounds
      <4> QED
        BY <1>0, <2>1, <4>1, <4>4, RunMoves DEF Runs
    <3>2. CASE k \notin keys
      <4>1. Fail(r)
        BY <1>6, <3>2 DEF DeleteKey
      <4> QED
        BY <2>1, <4>1, FailBounds DEF Runs
    <3> QED
      BY <3>1, <3>2
  <2>3. Cardinality(keys') <= KeyLimit
    <3>1. Cardinality(keys') <= Cardinality(keys) /\ Cardinality(keys) \in Nat
          /\ Cardinality(keys') \in Nat
      <4>1. IsFiniteSet(keys')
        BY <2>1, KeysCounted, FS_RemoveElement
      <4> QED
        BY <2>1, <4>1, KeysCounted, FS_CardinalityType
    <3> QED
      BY <1>0, <1>a, <3>1
  <2> QED
    BY <1>0, <2>1, <2>2, <2>3 DEF KeyBounds, Runs
<1>7. ASSUME NEW r \in Rotators, PatchSecret(r) PROVE KeyBounds'
  <2>1. /\ rotation' = [rotation EXCEPT ![r] = NoRotation] /\ settled' = rotation[r].alone
        /\ secret' = rotation[r].new /\ UNCHANGED <<keys, made>> /\ rotation[r].at = "delete"
    BY <1>7 DEF PatchSecret
  <2>2. Runs'
    BY <1>0, <2>1, NoRotationBounds, RunMoves DEF Runs
  <2>3. rotation[r] \in KeyShape /\ RunBounds(rotation[r], made)
    BY <1>0 DEF Runs
  <2>4. rotation[r].alone \in BOOLEAN
    BY <2>3 DEF KeyShape
  <2>5. rotation[r].new \in 1 .. made
    BY <1>0, <2>1, <2>3 DEF KeyShape, RunBounds
  <2> QED
    BY <1>0, <2>1, <2>2, <2>4, <2>5 DEF KeyBounds, Runs
<1>8. CASE UNCHANGED keyVars
  BY <1>0, <1>8, <1>k DEF keyVars, Runs
<1> QED
  BY <1>1, <1>2, <1>3, <1>4, <1>5, <1>6, <1>7, <1>8 DEF KeyNext

LEMMA KeyTyped == KeyInv /\ KeyBounds => KeyTypeOK
<1> SUFFICES ASSUME KeyInv, KeyBounds PROVE KeyTypeOK
  OBVIOUS
<1>1. ASSUME NEW r \in Rotators
      PROVE  /\ rotation[r].at \in {"idle", "create", "list", "delete"}
             /\ rotation[r].new \in 0 .. made /\ rotation[r].left \subseteq 1 .. made
             /\ rotation[r].attempts \in 0 .. Attempts /\ rotation[r].alone \in BOOLEAN
  <2>1. rotation[r] \in KeyShape /\ RunBounds(rotation[r], made) /\ made \in Nat
    BY DEF KeyInv, KeyBounds
  <2>2. rotation[r].at \in {"idle", "create", "list", "delete"} /\ rotation[r].alone \in BOOLEAN
        /\ rotation[r].left \subseteq 1 .. made
    BY <2>1 DEF KeyShape, RunBounds
  <2>3. rotation[r].new \in 0 .. made /\ rotation[r].attempts \in 0 .. Attempts
    BY <2>1, KeyAssumption DEF KeyShape, RunBounds
  <2> QED
    BY <2>2, <2>3
<1> QED
  BY <1>1 DEF KeyBounds, KeyTypeOK

-----------------------------------------------------------------------------
(***************************************************************************)
(* Resource metrics: what an analysis read, and what it made of it.        *)
(***************************************************************************)

LEMMA LeastNat ==
    ASSUME NEW T, T \subseteq Nat, T # {}
    PROVE  \E x \in T : \A y \in T : x <= y
<1> DEFINE R == OpToRel(<, Nat)
<1>1. IsWellFoundedOn(R, Nat)
  BY NatLessThanWellFounded, Zenon
<1> HIDE DEF R
<1>2. PICK x \in T : \A y \in T : ~ (<<y, x>> \in R)
  BY <1>1, WFMin
<1>3. ASSUME NEW y \in T PROVE x <= y
  <2>1. x \in Nat /\ y \in Nat /\ <<y, x>> \notin R
    BY <1>2
  <2>2. y < x => <<y, x>> \in R
    BY <2>1 DEF R, OpToRel
  <2> QED
    BY <2>1, <2>2
<1> QED
  BY <1>3

\* There is a running sum of n numbers ...
Sums(f, t, n) == f = [i \in 0 .. n |-> IF i = 0 THEN 0 ELSE f[i - 1] + t[i]]

LEMMA SumExists ==
    ASSUME NEW n \in Nat, NEW t \in [1 .. n -> Int]
    PROVE  \E f : Sums(f, t, n)
<1> DEFINE Sum(f, k) == f \in [0 .. k -> Int] /\ f[0] = 0 /\ \A i \in 1 .. k : f[i] = f[i - 1] + t[i]
           T == {k \in 0 .. n : ~ \E f : Sum(f, k)}
<1>1. T = {}
  <2> SUFFICES ASSUME T # {} PROVE FALSE
    OBVIOUS
  <2>1. T \subseteq Nat
    OBVIOUS
  <2>2. PICK k \in T : \A y \in T : k <= y
    BY <2>1, LeastNat
  <2>3. k \in 0 .. n /\ ~ \E f : Sum(f, k)
    OBVIOUS
  <2>4. CASE k = 0
    <3>1. Sum([i \in 0 .. 0 |-> 0], 0)
      OBVIOUS
    <3> QED
      BY <2>3, <2>4, <3>1
  <2>5. CASE k # 0
    <3>1. k - 1 \in 0 .. n /\ ~ (k <= k - 1)
      BY <2>3, <2>5
    <3>2. k - 1 \notin T
      BY <2>2, <3>1
    <3>3. PICK f : Sum(f, k - 1)
      BY <3>1, <3>2
    <3> DEFINE last == f[k - 1] + t[k]
               g == [i \in 0 .. k |-> IF i = k THEN last ELSE f[i]]
    <3>4. k \in 1 .. n /\ k - 1 \in 0 .. k - 1
      BY <2>3, <2>5
    <3>5. last \in Int
      BY <3>3, <3>4
    <3>a. g[k] = last /\ \A i \in 0 .. k - 1 : g[i] = f[i]
      BY <3>4
    <3>b. g \in [0 .. k -> Int]
      BY <3>3, <3>4, <3>5
    <3> HIDE DEF g
    <3>6. g[0] = 0
      BY <3>3, <3>4, <3>a
    <3>7. ASSUME NEW i \in 1 .. k PROVE g[i] = g[i - 1] + t[i]
      <4>1. CASE i = k
        BY <3>4, <3>a, <4>1
      <4>2. CASE i # k
        <5>1. i \in 1 .. k - 1 /\ i \in 0 .. k - 1 /\ i - 1 \in 0 .. k - 1
          BY <3>4, <4>2
        <5> QED
          BY <3>3, <3>a, <5>1
      <4> QED
        BY <4>1, <4>2
    <3>8. Sum(g, k)
      BY <3>6, <3>7, <3>b
    <3> QED
      BY <2>3, <3>8
  <2> QED
    BY <2>4, <2>5
<1>2. PICK f : Sum(f, n)
  <2>1. n \in 0 .. n
    OBVIOUS
  <2>2. n \notin T
    BY <1>1
  <2> QED
    BY <2>1, <2>2
<1>3. \A i \in 0 .. n : f[i] = IF i = 0 THEN 0 ELSE f[i - 1] + t[i]
  BY <1>2
<1>4. f = [i \in 0 .. n |-> f[i]]
  BY <1>2
<1>5. Sums(f, t, n)
  BY <1>3, <1>4 DEF Sums
<1> QED
  BY <1>5

\* ... which is above 0 only if one of them is.
LEMMA SumLow ==
    ASSUME NEW n \in Nat, NEW t \in [1 .. n -> Int], \A i \in 1 .. n : t[i] <= 0,
           NEW f, Sums(f, t, n)
    PROVE  f[n] \in Int /\ f[n] <= 0
<1> DEFINE T == {k \in 0 .. n : ~ (f[k] \in Int /\ f[k] <= 0)}
<1>0. f[0] = 0 /\ \A i \in 1 .. n : f[i] = f[i - 1] + t[i]
  BY DEF Sums
<1>1. T = {}
  <2> SUFFICES ASSUME T # {} PROVE FALSE
    OBVIOUS
  <2>1. T \subseteq Nat
    OBVIOUS
  <2>2. PICK k \in T : \A y \in T : k <= y
    BY <2>1, LeastNat
  <2>3. k \in 0 .. n /\ ~ (f[k] \in Int /\ f[k] <= 0)
    OBVIOUS
  <2>4. k # 0
    BY <1>0, <2>3
  <2>5. k - 1 \in 0 .. n /\ ~ (k <= k - 1) /\ k \in 1 .. n
    BY <2>3, <2>4
  <2>6. k - 1 \notin T
    BY <2>2, <2>5
  <2>7. f[k - 1] \in Int /\ f[k - 1] <= 0
    BY <2>5, <2>6
  <2>8. f[k] = f[k - 1] + t[k] /\ t[k] \in Int /\ t[k] <= 0
    BY <1>0, <2>5
  <2> QED
    BY <2>3, <2>7, <2>8
<1>2. n \in 0 .. n /\ n \notin T
  BY <1>1
<1> QED
  BY <1>2

Rows == Seq(Calls)

Moments == 0 .. Minutes

Measured == Usages \union {Nothing.usage}

Samples == [time : Moments, zone : BOOLEAN, usage : Measured]

LEMMA UsageNumbers ==
    ASSUME NEW usage \in Measured, NEW r \in Resources
    PROVE  usage[r] \in Int \union {Missing}
  BY ResourceAssumption DEF Measured, Nothing

\* The mean of samples is above a threshold only if one of them is.
LEMMA ExceedsTells ==
    ASSUME sample \in [Calls -> Samples], NEW rows \in Rows, NEW r \in Resources,
           NEW threshold \in Nat, Exceeds(rows, r, threshold)
    PROVE  \E i \in 1 .. Len(rows) :
             sample[rows[i]].usage[r] # Missing /\ sample[rows[i]].usage[r] > threshold
<1> SUFFICES ASSUME \A i \in 1 .. Len(rows) :
                      sample[rows[i]].usage[r] # Missing => ~ (sample[rows[i]].usage[r] > threshold)
             PROVE  FALSE
  OBVIOUS
<1> DEFINE n == Len(rows)
           over(i) == LET usage == sample[rows[i]].usage[r]
                      IN  IF usage = Missing THEN 0 ELSE usage - threshold
           t == [i \in 1 .. n |-> over(i)]
           Def(f) == f = [i \in 0 .. n |-> IF i = 0 THEN 0 ELSE f[i - 1] + over(i)]
<1>1. n \in Nat /\ \A i \in 1 .. n : rows[i] \in Calls
  BY DEF Rows
<1>2. ASSUME NEW i \in 1 .. n PROVE over(i) \in Int /\ over(i) <= 0
  <2> DEFINE usage == sample[rows[i]].usage[r]
  <2>1. sample[rows[i]] \in Samples
    BY <1>1
  <2>2. sample[rows[i]].usage \in Measured
    BY <2>1 DEF Samples
  <2>3. usage \in Int \union {Missing}
    BY <2>2, UsageNumbers
  <2>4. usage # Missing => ~ (usage > threshold)
    OBVIOUS
  <2> HIDE DEF usage
  <2>5. over(i) = IF usage = Missing THEN 0 ELSE usage - threshold
    BY DEF usage
  <2> HIDE DEF over
  <2> QED
    BY <2>3, <2>4, <2>5
<1>3. t \in [1 .. n -> Int] /\ \A i \in 1 .. n : t[i] = over(i)
  BY <1>2
<1>4. Exceeds(rows, r, threshold) = ((CHOOSE f : Def(f))[n] > 0)
  BY DEF Exceeds
<1> HIDE DEF over, t, n
<1>5. \A f : Sums(f, t, n) <=> Def(f)
  <2> SUFFICES ASSUME NEW f PROVE Sums(f, t, n) <=> Def(f)
    OBVIOUS
  <2>1. \A i \in 0 .. n : (IF i = 0 THEN 0 ELSE f[i - 1] + t[i]) = (IF i = 0 THEN 0 ELSE f[i - 1] + over(i))
    <3> SUFFICES ASSUME NEW i \in 0 .. n, i # 0 PROVE t[i] = over(i)
      OBVIOUS
    <3>1. i \in 1 .. n
      BY <1>1
    <3> QED
      BY <1>3, <3>1
  <2>2. [i \in 0 .. n |-> IF i = 0 THEN 0 ELSE f[i - 1] + t[i]]
          = [i \in 0 .. n |-> IF i = 0 THEN 0 ELSE f[i - 1] + over(i)]
    BY <2>1
  <2> QED
    BY <2>2 DEF Sums
<1>6. \E f : Def(f)
  BY <1>1, <1>3, <1>5, SumExists
<1>7. Def(CHOOSE f : Def(f))
  BY <1>6
<1> DEFINE f == CHOOSE f : Def(f)
<1>8. Sums(f, t, n) /\ f[n] > 0
  BY <1>4, <1>5, <1>7
<1> HIDE DEF f, Def
<1>9. \A i \in 1 .. n : t[i] <= 0
  BY <1>2, <1>3
<1>10. f[n] \in Int /\ f[n] <= 0
  BY <1>1, <1>3, <1>8, <1>9, SumLow
<1> QED
  BY <1>8, <1>10

\* The samples kept are those behind the first k.
Behind(kept, rows, k) ==
    /\ kept \in Rows /\ k \in 0 .. Len(rows) /\ Len(kept) = Len(rows) - k
    /\ \A i \in 1 .. Len(kept) : kept[i] = rows[k + i]

LEMMA SubSeqBehind ==
    ASSUME NEW rows \in Rows, NEW k \in 0 .. Len(rows)
    PROVE  Behind(SubSeq(rows, k + 1, Len(rows)), rows, k)
<1> DEFINE kept == SubSeq(rows, k + 1, Len(rows))
<1>1. Len(rows) \in Nat /\ k \in Nat /\ k <= Len(rows) /\ k + 1 \in Int /\ Len(rows) \in Int
  BY DEF Rows
<1>2. \A i \in k + 1 .. Len(rows) : rows[i] \in Calls
  BY <1>1 DEF Rows
<1>3. /\ kept \in Seq(Calls)
      /\ Len(kept) = IF k + 1 <= Len(rows) THEN Len(rows) - (k + 1) + 1 ELSE 0
      /\ \A i \in 1 .. Len(rows) - (k + 1) + 1 : kept[i] = rows[k + 1 + i - 1]
  BY <1>1, <1>2, SubSeqProperties
<1> HIDE DEF kept
<1>4. Len(kept) = Len(rows) - k
  BY <1>1, <1>3
<1>5. \A i \in 1 .. Len(kept) : kept[i] = rows[k + i]
  <2> SUFFICES ASSUME NEW i \in 1 .. Len(kept) PROVE kept[i] = rows[k + i]
    OBVIOUS
  <2>1. i \in 1 .. Len(rows) - (k + 1) + 1 /\ k + 1 + i - 1 = k + i
    BY <1>1, <1>4
  <2> QED
    BY <1>3, <2>1
<1>6. Behind(kept, rows, k)
  BY <1>3, <1>4, <1>5 DEF Behind, Rows
<1> QED
  BY <1>6 DEF kept

LEMMA LastOfBehind ==
    ASSUME NEW rows \in Rows, NEW n \in Nat \ {0}
    PROVE  \E k \in 0 .. Len(rows) : Behind(LastOf(rows, n), rows, k)
<1>1. Len(rows) \in Nat
  BY DEF Rows
<1> DEFINE k == IF Len(rows) > n THEN Len(rows) - n ELSE 0
<1>2. k \in 0 .. Len(rows) /\ k + 1 = IF Len(rows) > n THEN Len(rows) - n + 1 ELSE 1
  BY <1>1
<1>3. LastOf(rows, n) = SubSeq(rows, k + 1, Len(rows))
  BY <1>2 DEF LastOf
<1> HIDE DEF k
<1> QED
  BY <1>2, <1>3, SubSeqBehind

\* A window leaves out only samples that are older.
LEMMA WithinBehind ==
    ASSUME NEW rows \in Rows, NEW start
    PROVE  \E k \in 0 .. Len(rows) :
             /\ Behind(Within(rows, start), rows, k)
             /\ \A i \in 1 .. Len(rows) : start = Missing \/ sample[rows[i]].time >= start => i > k
<1> DEFINE inside == {i \in DOMAIN rows : start = Missing \/ sample[rows[i]].time >= start}
<1>1. Len(rows) \in Nat /\ DOMAIN rows = 1 .. Len(rows)
  BY DEF Rows
<1>2. Within(rows, start) = IF inside = {} THEN <<>> ELSE SubSeq(rows, Min(inside), Len(rows))
  BY DEF Within
<1>3. \A i \in 1 .. Len(rows) : start = Missing \/ sample[rows[i]].time >= start => i \in inside
  BY <1>1
<1>4. inside \subseteq 1 .. Len(rows)
  BY <1>1
<1> HIDE DEF inside
<1>5. CASE inside = {}
  <2>1. SubSeq(rows, Len(rows) + 1, Len(rows)) = <<>>
    BY <1>1, SubSeqEmpty
  <2>2. Len(rows) \in 0 .. Len(rows)
    BY <1>1
  <2>3. Behind(<<>>, rows, Len(rows))
    BY <2>1, <2>2, SubSeqBehind
  <2>4. Behind(Within(rows, start), rows, Len(rows))
    BY <1>2, <1>5, <2>3
  <2> QED
    BY <1>3, <1>5, <2>2, <2>4
<1>6. CASE inside # {}
  <2>1. inside \subseteq Nat
    BY <1>1, <1>4
  <2>2. \E m \in inside : \A i \in inside : m <= i
    BY <1>6, <2>1, LeastNat
  <2> DEFINE m == Min(inside)
  <2>3. m \in inside /\ \A i \in inside : m <= i
    BY <2>2 DEF Min
  <2>4. Within(rows, start) = SubSeq(rows, m, Len(rows))
    BY <1>2, <1>6
  <2> HIDE DEF m
  <2>5. m \in 1 .. Len(rows)
    BY <1>4, <2>3
  <2>6. m - 1 \in 0 .. Len(rows) /\ (m - 1) + 1 = m
    BY <1>1, <2>5
  <2>7. Behind(SubSeq(rows, (m - 1) + 1, Len(rows)), rows, m - 1)
    BY <2>6, SubSeqBehind
  <2>8. Behind(Within(rows, start), rows, m - 1)
    BY <2>4, <2>6, <2>7
  <2>9. \A i \in inside : i > m - 1
    BY <1>4, <2>3, <2>5
  <2> QED
    BY <1>3, <2>6, <2>8, <2>9
<1> QED
  BY <1>5, <1>6

LEMMA ToSetOf ==
    ASSUME NEW rows \in Rows
    PROVE  ToSet(rows) \subseteq Calls /\ \A d : d \in ToSet(rows) <=> \E i \in 1 .. Len(rows) : d = rows[i]
<1>1. DOMAIN rows = 1 .. Len(rows) /\ \A i \in 1 .. Len(rows) : rows[i] \in Calls
  BY DEF Rows
<1> QED
  BY <1>1 DEF ToSet

Sorted(rows) ==
    \A i, j \in 1 .. Len(rows) : i < j => sample[rows[i]].time <= sample[rows[j]].time

LEMMA BehindSorted ==
    ASSUME NEW rows \in Rows, NEW kept, NEW k, Behind(kept, rows, k), Sorted(rows)
    PROVE  Sorted(kept)
<1> SUFFICES ASSUME NEW i \in 1 .. Len(kept), NEW j \in 1 .. Len(kept), i < j
             PROVE  sample[kept[i]].time <= sample[kept[j]].time
  BY DEF Sorted
<1>1. Len(rows) \in Nat /\ k \in Nat /\ Len(kept) = Len(rows) - k
  BY DEF Rows, Behind
<1>2. k + i \in 1 .. Len(rows) /\ k + j \in 1 .. Len(rows) /\ k + i < k + j
  BY <1>1
<1>3. kept[i] = rows[k + i] /\ kept[j] = rows[k + j]
  BY DEF Behind
<1> QED
  BY <1>2, <1>3 DEF Sorted

\* What is read is all that is there, in the order of time.
LEMMA ReadAll ==
    ASSUME Visible \subseteq Calls, NEW rows, Read(rows)
    PROVE  rows \in Rows /\ Sorted(rows) /\ \A d \in Visible : \E i \in 1 .. Len(rows) : d = rows[i]
<1> DEFINE n == Cardinality(Visible)
<1>1. IsFiniteSet(Visible) /\ n \in Nat
  BY ResourceAssumption, FS_Subset, FS_CardinalityType
<1>2. rows \in [1 .. n -> Visible] /\ \A i, j \in 1 .. n : i # j => rows[i] # rows[j]
  BY DEF Read, SetToSeqs
<1>3. \A i, j \in DOMAIN rows : i < j => sample[rows[i]].time <= sample[rows[j]].time
  BY DEF Read
<1>n. Cardinality(Visible) = n
  OBVIOUS
<1> HIDE DEF n
<1>4. rows \in [1 .. n -> Calls]
  BY <1>2
<1>5. rows \in Rows /\ Len(rows) = n /\ DOMAIN rows = 1 .. n
  BY <1>1, <1>4 DEF Rows
<1> DEFINE T == {rows[i] : i \in 1 .. n}
<1>6. T \in SUBSET Visible
  BY <1>2
<1>7. rows \in Bijection(1 .. n, T)
  <2>1. rows \in [1 .. n -> T]
    BY <1>2
  <2>2. rows \in Injection(1 .. n, T)
    BY <1>2, <2>1 DEF Injection, IsInjective
  <2>3. rows \in Surjection(1 .. n, T)
    BY <2>1 DEF Surjection
  <2> QED
    BY <2>2, <2>3 DEF Bijection
<1> HIDE DEF T
<1>8. ExistsBijection(1 .. n, T)
  BY <1>7 DEF ExistsBijection
<1>9. Cardinality(T) = n
  BY <1>1, <1>8, FS_CountingElements
<1>10. T = Visible
  BY <1>1, <1>6, <1>9, <1>n, FS_Subset
<1>11. \A d \in Visible : \E i \in 1 .. n : d = rows[i]
  BY <1>10 DEF T
<1> QED
  BY <1>3, <1>5, <1>11 DEF Sorted

-----------------------------------------------------------------------------

NotAlert == {"average", "trend", "short average", "short trend"} \X Resources

Alarms == {"alert"} \X Resources

Advices == NotAlert \union Alarms

LEMMA AdvisedOnly ==
    ASSUME NEW kind, NEW met \in SUBSET Resources, NEW S, \A r \in met : <<kind, r>> \in S
    PROVE  Advised(kind, met) \in Seq(S)
<1> DEFINE Say(r) == IF r \in met THEN <<<<kind, r>>>> ELSE <<>>
<1>1. ASSUME NEW r PROVE Say(r) \in Seq(S)
  OBVIOUS
<1>2. Advised(kind, met) = Say("cpu") \o Say("memory") \o Say("disk")
  BY DEF Advised
<1>3. Say("cpu") \in Seq(S) /\ Say("memory") \in Seq(S) /\ Say("disk") \in Seq(S)
  BY <1>1
<1> HIDE DEF Say
<1>4. Say("cpu") \o Say("memory") \in Seq(S)
  BY <1>3, ConcatProperties
<1>5. Say("cpu") \o Say("memory") \o Say("disk") \in Seq(S)
  BY <1>3, <1>4, ConcatProperties
<1> QED
  BY <1>2, <1>5

LEMMA AdviceOf ==
    ASSUME NEW kind \in {"average", "trend", "short average", "short trend"}, NEW met \in SUBSET Resources
    PROVE  Advised(kind, met) \in Seq(NotAlert)
  BY AdvisedOnly DEF NotAlert

LEMMA RecommendationsOf == \A rows : RecommendOptimizations(rows) \in Seq(NotAlert)
<1> SUFFICES ASSUME NEW rows PROVE RecommendOptimizations(rows) \in Seq(NotAlert)
  OBVIOUS
<1> DEFINE first == Advised("short average", Above(LastOf(rows, Short), High))
           second == Advised("short trend", Growing(LastOf(rows, Long)))
<1>1. first \in Seq(NotAlert)
  BY AdviceOf DEF Above
<1>2. second \in Seq(NotAlert)
  BY AdviceOf DEF Growing
<1> HIDE DEF first, second
<1>3. first \o second \in Seq(NotAlert)
  BY <1>1, <1>2, ConcatProperties
<1> QED
  BY <1>3 DEF RecommendOptimizations, first, second

LEMMA TopOf == \A rows : TopRecommendations(rows) \in Seq(NotAlert)
<1> SUFFICES ASSUME NEW rows PROVE TopRecommendations(rows) \in Seq(NotAlert)
  OBVIOUS
<1> DEFINE first == Advised("average", Above(rows, High))
           second == Advised("trend", Growing(rows))
           third == RecommendOptimizations(rows)
           all == first \o second \o third
           most == IF Len(all) < Limit THEN Len(all) ELSE Limit
<1>1. first \in Seq(NotAlert)
  BY AdviceOf DEF Above
<1>2. second \in Seq(NotAlert)
  BY AdviceOf DEF Growing
<1>3. third \in Seq(NotAlert)
  BY RecommendationsOf
<1>4. TopRecommendations(rows) = SubSeq(all, 1, most)
  BY DEF TopRecommendations
<1>5. all \in Seq(NotAlert)
  <2> HIDE DEF first, second, third
  <2>1. first \o second \in Seq(NotAlert)
    BY <1>1, <1>2, ConcatProperties
  <2> QED
    BY <1>3, <2>1, ConcatProperties DEF all
<1> HIDE DEF all
<1>6. Len(all) \in Nat /\ most \in Int /\ most <= Len(all) /\ 1 \in Int
  BY <1>5, ResourceAssumption
<1> HIDE DEF most
<1>7. \A i \in 1 .. most : all[i] \in NotAlert
  BY <1>5, <1>6
<1>8. SubSeq(all, 1, most) \in Seq(NotAlert)
  BY <1>6, <1>7, SubSeqProperties
<1> QED
  BY <1>4, <1>8

LEMMA AlarmsOf ==
    ASSUME NEW rows
    PROVE  /\ CostAlerts(rows) \in Seq(Alarms)
           /\ \A r : <<"alert", r>> \in ToSet(CostAlerts(rows)) =>
                r \in Resources /\ Exceeds(LastOf(rows, Short), r, Alarm)
<1> DEFINE met == Above(LastOf(rows, Short), Alarm)
           S == {"alert"} \X met
<1>1. met \in SUBSET Resources
  BY DEF Above
<1>2. CostAlerts(rows) = Advised("alert", met)
  BY DEF CostAlerts
<1>m. \A r \in met : Exceeds(LastOf(rows, Short), r, Alarm)
  BY DEF Above
<1> HIDE DEF met
<1>3. Advised("alert", met) \in Seq(S)
  BY <1>1, AdvisedOnly
<1>4. Advised("alert", met) \in Seq(Alarms)
  BY <1>1, AdvisedOnly DEF Alarms
<1>5. ASSUME NEW r, <<"alert", r>> \in ToSet(CostAlerts(rows)) PROVE r \in met
  <2>1. ToSet(CostAlerts(rows)) \subseteq S
    BY <1>2, <1>3 DEF ToSet
  <2> QED
    BY <1>5, <2>1
<1> QED
  BY <1>1, <1>2, <1>4, <1>5, <1>m

\* Only the analysis that asks for alerts is told of one, and of one that there is.
LEMMA AdviceTells ==
    ASSUME NEW op \in Analyses, NEW rows
    PROVE  /\ ToSet(Advice(op, rows)) \in SUBSET Advices
           /\ \A r : <<"alert", r>> \in ToSet(Advice(op, rows)) =>
                r \in Resources /\ Exceeds(LastOf(rows, Short), r, Alarm)
<1>1. \A s \in Seq(NotAlert) : ToSet(s) \subseteq NotAlert
  BY DEF ToSet
<1>2. \A r : <<"alert", r>> \notin NotAlert
  BY DEF NotAlert
<1>3. CASE op = "alerts"
  <2>1. Advice(op, rows) = CostAlerts(rows)
    BY <1>3 DEF Advice
  <2>2. \A s \in Seq(Alarms) : ToSet(s) \subseteq Alarms
    BY DEF ToSet
  <2> QED
    BY <2>1, <2>2, AlarmsOf DEF Advices
<1>4. CASE op # "alerts"
  <2>1. Advice(op, rows) \in Seq(NotAlert)
    <3>1. op \in {"recent", "optimizations", "recommendations"}
      BY <1>4 DEF Analyses
    <3>2. <<>> \in Seq(NotAlert)
      OBVIOUS
    <3> QED
      BY <3>1, <3>2, RecommendationsOf, TopOf DEF Advice
  <2> QED
    BY <1>1, <1>2, <2>1 DEF Advices
<1> QED
  BY <1>3, <1>4

-----------------------------------------------------------------------------

Ops == Analyses \union {"none", "store"}

Ats == {"new", "conn", "insert", "done", "refused", "error", "lost"}

Starts == {Missing, Minutes}

Befores == SUBSET Calls

Tellings == SUBSET Advices

Requests == [op : Ops, at : Ats, since : Starts, before : Befores, rows : Rows, answer : Tellings]

\* What an analysis that is done is worth, of samples s.
Worth(q, s) ==
    LET latest == ToSet(LastOf(q.rows, Short))
    IN  q.op \in Analyses \ {"recent"} /\ q.at = "done" =>
          /\ \A d \in q.before :
               q.since = Missing \/ s[d].time >= q.since => d \in ToSet(q.rows)
          /\ \A d \in ToSet(q.rows) \ latest, e \in latest : s[d].time <= s[e].time
          /\ \A r \in Resources :
               <<"alert", r>> \in q.answer =>
                 \E d \in latest : s[d].usage[r] # Missing /\ s[d].usage[r] > Alarm

\* A call whose sample is stored, or going to be, has begun; one that was acknowledged
\* is stored; and an analysis knows only of samples of calls that have begun.
CallSound(c) ==
    /\ c \in table \union pending => call[c].at # "new"
    /\ call[c].at = "insert" => call[c].op = "store" /\ c \in table \union pending
    /\ call[c].op = "store" /\ call[c].at = "done" => c \in table
    /\ call[c].before \subseteq table
    /\ \A i \in 1 .. Len(call[c].rows) : call[call[c].rows[i]].at # "new"
    /\ Worth(call[c], sample)

ResourceInv ==
    /\ backend \in {"sqlite", "postgres", "timescale"}
    /\ service \in {"down", "collecting", "created", "up", "failed"}
    /\ jobs \subseteq {"collect_metrics", "aggregate"}
    /\ table \subseteq Calls /\ pending \subseteq Calls
    /\ sample \in [Calls -> Samples] /\ call \in [Calls -> Requests]
    /\ \A c \in Calls : CallSound(c)

LEMMA ResourceTyped == ResourceInv => ResourceTypeOK /\ AnalysesSound
<1> SUFFICES ASSUME ResourceInv PROVE ResourceTypeOK /\ AnalysesSound
  OBVIOUS
<1>1. AnalysesSound
  BY DEF ResourceInv, CallSound, Worth, AnalysesSound
<1>2. ASSUME NEW c \in Calls
      PROVE  /\ sample[c].usage \in Usages \union {Nothing.usage}
             /\ call[c].op \in Analyses \union {"none", "store"}
             /\ call[c].at \in {"new", "conn", "insert", "done", "refused", "error", "lost"}
             /\ call[c].before \subseteq Calls /\ ToSet(call[c].rows) \subseteq Calls
  <2>1. sample[c] \in Samples /\ call[c] \in Requests
    BY DEF ResourceInv
  <2>2. call[c].rows \in Rows
    BY <2>1 DEF Requests
  <2>3. ToSet(call[c].rows) \subseteq Calls
    BY <2>2, ToSetOf
  <2> QED
    BY <2>1, <2>3 DEF Samples, Measured, Requests, Ops, Ats, Befores
<1> QED
  BY <1>1, <1>2 DEF ResourceInv, ResourceTypeOK

LEMMA UnmadeIs ==
    /\ Unmade \in Requests /\ Unmade.op = "none" /\ Unmade.at = "new" /\ Unmade.before = {}
    /\ Unmade.rows = <<>> /\ Len(<<>>) = 0 /\ \A s : Worth(Unmade, s)
<1>1. "none" \in Ops /\ "new" \in Ats /\ Missing \in Starts /\ {} \in Befores /\ {} \in Tellings
  BY DEF Ops, Ats, Starts, Befores, Tellings
<1>2. <<>> \in Rows /\ Len(<<>>) = 0
  BY DEF Rows
<1>3. Unmade \in Requests
  BY <1>1, <1>2 DEF Unmade, Requests
<1>4. Unmade.op = "none" /\ Unmade.at = "new" /\ Unmade.before = {} /\ Unmade.rows = <<>>
  BY DEF Unmade
<1> QED
  BY <1>2, <1>3, <1>4 DEF Worth

LEMMA ResourceInitOK == ResourceInit => ResourceInv
<1> SUFFICES ASSUME ResourceInit PROVE ResourceInv
  OBVIOUS
<1>1. Nothing \in Samples
  <2>1. 0 \in Moments /\ Nothing.usage \in Measured
    BY ResourceAssumption DEF Moments, Measured
  <2> QED
    BY <2>1 DEF Nothing, Samples
<1>2. sample \in [Calls -> Samples] /\ call \in [Calls -> Requests]
  BY <1>1, UnmadeIs DEF ResourceInit
<1>3. table = {} /\ pending = {} /\ \A c \in Calls : call[c] = Unmade
  BY DEF ResourceInit
<1>4. ASSUME NEW c \in Calls PROVE CallSound(c)
  BY <1>3, UnmadeIs DEF CallSound
<1> QED
  BY <1>2, <1>3, <1>4 DEF ResourceInit, ResourceInv

\* What an analysis is worth depends on the samples it knows of only.
LEMMA WorthStays ==
    ASSUME NEW q \in Requests, NEW s, NEW t, Worth(q, s), \A d \in q.before : t[d] = s[d],
           \A i \in 1 .. Len(q.rows) : t[q.rows[i]] = s[q.rows[i]]
    PROVE  Worth(q, t)
<1> DEFINE latest == ToSet(LastOf(q.rows, Short))
<1>1. q.rows \in Rows
  BY DEF Requests
<1>2. \A d \in ToSet(q.rows) : t[d] = s[d]
  BY <1>1, ToSetOf
<1>3. latest \subseteq ToSet(q.rows)
  <2>1. PICK k \in 0 .. Len(q.rows) : Behind(LastOf(q.rows, Short), q.rows, k)
    BY <1>1, LastOfBehind, ResourceAssumption
  <2>2. LastOf(q.rows, Short) \in Rows
    BY <2>1 DEF Behind
  <2>3. ASSUME NEW d \in latest PROVE d \in ToSet(q.rows)
    <3>1. PICK i \in 1 .. Len(LastOf(q.rows, Short)) : d = LastOf(q.rows, Short)[i]
      BY <2>2, ToSetOf
    <3>2. d = q.rows[k + i] /\ Len(LastOf(q.rows, Short)) = Len(q.rows) - k
      BY <2>1, <3>1 DEF Behind
    <3>3. k + i \in 1 .. Len(q.rows)
      BY <1>1, <3>2 DEF Rows
    <3> QED
      BY <1>1, <3>2, <3>3, ToSetOf
  <2> QED
    BY <2>3
<1> HIDE DEF latest
<1>4. Worth(q, s) = (q.op \in Analyses \ {"recent"} /\ q.at = "done" =>
          /\ \A d \in q.before :
               q.since = Missing \/ s[d].time >= q.since => d \in ToSet(q.rows)
          /\ \A d \in ToSet(q.rows) \ latest, e \in latest : s[d].time <= s[e].time
          /\ \A r \in Resources :
               <<"alert", r>> \in q.answer =>
                 \E d \in latest : s[d].usage[r] # Missing /\ s[d].usage[r] > Alarm)
  BY DEF Worth, latest
<1>5. Worth(q, t) = (q.op \in Analyses \ {"recent"} /\ q.at = "done" =>
          /\ \A d \in q.before :
               q.since = Missing \/ t[d].time >= q.since => d \in ToSet(q.rows)
          /\ \A d \in ToSet(q.rows) \ latest, e \in latest : t[d].time <= t[e].time
          /\ \A r \in Resources :
               <<"alert", r>> \in q.answer =>
                 \E d \in latest : t[d].usage[r] # Missing /\ t[d].usage[r] > Alarm)
  BY DEF Worth, latest
<1> SUFFICES ASSUME q.op \in Analyses \ {"recent"}, q.at = "done"
             PROVE  /\ \A d \in q.before :
                         q.since = Missing \/ t[d].time >= q.since => d \in ToSet(q.rows)
                    /\ \A d \in ToSet(q.rows) \ latest, e \in latest : t[d].time <= t[e].time
                    /\ \A r \in Resources :
                         <<"alert", r>> \in q.answer =>
                           \E d \in latest : t[d].usage[r] # Missing /\ t[d].usage[r] > Alarm
  BY <1>5
<1>6. /\ \A d \in q.before : q.since = Missing \/ s[d].time >= q.since => d \in ToSet(q.rows)
      /\ \A d \in ToSet(q.rows) \ latest, e \in latest : s[d].time <= s[e].time
      /\ \A r \in Resources :
           <<"alert", r>> \in q.answer =>
             \E d \in latest : s[d].usage[r] # Missing /\ s[d].usage[r] > Alarm
  BY <1>4
<1> QED
  BY <1>2, <1>3, <1>6

\* A call goes on: the samples of those that had begun are as they were, and what is
\* stored or going to be is so, but for its own.
LEMMA CallGoesOn ==
    ASSUME ResourceInv, NEW c \in Calls, NEW q \in Requests, call' = [call EXCEPT ![c] = q],
           q.at # "new", UNCHANGED <<backend, service, jobs>>, sample' \in [Calls -> Samples],
           \A d \in Calls : call[d].at # "new" => sample'[d] = sample[d],
           table \subseteq table', table' \subseteq Calls, pending' \subseteq Calls,
           table \union pending \subseteq table' \union pending',
           table' \union pending' \subseteq table \union pending \union {c},
           q.at = "insert" => q.op = "store" /\ c \in table' \union pending',
           q.op = "store" /\ q.at = "done" => c \in table', q.before \subseteq table',
           \A i \in 1 .. Len(q.rows) : call[q.rows[i]].at # "new", Worth(q, sample')
    PROVE  ResourceInv'
<1>0. call \in [Calls -> Requests] /\ \A d \in Calls : CallSound(d)
  BY DEF ResourceInv
<1>1. /\ call' \in [Calls -> Requests] /\ call'[c] = q
      /\ \A d \in Calls \ {c} : call'[d] = call[d]
  BY <1>0
<1>2. \A d : call[d].at # "new" /\ d \in Calls => call'[d].at # "new"
  BY <1>1
<1>3. ASSUME NEW d \in Calls
      PROVE  /\ d \in table' \union pending' => call'[d].at # "new"
             /\ call'[d].at = "insert" => call'[d].op = "store" /\ d \in table' \union pending'
             /\ call'[d].op = "store" /\ call'[d].at = "done" => d \in table'
             /\ call'[d].before \subseteq table'
             /\ \A i \in 1 .. Len(call'[d].rows) : call'[call'[d].rows[i]].at # "new"
             /\ Worth(call'[d], sample')
  <2>1. CASE d = c
    <3>1. \A i \in 1 .. Len(q.rows) : q.rows[i] \in Calls
      BY DEF Requests, Rows
    <3> QED
      BY <1>1, <1>2, <2>1, <3>1
  <2>2. CASE d # c
    <3>1. call'[d] = call[d] /\ CallSound(d) /\ call[d] \in Requests
      BY <1>0, <1>1, <2>2
    <3>2. \A i \in 1 .. Len(call[d].rows) : call[d].rows[i] \in Calls
      BY <3>1 DEF Requests, Rows
    <3>3. \A i \in 1 .. Len(call[d].rows) : call[call[d].rows[i]].at # "new"
      BY <3>1 DEF CallSound
    <3>4. \A e \in call[d].before : e \in Calls /\ call[e].at # "new"
      <4>1. call[d].before \subseteq table /\ table \subseteq Calls
        BY <3>1 DEF CallSound, ResourceInv
      <4>2. \A e \in table : e \in Calls => call[e].at # "new"
        BY <1>0 DEF CallSound
      <4> QED
        BY <4>1, <4>2
    <3>5. Worth(call[d], sample')
      <4>1. Worth(call[d], sample)
        BY <3>1 DEF CallSound
      <4>2. \A e \in call[d].before : sample'[e] = sample[e]
        BY <3>4
      <4>3. \A i \in 1 .. Len(call[d].rows) : sample'[call[d].rows[i]] = sample[call[d].rows[i]]
        BY <3>2, <3>3
      <4> QED
        BY <3>1, <4>1, <4>2, <4>3, WorthStays
    <3>6. \A i \in 1 .. Len(call[d].rows) : call'[call[d].rows[i]].at # "new"
      BY <1>2, <3>2, <3>3
    <3>7. /\ d \in table \union pending => call[d].at # "new"
          /\ call[d].at = "insert" => call[d].op = "store" /\ d \in table \union pending
          /\ call[d].op = "store" /\ call[d].at = "done" => d \in table
          /\ call[d].before \subseteq table
      BY <3>1 DEF CallSound
    <3> QED
      BY <2>2, <3>1, <3>5, <3>6, <3>7
  <2> QED
    BY <2>1, <2>2
<1>4. \A d \in Calls : CallSound(d)'
  BY <1>3 DEF CallSound
<1> QED
  BY <1>1, <1>4 DEF ResourceInv

\* How a call is changed.
LEMMA RequestAt ==
    ASSUME NEW q \in Requests, NEW at \in Ats
    PROVE  /\ [q EXCEPT !.at = at] \in Requests /\ [q EXCEPT !.at = at].at = at
           /\ [q EXCEPT !.at = at].op = q.op /\ [q EXCEPT !.at = at].before = q.before
           /\ [q EXCEPT !.at = at].rows = q.rows
           /\ \A s : at # "done" \/ q.op \notin Analyses => Worth([q EXCEPT !.at = at], s)
<1> DEFINE p == [q EXCEPT !.at = at]
<1>1. p \in Requests /\ p.at = at /\ p.op = q.op /\ p.before = q.before /\ p.rows = q.rows
  BY DEF Requests
<1> HIDE DEF p
<1>2. \A s : at # "done" \/ q.op \notin Analyses => Worth(p, s)
  BY <1>1 DEF Worth
<1> QED
  BY <1>1, <1>2 DEF p

\* The same, when nothing else changes.
LEMMA CallEnds ==
    ASSUME ResourceInv, NEW c \in Calls, NEW q \in Requests, call' = [call EXCEPT ![c] = q],
           UNCHANGED <<backend, service, jobs, table, pending, sample>>,
           q.at \in {"done", "error"}, q.op # "store", q.before \subseteq table,
           \A i \in 1 .. Len(q.rows) : call[q.rows[i]].at # "new", Worth(q, sample)
    PROVE  ResourceInv'
<1>1. /\ table \subseteq Calls /\ pending \subseteq Calls /\ sample \in [Calls -> Samples]
  BY DEF ResourceInv
<1>2. table' = table /\ pending' = pending /\ sample' = sample /\ Worth(q, sample')
  OBVIOUS
<1>3. /\ sample' \in [Calls -> Samples]
      /\ \A d \in Calls : call[d].at # "new" => sample'[d] = sample[d]
      /\ table \subseteq table' /\ table' \subseteq Calls /\ pending' \subseteq Calls
      /\ table \union pending \subseteq table' \union pending'
      /\ table' \union pending' \subseteq table \union pending \union {c}
      /\ q.before \subseteq table'
  BY <1>1, <1>2
<1> QED
  BY <1>2, <1>3, CallGoesOn

LEMMA AckedStored == ResourceInv => Acked \subseteq table /\ Acked \in Befores
  BY DEF ResourceInv, CallSound, Acked, Befores

\* A call begins, and if it is to store a sample that is its own.
LEMMA BeginOK ==
    ASSUME ResourceInv, NEW c \in Calls, NEW op \in Ops, NEW start \in Starts, Begin(c, op, start),
           sample' \in [Calls -> Samples], \A d \in Calls \ {c} : sample'[d] = sample[d]
    PROVE  ResourceInv'
<1> DEFINE at == Connected
           acked == Acked
           q == [Unmade EXCEPT !.op = op, !.at = at, !.before = acked, !.since = start]
<1>1. /\ call[c].at = "new" /\ call' = [call EXCEPT ![c] = q]
      /\ UNCHANGED <<backend, service, jobs, table, pending>>
  BY DEF Begin
<1>2. at \in {"conn", "refused"}
  BY DEF Connected
<1>3. acked \subseteq table /\ acked \in Befores
  BY AckedStored
<1> HIDE DEF at, acked
<1>4. at \in Ats /\ at # "new" /\ at # "insert" /\ at # "done"
  BY <1>2 DEF Ats
<1>5. /\ q.op = op /\ q.at = at /\ q.before = acked /\ q.rows = <<>> /\ q \in Requests
  BY <1>3, <1>4, UnmadeIs DEF Requests
<1> HIDE DEF q
<1>6. Worth(q, sample')
  BY <1>4, <1>5 DEF Worth
<1>7. table \subseteq Calls /\ pending \subseteq Calls
  BY DEF ResourceInv
<1>8. \A d \in Calls : call[d].at # "new" => sample'[d] = sample[d]
  BY <1>1
<1>9. \A i \in 1 .. Len(q.rows) : call[q.rows[i]].at # "new"
  BY <1>5, UnmadeIs
<1> QED
  BY <1>1, <1>3, <1>4, <1>5, <1>6, <1>7, <1>8, <1>9, CallGoesOn

LEMMA AnalyseOK ==
    ASSUME ResourceInv, NEW c \in Calls, NEW rows, Analyse(c, rows)
    PROVE  ResourceInv'
<1> DEFINE q == call[c]
           kept == IF q.op = "recent" THEN LastOf(rows, Short) ELSE Within(rows, q.since)
<1>0. /\ table \subseteq Calls /\ pending \subseteq Calls /\ q \in Requests
      /\ sample \in [Calls -> Samples] /\ \A d \in Calls : CallSound(d)
  BY DEF ResourceInv
<1>1. /\ q.op \in Analyses /\ q.at = "conn" /\ Read(rows)
      /\ UNCHANGED <<backend, service, jobs, table, pending, sample>>
      /\ call' = [call EXCEPT ![c] =
                    IF Incomparable(rows, q.since) THEN [q EXCEPT !.at = "error"]
                    ELSE [q EXCEPT !.at = "done", !.rows = kept,
                                   !.answer = ToSet(Advice(q.op, kept))]]
  BY DEF Analyse
<1>v. Visible \subseteq table \union pending /\ table \subseteq Visible /\ Visible \subseteq Calls
  BY <1>0 DEF Visible
<1>2. /\ rows \in Rows /\ Sorted(rows)
      /\ \A d \in Visible : \E i \in 1 .. Len(rows) : d = rows[i]
  BY <1>1, <1>v, ReadAll
<1>b. q.before \subseteq table /\ \A i \in 1 .. Len(q.rows) : call[q.rows[i]].at # "new"
  BY <1>0 DEF CallSound
<1>3. CASE Incomparable(rows, q.since)
  <2> DEFINE p == [q EXCEPT !.at = "error"]
  <2>1. call' = [call EXCEPT ![c] = p]
    BY <1>1, <1>3
  <2>2. "error" \in Ats
    BY DEF Ats
  <2>3. /\ p \in Requests /\ p.at = "error" /\ p.before = q.before /\ p.rows = q.rows
        /\ Worth(p, sample)
    BY <1>0, <2>2, RequestAt
  <2>4. p.op # "store"
    BY <1>0, <1>1, <2>2, RequestAt DEF Analyses
  <2>5. \A i \in 1 .. Len(p.rows) : call[p.rows[i]].at # "new"
    BY <1>b, <2>3
  <2> HIDE DEF p, q
  <2>6. p.at \in {"done", "error"} /\ p.before \subseteq table
    BY <1>b, <2>3
  <2> QED
    BY <1>1, <2>1, <2>3, <2>4, <2>5, <2>6, CallEnds
<1>4. CASE ~Incomparable(rows, q.since)
  <2> DEFINE answer == ToSet(Advice(q.op, kept))
             p == [q EXCEPT !.at = "done", !.rows = kept, !.answer = answer]
  <2>1. call' = [call EXCEPT ![c] = p]
    BY <1>1, <1>4
  <2>2. PICK k \in 0 .. Len(rows) :
          /\ Behind(kept, rows, k)
          /\ q.op # "recent" =>
               \A i \in 1 .. Len(rows) : q.since = Missing \/ sample[rows[i]].time >= q.since => i > k
    <3>1. CASE q.op = "recent"
      <4>1. kept = LastOf(rows, Short)
        BY <3>1
      <4> QED
        BY <1>2, <3>1, <4>1, LastOfBehind, ResourceAssumption
    <3>2. CASE q.op # "recent"
      <4>1. kept = Within(rows, q.since)
        BY <3>2
      <4> HIDE DEF kept
      <4> QED
        BY <1>2, <3>2, <4>1, WithinBehind
    <3> QED
      BY <3>1, <3>2
  <2>3. answer \in Tellings
        /\ \A r : <<"alert", r>> \in answer => r \in Resources /\ Exceeds(LastOf(kept, Short), r, Alarm)
    BY <1>1, AdviceTells DEF Tellings
  <2> HIDE DEF answer, kept
  <2>4. kept \in Rows /\ Sorted(kept)
    BY <1>2, <2>2, BehindSorted DEF Behind
  <2>5. /\ p \in Requests /\ p.op = q.op /\ p.at = "done" /\ p.since = q.since
        /\ p.before = q.before /\ p.rows = kept /\ p.answer = answer
    <3>1. "done" \in Ats /\ q \in Requests
      BY <1>0 DEF Ats
    <3> HIDE DEF q
    <3> QED
      BY <2>3, <2>4, <3>1 DEF Requests
  <2> HIDE DEF p
  <2>k. Len(rows) \in Nat /\ k \in Nat /\ Len(kept) = Len(rows) - k /\ Len(kept) \in Nat
        /\ \A i \in 1 .. Len(kept) : kept[i] = rows[k + i]
    BY <1>2, <2>2, <2>4 DEF Behind, Rows
  <2>6. \A i \in 1 .. Len(kept) : call[kept[i]].at # "new"
    <3> SUFFICES ASSUME NEW i \in 1 .. Len(kept) PROVE call[kept[i]].at # "new"
      OBVIOUS
    <3>1. k + i \in 1 .. Len(rows) /\ kept[i] = rows[k + i]
      BY <2>k
    <3>2. rows \in [1 .. Cardinality(Visible) -> Visible] /\ DOMAIN rows = 1 .. Len(rows)
      BY <1>1, <1>2 DEF Read, SetToSeqs, Rows
    <3>3. kept[i] \in Visible
      BY <3>1, <3>2
    <3>4. kept[i] \in Calls /\ kept[i] \in table \union pending
      BY <1>v, <3>3
    <3> QED
      BY <1>0, <3>4 DEF CallSound
  <2>7. Worth(p, sample)
    <3> DEFINE latest == ToSet(LastOf(kept, Short))
    <3> SUFFICES ASSUME q.op # "recent"
                 PROVE  /\ \A d \in q.before :
                              q.since = Missing \/ sample[d].time >= q.since => d \in ToSet(kept)
                        /\ \A d \in ToSet(kept) \ latest, e \in latest : sample[d].time <= sample[e].time
                        /\ \A r \in Resources :
                             <<"alert", r>> \in answer =>
                               \E d \in latest : sample[d].usage[r] # Missing /\ sample[d].usage[r] > Alarm
      BY <2>5 DEF Worth
    <3>1. PICK j \in 0 .. Len(kept) : Behind(LastOf(kept, Short), kept, j)
      BY <2>4, LastOfBehind, ResourceAssumption
    <3> DEFINE last == LastOf(kept, Short)
    <3>2. last \in Rows /\ j \in Nat /\ Len(last) = Len(kept) - j /\ Len(last) \in Nat
          /\ \A i \in 1 .. Len(last) : last[i] = kept[j + i]
      BY <2>k, <3>1 DEF Behind, Rows
    <3>3. latest = ToSet(last)
      OBVIOUS
    <3> HIDE DEF last, latest
    <3>4. ASSUME NEW d \in q.before, q.since = Missing \/ sample[d].time >= q.since
          PROVE  d \in ToSet(kept)
      <4>1. d \in Visible
        BY <1>b, <1>v
      <4>2. PICK i \in 1 .. Len(rows) : d = rows[i]
        BY <1>2, <4>1
      <4>3. i > k
        BY <2>2, <3>4, <4>2
      <4>4. i - k \in 1 .. Len(kept) /\ k + (i - k) = i
        BY <2>k, <4>2, <4>3
      <4>5. kept[i - k] = d
        BY <2>k, <4>2, <4>4
      <4> QED
        BY <2>4, <4>4, <4>5, ToSetOf
    <3>5. ASSUME NEW d \in ToSet(kept) \ latest, NEW e \in latest
          PROVE  sample[d].time <= sample[e].time
      <4>1. PICK i \in 1 .. Len(kept) : d = kept[i]
        BY <2>4, ToSetOf
      <4>2. PICK m \in 1 .. Len(last) : e = last[m]
        BY <3>2, <3>3, ToSetOf
      <4>3. e = kept[j + m] /\ j + m \in 1 .. Len(kept)
        BY <2>k, <3>2, <4>2
      <4>4. ~ (i > j)
        <5> SUFFICES ASSUME i > j PROVE FALSE
          OBVIOUS
        <5>1. i - j \in 1 .. Len(last) /\ j + (i - j) = i
          BY <2>k, <3>2, <4>1
        <5>2. last[i - j] = d
          BY <3>2, <4>1, <5>1
        <5> QED
          BY <3>2, <3>3, <5>1, <5>2, ToSetOf
      <4>5. i < j + m
        BY <3>2, <4>1, <4>2, <4>4
      <4> QED
        BY <2>4, <4>1, <4>3, <4>5 DEF Sorted
    <3>6. ASSUME NEW r \in Resources, <<"alert", r>> \in answer
          PROVE  \E d \in latest : sample[d].usage[r] # Missing /\ sample[d].usage[r] > Alarm
      <4>1. Exceeds(last, r, Alarm)
        BY <2>3, <3>6 DEF last
      <4>2. PICK i \in 1 .. Len(last) :
              sample[last[i]].usage[r] # Missing /\ sample[last[i]].usage[r] > Alarm
        BY <1>0, <3>2, <4>1, ExceedsTells, ResourceAssumption
      <4>3. last[i] \in latest
        BY <3>2, <3>3, <4>2, ToSetOf
      <4> QED
        BY <4>2, <4>3
    <3> QED
      BY <3>4, <3>5, <3>6
  <2>8. p.op # "store" /\ p.at \in {"done", "error"} /\ p.before \subseteq table
    BY <1>1, <1>b, <2>5 DEF Analyses
  <2>9. \A i \in 1 .. Len(p.rows) : call[p.rows[i]].at # "new"
    BY <2>5, <2>6
  <2> HIDE DEF q
  <2> QED
    BY <1>1, <2>1, <2>5, <2>7, <2>8, <2>9, CallEnds
<1> QED
  BY <1>3, <1>4

LEMMA ResourceNextOK == ResourceInv /\ [ResourceNext]_resourceVars => ResourceInv'
<1> SUFFICES ASSUME ResourceInv, [ResourceNext]_resourceVars PROVE ResourceInv'
  OBVIOUS
<1>0. /\ table \subseteq Calls /\ pending \subseteq Calls /\ call \in [Calls -> Requests]
      /\ sample \in [Calls -> Samples] /\ \A d \in Calls : CallSound(d)
  BY DEF ResourceInv
<1>u. ASSUME UNCHANGED stored, service' \in {"down", "collecting", "created", "up", "failed"},
             jobs' \subseteq {"collect_metrics", "aggregate"}
      PROVE  ResourceInv'
  BY <1>u DEF stored, ResourceInv, CallSound
<1>1. CASE StartCollection \/ CreateAggregate \/ StartScheduler
  <2>1. UNCHANGED stored
    BY <1>1 DEF StartCollection, CreateAggregate, StartScheduler
  <2>2. /\ service' \in {"down", "collecting", "created", "up", "failed"}
        /\ jobs' \subseteq {"collect_metrics", "aggregate"}
    BY <1>1 DEF StartCollection, CreateAggregate, StartScheduler, ResourceInv
  <2> QED
    BY <1>u, <2>1, <2>2
<1>2. CASE Kill
  <2>1. /\ service' = "down" /\ jobs' = {} /\ pending' = {} /\ UNCHANGED <<backend, table, sample>>
        /\ call' = [c \in Calls |-> IF c \in Busy THEN [call[c] EXCEPT !.at = "lost"] ELSE call[c]]
    BY <1>2 DEF Kill
  <2>2. ASSUME NEW c \in Calls
        PROVE  /\ call'[c] \in Requests /\ call'[c].op = call[c].op /\ call'[c].rows = call[c].rows
               /\ call'[c].before = call[c].before /\ Worth(call'[c], sample)
               /\ call'[c].at = "lost" \/ (call'[c].at = call[c].at /\ call[c].at # "insert")
    <3>1. call[c] \in Requests /\ CallSound(c) /\ "lost" \in Ats
      BY <1>0 DEF Ats
    <3>2. CASE c \in Busy
      <4>1. call'[c] = [call[c] EXCEPT !.at = "lost"]
        BY <2>1, <3>2
      <4> QED
        BY <3>1, <4>1, RequestAt
    <3>3. CASE c \notin Busy
      <4>1. call'[c] = call[c] /\ call[c].at # "insert"
        BY <2>1, <3>3 DEF Busy
      <4> QED
        BY <3>1, <4>1 DEF CallSound
    <3> QED
      BY <3>2, <3>3
  <2>3. \A d \in Calls : call[d].at # "new" => call'[d].at # "new"
    BY <2>2
  <2>4. ASSUME NEW c \in Calls
        PROVE  /\ c \in table' \union pending' => call'[c].at # "new"
               /\ call'[c].at # "insert"
               /\ call'[c].op = "store" /\ call'[c].at = "done" => c \in table'
               /\ call'[c].before \subseteq table'
               /\ \A i \in 1 .. Len(call'[c].rows) : call'[call'[c].rows[i]].at # "new"
               /\ Worth(call'[c], sample')
    <3>1. /\ c \in table => call[c].at # "new"
          /\ call[c].op = "store" /\ call[c].at = "done" => c \in table
          /\ call[c].before \subseteq table
          /\ \A i \in 1 .. Len(call[c].rows) : call[call[c].rows[i]].at # "new"
      BY <1>0 DEF CallSound
    <3>2. \A i \in 1 .. Len(call[c].rows) : call[c].rows[i] \in Calls
      BY <1>0 DEF Requests, Rows
    <3>3. \A i \in 1 .. Len(call[c].rows) : call'[call[c].rows[i]].at # "new"
      BY <2>3, <3>1, <3>2
    <3> QED
      BY <2>1, <2>2, <3>1, <3>3
  <2>5. \A c \in Calls : CallSound(c)'
    BY <2>4 DEF CallSound
  <2>6. call' \in [Calls -> Requests]
    BY <2>1, <2>2
  <2> QED
    BY <1>0, <2>1, <2>5, <2>6 DEF ResourceInv
<1>3. ASSUME NEW c \in Calls, NEW time \in Moments, NEW usage \in Usages, NEW zone \in BOOLEAN,
             AddMetric(c, time, zone, usage)
      PROVE  ResourceInv'
  <2> DEFINE x == [time |-> time, zone |-> zone, usage |-> usage]
  <2>1. Begin(c, "store", Missing) /\ sample' = [sample EXCEPT ![c] = x]
    BY <1>3 DEF AddMetric
  <2>2. x \in Samples
    BY DEF Samples, Measured
  <2> HIDE DEF x
  <2>3. sample' \in [Calls -> Samples] /\ \A d \in Calls \ {c} : sample'[d] = sample[d]
    BY <1>0, <2>1, <2>2
  <2>4. "store" \in Ops /\ Missing \in Starts
    BY DEF Ops, Starts
  <2> QED
    BY <2>1, <2>3, <2>4, BeginOK
<1>4. ASSUME NEW c \in Calls, NEW time \in Moments, NEW usage \in Usages, RecordUsage(c, time, usage)
      PROVE  ResourceInv'
  <2>1. AddMetric(c, time, TRUE, usage) /\ TRUE \in BOOLEAN
    BY <1>4 DEF RecordUsage
  <2> QED
    BY <1>3, <2>1
<1>5. ASSUME NEW c \in Calls, NEW op \in Analyses, NEW start \in Starts, Ask(c, op, start)
      PROVE  ResourceInv'
  <2>1. Begin(c, op, start) /\ sample' = sample
    BY <1>5 DEF Ask
  <2>2. op \in Ops
    BY DEF Ops
  <2> QED
    BY <1>0, <2>1, <2>2, BeginOK
<1>6. ASSUME NEW c \in Calls, Insert(c) PROVE ResourceInv'
  <2> DEFINE q == [call[c] EXCEPT !.at = "insert"]
  <2>1. /\ call[c].op = "store" /\ call[c].at = "conn" /\ call' = [call EXCEPT ![c] = q]
        /\ pending' = pending \union {c} /\ UNCHANGED <<backend, service, jobs, table, sample>>
    BY <1>6 DEF Insert, Reach
  <2>2. "insert" \in Ats /\ call[c] \in Requests
    BY <1>0 DEF Ats
  <2>3. /\ q \in Requests /\ q.at = "insert" /\ q.op = "store" /\ q.before = call[c].before
        /\ q.rows = call[c].rows /\ Worth(q, sample)
    BY <2>1, <2>2, RequestAt
  <2> HIDE DEF q
  <2>4. q.before \subseteq table /\ \A i \in 1 .. Len(q.rows) : call[q.rows[i]].at # "new"
    BY <1>0, <2>3 DEF CallSound
  <2> QED
    BY <1>0, <2>1, <2>3, <2>4, CallGoesOn
<1>7. ASSUME NEW c \in Calls, Commit(c) PROVE ResourceInv'
  <2> DEFINE q == [call[c] EXCEPT !.at = "done"]
             mine == IF backend = "sqlite" THEN pending ELSE {c}
  <2>1. /\ call[c].at = "insert" /\ call' = [call EXCEPT ![c] = q]
        /\ table' = table \union mine /\ pending' = pending \ mine
        /\ UNCHANGED <<backend, service, jobs, sample>>
    BY <1>7 DEF Commit, Reach
  <2>2. call[c].op = "store" /\ c \in table \union pending /\ call[c] \in Requests
    BY <1>0, <2>1 DEF CallSound
  <2>3. mine \subseteq table \union pending /\ c \in table \union mine
    BY <2>2
  <2> HIDE DEF mine
  <2>4. "done" \in Ats /\ "store" \notin Analyses
    BY DEF Ats, Analyses
  <2>5. /\ q \in Requests /\ q.at = "done" /\ q.op = "store" /\ q.before = call[c].before
        /\ q.rows = call[c].rows /\ Worth(q, sample)
    BY <2>2, <2>4, RequestAt
  <2> HIDE DEF q
  <2>6. call[c].before \subseteq table /\ \A i \in 1 .. Len(q.rows) : call[q.rows[i]].at # "new"
    BY <1>0, <2>5 DEF CallSound
  <2>7. /\ table' \subseteq Calls /\ pending' \subseteq Calls /\ table \subseteq table'
        /\ table \union pending \subseteq table' \union pending'
        /\ table' \union pending' \subseteq table \union pending \union {c}
        /\ q.before \subseteq table' /\ c \in table'
    BY <1>0, <2>1, <2>3, <2>5, <2>6
  <2> QED
    BY <1>0, <2>1, <2>5, <2>6, <2>7, CallGoesOn
<1>8. CASE UNCHANGED resourceVars
  BY <1>8 DEF resourceVars, ResourceInv, CallSound
<1> QED
  BY <1>1, <1>2, <1>3, <1>4, <1>5, <1>6, <1>7, <1>8, AnalyseOK DEF ResourceNext, Moments, Starts

\* Whatever threads share the connection, whichever backend there is and whenever the
\* process is killed, an analysis is of every sample acknowledged before it was asked
\* for, the latest last, and an alert is about a sample among the latest.
THEOREM AnalysesSoundHolds == ResourceSpec => []AnalysesSound
<1>1. ResourceInv => AnalysesSound
  BY ResourceTyped
<1> QED
  BY <1>1, ResourceInitOK, ResourceNextOK, PTL DEF ResourceSpec

-----------------------------------------------------------------------------
(***************************************************************************)
(* All parts together.                                                     *)
(***************************************************************************)

OperationsInv ==
    /\ AccountTypes
    /\ RulesInv /\ RulesBounds
    /\ ResourceInv
    /\ KeyInv /\ KeyBounds
    /\ SpotInv
    /\ ReportInv
    /\ StepsInv

operationsVars == <<part, accountVars, rulesVars, resourceVars, keyVars, spotVars, reportVars, stepVars>>

LEMMA OperationsInitOK == MCInit => OperationsInv
<1> SUFFICES ASSUME MCInit PROVE OperationsInv
  OBVIOUS
<1>1. /\ AccountInit /\ RulesInit /\ ResourceInit /\ KeyInit /\ SpotInit /\ ReportInit /\ StepsInit
  BY DEF MCInit
<1> QED
  BY <1>1, AccountTypesInit, RulesInitOK, RulesBoundsInit, ResourceInitOK, KeyInitOK,
     KeyBoundsInit, SpotInitOK, ReportInitOK, StepsInitOK DEF OperationsInv

LEMMA OperationsNextOK == OperationsInv /\ [MCNext]_operationsVars => OperationsInv'
<1> SUFFICES ASSUME OperationsInv, [MCNext]_operationsVars PROVE OperationsInv'
  OBVIOUS
<1>1. /\ [AccountNext]_accountVars /\ [RulesNext]_rulesVars /\ [ResourceNext]_resourceVars
      /\ [KeyNext]_keyVars /\ [SpotNext]_spotVars /\ [ReportNext]_reportVars /\ [StepsNext]_stepVars
  BY DEF MCNext, operationsVars
<1> QED
  BY <1>1, AccountTypesOK, RulesNextOK, RulesBoundsOK, ResourceNextOK, KeyNextOK, KeyBoundsOK,
     SpotNextOK, ReportNextOK, StepsNextOK DEF OperationsInv

\* Every variable keeps its type and its bound: the keys IAM allows, the attempts of a
\* call and of a run, the one row of a marketplace, the saves, events and times of the
\* file of rules.
THEOREM OperationsTypeOKHolds == MCSpec => []OperationsTypeOK
<1>1. OperationsInv => OperationsTypeOK
  BY AccountTyped, RulesTyped, ResourceTyped, KeyTyped, SpotTyped, ReportTyped, StepsTyped
  DEF OperationsInv, OperationsTypeOK
<1> QED
  BY <1>1, OperationsInitOK, OperationsNextOK, PTL DEF MCSpec, operationsVars
=============================================================================
