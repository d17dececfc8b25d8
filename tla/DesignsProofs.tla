------------------------------ MODULE DesignsProofs ------------------------------
(***************************************************************************)
(* Proofs about scores, mockups and what becomes of them: how long a score *)
(* outlives the weights it is built on, and how far one run of the         *)
(* feedback job moves them; that a mockup is drawn by the model that was   *)
(* asked for and its row leads to an image; that what is told of designs   *)
(* is whole and does not shrink.  For any number of sources, sessions,     *)
(* readers, models, processes, images, jobs, listings, shows and days.     *)
(***************************************************************************)
EXTENDS MCDesigns, FiniteSetTheorems, TLAPS

-----------------------------------------------------------------------------
(***************************************************************************)
(* The weights of the scoring engine.                                      *)
(***************************************************************************)

RowShape == [source : Sources, weight : Weight]

SessionShape == [at : {"idle", "read", "write"}, smooth : BOOLEAN, target : Weight, weight : Weight]

ReaderShape == [at : {"idle", "weights", "create", "store"}, weight : Weight, age : 0 .. MaxCompute]

WeightsShape ==
    /\ table \in [Ids -> RowShape \union {NoRow}]
    /\ session \in [Sessions -> SessionShape]
    /\ reader \in [Scorers -> ReaderShape]
    /\ cached \in [weight : Weight, ttl : 1 .. CacheTtl] \union {NoScore}
    /\ held \in [Weight -> 0 .. Longest]

\* A weight that is in a row has gone for no time.
RowsHeld ==
    /\ \A i \in Present : held[table[i].weight] = 0
    /\ \A u \in Sessions : session[u].at = "write" => 1 \in Present

\* What a reader has read was in a row since it began to compute, and what it has made
\* itself is the default.
ReadsHeld ==
    \A r \in Scorers :
        /\ reader[r].at = "store" => held[reader[r].weight] <= reader[r].age
        /\ reader[r].at # "store" => reader[r].weight = Default /\ reader[r].age = 0

\* A cached score was computed in time, and ages with its TTL.
ScoreHeld == cached # NoScore => held[cached.weight] + cached.ttl <= MaxCompute + CacheTtl

\* Each request of the job is a smoothed session that is open, or one that is over.
Smoothing == {u \in Sessions : session[u].smooth}

JobInv ==
    /\ applied \in Nat /\ tries \in Nat /\ IsFiniteSet(Smoothing)
    /\ \A u \in Sessions : session[u].at = "idle" => ~session[u].smooth
    /\ applied + Cardinality(Smoothing) <= tries

WeightsInv == WeightsShape /\ RowsHeld /\ ReadsHeld /\ ScoreHeld

USE WeightsAssumption

LEMMA WeightBounds == Weight \subseteq Nat /\ Longest \in Nat /\ Longest = CacheTtl + MaxCompute + 1
                      /\ Default \in Weight
  BY DEF Weight, Longest

LEMMA HeldNat ==
    ASSUME WeightsInv
    PROVE  \A v \in Weight : held[v] \in Nat /\ held[v] >= 0 /\ held[v] <= Longest
<1>1. \A v \in Weight : held[v] \in 0 .. Longest
  BY DEF WeightsInv, WeightsShape
<1> QED
  BY <1>1, WeightBounds

LEMMA RestShapes ==
    /\ Idle \in SessionShape /\ Idle.at = "idle" /\ ~Idle.smooth
    /\ Waiting \in ReaderShape /\ Waiting.at = "idle" /\ Waiting.weight = Default /\ Waiting.age = 0
  BY DEF Idle, Waiting, SessionShape, ReaderShape

-----------------------------------------------------------------------------
(***************************************************************************)
(* The smoothing keeps a weight between two.                               *)
(***************************************************************************)

LEMMA QuotientBound ==
    ASSUME NEW a \in Nat, NEW b \in Nat \ {0}, NEW c \in Nat, a <= c * b
    PROVE  a \div b \in 0 .. c
<1>1. a \div b \in Int /\ b * (a \div b) <= a /\ a < b * (a \div b) + b
  OBVIOUS
<1>2. a \div b >= 0
  <2>1. ASSUME a \div b <= -1 PROVE FALSE
    <3>1. b * (a \div b) <= b * (-1)
      BY <1>1, <2>1
    <3> QED
      BY <1>1, <3>1
  <2> QED
    BY <1>1, <2>1
<1>3. a \div b <= c
  <2>1. ASSUME a \div b >= c + 1 PROVE FALSE
    <3>1. b * (a \div b) >= b * (c + 1)
      BY <1>1, <2>1
    <3>2. b * (c + 1) = c * b + b
      OBVIOUS
    <3> QED
      BY <1>1, <3>1, <3>2
  <2> QED
    BY <1>1, <2>1
<1> QED
  BY <1>1, <1>2, <1>3

LEMMA SmoothedWeight ==
    ASSUME NEW v \in Weight, NEW target \in Weight PROVE Smoothed(v, target) \in Weight
<1>1. v \in Nat /\ target \in Nat /\ v <= Scale /\ target <= Scale /\ Inertia - 1 \in Nat
  BY DEF Weight
<1>2. v * (Inertia - 1) \in Nat /\ v * (Inertia - 1) <= Scale * (Inertia - 1)
  BY <1>1
<1>3. Scale * (Inertia - 1) + Scale = Scale * Inertia
  OBVIOUS
<1>4. v * (Inertia - 1) + target \in Nat /\ v * (Inertia - 1) + target <= Scale * Inertia
  BY <1>1, <1>2, <1>3
<1> QED
  BY <1>4, QuotientBound DEF Smoothed, Weight

-----------------------------------------------------------------------------
(***************************************************************************)
(* Scores.                                                                 *)
(***************************************************************************)

LEMMA WeightsInitOK == WeightsInit => WeightsInv
<1> SUFFICES ASSUME WeightsInit PROVE WeightsInv
  OBVIOUS
<1>1. WeightsShape
  BY WeightBounds, RestShapes DEF WeightsInit, WeightsShape
<1>2. Present = {} /\ RowsHeld
  BY RestShapes DEF WeightsInit, Present, RowsHeld
<1>3. ReadsHeld /\ ScoreHeld
  BY RestShapes DEF WeightsInit, ReadsHeld, ScoreHeld
<1> QED
  BY <1>1, <1>2, <1>3 DEF WeightsInv

\* Weights that are put into rows are held now; nothing else is held any longer.
LEMMA HeldAnew ==
    ASSUME WeightsInv, table' \in [Ids -> RowShape \union {NoRow}],
           held' \in [Weight -> 0 .. Longest], \A v \in Weight : held'[v] \in {0, held[v]},
           \A i \in Present' : held'[table'[i].weight] = 0, Present \subseteq Present',
           session' \in [Sessions -> SessionShape],
           \A u \in Sessions : session'[u].at = "write" => session[u].at = "write",
           cached' = cached, reader' \in [Scorers -> ReaderShape], ReadsHeld'
    PROVE  WeightsInv'
<1>1. WeightsShape'
  BY DEF WeightsInv, WeightsShape
<1>2. RowsHeld'
  BY DEF WeightsInv, RowsHeld
<1>3. ScoreHeld'
  <2> SUFFICES ASSUME cached # NoScore
               PROVE  held'[cached.weight] + cached.ttl <= MaxCompute + CacheTtl
    BY DEF ScoreHeld
  <2>1. cached.weight \in Weight /\ cached.ttl \in 1 .. CacheTtl
    BY DEF WeightsInv, WeightsShape
  <2>2. held[cached.weight] \in Nat /\ held'[cached.weight] \in {0, held[cached.weight]}
    BY <2>1, HeldNat
  <2>3. held[cached.weight] + cached.ttl <= MaxCompute + CacheTtl
    BY DEF WeightsInv, ScoreHeld
  <2> QED
    BY <2>1, <2>2, <2>3
<1> QED
  BY <1>1, <1>2, <1>3 DEF WeightsInv

LEMMA InsertHeld ==
    ASSUME WeightsInv, NEW i, NEW source \in Sources, Insert(i, source)
    PROVE  /\ table' \in [Ids -> RowShape \union {NoRow}]
           /\ held' \in [Weight -> 0 .. Longest] /\ \A v \in Weight : held'[v] \in {0, held[v]}
           /\ \A j \in Present' : held'[table'[j].weight] = 0
           /\ Present \subseteq Present' /\ held'[Default] = 0
<1> DEFINE row == [source |-> source, weight |-> Default]
<1>1. row \in RowShape /\ row.weight = Default
  BY WeightBounds DEF RowShape
<1>2. table' = [table EXCEPT ![i] = row] /\ held' = [held EXCEPT ![Default] = 0]
  BY DEF Insert
<1> HIDE DEF row
<1>3. table' \in [Ids -> RowShape \union {NoRow}] /\ held' \in [Weight -> 0 .. Longest]
      /\ \A v \in Weight : held'[v] = IF v = Default THEN 0 ELSE held[v]
  <2>1. 0 \in 0 .. Longest
    BY WeightBounds
  <2>2. held \in [Weight -> 0 .. Longest] /\ table \in [Ids -> RowShape \union {NoRow}]
    BY DEF WeightsInv, WeightsShape
  <2> QED
    BY <1>1, <1>2, <2>1, <2>2
<1>4. \A j \in Ids : table'[j] = IF j = i THEN row ELSE table[j]
  BY <1>2 DEF WeightsInv, WeightsShape
<1>5. Present \subseteq Present'
  BY <1>1, <1>4 DEF Present, RowShape
<1>6. ASSUME NEW j \in Present' PROVE held'[table'[j].weight] = 0
  <2>1. CASE j = i
    BY <1>1, <1>3, <1>4, <2>1, WeightBounds DEF Present
  <2>2. CASE j # i
    <3>1. j \in Present /\ table'[j] = table[j] /\ table[j].weight \in Weight
      BY <1>4, <2>2 DEF Present, WeightsInv, WeightsShape, RowShape
    <3> QED
      BY <1>3, <3>1 DEF WeightsInv, RowsHeld
  <2> QED
    BY <2>1, <2>2
<1> QED
  BY <1>3, <1>5, <1>6, WeightBounds

\* The steps of the database, the job and the sessions that are not over a row.
LEMMA RowsKept ==
    ASSUME WeightsInv, UNCHANGED <<table, held, cached>>, session' \in [Sessions -> SessionShape],
           \A u \in Sessions : session'[u].at = "write" => session[u].at = "write" \/ 1 \in Present,
           reader' \in [Scorers -> ReaderShape], ReadsHeld'
    PROVE  WeightsInv'
  BY DEF WeightsInv, WeightsShape, RowsHeld, ScoreHeld, Present

\* A reader takes a step, from which its age and weight are what they should be.
LEMMA ReaderStep ==
    ASSUME WeightsInv, NEW r \in Scorers, NEW q \in ReaderShape, reader' = [reader EXCEPT ![r] = q],
           \A v \in Weight : held'[v] \in {0, held[v]},
           q.at = "store" => held'[q.weight] <= q.age,
           q.at # "store" => q.weight = Default /\ q.age = 0
    PROVE  reader' \in [Scorers -> ReaderShape] /\ ReadsHeld'
<1>1. /\ reader' \in [Scorers -> ReaderShape]
      /\ \A s \in Scorers : reader'[s] = IF s = r THEN q ELSE reader[s]
  BY DEF WeightsInv, WeightsShape
<1>2. ASSUME NEW s \in Scorers, s # r, reader[s].at = "store" PROVE held'[reader[s].weight] <= reader[s].age
  <2>1. reader[s].weight \in Weight /\ reader[s].age \in Nat
    BY DEF WeightsInv, WeightsShape, ReaderShape
  <2>2. held[reader[s].weight] <= reader[s].age
    BY <1>2 DEF WeightsInv, ReadsHeld
  <2> QED
    BY <2>1, <2>2
<1> QED
  BY <1>1, <1>2 DEF WeightsInv, ReadsHeld

LEMMA ReadersKept ==
    ASSUME WeightsInv, reader' = reader, \A v \in Weight : held'[v] \in {0, held[v]}
    PROVE  reader' \in [Scorers -> ReaderShape] /\ ReadsHeld'
<1>1. ASSUME NEW s \in Scorers, reader[s].at = "store" PROVE held'[reader[s].weight] <= reader[s].age
  <2>1. reader[s].weight \in Weight /\ reader[s].age \in Nat
    BY DEF WeightsInv, WeightsShape, ReaderShape
  <2>2. held[reader[s].weight] <= reader[s].age
    BY <1>1 DEF WeightsInv, ReadsHeld
  <2> QED
    BY <2>1, <2>2
<1> QED
  BY <1>1 DEF WeightsInv, WeightsShape, ReadsHeld

LEMMA OpenInv ==
    ASSUME WeightsInv, NEW u \in Sessions, NEW target \in Targets, NEW smooth \in BOOLEAN,
           Open(u, target, smooth), UNCHANGED <<table, held, cached, reader>>
    PROVE  WeightsInv'
<1> DEFINE q == [at |-> "read", smooth |-> smooth, target |-> target, weight |-> Default]
<1>1. q \in SessionShape /\ q.at = "read" /\ session' = [session EXCEPT ![u] = q]
  BY WeightBounds DEF SessionShape, Open
<1> HIDE DEF q
<1>2. session' \in [Sessions -> SessionShape]
      /\ \A s \in Sessions : session'[s].at = "write" => session[s].at = "write"
  BY <1>1 DEF WeightsInv, WeightsShape
<1> QED
  BY <1>2, RowsKept, ReadersKept

LEMMA WriteHeld ==
    ASSUME WeightsInv, NEW u \in Sessions, WriteRow(u)
    PROVE  WeightsInv'
<1> DEFINE new == session[u].weight
           row == [table[1] EXCEPT !.weight = new]
<1>1. /\ session[u].at = "write" /\ new \in Weight /\ 1 \in Present /\ 1 \in Ids
      /\ table[1] \in RowShape /\ row \in RowShape /\ row.weight = new /\ table[1].weight \in Weight
  BY DEF WriteRow, WeightsInv, WeightsShape, RowsHeld, SessionShape, RowShape, Present
<1>2. /\ table' = [table EXCEPT ![1] = row] /\ session' = [session EXCEPT ![u] = Idle]
      /\ held' = [held EXCEPT ![new] = 0, ![table[1].weight] = 0] /\ UNCHANGED <<reader, cached>>
  BY DEF WriteRow
<1> HIDE DEF row, new
<1>3. /\ held' \in [Weight -> 0 .. Longest]
      /\ \A v \in Weight : held'[v] = IF v \in {new, table[1].weight} THEN 0 ELSE held[v]
  <2>1. 0 \in 0 .. Longest
    BY WeightBounds
  <2>2. held \in [Weight -> 0 .. Longest]
    BY DEF WeightsInv, WeightsShape
  <2> QED
    BY <1>1, <1>2, <2>1, <2>2
<1>4. /\ table' \in [Ids -> RowShape \union {NoRow}]
      /\ \A j \in Ids : table'[j] = IF j = 1 THEN row ELSE table[j]
  BY <1>1, <1>2 DEF WeightsInv, WeightsShape
<1>5. Present \subseteq Present'
  BY <1>1, <1>4 DEF Present, RowShape
<1>6. ASSUME NEW j \in Present' PROVE held'[table'[j].weight] = 0
  <2>1. CASE j = 1
    BY <1>1, <1>3, <1>4, <2>1
  <2>2. CASE j # 1
    <3>1. j \in Present /\ table'[j] = table[j] /\ table[j].weight \in Weight
      BY <1>4, <2>2 DEF Present, WeightsInv, WeightsShape, RowShape
    <3> QED
      BY <1>3, <3>1 DEF WeightsInv, RowsHeld
  <2> QED
    BY <2>1, <2>2
<1>7. session' \in [Sessions -> SessionShape]
      /\ \A s \in Sessions : session'[s].at = "write" => session[s].at = "write"
  BY <1>2, RestShapes DEF WeightsInv, WeightsShape
<1> QED
  BY <1>2, <1>3, <1>4, <1>5, <1>6, <1>7, HeldAnew, ReadersKept

LEMMA TickHeld ==
    ASSUME WeightsInv, WeightsTick
    PROVE  WeightsInv'
<1>1. /\ \A r \in Scorers : reader'[r] = IF reader[r].at = "store"
                                         THEN [reader[r] EXCEPT !.age = @ + 1] ELSE reader[r]
      /\ \A r \in Scorers : reader[r].at = "store" => reader[r].age < MaxCompute
      /\ \A v \in Weight : held'[v] = IF \E i \in Present : table[i].weight = v THEN 0
                                      ELSE IF held[v] < Longest THEN held[v] + 1 ELSE Longest
      /\ UNCHANGED <<table, session>>
  <2>1. reader' = [r \in Scorers |-> IF reader[r].at = "store"
                                    THEN [reader[r] EXCEPT !.age = @ + 1] ELSE reader[r]]
    BY DEF WeightsTick
  <2>2. held' = [v \in Weight |->
                   IF \E i \in Present : table[i].weight = v THEN 0
                   ELSE IF held[v] < Longest THEN held[v] + 1 ELSE Longest]
    BY DEF WeightsTick
  <2>3. \A r \in Scorers : reader[r].at = "store" => reader[r].age < MaxCompute
    BY DEF WeightsTick
  <2> QED
    BY <2>1, <2>2, <2>3 DEF WeightsTick, tableVars
<1>2. \A v \in Weight : held[v] \in Nat /\ held[v] <= Longest
  BY HeldNat
<1>3. \A v \in Weight : held'[v] \in Nat /\ held'[v] \in 0 .. Longest /\ held'[v] <= held[v] + 1
  BY <1>1, <1>2, WeightBounds
<1>4. held' \in [Weight -> 0 .. Longest]
  BY <1>3 DEF WeightsTick
<1>5. ASSUME NEW r \in Scorers
      PROVE  /\ reader'[r] \in ReaderShape /\ reader'[r].at = reader[r].at
             /\ reader'[r].weight = reader[r].weight
             /\ reader[r].at = "store" => held'[reader[r].weight] <= reader'[r].age
             /\ reader[r].at # "store" => reader'[r] = reader[r]
  <2>1. reader[r] \in ReaderShape
    BY DEF WeightsInv, WeightsShape
  <2>2. CASE reader[r].at = "store"
    <3>1. reader[r].age + 1 \in 0 .. MaxCompute
      BY <1>1, <2>1, <2>2 DEF ReaderShape
    <3>2. reader'[r] = [reader[r] EXCEPT !.age = reader[r].age + 1]
      BY <1>1, <2>2
    <3>3. held[reader[r].weight] <= reader[r].age /\ reader[r].weight \in Weight
      BY <2>1, <2>2 DEF WeightsInv, ReadsHeld, ReaderShape
    <3>4. reader'[r].age = reader[r].age + 1
      BY <2>1, <3>2 DEF ReaderShape
    <3>5. held'[reader[r].weight] <= reader[r].age + 1
      <4>1. reader[r].age \in Nat
        BY <2>1 DEF ReaderShape
      <4>2. /\ held[reader[r].weight] \in Nat /\ held'[reader[r].weight] \in Nat
            /\ held'[reader[r].weight] <= held[reader[r].weight] + 1
        BY <1>2, <1>3, <3>3
      <4> QED
        BY <3>3, <4>1, <4>2
    <3> QED
      BY <2>1, <2>2, <3>1, <3>2, <3>4, <3>5 DEF ReaderShape
  <2>3. CASE reader[r].at # "store"
    BY <1>1, <2>1, <2>3
  <2> QED
    BY <2>2, <2>3
<1>6. reader' \in [Scorers -> ReaderShape]
  BY <1>5 DEF WeightsTick
<1>7. ReadsHeld'
  BY <1>5 DEF WeightsInv, ReadsHeld
<1>8. RowsHeld'
  <2>1. \A i \in Present : table[i].weight \in Weight
    BY DEF WeightsInv, WeightsShape, Present, RowShape
  <2> QED
    BY <1>1, <2>1 DEF WeightsInv, RowsHeld, Present
<1>9. cached' \in [weight : Weight, ttl : 1 .. CacheTtl] \union {NoScore} /\ ScoreHeld'
  <2>1. CASE cached = NoScore \/ cached.ttl = 1
    BY <2>1 DEF WeightsTick, ScoreHeld
  <2>2. CASE ~(cached = NoScore \/ cached.ttl = 1)
    <3>1. cached \in [weight : Weight, ttl : 1 .. CacheTtl] /\ cached.ttl \in 2 .. CacheTtl
      BY <2>2 DEF WeightsInv, WeightsShape
    <3>2. cached' = [cached EXCEPT !.ttl = cached.ttl - 1]
      BY <2>2 DEF WeightsTick
    <3>3. cached' \in [weight : Weight, ttl : 1 .. CacheTtl] /\ cached'.weight = cached.weight
          /\ cached'.ttl = cached.ttl - 1 /\ cached.weight \in Weight
      BY <3>1, <3>2
    <3>4. held[cached.weight] + cached.ttl <= MaxCompute + CacheTtl
      BY <2>2 DEF WeightsInv, ScoreHeld
    <3>5. held'[cached.weight] + (cached.ttl - 1) <= MaxCompute + CacheTtl
      <4>1. cached.ttl \in Nat
        BY <3>1
      <4>2. /\ held[cached.weight] \in Nat /\ held'[cached.weight] \in Nat
            /\ held'[cached.weight] <= held[cached.weight] + 1
        BY <1>2, <1>3, <3>3
      <4> QED
        BY <3>4, <4>1, <4>2
    <3> QED
      BY <3>3, <3>5 DEF ScoreHeld
  <2> QED
    BY <2>1, <2>2
<1> QED
  BY <1>1, <1>4, <1>6, <1>7, <1>8, <1>9 DEF WeightsInv, WeightsShape

LEMMA WeightsNextOK == WeightsInv /\ [WeightsNext]_weightVars => WeightsInv'
<1> SUFFICES ASSUME WeightsInv, [WeightsNext]_weightVars PROVE WeightsInv'
  OBVIOUS
<1>0. /\ session \in [Sessions -> SessionShape] /\ reader \in [Scorers -> ReaderShape]
      /\ \A v \in Weight : held[v] \in 0 .. Longest
  BY DEF WeightsInv, WeightsShape
<1>1. ASSUME NEW u \in Sessions, NEW target \in Targets,
             PutWeights(u, target) \/ Post(u, target) \/ Direct(u, target)
      PROVE  WeightsInv'
  <2>1. UNCHANGED <<table, held, cached, reader>>
        /\ ((\E smooth \in BOOLEAN : Open(u, target, smooth)) \/ session' = session)
    BY <1>1 DEF PutWeights, Post, Direct, tableVars
  <2>2. CASE session' = session
    BY <1>0, <2>1, <2>2, RowsKept, ReadersKept
  <2> QED
    BY <2>1, <2>2, OpenInv
<1>2. ASSUME NEW u \in Sessions, ReadRow(u) PROVE WeightsInv'
  <2>1. UNCHANGED <<table, held, cached, reader>>
    BY <1>2 DEF ReadRow, tableVars
  <2>2. session' \in [Sessions -> SessionShape]
        /\ \A s \in Sessions : session'[s].at = "write" => session[s].at = "write" \/ 1 \in Present
    <3>1. CASE 1 \notin Present
      BY <1>0, <1>2, <3>1, RestShapes DEF ReadRow
    <3>2. CASE 1 \in Present
      <4>1. table[1].weight \in Weight /\ session[u].target \in Weight
        BY <1>0, <3>2 DEF WeightsInv, WeightsShape, Present, RowShape, SessionShape
      <4>2. Smoothed(table[1].weight, session[u].target) \in Weight
        BY <4>1, SmoothedWeight
      <4>3. PICK v \in Weight : session' = [session EXCEPT ![u].at = "write", ![u].weight = v]
        BY <1>2, <3>2, <4>1, <4>2 DEF ReadRow
      <4>4. [session[u] EXCEPT !.at = "write", !.weight = v] \in SessionShape
        BY <1>0 DEF SessionShape
      <4> QED
        BY <1>0, <3>2, <4>3, <4>4
    <3> QED
      BY <3>1, <3>2
  <2> QED
    BY <2>1, <2>2, RowsKept, ReadersKept
<1>3. ASSUME NEW u \in Sessions, WriteRow(u) PROVE WeightsInv'
  BY <1>3, WriteHeld
<1>4. CASE StartFeedback \/ Posted
  BY <1>0, <1>4, RowsKept, ReadersKept DEF StartFeedback, Posted, tableVars
<1>5. ASSUME NEW r \in Scorers, AskScore(r) \/ FindNone(r) \/ GetWeights(r) PROVE WeightsInv'
  <2>1. UNCHANGED <<table, session, cached, held>>
    BY <1>5 DEF AskScore, FindNone, GetWeights, tableVars
  <2>2. reader[r] \in ReaderShape /\ (reader[r].at # "store" => reader[r].weight = Default /\ reader[r].age = 0)
    BY <1>0 DEF WeightsInv, ReadsHeld
  <2>3. CASE AskScore(r) \/ FindNone(r)
    <3>1. PICK q : /\ q \in {[reader[r] EXCEPT !.at = "weights"], [reader[r] EXCEPT !.at = "create"]}
                   /\ reader' = [reader EXCEPT ![r] = q]
      BY <2>3 DEF AskScore, FindNone
    <3>2. q \in ReaderShape /\ q.at # "store" /\ q.weight = Default /\ q.age = 0
      BY <2>2, <2>3, <3>1 DEF ReaderShape, AskScore, FindNone
    <3> QED
      BY <1>0, <2>1, <3>1, <3>2, RowsKept, ReaderStep
  <2>4. CASE GetWeights(r)
    <3>1. PICK i \in Present :
            reader' = [reader EXCEPT ![r].at = "store", ![r].weight = table[i].weight]
      BY <2>4 DEF GetWeights
    <3> DEFINE q == [reader[r] EXCEPT !.at = "store", !.weight = table[i].weight]
    <3>2. table[i].weight \in Weight /\ held[table[i].weight] = 0
      BY DEF WeightsInv, WeightsShape, RowsHeld, Present, RowShape
    <3>3. q \in ReaderShape /\ q.at = "store" /\ q.weight = table[i].weight /\ q.age = 0
          /\ reader' = [reader EXCEPT ![r] = q]
      BY <2>2, <2>4, <3>1, <3>2 DEF ReaderShape, GetWeights
    <3> HIDE DEF q
    <3>4. held'[q.weight] <= q.age
      BY <2>1, <3>2, <3>3
    <3> QED
      BY <1>0, <2>1, <3>3, <3>4, RowsKept, ReaderStep
  <2> QED
    BY <1>5, <2>3, <2>4
<1>6. ASSUME NEW r \in Scorers, CreateRow(r) PROVE WeightsInv'
  <2>1. UNCHANGED <<session, cached>> /\ reader[r].at = "create" /\ reader[r] \in ReaderShape
        /\ reader[r].weight = Default /\ reader[r].age = 0
    BY <1>0, <1>6 DEF CreateRow, WeightsInv, ReadsHeld
  <2>2. CASE Insert(1, Global) /\ reader' = [reader EXCEPT ![r].at = "store"]
    <3> DEFINE q == [reader[r] EXCEPT !.at = "store"]
    <3>1. /\ table' \in [Ids -> RowShape \union {NoRow}]
          /\ held' \in [Weight -> 0 .. Longest] /\ \A v \in Weight : held'[v] \in {0, held[v]}
          /\ \A j \in Present' : held'[table'[j].weight] = 0
          /\ Present \subseteq Present' /\ held'[Default] = 0
      BY <2>2, InsertHeld
    <3>2. q \in ReaderShape /\ q.at = "store" /\ q.weight = Default /\ q.age = 0
          /\ reader' = [reader EXCEPT ![r] = q]
      BY <2>1, <2>2 DEF ReaderShape
    <3> HIDE DEF q
    <3>3. held'[q.weight] <= q.age
      BY <3>1, <3>2
    <3>4. reader' \in [Scorers -> ReaderShape] /\ ReadsHeld'
      BY <3>1, <3>2, <3>3, ReaderStep
    <3> QED
      BY <1>0, <2>1, <3>1, <3>4, HeldAnew
  <2>3. CASE UNCHANGED <<table, held>> /\ reader' = [reader EXCEPT ![r] = Waiting]
    BY <1>0, <2>1, <2>3, RestShapes, RowsKept, ReaderStep
  <2> QED
    BY <1>6, <2>2, <2>3 DEF CreateRow
<1>7. ASSUME NEW r \in Scorers, StoreScore(r) PROVE WeightsInv'
  <2>1. /\ UNCHANGED <<table, held, session>> /\ reader[r].at = "store"
        /\ reader' = [reader EXCEPT ![r] = Waiting]
        /\ cached' \in {cached, [weight |-> reader[r].weight, ttl |-> CacheTtl]}
    BY <1>7 DEF StoreScore, tableVars
  <2>2. reader' \in [Scorers -> ReaderShape] /\ ReadsHeld'
    BY <2>1, RestShapes, ReaderStep
  <2>3. reader[r].weight \in Weight /\ held[reader[r].weight] <= MaxCompute
    <3>1. reader[r].age <= MaxCompute /\ reader[r].age \in Nat /\ reader[r].weight \in Weight
      BY <1>0 DEF ReaderShape
    <3>2. held[reader[r].weight] <= reader[r].age
      BY <2>1 DEF WeightsInv, ReadsHeld
    <3>3. held[reader[r].weight] \in Nat
      BY <3>1, HeldNat
    <3> QED
      BY <3>1, <3>2, <3>3
  <2>4. cached' \in [weight : Weight, ttl : 1 .. CacheTtl] \union {NoScore}
    BY <2>1, <2>3 DEF WeightsInv, WeightsShape
  <2>5. ScoreHeld'
    <3>1. CASE cached' = cached
      BY <2>1, <3>1 DEF WeightsInv, ScoreHeld
    <3>2. CASE cached' = [weight |-> reader[r].weight, ttl |-> CacheTtl]
      <4>0. held[reader[r].weight] \in Nat
        BY <2>3, HeldNat
      <4>1. held[reader[r].weight] + CacheTtl <= MaxCompute + CacheTtl
        BY <2>3, <4>0
      <4> QED
        BY <2>1, <3>2, <4>1 DEF ScoreHeld
    <3> QED
      BY <2>1, <3>1, <3>2
  <2>6. RowsHeld'
    BY <2>1 DEF WeightsInv, RowsHeld, Present
  <2> QED
    BY <2>1, <2>2, <2>4, <2>5, <2>6 DEF WeightsInv, WeightsShape
<1>8. ASSUME NEW source \in Sources, StoreCentroid(source) PROVE WeightsInv'
  <2>1. UNCHANGED <<session, cached, reader>>
        /\ (Insert(nextId, source) \/ UNCHANGED <<table, held>>)
    BY <1>8 DEF StoreCentroid
  <2>2. CASE Insert(nextId, source)
    <3>1. /\ table' \in [Ids -> RowShape \union {NoRow}]
          /\ held' \in [Weight -> 0 .. Longest] /\ \A v \in Weight : held'[v] \in {0, held[v]}
          /\ \A j \in Present' : held'[table'[j].weight] = 0
          /\ Present \subseteq Present'
      BY <2>2, InsertHeld
    <3>2. reader' \in [Scorers -> ReaderShape] /\ ReadsHeld'
      BY <2>1, <3>1, ReadersKept
    <3> QED
      BY <1>0, <2>1, <3>1, <3>2, HeldAnew
  <2>3. CASE UNCHANGED <<table, held>>
    BY <1>0, <2>1, <2>3, RowsKept, ReadersKept
  <2> QED
    BY <2>1, <2>2, <2>3
<1>9. CASE WeightsTick
  BY <1>9, TickHeld
<1>10. CASE UNCHANGED weightVars
  BY <1>0, <1>10, RowsKept, ReadersKept DEF weightVars, tableVars
<1> QED
  BY <1>1, <1>2, <1>3, <1>4, <1>5, <1>6, <1>7, <1>8, <1>9, <1>10 DEF WeightsNext

-----------------------------------------------------------------------------
(***************************************************************************)
(* The feedback job.                                                       *)
(***************************************************************************)

LEMMA JobInitOK == WeightsInit => JobInv
<1> SUFFICES ASSUME WeightsInit PROVE JobInv
  OBVIOUS
<1>1. Smoothing = {}
  BY RestShapes DEF WeightsInit, Smoothing
<1> QED
  BY <1>1, FS_EmptySet, RestShapes DEF WeightsInit, JobInv

\* A request opens a session, a smoothed one only as one more request of the job.
LEMMA JobOpens ==
    ASSUME WeightsInv, JobInv, NEW u \in Sessions, NEW target, NEW smooth \in BOOLEAN,
           Open(u, target, smooth), applied' = applied,
           tries' = tries + (IF smooth THEN 1 ELSE 0)
    PROVE  JobInv'
<1>1. /\ u \notin Smoothing /\ session \in [Sessions -> SessionShape]
      /\ session' = [session EXCEPT ![u] =
                       [at |-> "read", smooth |-> smooth, target |-> target, weight |-> Default]]
  BY DEF Open, JobInv, Smoothing, WeightsInv, WeightsShape
<1>2. \A s \in Sessions : /\ s # u => session'[s] = session[s]
                          /\ session'[u].at = "read" /\ session'[u].smooth = smooth
  BY <1>1
<1>3. Smoothing' = IF smooth THEN Smoothing \cup {u} ELSE Smoothing
  BY <1>1, <1>2 DEF Smoothing
<1>4. Cardinality(Smoothing) \in Nat
  BY FS_CardinalityType DEF JobInv
<1>5. \A s \in Sessions : session'[s].at = "idle" => ~session'[s].smooth
  BY <1>2 DEF JobInv
<1>6. CASE smooth
  <2>1. IsFiniteSet(Smoothing') /\ Cardinality(Smoothing') = Cardinality(Smoothing) + 1
    BY <1>1, <1>3, <1>6, FS_AddElement DEF JobInv
  <2>2. tries' = tries + 1
    BY <1>6
  <2> QED
    BY <1>4, <1>5, <2>1, <2>2 DEF JobInv
<1>7. CASE ~smooth
  <2>1. Smoothing' = Smoothing /\ tries' = tries + 0
    BY <1>3, <1>7
  <2> QED
    BY <1>4, <1>5, <2>1 DEF JobInv
<1> QED
  BY <1>6, <1>7

\* A session is over, or goes on.
LEMMA JobSession ==
    ASSUME WeightsInv, JobInv, NEW u \in Sessions, NEW q \in SessionShape,
           session' = [session EXCEPT ![u] = q], tries' = tries,
           q.at = "idle" => ~q.smooth,
           \/ q.smooth = session[u].smooth /\ applied' = applied
           \/ ~q.smooth /\ applied' \in {applied, IF session[u].smooth THEN applied + 1 ELSE applied}
    PROVE  JobInv'
<1>1. session \in [Sessions -> SessionShape] /\ \A s \in Sessions : session'[s] = IF s = u THEN q ELSE session[s]
  BY DEF WeightsInv, WeightsShape
<1>2. Cardinality(Smoothing) \in Nat /\ applied \in Nat /\ tries \in Nat
  BY FS_CardinalityType DEF JobInv
<1>3. \A s \in Sessions : session'[s].at = "idle" => ~session'[s].smooth
  BY <1>1 DEF JobInv
<1>4. CASE q.smooth = session[u].smooth /\ applied' = applied
  <2>1. Smoothing' = Smoothing
    BY <1>1, <1>4 DEF Smoothing
  <2> QED
    BY <1>2, <1>3, <1>4, <2>1 DEF JobInv
<1>5. CASE ~q.smooth /\ applied' \in {applied, IF session[u].smooth THEN applied + 1 ELSE applied}
  <2>1. Smoothing' = Smoothing \ {u}
    BY <1>1, <1>5 DEF Smoothing
  <2>2. IsFiniteSet(Smoothing')
        /\ Cardinality(Smoothing') = IF u \in Smoothing THEN Cardinality(Smoothing) - 1 ELSE Cardinality(Smoothing)
    BY <2>1, FS_RemoveElement DEF JobInv
  <2>3. u \in Smoothing <=> session[u].smooth
    BY DEF Smoothing
  <2>4. applied' \in Nat /\ applied' + Cardinality(Smoothing') <= tries
    BY <1>2, <1>5, <2>2, <2>3 DEF JobInv
  <2> QED
    BY <1>2, <1>3, <2>2, <2>4 DEF JobInv
<1> QED
  BY <1>4, <1>5

LEMMA JobNextOK == WeightsInv /\ JobInv /\ [WeightsNext]_weightVars => JobInv'
<1> SUFFICES ASSUME WeightsInv, JobInv, [WeightsNext]_weightVars PROVE JobInv'
  OBVIOUS
<1>1. ASSUME NEW u \in Sessions, NEW target \in Targets,
             PutWeights(u, target) \/ Post(u, target) \/ Direct(u, target)
      PROVE  JobInv'
  <2>1. CASE PutWeights(u, target) \/ Direct(u, target)
    <3>1. Open(u, target, FALSE) /\ applied' = applied /\ tries' = tries
      BY <2>1 DEF PutWeights, Direct, jobVars
    <3>2. tries' = tries + (IF FALSE THEN 1 ELSE 0)
      BY <3>1 DEF JobInv
    <3> QED
      BY <3>1, <3>2, JobOpens
  <2>2. CASE Post(u, target)
    <3>1. tries' = tries + 1 /\ applied' = applied /\ (Open(u, target, TRUE) \/ session' = session)
      BY <2>2 DEF Post
    <3>2. CASE session' = session
      <4>1. Smoothing' = Smoothing /\ Cardinality(Smoothing) \in Nat
        BY <3>2, FS_CardinalityType DEF Smoothing, JobInv
      <4> QED
        BY <3>1, <3>2, <4>1 DEF JobInv
    <3> QED
      <4>1. tries' = tries + (IF TRUE THEN 1 ELSE 0)
        BY <3>1
      <4> QED
        BY <3>1, <3>2, <4>1, JobOpens
  <2> QED
    BY <1>1, <2>1, <2>2
<1>2. ASSUME NEW u \in Sessions, ReadRow(u) PROVE JobInv'
  <2>1. applied' = applied /\ tries' = tries /\ session[u].at = "read" /\ session[u] \in SessionShape
    BY <1>2 DEF ReadRow, jobVars, WeightsInv, WeightsShape
  <2>2. CASE 1 \notin Present
    BY <1>2, <2>1, <2>2, JobSession, RestShapes DEF ReadRow
  <2>3. CASE 1 \in Present
    <3>1. table[1].weight \in Weight /\ session[u].target \in Weight
      BY <2>1, <2>3 DEF WeightsInv, WeightsShape, Present, RowShape, SessionShape
    <3>2. Smoothed(table[1].weight, session[u].target) \in Weight
      BY <3>1, SmoothedWeight
    <3>3. PICK v \in Weight : session' = [session EXCEPT ![u].at = "write", ![u].weight = v]
      BY <1>2, <2>3, <3>1, <3>2 DEF ReadRow
    <3> DEFINE q == [session[u] EXCEPT !.at = "write", !.weight = v]
    <3>4. q \in SessionShape /\ q.at = "write" /\ q.smooth = session[u].smooth
          /\ session' = [session EXCEPT ![u] = q]
      BY <2>1, <3>3 DEF SessionShape
    <3> HIDE DEF q
    <3> QED
      BY <2>1, <3>4, JobSession
  <2> QED
    BY <2>2, <2>3
<1>3. ASSUME NEW u \in Sessions, WriteRow(u) PROVE JobInv'
  BY <1>3, JobSession, RestShapes DEF WriteRow
<1>4. CASE StartFeedback
  <2>1. Smoothing = {} /\ Smoothing' = {} /\ applied' = 0 /\ tries' = 0 /\ session' = session
    BY <1>4 DEF StartFeedback, Smoothing
  <2> QED
    BY <2>1, FS_EmptySet DEF JobInv
<1>5. ASSUME UNCHANGED <<session, applied, tries>> PROVE JobInv'
  BY <1>5 DEF JobInv, Smoothing
<1> QED
  BY <1>1, <1>2, <1>3, <1>4, <1>5
  DEF WeightsNext, Posted, AskScore, GetWeights, FindNone, CreateRow, StoreScore, StoreCentroid,
      WeightsTick, weightVars, jobVars

\* No cached score is built on weights that no row has had for longer than its TTL and
\* its computation take, and one run of the feedback job moves the weights by no more
\* steps than it has sent requests, for any number of sessions, readers and sources.
THEOREM WeightsSteadyHolds == WeightsSpec => []WeightsSteady
<1>1. WeightsInv /\ JobInv => WeightsSteady
  <2> SUFFICES ASSUME WeightsInv, JobInv PROVE ScoresBacked /\ FeedbackBounded
    BY DEF WeightsSteady
  <2>1. ScoresBacked
    <3> SUFFICES ASSUME cached # NoScore PROVE held[cached.weight] < Longest
      BY DEF ScoresBacked
    <3>0. cached.ttl \in 1 .. CacheTtl /\ cached.weight \in Weight
      BY DEF WeightsInv, WeightsShape
    <3>1. cached.ttl \in Nat /\ cached.ttl >= 1 /\ held[cached.weight] \in Nat
      BY <3>0, HeldNat
    <3>2. held[cached.weight] + cached.ttl <= MaxCompute + CacheTtl
      BY DEF WeightsInv, ScoreHeld
    <3> QED
      BY <3>1, <3>2, WeightBounds
  <2>2. FeedbackBounded
    BY FS_CardinalityType DEF JobInv, FeedbackBounded
  <2> QED
    BY <2>1, <2>2
<1>2. WeightsInit => WeightsInv /\ JobInv
  BY WeightsInitOK, JobInitOK
<1>3. WeightsInv /\ JobInv /\ [WeightsNext]_weightVars => (WeightsInv /\ JobInv)'
  BY WeightsNextOK, JobNextOK
<1> QED
  BY <1>1, <1>2, <1>3, PTL DEF WeightsSpec

-----------------------------------------------------------------------------
(***************************************************************************)
(* Models and mockups.                                                     *)
(***************************************************************************)

Places == {"idle", "load", "draw", "upload", "parts", "abort", "save"}

ProcShape == [at : Places, mockup : Mockups \union {Nothing}, image : Images \union {Nothing},
              asked : Identifiers \union {Nothing}, tries : 0 .. Attempts - 1,
              upload : Uploads \union {Nothing}, sent : SUBSET Parts]

ChangeShape == [at : {"closed", "register", "set"}, model : Models \union {Nothing},
                sees : SUBSET Models]

\* Where a process has an upload.
Uploading == {"parts", "abort"}

\* What was made the default last is there, unless it was removed.
DefaultInv == lastSet # Nothing => registry[lastSet] = "default"

\* What a process works on is what it was sent and has drawn.
WorkInv ==
    \A p \in Processes :
        /\ proc[p].at # "idle" => proc[p].mockup \in Mockups
        /\ proc[p].at \in {"upload", "parts", "save"} => proc[p].image \in Images
        /\ proc[p].at = "save" => proc[p].image \in objects
        /\ proc[p].at \notin Uploading => proc[p].upload = Nothing

\* A pipeline is the one its process says it is, and was asked for, unless a load failed.
PipelineInv ==
    \A p \in Processes \ broken :
        /\ pipeline[p] # Nothing => modelId[p] = pipeline[p]
        /\ proc[p].asked # Nothing => pipeline[p] = proc[p].asked

\* The uploads that are worked on, and those that nobody works on.
Worked == {proc[p].upload : p \in Processes}

Abandoned == pending \ Worked

LeakInv == Cardinality(Abandoned) <= leaks /\ leaks <= failures

MockupInv ==
    MockupTypeOK /\ DefaultInv /\ WorkInv /\ PipelineInv /\ RowsStored /\ LeakInv

LEMMA MockupShapes ==
    MockupTypeOK <=>
      /\ registry \in [Models -> {"absent", "plain", "default"}]
      /\ change \in [Changes -> ChangeShape]
      /\ lastSet \in Models \union {Nothing}
      /\ proc \in [Processes -> ProcShape]
      /\ modelId \in [Processes -> Identifiers]
      /\ pipeline \in [Processes -> Identifiers \union {Nothing}]
      /\ objects \subseteq Images /\ pending \subseteq Uploads /\ queued \subseteq Mockups
      /\ mockupRows \subseteq Images /\ broken \subseteq Processes
      /\ failures \in 0 .. MaxFailures /\ leaks \in 0 .. MaxFailures
BY DEF MockupTypeOK, ChangeShape, ProcShape, Places

LEMMA RestingShape ==
    /\ Resting \in ProcShape /\ Resting.at = "idle" /\ Resting.asked = Nothing
    /\ Resting.upload = Nothing /\ Closed \in ChangeShape
    /\ Nothing \notin Identifiers /\ BuiltIn \in Identifiers /\ Models \subseteq Identifiers
<1>1. 0 \in 0 .. Attempts - 1
  BY MockupAssumption
<1> QED
  BY <1>1, MockupAssumption DEF Resting, ProcShape, Places, Closed, ChangeShape, Identifiers

LEMMA OneMore ==
    ASSUME NEW S, IsFiniteSet(S), NEW x
    PROVE  /\ IsFiniteSet(S \union {x}) /\ Cardinality(S \union {x}) \in Nat
           /\ Cardinality(S) \in Nat /\ Cardinality(S \union {x}) <= Cardinality(S) + 1
<1>1. IsFiniteSet(S \union {x}) /\ Cardinality(S) \in Nat
      /\ Cardinality(S \union {x}) = IF x \in S THEN Cardinality(S) ELSE Cardinality(S) + 1
  BY FS_AddElement, FS_CardinalityType
<1> QED
  BY <1>1

\* Uploads are abandoned no more often than they leak.
LEMMA LeakCounted ==
    ASSUME MockupInv, pending' \subseteq Uploads, failures' \in Nat, failures <= failures',
           \/ Abandoned' \subseteq Abandoned /\ leaks' = leaks
           \/ /\ \E u : Abandoned' \subseteq Abandoned \union {u}
              /\ leaks' = leaks + 1 /\ failures' = failures + 1
    PROVE  LeakInv' /\ leaks' \in Nat
<1>1. /\ leaks \in Nat /\ failures \in Nat /\ Cardinality(Abandoned) <= leaks /\ leaks <= failures
      /\ pending \subseteq Uploads
  BY MockupShapes, MockupAssumption DEF MockupInv, LeakInv
<1>2. IsFiniteSet(Abandoned) /\ IsFiniteSet(Abandoned')
  <2>1. Abandoned \subseteq Uploads /\ Abandoned' \subseteq Uploads
    BY <1>1 DEF Abandoned
  <2> QED
    BY <2>1, FS_Subset, MockupAssumption
<1>3. Cardinality(Abandoned) \in Nat /\ Cardinality(Abandoned') \in Nat
  BY <1>2, FS_CardinalityType
<1>4. CASE Abandoned' \subseteq Abandoned /\ leaks' = leaks
  <2>1. Cardinality(Abandoned') <= Cardinality(Abandoned)
    BY <1>2, <1>4, FS_Subset
  <2> QED
    BY <1>1, <1>3, <1>4, <2>1 DEF LeakInv
<1>5. ASSUME NEW u, Abandoned' \subseteq Abandoned \union {u}, leaks' = leaks + 1,
             failures' = failures + 1
      PROVE  LeakInv' /\ leaks' \in Nat
  <2>1. IsFiniteSet(Abandoned \union {u}) /\ Cardinality(Abandoned \union {u}) \in Nat
        /\ Cardinality(Abandoned \union {u}) <= Cardinality(Abandoned) + 1
    BY <1>2, OneMore
  <2>2. Cardinality(Abandoned') <= Cardinality(Abandoned \union {u})
    BY <1>5, <2>1, FS_Subset
  <2> QED
    BY <1>1, <1>3, <1>5, <2>1, <2>2 DEF LeakInv
<1> QED
  BY <1>4, <1>5

\* One process moves: the uploads of the others are worked on as before.
LEMMA WorkedAfter ==
    ASSUME MockupInv, NEW p \in Processes, NEW q \in ProcShape, proc' = [proc EXCEPT ![p] = q]
    PROVE  /\ q.upload \in Worked' /\ Worked \subseteq Worked' \union {proc[p].upload}
           /\ proc[p].at \notin Uploading => proc[p].upload \notin pending
<1>1. proc \in [Processes -> ProcShape] /\ Nothing \notin pending
  BY MockupShapes, MockupAssumption DEF MockupInv
<1>2. \A r \in Processes : proc'[r] = IF r = p THEN q ELSE proc[r]
  BY <1>1
<1> QED
  BY <1>1, <1>2 DEF Worked, MockupInv, WorkInv

\* It keeps its upload, or has none.
LEMMA AbandonedKept ==
    ASSUME MockupInv, NEW p \in Processes, NEW q \in ProcShape, proc' = [proc EXCEPT ![p] = q],
           pending' = pending, leaks' = leaks, failures' \in Nat, failures <= failures',
           proc[p].at \notin Uploading \/ q.upload = proc[p].upload
    PROVE  LeakInv'
<1>1. Abandoned' \subseteq Abandoned
  BY WorkedAfter DEF Abandoned
<1>2. pending' \subseteq Uploads
  BY MockupShapes DEF MockupInv
<1> QED
  BY <1>1, <1>2, LeakCounted

\* It ends its upload, and what it has left is gone or counted.
LEMMA AbandonedMore ==
    ASSUME MockupInv, NEW p \in Processes, NEW q \in ProcShape, proc' = [proc EXCEPT ![p] = q],
           failures' \in Nat, failures <= failures',
           \/ pending' = pending \ {proc[p].upload} /\ leaks' = leaks
           \/ pending' = pending /\ leaks' = leaks + 1 /\ failures' = failures + 1
    PROVE  LeakInv' /\ pending' \subseteq Uploads
<1>1. \/ Abandoned' \subseteq Abandoned /\ leaks' = leaks
      \/ /\ Abandoned' \subseteq Abandoned \union {proc[p].upload}
         /\ leaks' = leaks + 1 /\ failures' = failures + 1
  BY WorkedAfter DEF Abandoned
<1>2. pending' \subseteq Uploads
  BY MockupShapes DEF MockupInv
<1> QED
  BY <1>1, <1>2, LeakCounted

\* The transactions on the table of models.
LEMMA RegistryInv ==
    ASSUME MockupInv, UNCHANGED registryOnly,
           registry' \in [Models -> {"absent", "plain", "default"}],
           change' \in [Changes -> ChangeShape], lastSet' \in Models \union {Nothing}, DefaultInv'
    PROVE  MockupInv'
<1>1. UNCHANGED <<proc, modelId, pipeline, broken, objects, pending, leaks, queued,
                  mockupRows, failures>>
  BY DEF registryOnly, generatorVars, storeVars
<1>2. MockupTypeOK'
  BY <1>1, MockupShapes DEF MockupInv, MockupTypeOK, ChangeShape, ProcShape, Places
<1>3. WorkInv' /\ PipelineInv' /\ RowsStored'
  BY <1>1 DEF MockupInv, WorkInv, PipelineInv, RowsStored
<1>4. LeakInv'
  BY <1>1 DEF MockupInv, LeakInv, Abandoned, Worked
<1> QED
  BY <1>2, <1>3, <1>4 DEF MockupInv

LEMMA RegistrySteps ==
    ASSUME MockupInv,
           NEW m \in Models,
           \/ \E c \in Changes : BeginRegister(c, m) \/ BeginSetDefault(c, m)
           \/ RegisterPlain(m) \/ RemoveModel(m)
    PROVE  MockupInv'
<1>1. /\ registry \in [Models -> {"absent", "plain", "default"}]
      /\ change \in [Changes -> ChangeShape] /\ lastSet \in Models \union {Nothing}
      /\ DefaultInv /\ Existing \subseteq Models /\ Nothing \notin Models
  BY MockupShapes, MockupAssumption DEF MockupInv, Existing
<1>2. ASSUME NEW c \in Changes, NEW kind \in {"register", "set"}, BeginChange(c, m, kind)
      PROVE  MockupInv'
  <2>1. [at |-> kind, model |-> m, sees |-> Existing] \in ChangeShape
    BY <1>1 DEF ChangeShape
  <2>2. UNCHANGED <<registry, lastSet, registryOnly>> /\ change' \in [Changes -> ChangeShape]
    BY <1>1, <1>2, <2>1 DEF BeginChange
  <2> QED
    BY <1>1, <2>2, RegistryInv DEF DefaultInv
<1>3. CASE RegisterPlain(m)
  <2>1. /\ m \notin Existing /\ registry' = [registry EXCEPT ![m] = "plain"]
        /\ UNCHANGED <<change, lastSet, registryOnly>>
    BY <1>3 DEF RegisterPlain
  <2>2. registry' \in [Models -> {"absent", "plain", "default"}] /\ DefaultInv'
    BY <1>1, <2>1 DEF DefaultInv, Existing
  <2> QED
    BY <1>1, <2>1, <2>2, RegistryInv
<1>4. CASE RemoveModel(m)
  <2>1. /\ registry' = [registry EXCEPT ![m] = "absent"]
        /\ lastSet' = (IF lastSet = m THEN Nothing ELSE lastSet)
        /\ UNCHANGED <<change, registryOnly>>
    BY <1>4 DEF RemoveModel
  <2>2. registry' \in [Models -> {"absent", "plain", "default"}] /\ DefaultInv'
        /\ lastSet' \in Models \union {Nothing}
    BY <1>1, <2>1 DEF DefaultInv
  <2> QED
    BY <1>1, <2>1, <2>2, RegistryInv
<1> QED
  BY <1>2, <1>3, <1>4 DEF BeginRegister, BeginSetDefault

LEMMA CommitStep ==
    ASSUME MockupInv, NEW c \in Changes, CommitChange(c)
    PROVE  MockupInv'
<1> DEFINE this == change[c]
           t == Touched(this)
<1>1. /\ registry \in [Models -> {"absent", "plain", "default"}]
      /\ change \in [Changes -> ChangeShape] /\ lastSet \in Models \union {Nothing}
      /\ DefaultInv /\ Existing \subseteq Models /\ Nothing \notin Models
  BY MockupShapes, MockupAssumption DEF MockupInv, Existing
<1>2. t \in Models \union {Nothing}
  BY <1>1 DEF ChangeShape, Touched
<1>3. /\ lastSet' = t /\ UNCHANGED registryOnly
      /\ registry' = [k \in Models |-> IF k = t THEN "default"
                                       ELSE IF k \in this.sees \intersect Existing THEN "plain"
                                       ELSE registry[k]]
      /\ change' = [change EXCEPT ![c] = Closed]
  BY DEF CommitChange
<1> HIDE DEF t
<1>4. registry' \in [Models -> {"absent", "plain", "default"}] /\ DefaultInv'
  BY <1>1, <1>2, <1>3 DEF DefaultInv
<1>5. change' \in [Changes -> ChangeShape]
  BY <1>1, <1>3, RestingShape
<1> QED
  BY <1>2, <1>3, <1>4, <1>5, RegistryInv

\* A process takes a step, after which it is to work on what it was sent and has drawn.
LEMMA ProcMoves ==
    ASSUME MockupInv, NEW p \in Processes, NEW q \in ProcShape, proc' = [proc EXCEPT ![p] = q],
           UNCHANGED registryVars,
           modelId' \in [Processes -> Identifiers],
           pipeline' \in [Processes -> Identifiers \union {Nothing}], broken' \subseteq Processes,
           PipelineInv', objects \subseteq objects', objects' \subseteq Images,
           pending' \subseteq Uploads, queued' \subseteq Mockups, mockupRows' \subseteq objects',
           failures' \in 0 .. MaxFailures, leaks' \in Nat, LeakInv',
           q.at # "idle" => q.mockup \in Mockups,
           q.at \in {"upload", "parts", "save"} => q.image \in Images,
           q.at = "save" => q.image \in objects',
           q.at \notin Uploading => q.upload = Nothing
    PROVE  MockupInv'
<1>1. proc \in [Processes -> ProcShape]
  BY MockupShapes DEF MockupInv
<1>2. proc' \in [Processes -> ProcShape] /\ \A r \in Processes : proc'[r] = IF r = p THEN q ELSE proc[r]
  BY <1>1
<1>3. leaks' \in 0 .. MaxFailures
  BY MockupAssumption DEF LeakInv
<1>4. /\ registry' \in [Models -> {"absent", "plain", "default"}]
      /\ change' \in [Changes -> ChangeShape] /\ lastSet' \in Models \union {Nothing} /\ DefaultInv'
  BY MockupShapes DEF MockupInv, registryVars, DefaultInv
<1>5. MockupTypeOK'
  BY <1>2, <1>3, <1>4 DEF MockupTypeOK, ChangeShape, ProcShape, Places
<1>6. WorkInv'
  BY <1>2 DEF MockupInv, WorkInv
<1> QED
  BY <1>4, <1>5, <1>6 DEF MockupInv, RowsStored

\* It keeps the pipeline and asks for no other.
LEMMA PipelineKept ==
    ASSUME MockupInv, NEW p \in Processes, NEW q \in ProcShape, proc' = [proc EXCEPT ![p] = q],
           UNCHANGED generatorVars, q.asked \in {Nothing, proc[p].asked}
    PROVE  /\ modelId' \in [Processes -> Identifiers]
           /\ pipeline' \in [Processes -> Identifiers \union {Nothing}] /\ broken' \subseteq Processes
           /\ PipelineInv'
<1>1. proc \in [Processes -> ProcShape] /\ modelId \in [Processes -> Identifiers]
      /\ pipeline \in [Processes -> Identifiers \union {Nothing}] /\ broken \subseteq Processes
      /\ PipelineInv
  BY MockupShapes DEF MockupInv
<1>2. \A r \in Processes : proc'[r] = IF r = p THEN q ELSE proc[r]
  BY <1>1
<1>3. UNCHANGED <<modelId, pipeline, broken>>
  BY DEF generatorVars
<1> QED
  BY <1>1, <1>2, <1>3 DEF PipelineInv

\* What is true of a process at work.
LEMMA AtWork ==
    ASSUME MockupInv, NEW p \in Processes
    PROVE  /\ proc \in [Processes -> ProcShape] /\ proc[p] \in ProcShape
           /\ modelId \in [Processes -> Identifiers]
           /\ pipeline \in [Processes -> Identifiers \union {Nothing}] /\ broken \subseteq Processes
           /\ objects \subseteq Images /\ pending \subseteq Uploads
           /\ queued \subseteq Mockups /\ mockupRows \subseteq objects
           /\ failures \in 0 .. MaxFailures /\ failures \in Nat /\ leaks \in Nat
           /\ proc[p].at # "idle" => proc[p].mockup \in Mockups
           /\ proc[p].at \in {"upload", "parts", "save"} => proc[p].image \in Images
           /\ proc[p].at = "save" => proc[p].image \in objects
           /\ proc[p].at \notin Uploading => proc[p].upload = Nothing
BY MockupShapes, MockupAssumption DEF MockupInv, WorkInv, RowsStored

LEMMA Failing ==
    ASSUME MockupInv, Fail
    PROVE  failures' \in 0 .. MaxFailures /\ failures' = failures + 1 /\ failures <= failures'
           /\ failures' \in Nat
BY MockupShapes, MockupAssumption DEF MockupInv, Fail

\* The steps that touch neither the pipeline nor the bucket.
LEMMA WorkSteps ==
    ASSUME MockupInv, NEW p \in Processes, NEW q \in ProcShape, proc' = [proc EXCEPT ![p] = q],
           UNCHANGED <<registryVars, generatorVars, storeVars, failures>>,
           proc[p].at \notin Uploading, q.upload = Nothing, q.asked \in {Nothing, proc[p].asked},
           queued' \subseteq Mockups, mockupRows' \subseteq objects,
           q.at # "idle" => q.mockup \in Mockups,
           q.at \in {"upload", "parts", "save"} => q.image \in Images,
           q.at = "save" => q.image \in objects
    PROVE  MockupInv'
<1>1. UNCHANGED <<objects, pending, leaks, failures>>
  BY DEF storeVars
<1>2. failures' \in Nat /\ failures <= failures'
  BY <1>1, AtWork
<1>3. LeakInv'
  BY <1>1, <1>2, AbandonedKept
<1>4. /\ modelId' \in [Processes -> Identifiers]
      /\ pipeline' \in [Processes -> Identifiers \union {Nothing}] /\ broken' \subseteq Processes
      /\ PipelineInv'
  BY PipelineKept
<1> QED
  BY <1>1, <1>3, <1>4, AtWork, ProcMoves

LEMMA TakeDraw ==
    ASSUME MockupInv, NEW p \in Processes,
           \/ \E k \in Mockups : Take(p, k)
           \/ \E x \in Images : Draw(p, x)
           \/ FallbackFails(p) \/ TaskRaises(p) \/ SaveMockup(p)
    PROVE  MockupInv'
<1> DEFINE this == proc[p]
<1>0. this \in ProcShape /\ Resting \in ProcShape /\ Resting.at = "idle" /\ Resting.asked = Nothing
      /\ Resting.upload = Nothing
  BY AtWork, RestingShape
<1>1. ASSUME NEW k \in Mockups, Take(p, k) PROVE MockupInv'
  <2> DEFINE q == [Resting EXCEPT !.at = "load", !.mockup = k]
  <2>1. q \in ProcShape /\ q.at = "load" /\ q.mockup = k /\ q.asked = Nothing
        /\ q.upload = Nothing
    BY <1>0 DEF ProcShape, Places
  <2>2. /\ this.at = "idle" /\ queued' = queued \ {k} /\ proc' = [proc EXCEPT ![p] = q]
        /\ UNCHANGED <<registryVars, generatorVars, storeVars, mockupRows, failures>>
    BY <1>1 DEF Take
  <2> HIDE DEF q
  <2> QED
    BY <2>1, <2>2, AtWork, WorkSteps DEF Uploading
<1>2. ASSUME NEW x \in Images, Draw(p, x) PROVE MockupInv'
  <2> DEFINE to == IF x \in objects THEN "save" ELSE "upload"
             q == [this EXCEPT !.at = to, !.image = x]
  <2>1. to \in Places /\ (to = "save" => x \in objects)
    BY DEF Places
  <2>2. this.at = "draw"
        /\ UNCHANGED <<registryVars, generatorVars, storeVars, queued, mockupRows, failures>>
    BY <1>2 DEF Draw
  <2>3. proc' = [proc EXCEPT ![p] = q]
    BY <1>2, AtWork DEF Draw, ProcShape
  <2> HIDE DEF to
  <2>4. q \in ProcShape /\ q.at = to /\ q.image = x /\ q.mockup = this.mockup /\ q.asked = this.asked
        /\ q.upload = this.upload
    BY <1>0, <2>1 DEF ProcShape
  <2> HIDE DEF q
  <2>5. q.mockup \in Mockups /\ queued' \subseteq Mockups /\ mockupRows' \subseteq objects
        /\ q.upload = Nothing
    BY <2>2, <2>4, AtWork DEF Uploading
  <2> QED
    BY <2>1, <2>2, <2>3, <2>4, <2>5, WorkSteps DEF Uploading
<1>3. CASE FallbackFails(p) \/ TaskRaises(p) \/ SaveMockup(p)
  <2>1. /\ this.at \in {"draw", "upload", "save"}
        /\ UNCHANGED <<registryVars, generatorVars, storeVars, queued, failures>>
        /\ \/ mockupRows' = mockupRows
           \/ this.at = "save" /\ mockupRows' = mockupRows \union {this.image}
    BY <1>3 DEF FallbackFails, TaskRaises, SaveMockup
  <2>2. queued' \subseteq Mockups /\ mockupRows' \subseteq objects
    BY <2>1, AtWork
  <2>3. CASE GiveUp(p)
    <3>1. proc' = [proc EXCEPT ![p] = Resting]
      BY <2>3 DEF GiveUp
    <3> QED
      BY <1>0, <2>1, <2>2, <3>1, WorkSteps DEF Uploading
  <2>4. CASE ~GiveUp(p)
    <3> DEFINE q == [this EXCEPT !.tries = this.tries + 1]
    <3>1. /\ this.at = "draw" /\ this.tries + 1 < Attempts /\ proc' = [proc EXCEPT ![p] = q]
          /\ mockupRows' = mockupRows
      BY <1>3, <2>4, AtWork DEF FallbackFails, TaskRaises, SaveMockup
    <3>2. this.tries + 1 \in 0 .. Attempts - 1
      BY <1>0, <3>1, MockupAssumption DEF ProcShape
    <3>3. q \in ProcShape /\ q.at = this.at /\ q.mockup = this.mockup /\ q.asked = this.asked
          /\ q.upload = this.upload
      BY <1>0, <3>2 DEF ProcShape
    <3> HIDE DEF q
    <3>4. q.mockup \in Mockups /\ q.upload = Nothing
      BY <3>1, <3>3, AtWork DEF Uploading
    <3> QED
      BY <2>1, <2>2, <3>1, <3>3, <3>4, WorkSteps DEF Uploading
  <2> QED
    BY <2>3, <2>4
<1> QED
  BY <1>1, <1>2, <1>3

LEMMA LoadSteps ==
    ASSUME MockupInv, NEW p \in Processes, NEW m \in Identifiers, Load(p, m) \/ LoadFails(p, m)
    PROVE  MockupInv'
<1> DEFINE this == proc[p]
<1>0. /\ this \in ProcShape /\ Resting \in ProcShape /\ Resting.at = "idle" /\ Resting.asked = Nothing
      /\ Resting.upload = Nothing
      /\ proc \in [Processes -> ProcShape] /\ modelId \in [Processes -> Identifiers]
      /\ pipeline \in [Processes -> Identifiers \union {Nothing}] /\ broken \subseteq Processes
      /\ Nothing \notin Identifiers /\ PipelineInv
  BY AtWork, RestingShape DEF MockupInv
<1>1. CASE Load(p, m)
  <2> DEFINE q == [this EXCEPT !.at = "draw", !.asked = m]
  <2>1. /\ this.at = "load" /\ proc' = [proc EXCEPT ![p] = q]
        /\ UNCHANGED <<registryVars, storeVars, queued, mockupRows, failures>>
    BY <1>1, AtWork DEF Load, Ask, ProcShape
  <2>2. q \in ProcShape /\ q.at = "draw" /\ q.asked = m /\ q.mockup = this.mockup
        /\ q.upload = this.upload
    BY <1>0 DEF ProcShape, Places
  <2> HIDE DEF q
  <2>3. \/ pipeline[p] = m /\ modelId[p] = m /\ UNCHANGED generatorVars /\ p \notin broken
        \/ p \in broken /\ UNCHANGED generatorVars
        \/ /\ modelId' = [modelId EXCEPT ![p] = m] /\ pipeline' = [pipeline EXCEPT ![p] = m]
           /\ broken' = broken \ {p}
    BY <1>0, <1>1 DEF Load, PipelineInv
  <2>4. \A r \in Processes : proc'[r] = IF r = p THEN q ELSE proc[r]
    BY <1>0, <2>1
  <2>5. /\ modelId' \in [Processes -> Identifiers]
        /\ pipeline' \in [Processes -> Identifiers \union {Nothing}] /\ broken' \subseteq Processes
    BY <1>0, <2>3 DEF generatorVars
  <2>6. ASSUME NEW r \in Processes \ broken'
        PROVE  /\ pipeline'[r] # Nothing => modelId'[r] = pipeline'[r]
               /\ proc'[r].asked # Nothing => pipeline'[r] = proc'[r].asked
    <3>1. CASE r = p
      BY <1>0, <2>2, <2>3, <2>4, <3>1 DEF generatorVars
    <3>2. CASE r # p
      <4>1. r \notin broken /\ modelId'[r] = modelId[r] /\ pipeline'[r] = pipeline[r] /\ proc'[r] = proc[r]
        BY <1>0, <2>3, <2>4, <3>2 DEF generatorVars
      <4> QED
        BY <1>0, <4>1 DEF PipelineInv
    <3> QED
      BY <3>1, <3>2
  <2>7. PipelineInv'
    BY <2>6 DEF PipelineInv
  <2>8. UNCHANGED <<objects, pending, leaks, failures>>
    BY <2>1 DEF storeVars
  <2>9. failures' \in Nat /\ failures <= failures'
    BY <2>8, AtWork
  <2>10. LeakInv'
    BY <2>1, <2>2, <2>8, <2>9, AbandonedKept DEF Uploading
  <2>11. q.mockup \in Mockups /\ q.upload = Nothing
    BY <2>1, <2>2, AtWork DEF Uploading
  <2> QED
    BY <2>1, <2>2, <2>5, <2>7, <2>8, <2>10, <2>11, AtWork, ProcMoves
<1>2. CASE LoadFails(p, m)
  <2>1. /\ this.at = "load" /\ proc' = [proc EXCEPT ![p] = Resting] /\ Fail
        /\ modelId' = [modelId EXCEPT ![p] = m] /\ broken' = broken \union {p}
        /\ UNCHANGED <<registryVars, pipeline, storeVars, queued, mockupRows>>
    BY <1>2 DEF LoadFails, GiveUp
  <2>2. /\ modelId' \in [Processes -> Identifiers] /\ broken' \subseteq Processes
        /\ pipeline' \in [Processes -> Identifiers \union {Nothing}]
    BY <1>0, <2>1
  <2>3. PipelineInv'
    BY <1>0, <2>1 DEF PipelineInv
  <2>4. UNCHANGED <<objects, pending, leaks>>
    BY <2>1 DEF storeVars
  <2>5. LeakInv'
    BY <1>0, <2>1, <2>4, AbandonedKept, Failing DEF Uploading
  <2> QED
    BY <1>0, <2>1, <2>2, <2>3, <2>4, <2>5, AtWork, ProcMoves, Failing
<1> QED
  BY <1>1, <1>2

\* A process that moves keeps what it works on.
LEMMA Moved ==
    ASSUME MockupInv, NEW p \in Processes, NEW from, NEW to \in Places, Move(p, from, to)
    PROVE  proc[p].at = from
           /\ \E q \in ProcShape :
                /\ proc' = [proc EXCEPT ![p] = q]
                /\ q.at = to /\ q.mockup = proc[p].mockup /\ q.image = proc[p].image
                /\ q.asked = proc[p].asked /\ q.upload = proc[p].upload
<1> DEFINE q == [proc[p] EXCEPT !.at = to]
<1>1. proc[p] \in ProcShape /\ proc \in [Processes -> ProcShape]
  BY AtWork
<1>2. q \in ProcShape /\ q.at = to /\ q.mockup = proc[p].mockup /\ q.image = proc[p].image
      /\ q.asked = proc[p].asked /\ q.upload = proc[p].upload
  BY <1>1 DEF ProcShape
<1>3. proc[p].at = from /\ proc' = [proc EXCEPT ![p] = q]
  BY <1>1 DEF Move
<1> QED
  BY <1>2, <1>3

\* The steps of an upload, which leave the pipelines and the rows alone.
LEMMA StoreMoves ==
    ASSUME MockupInv, NEW p \in Processes, NEW q \in ProcShape, proc' = [proc EXCEPT ![p] = q],
           UNCHANGED uploadOnly, objects' \in {objects, objects \union {proc[p].image}},
           proc[p].at \in {"upload", "parts", "abort"}, proc[p].at # "abort" \/ objects' = objects,
           pending' \subseteq Uploads, failures' \in 0 .. MaxFailures, LeakInv', leaks' \in Nat,
           q.asked \in {Nothing, proc[p].asked},
           \/ q.at = "idle"
           \/ q.mockup = proc[p].mockup /\ q.image = proc[p].image /\ q.at # "save"
           \/ /\ q.mockup = proc[p].mockup /\ q.image = proc[p].image
              /\ objects' = objects \union {proc[p].image} /\ proc[p].at # "abort",
           q.at \notin {"upload", "parts"} \/ proc[p].at # "abort",
           q.at \notin Uploading => q.upload = Nothing
    PROVE  MockupInv'
<1>1. UNCHANGED <<registryVars, generatorVars, queued, mockupRows>>
  BY DEF uploadOnly
<1>2. /\ modelId' \in [Processes -> Identifiers]
      /\ pipeline' \in [Processes -> Identifiers \union {Nothing}]
      /\ broken' \subseteq Processes /\ PipelineInv'
  BY <1>1, PipelineKept
<1>3. /\ proc[p].mockup \in Mockups
      /\ proc[p].at # "abort" => proc[p].image \in Images
      /\ objects \subseteq Images /\ queued' \subseteq Mockups /\ mockupRows' \subseteq objects
  BY <1>1, AtWork
<1>4. objects \subseteq objects' /\ objects' \subseteq Images /\ mockupRows' \subseteq objects'
  BY <1>3
<1>5. /\ q.at # "idle" => q.mockup \in Mockups
      /\ q.at \in {"upload", "parts", "save"} => q.image \in Images
      /\ q.at = "save" => q.image \in objects'
  BY <1>3
<1> QED
  BY <1>1, <1>2, <1>3, <1>4, <1>5, ProcMoves

LEMMA CreateSteps ==
    ASSUME MockupInv, NEW p \in Processes,
           PutObject(p) \/ (\E u \in Uploads : CreateMultipart(p, u) \/ CreateLost(p, u))
    PROVE  MockupInv'
<1> DEFINE this == proc[p]
<1>0. /\ this \in ProcShape /\ Resting \in ProcShape /\ Resting.at = "idle" /\ Resting.asked = Nothing
      /\ Resting.upload = Nothing /\ proc \in [Processes -> ProcShape]
      /\ pending \subseteq Uploads /\ failures \in 0 .. MaxFailures /\ failures \in Nat /\ leaks \in Nat
  BY AtWork, RestingShape
<1>1. CASE PutObject(p)
  <2>1. /\ objects' = objects \union {this.image} /\ Move(p, "upload", "save")
        /\ UNCHANGED <<uploadOnly, pending, leaks, failures>>
    BY <1>1 DEF PutObject
  <2>2. this.at = "upload" /\ this.upload = Nothing
    BY <2>1, AtWork DEF Move, Uploading
  <2>3. PICK q \in ProcShape :
          /\ proc' = [proc EXCEPT ![p] = q] /\ q.at = "save" /\ q.mockup = this.mockup
          /\ q.image = this.image /\ q.asked = this.asked /\ q.upload = this.upload
    BY <2>1, Moved DEF Places
  <2>4. failures' \in Nat /\ failures <= failures'
    BY <1>0, <2>1
  <2>5. LeakInv'
    BY <2>1, <2>3, <2>4, AbandonedKept
  <2> QED
    BY <1>0, <2>1, <2>2, <2>3, <2>5, StoreMoves
<1>2. ASSUME NEW u \in Uploads, CreateMultipart(p, u) PROVE MockupInv'
  <2> DEFINE q == [this EXCEPT !.at = "parts", !.upload = u]
  <2>1. /\ this.at = "upload" /\ proc' = [proc EXCEPT ![p] = q] /\ pending' = pending \union {u}
        /\ UNCHANGED <<uploadOnly, objects, leaks, failures>>
    BY <1>0, <1>2 DEF CreateMultipart, ProcShape
  <2>2. /\ q \in ProcShape /\ q.at = "parts" /\ q.mockup = this.mockup /\ q.image = this.image
        /\ q.asked = this.asked /\ q.upload = u
    BY <1>0 DEF ProcShape, Places
  <2> HIDE DEF q
  <2>3. Abandoned' \subseteq Abandoned
    BY <2>1, <2>2, WorkedAfter DEF Abandoned, Uploading
  <2>4. pending' \subseteq Uploads /\ LeakInv'
    BY <1>0, <2>1, <2>3, LeakCounted
  <2> QED
    BY <1>0, <2>1, <2>2, <2>4, StoreMoves DEF Uploading
<1>3. ASSUME NEW u \in Uploads, CreateLost(p, u) PROVE MockupInv'
  <2>1. /\ this.at = "upload" /\ pending' = pending \union {u} /\ leaks' = leaks + 1 /\ Fail
        /\ UNCHANGED <<uploadOnly, objects>>
    BY <1>3 DEF CreateLost
  <2>2. PICK q \in {Resting, this} : proc' = [proc EXCEPT ![p] = q]
    BY <1>0, <1>3 DEF CreateLost, GiveUp
  <2>3. q \in ProcShape
    BY <1>0, <2>2
  <2>4. Abandoned' \subseteq Abandoned \union {u}
    BY <2>1, <2>2, <2>3, WorkedAfter DEF Abandoned, Uploading
  <2>5. pending' \subseteq Uploads /\ LeakInv' /\ leaks' \in Nat /\ failures' \in 0 .. MaxFailures
    BY <1>0, <2>1, <2>4, LeakCounted, Failing
  <2>6. q.at \notin Uploading /\ q.upload = Nothing /\ q.asked \in {Nothing, this.asked}
    BY <1>0, <2>1, <2>2, AtWork DEF Uploading
  <2>7. q.at = "idle" \/ (q.mockup = this.mockup /\ q.image = this.image /\ q.at # "save")
    BY <1>0, <2>1, <2>2
  <2> QED
    BY <2>1, <2>2, <2>3, <2>5, <2>6, <2>7, StoreMoves
<1> QED
  BY <1>1, <1>2, <1>3

LEMMA PartSteps ==
    ASSUME MockupInv, NEW p \in Processes,
           (\E i \in Parts : UploadPart(p, i)) \/ PartFails(p)
    PROVE  MockupInv'
<1> DEFINE this == proc[p]
<1>0. /\ this \in ProcShape /\ proc \in [Processes -> ProcShape]
      /\ pending \subseteq Uploads /\ failures \in 0 .. MaxFailures /\ failures \in Nat /\ leaks \in Nat
  BY AtWork
<1>1. this.at = "parts" /\ UNCHANGED <<uploadOnly, objects, pending, leaks, failures>>
  BY DEF UploadPart, PartFails, Move
<1>2. PICK q \in ProcShape :
        /\ proc' = [proc EXCEPT ![p] = q] /\ q.at \in Uploading /\ q.mockup = this.mockup
        /\ q.image = this.image /\ q.asked = this.asked /\ q.upload = this.upload
  <2>1. CASE PartFails(p)
    BY <2>1, Moved DEF PartFails, Uploading, Places
  <2>2. ASSUME NEW i \in Parts, UploadPart(p, i)
        PROVE  \E q \in ProcShape :
                 /\ proc' = [proc EXCEPT ![p] = q] /\ q.at \in Uploading /\ q.mockup = this.mockup
                 /\ q.image = this.image /\ q.asked = this.asked /\ q.upload = this.upload
    <3> DEFINE r == [this EXCEPT !.sent = this.sent \union {i}]
    <3>1. /\ r \in ProcShape /\ r.at = "parts" /\ r.mockup = this.mockup /\ r.image = this.image
          /\ r.asked = this.asked /\ r.upload = this.upload
      BY <1>0, <1>1 DEF ProcShape
    <3>2. proc' = [proc EXCEPT ![p] = r]
      BY <1>0, <2>2 DEF UploadPart, ProcShape
    <3> HIDE DEF r
    <3> QED
      BY <3>1, <3>2 DEF Uploading
  <2> QED
    BY <2>1, <2>2
<1>3. failures' \in Nat /\ failures <= failures'
  BY <1>0, <1>1
<1>4. LeakInv'
  BY <1>1, <1>2, <1>3, AbandonedKept
<1> QED
  BY <1>0, <1>1, <1>2, <1>4, StoreMoves DEF Uploading

LEMMA CompleteSteps ==
    ASSUME MockupInv, NEW p \in Processes, Complete(p) \/ CompleteFails(p)
    PROVE  MockupInv'
<1> DEFINE this == proc[p]
<1>0. /\ this \in ProcShape /\ proc \in [Processes -> ProcShape]
      /\ pending \subseteq Uploads /\ failures \in 0 .. MaxFailures /\ failures \in Nat /\ leaks \in Nat
  BY AtWork
<1>1. CASE Complete(p)
  <2> DEFINE q == [this EXCEPT !.at = "save", !.upload = Nothing, !.sent = {}]
  <2>1. /\ this.at = "parts" /\ proc' = [proc EXCEPT ![p] = q]
        /\ pending' = pending \ {this.upload} /\ objects' = objects \union {this.image}
        /\ UNCHANGED <<uploadOnly, leaks, failures>>
    BY <1>0, <1>1 DEF Complete, ProcShape
  <2>2. /\ q \in ProcShape /\ q.at = "save" /\ q.mockup = this.mockup /\ q.image = this.image
        /\ q.asked = this.asked /\ q.upload = Nothing
    BY <1>0 DEF ProcShape, Places
  <2> HIDE DEF q
  <2>3. failures' \in Nat /\ failures <= failures'
    BY <1>0, <2>1
  <2>4. LeakInv' /\ pending' \subseteq Uploads
    BY <2>1, <2>2, <2>3, AbandonedMore
  <2> QED
    BY <1>0, <2>1, <2>2, <2>4, StoreMoves
<1>2. CASE CompleteFails(p)
  <2>1. /\ Move(p, "parts", "abort") /\ UNCHANGED <<uploadOnly, leaks, failures>>
        /\ \/ UNCHANGED <<objects, pending>>
           \/ objects' = objects \union {this.image} /\ pending' = pending \ {this.upload}
    BY <1>2 DEF CompleteFails
  <2>2. PICK q \in ProcShape :
          /\ proc' = [proc EXCEPT ![p] = q] /\ q.at = "abort" /\ q.mockup = this.mockup
          /\ q.image = this.image /\ q.asked = this.asked /\ q.upload = this.upload
    BY <2>1, Moved DEF Places
  <2>3. failures' \in Nat /\ failures <= failures' /\ this.at = "parts"
    BY <1>0, <2>1 DEF Move
  <2>4. CASE UNCHANGED <<objects, pending>>
    <3>1. LeakInv'
      BY <2>1, <2>2, <2>3, <2>4, AbandonedKept
    <3> QED
      BY <1>0, <2>1, <2>2, <2>3, <2>4, <3>1, StoreMoves DEF Uploading
  <2>5. CASE objects' = objects \union {this.image} /\ pending' = pending \ {this.upload}
    <3>1. LeakInv' /\ pending' \subseteq Uploads
      BY <2>1, <2>2, <2>3, <2>5, AbandonedMore
    <3> QED
      BY <1>0, <2>1, <2>2, <2>3, <2>5, <3>1, StoreMoves DEF Uploading
  <2> QED
    BY <2>1, <2>4, <2>5
<1> QED
  BY <1>1, <1>2

LEMMA AbortSteps ==
    ASSUME MockupInv, NEW p \in Processes, Abort(p) \/ AbortFails(p)
    PROVE  MockupInv'
<1> DEFINE this == proc[p]
<1>0. /\ this \in ProcShape /\ Resting \in ProcShape /\ Resting.at = "idle" /\ Resting.asked = Nothing
      /\ Resting.upload = Nothing /\ failures \in 0 .. MaxFailures /\ failures \in Nat /\ leaks \in Nat
  BY AtWork, RestingShape
<1>1. /\ this.at = "abort" /\ UNCHANGED <<uploadOnly, objects>> /\ proc' = [proc EXCEPT ![p] = Resting]
      /\ \/ pending' = pending \ {this.upload} /\ leaks' = leaks /\ failures' = failures
         \/ pending' = pending /\ leaks' = leaks + 1 /\ Fail
  BY DEF Abort, AbortFails, GiveUp
<1>2. failures' \in 0 .. MaxFailures /\ failures' \in Nat /\ failures <= failures' /\ leaks' \in Nat
  BY <1>0, <1>1, Failing
<1>3. LeakInv' /\ pending' \subseteq Uploads
  BY <1>0, <1>1, <1>2, AbandonedMore, Failing
<1> QED
  BY <1>0, <1>1, <1>2, <1>3, StoreMoves

LEMMA DiesStep ==
    ASSUME MockupInv, NEW p \in Processes, ProcessDies(p)
    PROVE  MockupInv'
<1> DEFINE this == proc[p]
<1>0. /\ this \in ProcShape /\ Resting \in ProcShape /\ Resting.at = "idle" /\ Resting.asked = Nothing
      /\ Resting.upload = Nothing
      /\ proc \in [Processes -> ProcShape] /\ modelId \in [Processes -> Identifiers]
      /\ pipeline \in [Processes -> Identifiers \union {Nothing}] /\ broken \subseteq Processes
      /\ BuiltIn \in Identifiers /\ PipelineInv /\ this.at # "idle" /\ this.mockup \in Mockups
  BY AtWork, RestingShape DEF MockupInv, ProcessDies
<1>1. /\ proc' = [proc EXCEPT ![p] = Resting] /\ Fail /\ queued' = queued \union {this.mockup}
      /\ modelId' = [modelId EXCEPT ![p] = BuiltIn] /\ pipeline' = [pipeline EXCEPT ![p] = Nothing]
      /\ broken' = broken \ {p} /\ UNCHANGED <<registryVars, objects, pending, mockupRows>>
      /\ leaks' = IF this.upload \in pending THEN leaks + 1 ELSE leaks
  BY DEF ProcessDies, GiveUp
<1>2. /\ modelId' \in [Processes -> Identifiers] /\ broken' \subseteq Processes
      /\ pipeline' \in [Processes -> Identifiers \union {Nothing}] /\ queued' \subseteq Mockups
  BY <1>0, <1>1, AtWork
<1>3. PipelineInv'
  BY <1>0, <1>1 DEF PipelineInv
<1>4. LeakInv' /\ leaks' \in Nat
  <2>0. failures' = failures + 1 /\ failures <= failures' /\ failures' \in Nat /\ leaks \in Nat
    BY <1>1, Failing, AtWork
  <2>1. CASE this.upload \in pending
    <3>1. pending' = pending /\ leaks' = leaks + 1
      BY <1>1, <2>1
    <3>2. LeakInv'
      BY <1>0, <1>1, <2>0, <3>1, AbandonedMore
    <3> QED
      BY <2>0, <3>1, <3>2
  <2>2. CASE this.upload \notin pending
    <3>1. pending' = pending \ {this.upload} /\ leaks' = leaks
      BY <1>1, <2>2
    <3>2. LeakInv'
      BY <1>0, <1>1, <2>0, <3>1, AbandonedMore
    <3> QED
      BY <2>0, <3>1, <3>2
  <2> QED
    BY <2>1, <2>2
<1> QED
  BY <1>0, <1>1, <1>2, <1>3, <1>4, AtWork, ProcMoves, Failing

LEMMA OtherMockupSteps ==
    ASSUME MockupInv, (\E batch \in SUBSET Mockups : GenerateMockup(batch)) \/ UNCHANGED mockupVars
    PROVE  MockupInv'
<1>1. /\ UNCHANGED <<registry, change, lastSet, proc, modelId, pipeline, objects, pending,
                     mockupRows, broken, leaks, failures>>
      /\ queued' \subseteq Mockups
  BY MockupShapes DEF MockupInv, GenerateMockup, mockupVars, registryVars, generatorVars, storeVars
<1>2. MockupTypeOK'
  BY <1>1, MockupShapes DEF MockupInv, MockupTypeOK, ChangeShape, ProcShape, Places
<1>3. DefaultInv' /\ WorkInv' /\ PipelineInv' /\ RowsStored'
  BY <1>1 DEF MockupInv, DefaultInv, WorkInv, PipelineInv, RowsStored
<1>4. LeakInv'
  BY <1>1 DEF MockupInv, LeakInv, Abandoned, Worked
<1> QED
  BY <1>2, <1>3, <1>4 DEF MockupInv

LEMMA MockupInitOK == MockupInit => MockupInv
<1> SUFFICES ASSUME MockupInit PROVE MockupInv
  OBVIOUS
<1>1. MockupTypeOK
  <2>1. 0 \in 0 .. MaxFailures
    BY MockupAssumption
  <2> QED
    BY <2>1, RestingShape, MockupShapes DEF MockupInit
<1>2. DefaultInv /\ WorkInv /\ PipelineInv /\ RowsStored
  BY RestingShape DEF MockupInit, DefaultInv, WorkInv, PipelineInv, RowsStored
<1>3. LeakInv
  <2>1. Abandoned = {}
    BY DEF MockupInit, Abandoned
  <2> QED
    BY <2>1, FS_EmptySet DEF LeakInv, MockupInit
<1> QED
  BY <1>1, <1>2, <1>3 DEF MockupInv

LEMMA MockupNextOK == MockupInv /\ [MockupNext]_mockupVars => MockupInv'
<1> SUFFICES ASSUME MockupInv, [MockupNext]_mockupVars PROVE MockupInv'
  OBVIOUS
<1> QED
  BY RegistrySteps, CommitStep, TakeDraw, LoadSteps, CreateSteps, PartSteps, CompleteSteps,
     AbortSteps, DiesStep, OtherMockupSteps
     DEF MockupNext

-----------------------------------------------------------------------------
(***************************************************************************)
(* What is told of the performance of designs.                             *)
(***************************************************************************)

JobShape == [at : {"new", "ask", "update", "done", "failed"}, asks : SUBSET Questions,
             answers : SUBSET Questions]

LookShape == [at : {"new", "stream", "done"}, about : SUBSET Watched, cursor : SUBSET Rows,
              sent : SUBSET Rows]

\* The rows of a set that a job has stored.
Of(j, rows) == {r \in rows : r[1] = j}

\* A job has stored nothing, or all that it was answered when it had asked everything.
StoredInv ==
    \A j \in Jobs :
        /\ job[j].at \notin {"new", "ask"} => job[j].asks = {}
        /\ Of(j, figures) # {} => Of(j, figures) = Collected(j)
        /\ job[j].at \in {"new", "ask"} => Of(j, figures) = {}
        /\ job[j].at \in {"update", "done"} => Collected(j) \subseteq figures

\* Weights were updated from whole jobs.
InformedInv ==
    \A j \in Jobs :
        /\ j \in informed => Of(j, figures) # {}
        /\ job[j].at = "done" /\ job[j].answers # {} => j \in informed

\* A cursor has all that a job has stored about its listings, or nothing.
CursorInv ==
    \A k \in Lookers :
        /\ looker[k].sent \subseteq looker[k].cursor
        /\ looker[k].cursor \subseteq figures
        /\ looker[k].at = "done" => looker[k].sent = looker[k].cursor
        /\ \A j \in Jobs :
             Of(j, looker[k].cursor) # {} =>
               Of(j, looker[k].cursor) = {r \in Collected(j) : r[3] \in looker[k].about}

FiguresInv ==
    /\ job \in [Jobs -> JobShape] /\ looker \in [Lookers -> LookShape]
    /\ figures \subseteq Rows /\ informed \subseteq Jobs
    /\ StoredInv /\ InformedInv /\ CursorInv

LEMMA CollectedRows ==
    ASSUME NEW j \in Jobs, job[j] \in JobShape
    PROVE  Collected(j) \subseteq Rows /\ \A r \in Collected(j) : r[1] = j
BY DEF Collected, Rows, Questions, JobShape

LEMMA FiguresInitOK == FiguresInit => FiguresInv
<1> SUFFICES ASSUME FiguresInit PROVE FiguresInv
  OBVIOUS
<1>1. job \in [Jobs -> JobShape] /\ looker \in [Lookers -> LookShape]
  BY DEF FiguresInit, JobShape, LookShape
<1>2. StoredInv /\ InformedInv /\ CursorInv
  BY DEF FiguresInit, StoredInv, InformedInv, CursorInv, Of
<1> QED
  BY <1>1, <1>2 DEF FiguresInv, FiguresInit

\* A job that has stored nothing takes a step and stores nothing.
LEMMA JobAsks ==
    ASSUME FiguresInv, NEW j \in Jobs, NEW n \in JobShape, job' = [job EXCEPT ![j] = n],
           UNCHANGED <<figures, looker, informed>>, job[j].at \in {"new", "ask"},
           n.at \in {"ask", "failed"}, n.at = "failed" => n.asks = {}
    PROVE  FiguresInv'
<1>1. job' \in [Jobs -> JobShape] /\ \A i \in Jobs : job'[i] = IF i = j THEN n ELSE job[i]
  BY DEF FiguresInv
<1>2. \A i \in Jobs \ {j} : Collected(i)' = Collected(i)
  BY <1>1 DEF Collected
<1>3. Of(j, figures) = {} /\ j \notin informed
  BY DEF FiguresInv, StoredInv, InformedInv
<1>4. StoredInv'
  BY <1>1, <1>2, <1>3 DEF FiguresInv, StoredInv, Of
<1>5. InformedInv'
  BY <1>1, <1>3 DEF FiguresInv, InformedInv, Of
<1>6. \A k \in Lookers : Of(j, looker[k].cursor) = {}
  BY <1>3 DEF FiguresInv, CursorInv, Of
<1>7. CursorInv'
  <2> SUFFICES ASSUME NEW k \in Lookers, NEW i \in Jobs, Of(i, looker[k].cursor) # {}
               PROVE  Of(i, looker[k].cursor) = {r \in Collected(i)' : r[3] \in looker[k].about}
    BY DEF FiguresInv, CursorInv, Of
  <2>1. i # j
    BY <1>6
  <2> QED
    BY <1>2, <2>1 DEF FiguresInv, CursorInv
<1> QED
  BY <1>1, <1>4, <1>5, <1>7 DEF FiguresInv

\* A job goes on after it has asked, with the same answers.
LEMMA JobGoesOn ==
    ASSUME FiguresInv, NEW j \in Jobs, NEW n \in JobShape, job' = [job EXCEPT ![j] = n],
           n.answers = job[j].answers, n.asks = {}, n.at \notin {"new", "ask"},
           n.at = "update" => Collected(j) \subseteq figures',
           n.at = "done" /\ n.answers # {} => j \in informed',
           n.at = "done" => Collected(j) \subseteq figures,
           figures \subseteq figures', figures' \subseteq Rows,
           \A i \in Jobs \ {j} : Of(i, figures') = Of(i, figures),
           Of(j, figures') # {} => Of(j, figures') = Collected(j),
           informed \subseteq informed', informed' \subseteq Jobs,
           \A i \in informed' : Of(i, figures') # {}, UNCHANGED looker
    PROVE  FiguresInv'
<1>1. job' \in [Jobs -> JobShape] /\ \A i \in Jobs : job'[i] = IF i = j THEN n ELSE job[i]
  BY DEF FiguresInv
<1>2. \A i \in Jobs : Collected(i)' = Collected(i)
  BY <1>1 DEF Collected
<1>3. StoredInv'
  BY <1>1, <1>2 DEF FiguresInv, StoredInv, Of
<1>4. InformedInv'
  BY <1>1 DEF FiguresInv, InformedInv, Of
<1>5. CursorInv'
  BY <1>2 DEF FiguresInv, CursorInv, Of
<1> QED
  BY <1>1, <1>3, <1>4, <1>5 DEF FiguresInv

LEMMA JobSteps ==
    ASSUME FiguresInv, NEW j \in Jobs,
           \/ StartJob(j) \/ EndJob(j) \/ Store(j) \/ UpdateFromFigures(j)
           \/ \E q \in Questions : Answered(j, q) \/ NotAnswered(j, q)
    PROVE  FiguresInv'
<1> DEFINE this == job[j]
<1>0. /\ job \in [Jobs -> JobShape] /\ this \in JobShape /\ figures \subseteq Rows
      /\ informed \subseteq Jobs /\ \A i \in informed : Of(i, figures) # {}
      /\ Of(j, figures) # {} => Of(j, figures) = Collected(j)
      /\ this.at \notin {"new", "ask"} => this.asks = {}
      /\ this.at \in {"new", "ask"} => Of(j, figures) = {}
      /\ this.at \in {"update", "done"} => Collected(j) \subseteq figures
  BY DEF FiguresInv, StoredInv, InformedInv
<1>1. CASE StartJob(j)
  <2> DEFINE n == [this EXCEPT !.at = "ask", !.asks = Questions]
  <2>1. this.at = "new" /\ job' = [job EXCEPT ![j] = n] /\ UNCHANGED <<figures, looker, informed>>
    BY <1>0, <1>1 DEF StartJob
  <2>2. n \in JobShape /\ n.at = "ask"
    BY <1>0 DEF JobShape
  <2> HIDE DEF n
  <2> QED
    BY <2>1, <2>2, JobAsks
<1>2. ASSUME NEW q \in Questions, Answered(j, q) \/ NotAnswered(j, q) PROVE FiguresInv'
  <2> DEFINE n == [this EXCEPT !.asks = this.asks \ {q}]
             m == [n EXCEPT !.answers = this.answers \union {q}]
  <2>1. /\ job' = [job EXCEPT ![j] = n] \/ job' = [job EXCEPT ![j] = m]
        /\ UNCHANGED <<figures, looker, informed>>
    BY <1>0, <1>2 DEF Answered, NotAnswered
  <2>2. this.at = "ask"
    BY <1>2 DEF Answered, NotAnswered
  <2>3. n \in JobShape /\ n.at = "ask" /\ m \in JobShape /\ m.at = "ask"
    BY <1>0, <2>2 DEF JobShape
  <2> HIDE DEF n, m
  <2> QED
    BY <2>1, <2>2, <2>3, JobAsks
<1>3. CASE EndJob(j)
  <2> DEFINE n == [this EXCEPT !.at = "failed", !.asks = {}]
  <2>1. this.at \in {"ask", "update"} /\ job' = [job EXCEPT ![j] = n]
        /\ UNCHANGED <<figures, looker, informed>>
    BY <1>0, <1>3 DEF EndJob
  <2>2. n \in JobShape /\ n.at = "failed" /\ n.asks = {} /\ n.answers = this.answers
    BY <1>0 DEF JobShape
  <2> HIDE DEF n
  <2> QED
    BY <1>0, <2>1, <2>2, JobGoesOn
<1>4. CASE Store(j)
  <2> DEFINE n == [this EXCEPT !.at = "update"]
  <2>1. /\ this.at = "ask" /\ this.asks = {} /\ job' = [job EXCEPT ![j] = n]
        /\ figures' = figures \union Collected(j) /\ UNCHANGED <<looker, informed>>
    BY <1>0, <1>4 DEF Store
  <2>2. n \in JobShape /\ n.at = "update" /\ n.asks = {} /\ n.answers = this.answers
    BY <1>0, <2>1 DEF JobShape
  <2> HIDE DEF n
  <2>3. /\ figures' \subseteq Rows /\ figures \subseteq figures'
        /\ \A i \in Jobs \ {j} : Of(i, figures') = Of(i, figures)
        /\ Of(j, figures') = Collected(j)
    BY <1>0, <2>1, CollectedRows DEF Of
  <2>4. \A i \in informed' : Of(i, figures') # {}
    BY <1>0, <2>1 DEF Of
  <2> QED
    BY <1>0, <2>1, <2>2, <2>3, <2>4, JobGoesOn
<1>5. CASE UpdateFromFigures(j)
  <2> DEFINE n == [this EXCEPT !.at = "done"]
  <2>1. /\ this.at = "update" /\ job' = [job EXCEPT ![j] = n] /\ UNCHANGED <<figures, looker>>
        /\ informed' = informed \union {r[1] : r \in figures}
    BY <1>0, <1>5 DEF UpdateFromFigures
  <2>2. n \in JobShape /\ n.at = "done" /\ n.asks = {} /\ n.answers = this.answers
    BY <1>0, <2>1 DEF JobShape
  <2> HIDE DEF n
  <2>3. \A r \in Rows : r[1] \in Jobs
    BY DEF Rows
  <2>4. informed' \subseteq Jobs /\ \A i \in informed' : Of(i, figures') # {}
    BY <1>0, <2>1, <2>3 DEF Of
  <2>5. ASSUME NEW q \in this.answers PROVE j \in informed'
    <3>1. <<j, q[1], q[2]>> \in Collected(j)
      BY DEF Collected
    <3>2. <<j, q[1], q[2]>> \in figures
      BY <1>0, <2>1, <3>1
    <3> QED
      BY <2>1, <3>2
  <2> QED
    BY <1>0, <2>1, <2>2, <2>4, <2>5, JobGoesOn
<1> QED
  BY <1>1, <1>2, <1>3, <1>4, <1>5

LEMMA LookSteps ==
    ASSUME FiguresInv, NEW k \in Lookers,
           SendRows(k) \/ \E about \in SUBSET Watched : Look(k, about)
    PROVE  FiguresInv'
<1> DEFINE this == looker[k]
<1>0. /\ looker \in [Lookers -> LookShape] /\ this \in LookShape /\ UNCHANGED <<job, figures, informed>>
      /\ this.sent \subseteq this.cursor /\ this.cursor \subseteq figures /\ figures \subseteq Rows
  BY DEF FiguresInv, CursorInv, SendRows, Look
<1>1. ASSUME NEW n \in LookShape, looker' = [looker EXCEPT ![k] = n],
             n.sent \subseteq n.cursor, n.cursor \subseteq figures,
             n.at = "done" => n.sent = n.cursor,
             \A j \in Jobs : Of(j, n.cursor) # {} =>
                               Of(j, n.cursor) = {r \in Collected(j) : r[3] \in n.about}
      PROVE  FiguresInv'
  <2>1. looker' \in [Lookers -> LookShape] /\ \A i \in Lookers : looker'[i] = IF i = k THEN n ELSE looker[i]
    BY <1>0, <1>1
  <2>2. \A j \in Jobs : Collected(j)' = Collected(j)
    BY <1>0 DEF Collected
  <2>3. StoredInv' /\ InformedInv'
    BY <1>0, <2>2 DEF FiguresInv, StoredInv, InformedInv
  <2>4. ASSUME NEW i \in Lookers
        PROVE  /\ looker'[i].sent \subseteq looker'[i].cursor /\ looker'[i].cursor \subseteq figures
               /\ looker'[i].at = "done" => looker'[i].sent = looker'[i].cursor
               /\ \A j \in Jobs :
                    Of(j, looker'[i].cursor) # {} =>
                      Of(j, looker'[i].cursor) = {r \in Collected(j) : r[3] \in looker'[i].about}
    <3>1. CASE i = k
      BY <1>1, <2>1, <3>1
    <3>2. CASE i # k
      BY <2>1, <3>2 DEF FiguresInv, CursorInv
    <3> QED
      BY <3>1, <3>2
  <2>5. CursorInv'
    BY <1>0, <2>2, <2>4 DEF CursorInv
  <2> QED
    BY <1>0, <2>1, <2>3, <2>5 DEF FiguresInv
<1>2. ASSUME NEW about \in SUBSET Watched, Look(k, about) PROVE FiguresInv'
  <2> DEFINE rows == {r \in figures : r[3] \in about}
             n == [at |-> "stream", about |-> about, cursor |-> rows, sent |-> {}]
  <2>1. looker' = [looker EXCEPT ![k] = n]
    BY <1>2 DEF Look
  <2>2. n \in LookShape
    BY <1>0 DEF LookShape
  <2>3. ASSUME NEW j \in Jobs, Of(j, rows) # {}
        PROVE  Of(j, rows) = {r \in Collected(j) : r[3] \in about}
    <3>1. Of(j, rows) = {r \in Of(j, figures) : r[3] \in about}
      BY DEF Of
    <3>2. Of(j, figures) # {}
      BY <2>3, <3>1
    <3> QED
      BY <3>1, <3>2 DEF FiguresInv, StoredInv
  <2> QED
    BY <1>0, <1>1, <2>1, <2>2, <2>3
<1>3. ASSUME NEW batch \in SUBSET (this.cursor \ this.sent),
             this.at = "stream",
             looker' = [looker EXCEPT ![k].sent = @ \union batch,
                                      ![k].at = IF this.sent \union batch = this.cursor
                                                THEN "done" ELSE "stream"]
      PROVE  FiguresInv'
  <2> DEFINE at == IF this.sent \union batch = this.cursor THEN "done" ELSE "stream"
             n == [this EXCEPT !.sent = this.sent \union batch, !.at = at]
  <2>1. looker' = [looker EXCEPT ![k] = n]
    BY <1>0, <1>3
  <2>2. at \in {"stream", "done"} /\ (at = "done" => this.sent \union batch = this.cursor)
    OBVIOUS
  <2> HIDE DEF at
  <2>3. n \in LookShape /\ n.cursor = this.cursor /\ n.about = this.about /\ n.at = at
        /\ n.sent = this.sent \union batch
    BY <1>0, <2>2 DEF LookShape
  <2> HIDE DEF n
  <2>4. \A j \in Jobs : Of(j, n.cursor) # {} =>
                          Of(j, n.cursor) = {r \in Collected(j) : r[3] \in n.about}
    BY <2>3 DEF FiguresInv, CursorInv
  <2>5. n.sent \subseteq n.cursor
    BY <1>0, <2>3
  <2> QED
    BY <1>0, <1>1, <2>1, <2>2, <2>3, <2>4, <2>5
<1> QED
  BY <1>2, <1>3 DEF SendRows

LEMMA FiguresNextOK == FiguresInv /\ [FiguresNext]_figureVars => FiguresInv'
<1> SUFFICES ASSUME FiguresInv, [FiguresNext]_figureVars PROVE FiguresInv'
  OBVIOUS
<1>1. CASE UNCHANGED figureVars
  BY <1>1 DEF figureVars, FiguresInv, StoredInv, InformedInv, CursorInv, Collected, Of
<1>2. \A about \in {Watched} \union {{l} : l \in Watched} : about \in SUBSET Watched
  OBVIOUS
<1> QED
  BY <1>1, <1>2, JobSteps, LookSteps DEF FiguresNext

LEMMA FiguresInvWhole == FiguresInv => FiguresWhole /\ FiguresTypeOK
<1> SUFFICES ASSUME FiguresInv PROVE FiguresWhole /\ FiguresTypeOK
  OBVIOUS
<1>1. FiguresTypeOK
  BY DEF FiguresInv, FiguresTypeOK, JobShape, LookShape, CursorInv
<1>2. ASSUME NEW k \in Lookers, NEW j \in Jobs, looker[k].at = "done"
      PROVE  {r \in looker[k].sent : r[1] = j} \in {{}, {r \in Collected(j) : r[3] \in looker[k].about}}
  BY <1>2 DEF FiguresInv, CursorInv, Of
<1>3. ASSUME NEW j \in Jobs, j \in informed PROVE job[j].asks = {} /\ Collected(j) \subseteq figures
  <2>1. Of(j, figures) = Collected(j) /\ job[j].at \notin {"new", "ask"}
    BY <1>3 DEF FiguresInv, InformedInv, StoredInv
  <2> QED
    BY <2>1 DEF FiguresInv, StoredInv, Of
<1> QED
  BY <1>1, <1>2, <1>3 DEF FiguresWhole, FiguresInv, InformedInv

-----------------------------------------------------------------------------
(***************************************************************************)
(* The summaries of an A/B test.                                           *)
(***************************************************************************)

ShowShape == [at : {"new", "stamped", "stored", "lost"}, variant : Variants, success : BOOLEAN,
              day : Days]

RecorderShape == [at : {"idle", "find", "write"}, day : Days, counts : Counts, found : BOOLEAN]

NoMore(m, n) == \A v \in Variants : m[v] <= n[v]

\* What was counted is still there, in the rows and with those who are to write it.
CountedInv ==
    /\ \A d \in DOMAIN summary : NoMore(summary[d], Conversions(d))
    /\ \A r \in Recorders : NoMore(recorder[r].counts, Conversions(recorder[r].day))

\* On a day that was not summarised by two at once, one caller at the most is at it, and
\* has counted no less than the row.
AloneInv ==
    \A r \in Recorders :
        recorder[r].at # "idle" /\ recorder[r].day \notin crossed =>
          /\ \A q \in Recorders :
               recorder[q].at # "idle" /\ recorder[q].day = recorder[r].day => q = r
          /\ recorder[r].day \in DOMAIN summary =>
               NoMore(summary[recorder[r].day], recorder[r].counts)

ExperimentInv ==
    /\ today \in Days /\ show \in [Shows -> ShowShape] /\ recorder \in [Recorders -> RecorderShape]
    /\ DOMAIN summary \subseteq Days /\ \A d \in DOMAIN summary : summary[d] \in Counts
    /\ crossed \subseteq Days
    /\ CountedInv /\ AloneInv

LEMMA CountsNat ==
    \A m \in Counts : m \in [Variants -> Nat] /\ \A v \in Variants : m[v] \in Nat
<1>1. Cardinality(Shows) \in Nat
  BY FS_CardinalityType, ExperimentAssumption
<1> QED
  BY <1>1 DEF Counts

LEMMA NoMoreChain ==
    ASSUME NEW l \in Counts, NEW m \in Counts, NEW n \in Counts, NoMore(l, m), NoMore(m, n)
    PROVE  NoMore(l, n)
<1> SUFFICES ASSUME NEW v \in Variants PROVE l[v] <= n[v]
  BY DEF NoMore
<1>1. l[v] \in Nat /\ m[v] \in Nat /\ n[v] \in Nat
  BY CountsNat
<1>2. l[v] <= m[v] /\ m[v] <= n[v]
  BY DEF NoMore
<1> QED
  BY <1>1, <1>2

LEMMA NoMoreSame == \A m \in Counts : NoMore(m, m)
  BY CountsNat DEF NoMore

LEMMA ZeroCounts == Zero \in Counts /\ \A m \in Counts : NoMore(Zero, m)
<1>1. Cardinality(Shows) \in Nat
  BY FS_CardinalityType, ExperimentAssumption
<1>2. Zero \in Counts /\ \A v \in Variants : Zero[v] = 0
  BY <1>1 DEF Zero, Counts
<1>3. ASSUME NEW m \in Counts PROVE NoMore(Zero, m)
  BY <1>2, CountsNat DEF NoMore
<1> QED
  BY <1>2, <1>3

LEMMA QuietShape ==
    Quiet \in RecorderShape /\ Quiet.at = "idle" /\ Quiet.counts = Zero
<1>1. 0 \in Days
  BY ExperimentAssumption DEF Days
<1> QED
  BY <1>1, ZeroCounts DEF Quiet, RecorderShape

LEMMA ConvertedFinite ==
    \A d, v : IsFiniteSet(Converted(d, v)) /\ Cardinality(Converted(d, v)) \in 0 .. Cardinality(Shows)
<1> SUFFICES ASSUME NEW d, NEW v
             PROVE  IsFiniteSet(Converted(d, v)) /\ Cardinality(Converted(d, v)) \in 0 .. Cardinality(Shows)
  OBVIOUS
<1>1. Converted(d, v) \in SUBSET Shows
  BY DEF Converted
<1>2. IsFiniteSet(Converted(d, v)) /\ Cardinality(Converted(d, v)) <= Cardinality(Shows)
  BY <1>1, FS_Subset, ExperimentAssumption
<1>3. Cardinality(Shows) \in Nat /\ Cardinality(Converted(d, v)) \in Nat
  BY <1>2, FS_CardinalityType, ExperimentAssumption
<1> QED
  BY <1>2, <1>3

LEMMA ConversionsCounts == \A d : Conversions(d) \in Counts
  BY ConvertedFinite DEF Conversions, Counts

\* A show that is stored stays so.
LEMMA ConversionsGrow ==
    ASSUME show \in [Shows -> ShowShape],
           \A s \in Shows : show[s].at = "stored" => show'[s] = show[s]
    PROVE  \A d : NoMore(Conversions(d), Conversions(d)') /\ Conversions(d)' \in Counts
<1> SUFFICES ASSUME NEW d PROVE NoMore(Conversions(d), Conversions(d)') /\ Conversions(d)' \in Counts
  OBVIOUS
<1>1. ASSUME NEW v \in Variants
      PROVE  /\ Cardinality(Converted(d, v)) <= Cardinality(Converted(d, v)')
             /\ Cardinality(Converted(d, v)') \in 0 .. Cardinality(Shows)
  <2>1. Converted(d, v)' \in SUBSET Shows /\ Converted(d, v) \in SUBSET Converted(d, v)'
    BY DEF Converted
  <2>2. IsFiniteSet(Converted(d, v)') /\ Cardinality(Converted(d, v)') <= Cardinality(Shows)
    BY <2>1, FS_Subset, ExperimentAssumption
  <2>3. Cardinality(Shows) \in Nat /\ Cardinality(Converted(d, v)') \in Nat
    BY <2>2, FS_CardinalityType, ExperimentAssumption
  <2>4. Cardinality(Converted(d, v)) <= Cardinality(Converted(d, v)')
    BY <2>1, <2>2, FS_Subset
  <2> QED
    BY <2>2, <2>3, <2>4
<1>2. Conversions(d)' = [v \in Variants |-> Cardinality(Converted(d, v)')]
  BY DEF Conversions
<1> QED
  BY <1>1, <1>2 DEF Conversions, NoMore, Counts

LEMMA ExperimentInitOK == ExperimentInit => ExperimentInv
<1> SUFFICES ASSUME ExperimentInit PROVE ExperimentInv
  OBVIOUS
<1>1. 0 \in Days
  BY ExperimentAssumption DEF Days
<1>2. Untold \in ShowShape
  BY <1>1 DEF Untold, ShowShape, Variants
<1>3. show \in [Shows -> ShowShape] /\ recorder \in [Recorders -> RecorderShape] /\ DOMAIN summary = {}
      /\ \A r \in Recorders : recorder[r].at = "idle" /\ recorder[r].counts = Zero
  BY <1>2, QuietShape DEF ExperimentInit
<1>4. CountedInv
  BY <1>3, ZeroCounts, ConversionsCounts DEF CountedInv
<1>5. AloneInv
  BY <1>3 DEF AloneInv
<1> QED
  BY <1>1, <1>3, <1>4, <1>5 DEF ExperimentInit, ExperimentInv

\* A result is stamped or comes to its end, or a day is over.
LEMMA ShowSteps ==
    ASSUME ExperimentInv,
           \/ \E s \in Shows : \/ EndResult(s)
                               \/ \E v \in Variants, b \in BOOLEAN : RecordResult(s, v, b)
           \/ Midnight \/ UNCHANGED experimentVars
    PROVE  /\ ExperimentInv' /\ UNCHANGED summary
           /\ \A s \in Shows : show[s].at = "stored" => show'[s] = show[s]
<1>1. /\ UNCHANGED <<summary, recorder, crossed>> /\ show \in [Shows -> ShowShape] /\ today \in Days
  BY DEF EndResult, RecordResult, Midnight, experimentVars, ExperimentInv
<1>2. /\ today' \in Days /\ show' \in [Shows -> ShowShape]
      /\ \A s \in Shows : show[s].at = "stored" => show'[s] = show[s]
  <2>1. CASE Midnight \/ UNCHANGED experimentVars
    BY <1>1, <2>1, ExperimentAssumption DEF Midnight, experimentVars, Days
  <2>2. ASSUME NEW s \in Shows, EndResult(s)
        PROVE  /\ today' \in Days /\ show' \in [Shows -> ShowShape]
               /\ \A t \in Shows : show[t].at = "stored" => show'[t] = show[t]
    <3>1. PICK at \in {"stored", "lost"} : show' = [show EXCEPT ![s] = [show[s] EXCEPT !.at = at]]
      BY <1>1, <2>2 DEF EndResult
    <3>2. [show[s] EXCEPT !.at = at] \in ShowShape
      BY <1>1 DEF ShowShape
    <3> QED
      BY <1>1, <2>2, <3>1, <3>2 DEF EndResult
  <2>3. ASSUME NEW s \in Shows, NEW v \in Variants, NEW b \in BOOLEAN, RecordResult(s, v, b)
        PROVE  /\ today' \in Days /\ show' \in [Shows -> ShowShape]
               /\ \A t \in Shows : show[t].at = "stored" => show'[t] = show[t]
    <3>1. [at |-> "stamped", variant |-> v, success |-> b, day |-> today] \in ShowShape
      BY <1>1 DEF ShowShape
    <3> QED
      BY <1>1, <2>3, <3>1 DEF RecordResult
  <2> QED
    BY <2>1, <2>2, <2>3
<1>3. \A d : NoMore(Conversions(d), Conversions(d)') /\ Conversions(d)' \in Counts
  BY <1>1, <1>2, ConversionsGrow
<1>4. CountedInv'
  <2>1. \A d \in DOMAIN summary : NoMore(summary[d], Conversions(d)')
    BY <1>3, NoMoreChain, ConversionsCounts DEF ExperimentInv, CountedInv
  <2>2. ASSUME NEW r \in Recorders, NEW d, d = recorder[r].day
        PROVE  NoMore(recorder[r].counts, Conversions(d)')
    <3>1. recorder[r].counts \in Counts /\ NoMore(recorder[r].counts, Conversions(d))
      BY <2>2 DEF ExperimentInv, RecorderShape, CountedInv
    <3> QED
      BY <1>3, <3>1, NoMoreChain, ConversionsCounts
  <2> QED
    BY <1>1, <2>1, <2>2 DEF CountedInv
<1>5. AloneInv'
  BY <1>1 DEF ExperimentInv, AloneInv, NoMore
<1> QED
  BY <1>1, <1>2, <1>4, <1>5 DEF ExperimentInv

\* What a step of a recorder may do to the summaries.
RowsGrow ==
    \A d \in DOMAIN summary' :
        d \notin crossed' /\ d \in DOMAIN summary => NoMore(summary[d], summary'[d])

\* A recorder that is done, or has found a row or none.
LEMMA RecorderOn ==
    ASSUME ExperimentInv, NEW r \in Recorders, NEW n \in RecorderShape,
           recorder' = [recorder EXCEPT ![r] = n], UNCHANGED <<today, show, summary, crossed>>,
           \/ n.at = "idle" /\ n.counts = Zero
           \/ recorder[r].at # "idle" /\ n.day = recorder[r].day /\ n.counts = recorder[r].counts
    PROVE  ExperimentInv' /\ RowsGrow
<1>1. recorder' \in [Recorders -> RecorderShape]
      /\ \A q \in Recorders : recorder'[q] = IF q = r THEN n ELSE recorder[q]
  BY DEF ExperimentInv
<1>2. \A d : Conversions(d)' = Conversions(d)
  BY DEF Conversions, Converted
<1>3. CountedInv'
  BY <1>1, <1>2, ZeroCounts, ConversionsCounts DEF ExperimentInv, CountedInv
<1>4. AloneInv'
  BY <1>1 DEF ExperimentInv, AloneInv
<1>5. RowsGrow
  BY NoMoreSame DEF RowsGrow, ExperimentInv
<1> QED
  BY <1>1, <1>3, <1>4, <1>5 DEF ExperimentInv

LEMMA CountStep ==
    ASSUME ExperimentInv, NEW r \in Recorders, CountToday(r)
    PROVE  ExperimentInv' /\ RowsGrow
<1> DEFINE count == Conversions(today)
           n == [Quiet EXCEPT !.at = "find", !.day = today, !.counts = count]
<1>1. recorder[r].at = "idle" /\ UNCHANGED <<today, show, summary>> /\ today \in Days
      /\ recorder \in [Recorders -> RecorderShape]
  BY DEF CountToday, ExperimentInv
<1>2. CASE count = Zero
  BY <1>1, <1>2, QuietShape, RecorderOn DEF CountToday
<1>3. CASE count # Zero
  <2>1. /\ recorder' = [recorder EXCEPT ![r] = n]
        /\ crossed' = IF \E q \in Recorders : recorder[q].at # "idle" /\ recorder[q].day = today
                      THEN crossed \union {today} ELSE crossed
    BY <1>3 DEF CountToday
  <2>2. count \in Counts /\ Quiet \in RecorderShape
    BY ConversionsCounts, QuietShape
  <2> HIDE DEF count
  <2>3. n \in RecorderShape /\ n.at = "find" /\ n.day = today /\ n.counts = count
    BY <1>1, <2>2 DEF RecorderShape
  <2> HIDE DEF n
  <2>4. recorder' \in [Recorders -> RecorderShape]
        /\ \A q \in Recorders : recorder'[q] = IF q = r THEN n ELSE recorder[q]
    BY <1>1, <2>1, <2>3
  <2>5. \A d : Conversions(d)' = Conversions(d)
    BY <1>1 DEF Conversions, Converted
  <2>6. NoMore(count, Conversions(today))
    BY <2>2, NoMoreSame DEF count
  <2>7. CountedInv'
    BY <1>1, <2>3, <2>4, <2>5, <2>6 DEF ExperimentInv, CountedInv
  <2>8. today \in DOMAIN summary => NoMore(summary[today], count)
    BY DEF ExperimentInv, CountedInv, count
  <2>9. crossed' \subseteq Days /\ crossed \subseteq crossed'
    BY <1>1, <2>1 DEF ExperimentInv
  <2>10. today \notin crossed' =>
           \A q \in Recorders : ~(recorder[q].at # "idle" /\ recorder[q].day = today)
    BY <2>1
  <2>11. AloneInv'
    <3> SUFFICES ASSUME NEW t \in Recorders, recorder'[t].at # "idle", recorder'[t].day \notin crossed'
                 PROVE  /\ \A q \in Recorders :
                             recorder'[q].at # "idle" /\ recorder'[q].day = recorder'[t].day => q = t
                        /\ recorder'[t].day \in DOMAIN summary' =>
                             NoMore(summary'[recorder'[t].day], recorder'[t].counts)
      BY DEF AloneInv, NoMore
    <3>1. CASE t = r
      BY <1>1, <2>3, <2>4, <2>8, <2>10, <3>1
    <3>2. CASE t # r
      <4>1. recorder'[t] = recorder[t] /\ recorder[t].day \notin crossed
        BY <2>4, <2>9, <3>2
      <4>2. recorder[t].day # today
        BY <2>10, <4>1
      <4> QED
        BY <1>1, <2>3, <2>4, <3>2, <4>1, <4>2 DEF ExperimentInv, AloneInv
    <3> QED
      BY <3>1, <3>2
  <2>12. RowsGrow
    BY <1>1, NoMoreSame DEF RowsGrow, ExperimentInv
  <2> QED
    BY <1>1, <2>4, <2>7, <2>9, <2>11, <2>12 DEF ExperimentInv
<1> QED
  BY <1>2, <1>3

LEMMA WriteStep ==
    ASSUME ExperimentInv, NEW r \in Recorders, WriteSummary(r)
    PROVE  ExperimentInv' /\ RowsGrow
<1> DEFINE this == recorder[r]
<1>1. /\ this.at = "write" /\ UNCHANGED <<today, show, crossed>> /\ this \in RecorderShape
      /\ recorder' = [recorder EXCEPT ![r] = Quiet] /\ recorder \in [Recorders -> RecorderShape]
  BY DEF WriteSummary, ExperimentInv
<1>2. CASE summary' = summary
  BY <1>1, <1>2, QuietShape, RecorderOn
<1>3. CASE summary' # summary
  <2>1. summary' = [d \in DOMAIN summary \union {this.day} |->
                      IF d = this.day THEN this.counts ELSE summary[d]]
    BY <1>3 DEF WriteSummary
  <2>2. this.day \in Days /\ this.counts \in Counts
    BY <1>1 DEF RecorderShape
  <2>3. /\ DOMAIN summary' = DOMAIN summary \union {this.day}
        /\ \A d \in DOMAIN summary' : summary'[d] = IF d = this.day THEN this.counts ELSE summary[d]
    BY <2>1
  <2>4. DOMAIN summary' \subseteq Days /\ \A d \in DOMAIN summary' : summary'[d] \in Counts
    BY <2>2, <2>3 DEF ExperimentInv
  <2>5. recorder' \in [Recorders -> RecorderShape]
        /\ \A q \in Recorders : recorder'[q] = IF q = r THEN Quiet ELSE recorder[q]
    BY <1>1, QuietShape
  <2>6. \A d : Conversions(d)' = Conversions(d)
    BY <1>1 DEF Conversions, Converted
  <2>7. CountedInv'
    BY <2>3, <2>5, <2>6, QuietShape, ZeroCounts, ConversionsCounts DEF ExperimentInv, CountedInv
  <2>8. AloneInv'
    <3> SUFFICES ASSUME NEW t \in Recorders, recorder'[t].at # "idle", recorder'[t].day \notin crossed
                 PROVE  /\ \A q \in Recorders :
                             recorder'[q].at # "idle" /\ recorder'[q].day = recorder'[t].day => q = t
                        /\ recorder'[t].day \in DOMAIN summary' =>
                             NoMore(summary'[recorder'[t].day], recorder'[t].counts)
      BY <1>1 DEF AloneInv, NoMore
    <3>1. t # r /\ recorder'[t] = recorder[t]
      BY <2>5, QuietShape
    <3>2. this.day # recorder[t].day
      BY <1>1, <3>1 DEF ExperimentInv, AloneInv
    <3> QED
      BY <2>3, <2>5, <3>1, <3>2, QuietShape DEF ExperimentInv, AloneInv
  <2>9. RowsGrow
    <3> SUFFICES ASSUME NEW d \in DOMAIN summary, d \notin crossed PROVE NoMore(summary[d], summary'[d])
      BY <1>1 DEF RowsGrow
    <3>1. CASE d = this.day
      BY <1>1, <2>3, <3>1 DEF ExperimentInv, AloneInv
    <3>2. CASE d # this.day
      BY <2>3, <3>2, NoMoreSame DEF ExperimentInv
    <3> QED
      BY <3>1, <3>2
  <2> QED
    BY <1>1, <2>4, <2>5, <2>7, <2>8, <2>9 DEF ExperimentInv
<1> QED
  BY <1>2, <1>3

LEMMA RecorderSteps ==
    ASSUME ExperimentInv, NEW r \in Recorders,
           CountToday(r) \/ FindSummary(r) \/ WriteSummary(r) \/ RecordingFails(r)
    PROVE  ExperimentInv' /\ RowsGrow /\ UNCHANGED show
<1>0. UNCHANGED show
  BY DEF CountToday, FindSummary, WriteSummary, RecordingFails
<1>1. CASE FindSummary(r)
  <2> DEFINE this == recorder[r]
             found == this.day \in DOMAIN summary
             n == [this EXCEPT !.at = "write", !.found = found]
  <2>1. this \in RecorderShape /\ recorder \in [Recorders -> RecorderShape]
    BY DEF ExperimentInv
  <2>2. /\ this.at = "find" /\ recorder' = [recorder EXCEPT ![r] = n]
        /\ UNCHANGED <<today, show, summary, crossed>>
    BY <1>1, <2>1 DEF FindSummary
  <2>0. found \in BOOLEAN
    OBVIOUS
  <2> HIDE DEF found
  <2>3. n \in RecorderShape /\ n.day = this.day /\ n.counts = this.counts
    BY <2>0, <2>1 DEF RecorderShape
  <2> HIDE DEF n
  <2> QED
    BY <1>0, <2>2, <2>3, RecorderOn
<1>2. CASE RecordingFails(r)
  BY <1>0, <1>2, QuietShape, RecorderOn DEF RecordingFails
<1> QED
  BY <1>0, <1>1, <1>2, CountStep, WriteStep

LEMMA ExperimentNextOK ==
    ExperimentInv /\ [ExperimentNext]_experimentVars =>
      /\ ExperimentInv' /\ RowsGrow
      /\ \A s \in Shows : show[s].at = "stored" => show'[s] = show[s]
<1> SUFFICES ASSUME ExperimentInv, [ExperimentNext]_experimentVars
             PROVE  /\ ExperimentInv' /\ RowsGrow
                    /\ \A s \in Shows : show[s].at = "stored" => show'[s] = show[s]
  OBVIOUS
<1>1. UNCHANGED summary => RowsGrow
  BY NoMoreSame DEF RowsGrow, ExperimentInv
<1> QED
  BY <1>1, ShowSteps, RecorderSteps DEF ExperimentNext

\* The action of SummariesGrow, from an invariant that holds before and after.
LEMMA SummariesStep ==
    ASSUME ExperimentInv, ExperimentInv', RowsGrow
    PROVE  \A d \in DOMAIN summary' :
             /\ \A v \in Variants : summary'[d][v] <= Conversions(d)'[v]
             /\ d \notin crossed' /\ d \in DOMAIN summary =>
                  \A v \in Variants : summary[d][v] <= summary'[d][v]
BY DEF ExperimentInv, CountedInv, RowsGrow, NoMore

-----------------------------------------------------------------------------
(***************************************************************************)
(* The sum over the days.                                                  *)
(***************************************************************************)

ConvertedEver(v) ==
    {s \in Shows : show[s].at = "stored" /\ show[s].success /\ show[s].variant = v}

LEMMA ToldWithin ==
    ASSUME ExperimentInv, NEW v \in Variants
    PROVE  Cardinality(Told(v)) <= Totals[v]
<1> DEFINE all == ConvertedEver(v)
           size(d) == Cardinality(Converted(d, v))
           pick(d) == CHOOSE f : f \in Bijection(1 .. size(d), Converted(d, v))
           g == [x \in Told(v) |-> pick(x[1])[x[2]]]
<1>1. Totals[v] = Cardinality(all) /\ IsFiniteSet(all)
  <2>1. all \in SUBSET Shows
    BY DEF ConvertedEver
  <2> QED
    BY <2>1, FS_Subset, ExperimentAssumption DEF Totals, ConvertedEver
<1>2. ASSUME NEW d PROVE pick(d) \in Bijection(1 .. size(d), Converted(d, v))
  <2>1. ExistsBijection(1 .. size(d), Converted(d, v))
    BY ConvertedFinite, FS_CardinalityType
  <2> QED
    BY <2>1 DEF ExistsBijection
<1>3. ASSUME NEW x \in Told(v)
      PROVE  /\ x = <<x[1], x[2]>> /\ x[2] \in 1 .. size(x[1]) /\ x[1] \in Days
  <2>1. PICK d \in DOMAIN summary : x \in {d} \X (1 .. summary[d][v])
    BY DEF Told
  <2>2. x = <<x[1], x[2]>> /\ x[1] = d /\ x[2] \in 1 .. summary[d][v]
    BY <2>1
  <2>3. summary[d] \in Counts /\ Conversions(d) \in Counts /\ d \in Days
    BY ConversionsCounts DEF ExperimentInv
  <2>4. summary[d][v] \in Nat /\ Conversions(d)[v] \in Nat /\ Conversions(d)[v] = size(d)
    BY <2>3, CountsNat DEF Conversions
  <2>5. summary[d][v] <= size(d)
    BY <2>4 DEF ExperimentInv, CountedInv, NoMore
  <2> HIDE DEF size
  <2> QED
    BY <2>2, <2>3, <2>4, <2>5
<1> HIDE DEF pick, size
<1>4. ASSUME NEW x \in Told(v) PROVE g[x] \in Converted(x[1], v)
  <2>1. pick(x[1]) \in [1 .. size(x[1]) -> Converted(x[1], v)]
    BY <1>2 DEF Bijection, Injection
  <2> QED
    BY <1>3, <2>1
<1>5. g \in [Told(v) -> all]
  BY <1>4 DEF Converted, ConvertedEver
<1>6. ASSUME NEW x \in Told(v), NEW y \in Told(v), g[x] = g[y] PROVE x = y
  <2>1. x[1] = y[1]
    BY <1>4, <1>6 DEF Converted
  <2>2. pick(x[1]) \in Injection(1 .. size(x[1]), Converted(x[1], v))
    BY <1>2 DEF Bijection
  <2>3. x[2] = y[2]
    BY <1>3, <1>6, <2>1, <2>2 DEF Injection, IsInjective
  <2> QED
    BY <1>3, <2>1, <2>3
<1>7. g \in Injection(Told(v), all)
  BY <1>5, <1>6 DEF Injection, IsInjective
<1> QED
  BY <1>1, <1>7, FS_Injection

LEMMA ExperimentInvSound == ExperimentInv => WithinTotals /\ ExperimentTypeOK
  BY ToldWithin DEF WithinTotals, ExperimentInv, ExperimentTypeOK, ShowShape, RecorderShape

-----------------------------------------------------------------------------
(***************************************************************************)
(* All of them together.                                                   *)
(***************************************************************************)

\* Ids run out after the last, and the job and the updates stay within their bounds.
CountersInv ==
    /\ nextId \in 1 .. Cardinality(Ids) + 1
    /\ feedback \in {"idle", "posting", "direct", "failed"}
    /\ tries \in 0 .. FeedbackAttempts /\ updates \in 0 .. MaxUpdates

LEMMA CountersInitOK == WeightsInit => CountersInv
<1>1. Cardinality(Ids) \in Nat
  BY FS_CardinalityType, WeightsAssumption
<1> QED
  BY <1>1, WeightsAssumption DEF WeightsInit, CountersInv

LEMMA CountersNextOK == CountersInv /\ [WeightsNext]_weightVars => CountersInv'
<1> SUFFICES ASSUME CountersInv, [WeightsNext]_weightVars PROVE CountersInv'
  OBVIOUS
<1>1. Cardinality(Ids) \in Nat /\ Ids = 1 .. Cardinality(Ids) /\ MaxUpdates \in Nat
      /\ FeedbackAttempts \in Nat
  BY FS_CardinalityType, WeightsAssumption
<1>2. nextId' \in 1 .. Cardinality(Ids) + 1
  <2>1. nextId' = nextId \/ (nextId \in Ids /\ nextId' = nextId + 1)
    BY DEF WeightsNext, PutWeights, Post, Direct, ReadRow, WriteRow, StartFeedback, Posted,
           AskScore, GetWeights, FindNone, CreateRow, StoreScore, StoreCentroid, WeightsTick,
           tableVars, weightVars
  <2> QED
    BY <1>1, <2>1 DEF CountersInv
<1>3. feedback' \in {"idle", "posting", "direct", "failed"} /\ tries' \in 0 .. FeedbackAttempts
  <2>1. \/ feedback' = feedback /\ tries' = tries
        \/ feedback' \in {"idle", "direct", "failed"} /\ tries' = tries
        \/ feedback' = "posting" /\ tries' = 0
        \/ feedback' = feedback /\ tries < FeedbackAttempts /\ tries' = tries + 1
    BY DEF WeightsNext, PutWeights, Post, Direct, ReadRow, WriteRow, StartFeedback, Posted,
           AskScore, GetWeights, FindNone, CreateRow, StoreScore, StoreCentroid, WeightsTick,
           jobVars, weightVars
  <2> QED
    BY <1>1, <2>1 DEF CountersInv
<1>4. updates' \in 0 .. MaxUpdates
  <2>1. updates' = updates \/ (updates < MaxUpdates /\ updates' = updates + 1)
    BY DEF WeightsNext, PutWeights, Post, Direct, Open, ReadRow, WriteRow, StartFeedback, Posted,
           AskScore, GetWeights, FindNone, CreateRow, StoreScore, StoreCentroid, WeightsTick,
           weightVars
  <2> QED
    BY <1>1, <2>1 DEF CountersInv
<1> QED
  BY <1>2, <1>3, <1>4 DEF CountersInv

\* What holds of each module, whichever of them a behaviour is about.
DesignsInv ==
    /\ WeightsInv /\ JobInv /\ CountersInv
    /\ MockupInv /\ FiguresInv /\ ExperimentInv

LEMMA DesignsInitOK == MCInit => DesignsInv
  BY WeightsInitOK, JobInitOK, CountersInitOK, MockupInitOK, FiguresInitOK, ExperimentInitOK
  DEF MCInit, DesignsInv

\* A step is one of each module, of which it leaves all but one alone.
LEMMA StepOfEach ==
    ASSUME [MCNext]_<<part, weightVars, mockupVars, experimentVars, figureVars>>
    PROVE  /\ [WeightsNext]_weightVars /\ [MockupNext]_mockupVars
           /\ [ExperimentNext]_experimentVars /\ [FiguresNext]_figureVars
  BY DEF MCNext

LEMMA DesignsNextOK ==
    DesignsInv /\ [MCNext]_<<part, weightVars, mockupVars, experimentVars, figureVars>>
        => DesignsInv'
<1> SUFFICES ASSUME DesignsInv,
                    [MCNext]_<<part, weightVars, mockupVars, experimentVars, figureVars>>
             PROVE  DesignsInv'
  OBVIOUS
<1>1. WeightsInv' /\ JobInv' /\ CountersInv'
  BY StepOfEach, WeightsNextOK, JobNextOK, CountersNextOK DEF DesignsInv
<1>2. MockupInv' /\ FiguresInv' /\ ExperimentInv'
  BY StepOfEach, MockupNextOK, FiguresNextOK, ExperimentNextOK DEF DesignsInv
<1> QED
  BY <1>1, <1>2 DEF DesignsInv

LEMMA DesignsKeep == MCSpec => []DesignsInv
  BY DesignsInitOK, DesignsNextOK, PTL DEF MCSpec

\* However transactions on the table of models overlap, the default that was chosen last
\* stands, and a process whose last load did not fail draws with the model its task asked
\* for, for any number of models, transactions and processes.
THEOREM ModelsRightHolds == MockupSpec => []ModelsRight
<1>1. MockupInv => ModelsRight
  <2> SUFFICES ASSUME MockupInv PROVE ModelsRight
    OBVIOUS
  <2>1. LastDefaultStands
    BY MockupAssumption DEF MockupInv, DefaultInv, LastDefaultStands, Existing
  <2>2. RightModel
    BY DEF MockupInv, PipelineInv, RightModel
  <2> QED
    BY <2>1, <2>2 DEF ModelsRight
<1> QED
  BY <1>1, MockupInitOK, MockupNextOK, PTL DEF MockupSpec

\* A row leads to a whole object though requests fail and processes die, and an upload
\* nobody works on is one whose creation's answer or abort was lost or whose process
\* died: for any number of processes, images, parts, uploads and failures.
THEOREM UploadsAccountedHolds == MockupSpec => []UploadsAccounted
<1>1. MockupInv => UploadsAccounted
  BY DEF MockupInv, LeakInv, Abandoned, Worked, UploadsAccounted, PartsAccounted
<1> QED
  BY <1>1, MockupInitOK, MockupNextOK, PTL DEF MockupSpec

\* Half of what a job was answered is neither shown nor are weights updated from it; a
\* summary counts at least what it counted before, but where two summarised a day at
\* once; and all summaries together tell of no more than the totals.
THEOREM FiguresToldHolds == MCSpec => FiguresTold
<1>1. DesignsInv => FiguresWhole /\ WithinTotals
  BY FiguresInvWhole, ExperimentInvSound DEF DesignsInv
<1>2. ASSUME DesignsInv, DesignsInv',
             [MCNext]_<<part, weightVars, mockupVars, experimentVars, figureVars>>
      PROVE  [\A d \in DOMAIN summary' :
                /\ \A v \in Variants : summary'[d][v] <= Conversions(d)'[v]
                /\ d \notin crossed' /\ d \in DOMAIN summary =>
                     \A v \in Variants : summary[d][v] <= summary'[d][v]]_experimentVars
  <2>1. ExperimentInv /\ ExperimentInv' /\ RowsGrow
    BY <1>2, StepOfEach, ExperimentNextOK DEF DesignsInv
  <2> QED
    BY <2>1, SummariesStep
<1>3. MCSpec => [](FiguresWhole /\ WithinTotals)
  BY <1>1, DesignsKeep, PTL
<1>4. MCSpec => SummariesGrow
  BY <1>2, DesignsKeep, PTL DEF MCSpec, SummariesGrow
<1> QED
  BY <1>3, <1>4 DEF FiguresTold

\* Every variable of the four modules keeps its type: ids, weights, ages and counts stay
\* within the bounds the code that uses them relies on.
THEOREM DesignsTypeOKHolds == MCSpec => []DesignsTypeOK
<1>1. DesignsInv => WeightsTypeOK
  BY DEF DesignsInv, WeightsInv, WeightsShape, RowShape, SessionShape, ReaderShape, JobInv,
         CountersInv, WeightsTypeOK
<1>2. DesignsInv => MockupTypeOK /\ ExperimentTypeOK /\ FiguresTypeOK
  BY FiguresInvWhole, ExperimentInvSound DEF DesignsInv, MockupInv
<1>3. DesignsInv => DesignsTypeOK
  BY <1>1, <1>2 DEF DesignsTypeOK
<1> QED
  BY <1>3, DesignsKeep, PTL
=============================================================================
