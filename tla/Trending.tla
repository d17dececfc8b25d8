-------------------------------- MODULE Trending --------------------------------
(***************************************************************************)
(* The trending keywords of the ingestion: two sorted sets in Redis, one   *)
(* with the scores and one with the times a word was last stored, the      *)
(* workers that store words and the job that trims the sets.  A pipeline   *)
(* is one transaction; between two of the trimmer's anything may happen.   *)
(***************************************************************************)
EXTENDS Naturals, FiniteSets, FiniteSetsExt

CONSTANTS
    Words,
    MaxKeywords,   \* TRENDING_MAX_KEYWORDS
    MaxScore,      \* bound on the score of a word
    MaxTrims       \* bound on runs of the trimmer

ASSUME TrendingAssumption ==
    IsFiniteSet(Words) /\ MaxKeywords \in Nat /\ MaxScore \in Nat /\ MaxTrims \in Nat

VARIABLES
    score,      \* trending:keywords; 0 is a word that is not in it
    seen,       \* trending:timestamps: "never", "recently", or "long ago"
    trim,       \* where the trimmer is
    staleWords, \* the words it found last seen before the cutoff
    shot,       \* the scores it scanned
    excess,     \* how many words it is to remove
    doomed,     \* the words it is to remove
    trims,
    arrived     \* history: how often a word was new since the trimmer counted them

trendVars == <<score, seen, trim, staleWords, shot, excess, doomed, trims, arrived>>

Kept == {w \in Words : score[w] > 0}

TrendInit ==
    /\ score = [w \in Words |-> 0]
    /\ seen = [w \in Words |-> "never"]
    /\ trim = "idle"
    /\ staleWords = {} /\ doomed = {} /\ arrived = 0
    /\ shot = [w \in Words |-> 0]
    /\ excess = 0 /\ trims = 0

\* store_keywords: score and time of each word change together.
StoreKeywords(words) ==
    /\ \A w \in words : score[w] < MaxScore
    /\ score' = [w \in Words |-> IF w \in words THEN score[w] + 1 ELSE score[w]]
    /\ seen' = [w \in Words |-> IF w \in words THEN "recently" ELSE seen[w]]
    /\ arrived' = Min({arrived + Cardinality(words \ Kept), Cardinality(Words)})
    /\ UNCHANGED <<trim, staleWords, shot, excess, doomed, trims>>

\* TRENDING_TTL has passed since a word was stored.
Forgotten(w) ==
    /\ seen[w] = "recently"
    /\ seen' = [seen EXCEPT ![w] = "long ago"]
    /\ UNCHANGED <<score, trim, staleWords, shot, excess, doomed, trims, arrived>>

\* ... and since any was: both keys expire, as both get their TTL together.
KeysExpire ==
    /\ \A w \in Words : seen[w] # "recently"
    /\ score' = [w \in Words |-> 0]
    /\ seen' = [w \in Words |-> "never"]
    /\ UNCHANGED <<trim, staleWords, shot, excess, doomed, trims, arrived>>

TrimStep(from, to) == trim = from /\ trim' = to

FindStale ==
    /\ trims < MaxTrims
    /\ TrimStep("idle", "stale")
    /\ trims' = trims + 1
    /\ staleWords' = {w \in Words : seen[w] = "long ago"}
    /\ UNCHANGED <<score, seen, shot, excess, doomed, arrived>>

\* The words found go from one set, and from the other those of them whose time
\* has not changed since: a word stored in between keeps its time only.
RemoveStale ==
    /\ TrimStep("stale", "scan")
    /\ score' = [w \in Words |-> IF w \in staleWords THEN 0 ELSE score[w]]
    /\ seen' = [w \in Words |-> 
                  IF w \in staleWords /\ seen[w] = "long ago" THEN "never" ELSE seen[w]]
    /\ staleWords' = {}
    /\ UNCHANGED <<shot, excess, doomed, trims, arrived>>

Scan ==
    /\ TrimStep("scan", "decay")
    /\ shot' = score
    /\ UNCHANGED <<score, seen, staleWords, excess, doomed, trims, arrived>>

\* The timestamps of the words scanned are read in a pipeline of their own; a
\* word without one is to go.
ReadTimes ==
    /\ TrimStep("decay", "write")
    /\ doomed' = {w \in Words : shot[w] > 0 /\ seen[w] = "never"}
    /\ UNCHANGED <<score, seen, staleWords, shot, excess, trims, arrived>>

\* The scores are written back as they were scanned, decayed, over those of the
\* words that were stored, or have expired, in between.
Decay ==
    /\ TrimStep("write", "count")
    /\ score' \in [Words -> 0 .. MaxScore]
    /\ \A w \in Words :
          CASE shot[w] = 0 -> score'[w] = score[w]
            [] w \in doomed -> score'[w] = 0
            [] OTHER -> score'[w] \in 1 .. shot[w]
    /\ seen' = [w \in Words |-> IF w \in doomed THEN "never" ELSE seen[w]]
    /\ shot' = [w \in Words |-> 0]
    /\ doomed' = {}
    /\ UNCHANGED <<staleWords, excess, trims, arrived>>

\* Slip: one word too many is left.
CountShort ==
    /\ TrimStep("count", "choose")
    /\ excess' = IF Cardinality(Kept) > MaxKeywords
                 THEN Cardinality(Kept) - MaxKeywords - 1 ELSE 0
    /\ arrived' = 0
    /\ UNCHANGED <<score, seen, staleWords, shot, doomed, trims>>

Count ==
    /\ TrimStep("count", "choose")
    /\ excess' = IF Cardinality(Kept) > MaxKeywords
                 THEN Cardinality(Kept) - MaxKeywords ELSE 0
    /\ arrived' = 0
    /\ UNCHANGED <<score, seen, staleWords, shot, doomed, trims>>

\* ZRANGE gives the words with the lowest scores, as many as were counted.
Choose ==
    /\ TrimStep("choose", "cut")
    /\ doomed' \in SUBSET Kept
    /\ Cardinality(doomed') = Min({excess, Cardinality(Kept)})
    /\ \A v \in doomed', w \in Kept \ doomed' : score[v] <= score[w]
    /\ excess' = 0
    /\ UNCHANGED <<score, seen, staleWords, shot, trims, arrived>>

Cut ==
    /\ TrimStep("cut", "idle")
    /\ score' = [w \in Words |-> IF w \in doomed THEN 0 ELSE score[w]]
    /\ seen' = [w \in Words |-> IF w \in doomed THEN "never" ELSE seen[w]]
    /\ doomed' = {}
    /\ UNCHANGED <<staleWords, shot, excess, trims, arrived>>

TrendNext ==
    \/ \E words \in SUBSET Words \ {{}} : StoreKeywords(words)
    \/ \E w \in Words : Forgotten(w)
    \/ KeysExpire
    \/ FindStale \/ RemoveStale \/ Scan \/ ReadTimes \/ Decay \/ Count \/ Choose \/ Cut

TrendSpec == TrendInit /\ [][TrendNext]_trendVars

TrendTypeOK ==
    /\ score \in [Words -> 0 .. MaxScore]
    /\ seen \in [Words -> {"never", "recently", "long ago"}]
    /\ trim \in {"idle", "stale", "scan", "decay", "write", "count", "choose", "cut"}
    /\ staleWords \subseteq Words /\ doomed \subseteq Words /\ arrived \in Nat
    /\ shot \in [Words -> 0 .. MaxScore]
    /\ excess \in Nat /\ trims \in 0 .. MaxTrims

\* A trim leaves at most as many words as are allowed, and one more for each
\* new word stored after it had counted, however stores, decay and expiry interleave.
TrimBounds ==
    trim = "idle" /\ trims > 0 =>
        Cardinality(Kept) <= MaxKeywords + arrived
=============================================================================
