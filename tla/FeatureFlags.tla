------------------------------ MODULE FeatureFlags ------------------------------
(***************************************************************************)
(* One feature flag and the copies of it: the key in Redis that set_flag   *)
(* writes, the shared copy under ff_cache:, and in every process a copy    *)
(* with a deadline and an override, which comes from the environment or    *)
(* from a call that could not reach Redis, and hides the key.              *)
(* A value is the number of the change that made it; 0 is what the         *)
(* provider or the default says, and Fixed what the environment says.      *)
(***************************************************************************)
EXTENDS Integers

CONSTANTS
    Instances,  \* processes that ask for the flag or set it
    CacheTtl,   \* FEATURE_FLAGS_CACHE_TTL
    Flight,     \* bound on the ticks a call takes
    MaxSets,    \* bound on the calls of set_flag
    Fixed,      \* the value an environment gives the flag
    Unset

ASSUME FlagAssumption ==
    /\ CacheTtl \in Nat \ {0} /\ Flight \in Nat /\ MaxSets \in Nat
    /\ Unset \notin Nat /\ Fixed \notin Nat /\ Unset # Fixed

VARIABLES
    env,        \* FEATURE_FLAGS of each process: it names the flag, or does not
    provided,   \* LaunchDarkly or Unleash is configured
    flagKey,    \* the flag in Redis
    shared,     \* the copy under ff_cache:, and the ticks it has left
    memory,     \* _cache: each process's copy and the ticks it has left
    override,   \* _env_flags: each process's own value
    ask,        \* what each process is doing, with which value, for how long
    sets,       \* the number of changes so far
    stale       \* history: the ticks since each value was last in force

flagVars == <<env, provided, flagKey, shared, memory, override, ask, sets, stale>>

Asleep == [at |-> "idle", value |-> Unset, ticks |-> 0]
Gone == [value |-> Unset, left |-> 0]

Written == 0 .. MaxSets \union {Fixed}

FlagInit ==
    /\ env \in [Instances -> {Unset, Fixed}] /\ provided \in BOOLEAN
    /\ override = env
    /\ flagKey = Unset /\ sets = 0
    /\ shared = Gone
    /\ memory = [p \in Instances |-> Gone]
    /\ ask = [p \in Instances |-> Asleep]
    /\ stale = [v \in Written |-> 0]

\* initialize, when it is called again: the overrides are read anew from the
\* environment, unless there is a provider's client already.
Initialized(p) == IF provided THEN override[p] ELSE env[p]

\* What some process is told that asks for the flag and finds no copy of it.
InForce ==
    {flagKey} \union {override[p] : p \in Instances}
    \union (IF flagKey = Unset THEN {0} ELSE {})

\* The value is in force again.
Again(value) == [v \in Written |-> IF v = value THEN 0 ELSE stale[v]]

Go(p, from, to, value) ==
    /\ ask[p].at = from
    /\ ask' = [ask EXCEPT ![p].at = to, ![p].value = value]

\* A copy whose time is up is as good as none.
CopyFor(value, left) == IF left > 0 THEN [value |-> value, left |-> left] ELSE Gone

\* _cache[name] = (value, now + ttl), where now was read when the call began.
Remember(p, value) ==
    memory' = [memory EXCEPT ![p] = CopyFor(value, CacheTtl - ask[p].ticks)]

-----------------------------------------------------------------------------
(***************************************************************************)
(* is_enabled, of a process whose own copy is not there or too old.        *)
(***************************************************************************)

configVars == <<env, provided>>

IsEnabled(p) ==
    /\ memory[p].left = 0
    /\ Go(p, "idle", "probe", Unset)
    /\ UNCHANGED <<flagKey, shared, memory, override, sets, stale>>

ProbeHit(p) ==
    /\ shared.left > 0
    /\ ask[p].at = "probe" /\ ask' = [ask EXCEPT ![p] = Asleep]
    /\ Remember(p, shared.value)
    /\ UNCHANGED <<flagKey, shared, override, sets, stale>>

\* A Redis that is away is the same as a copy that is not there.
ProbeMiss(p) ==
    /\ Go(p, "probe", "evaluate", Unset)
    /\ UNCHANGED <<flagKey, shared, memory, override, sets, stale>>

\* The override comes first, then the key, then the provider or the default.
Evaluate(p) ==
    /\ \/ /\ override[p] # Unset /\ Go(p, "evaluate", "fill", override[p])
       \/ /\ override[p] = Unset /\ flagKey # Unset /\ Go(p, "evaluate", "fill", flagKey)
       \/ /\ override[p] = Unset /\ flagKey = Unset /\ Go(p, "evaluate", "fill", 0)
    /\ UNCHANGED <<flagKey, shared, memory, override, sets, stale>>

\* The key cannot be read, and the provider or the default answers.
EvaluateAway(p) ==
    /\ override[p] = Unset /\ Go(p, "evaluate", "fill", 0)
    /\ stale' = Again(0)
    /\ UNCHANGED <<flagKey, shared, memory, override, sets>>

\* Slip: the shared copy is kept for as long as the other one is.
FillTwice(p) ==
    /\ ask[p].at = "fill" /\ ask' = [ask EXCEPT ![p] = Asleep]
    /\ Remember(p, ask[p].value)
    /\ shared' = [value |-> ask[p].value, left |-> 2 * CacheTtl]
    /\ UNCHANGED <<flagKey, override, sets, stale>>

Fill(p) ==
    /\ ask[p].at = "fill" /\ ask' = [ask EXCEPT ![p] = Asleep]
    /\ Remember(p, ask[p].value)
    /\ \/ shared' = [value |-> ask[p].value, left |-> CacheTtl]
       \/ UNCHANGED shared
    /\ UNCHANGED <<flagKey, override, sets, stale>>

-----------------------------------------------------------------------------
(***************************************************************************)
(* set_flag, and time.                                                     *)
(***************************************************************************)

SetKey(p) ==
    /\ sets < MaxSets /\ sets' = sets + 1
    /\ Go(p, "idle", "set", sets + 1)
    /\ override' = [override EXCEPT ![p] = Initialized(p)]
    /\ stale' = Again(Initialized(p))
    /\ flagKey' = sets + 1
    /\ UNCHANGED <<shared, memory>>

\* Redis is away, or its answer is lost: the value is kept as an override of this
\* process alone.
SetOverride(p) ==
    /\ sets < MaxSets /\ sets' = sets + 1
    /\ Go(p, "idle", "set", sets + 1)
    /\ override' = [override EXCEPT ![p] = sets + 1]
    /\ flagKey' \in {flagKey, sets + 1}
    /\ UNCHANGED <<shared, memory, stale>>

\* The copy of this process is the new value at once, the shared one is not.
SetMemory(p) ==
    /\ ask[p].at = "set" /\ ask' = [ask EXCEPT ![p] = Asleep]
    /\ memory' = [memory EXCEPT ![p] = [value |-> ask[p].value, left |-> CacheTtl]]
    /\ UNCHANGED <<flagKey, shared, override, sets, stale>>

\* list_flags: initialize, and is_enabled for each flag it knows.
ListKnownFlags(p) ==
    /\ ask[p].at = "idle"
    /\ override' = [override EXCEPT ![p] = Initialized(p)]
    /\ stale' = Again(Initialized(p))
    /\ \/ memory[p].left = 0 /\ Go(p, "idle", "probe", Unset)
       \/ UNCHANGED ask
    /\ UNCHANGED <<flagKey, shared, memory, sets>>

Older(copy) == IF copy.left > 1 THEN [copy EXCEPT !.left = @ - 1] ELSE Gone

Bound == 2 * CacheTtl + Flight

FlagTick ==
    /\ \A p \in Instances : ask[p].at # "idle" => ask[p].ticks < Flight
    /\ ask' = [p \in Instances |->
                 IF ask[p].at = "idle" THEN Asleep ELSE [ask[p] EXCEPT !.ticks = @ + 1]]
    /\ shared' = Older(shared)
    /\ memory' = [p \in Instances |-> Older(memory[p])]
    /\ stale' = [v \in Written |->
                   IF v \in InForce \/ v \in sets + 1 .. MaxSets THEN 0
                   ELSE IF stale[v] <= Bound THEN stale[v] + 1 ELSE stale[v]]
    /\ UNCHANGED <<flagKey, override, sets>>

FlagNext ==
    /\ \/ \E p \in Instances :
            \/ IsEnabled(p) \/ ProbeHit(p) \/ ProbeMiss(p) \/ Evaluate(p) \/ EvaluateAway(p) \/ Fill(p)
            \/ SetKey(p) \/ SetOverride(p) \/ SetMemory(p) \/ ListKnownFlags(p)
       \/ FlagTick
    /\ UNCHANGED configVars

FlagSpec == FlagInit /\ [][FlagNext]_flagVars

-----------------------------------------------------------------------------
(***************************************************************************)
(* How old an answer can be.                                               *)
(***************************************************************************)

FlagTypeOK ==
    LET Values == Written \union {Unset}
    IN  /\ env \in [Instances -> {Unset, Fixed}] /\ provided \in BOOLEAN
        /\ flagKey \in Values /\ sets \in 0 .. MaxSets
        /\ shared \in [value : Values, left : 0 .. CacheTtl]
        /\ memory \in [Instances -> [value : Values, left : 0 .. CacheTtl]]
        /\ override \in [Instances -> Values]
        /\ ask \in [Instances -> [at : {"idle", "probe", "evaluate", "fill", "set"},
                                  value : Values, ticks : 0 .. Flight]]
        /\ stale \in [Written -> 0 .. Bound + 1]

\* A value that no key, no override, no environment and no default says any more is
\* answered for twice the ttl and one call at the most, though the shared copy and
\* the copies of the other processes are not told of a change and refill one another,
\* Redis may be away and overrides come and go.  (A set flag may stay hidden for ever
\* behind an override; the value that hides it is in force then.)
FlagsSettle ==
    \A p \in Instances :
        memory[p].left > 0 => stale[memory[p].value] + memory[p].left <= Bound
=============================================================================
