------------------------------- MODULE GpuSlots -------------------------------
(***************************************************************************)
(* The GPU slots of the mockup generation: the Redis locks of tasks.py,    *)
(* the Celery processes that take one for each generate_single_mockup, and *)
(* the handler of SIGTERM and SIGINT.                                      *)
(*                                                                         *)
(* A lock holds the token of its acquisition, which only the process that  *)
(* made it knows and which redis-py forgets as soon as release is called,  *)
(* before the release has reached Redis.  A lock whose token nobody knows  *)
(* is an orphan: it goes away when its timeout is over.                    *)
(***************************************************************************)
EXTENDS Naturals, FiniteSets

CONSTANTS
    Workers,     \* Celery processes, each with one task at a time
    Tasks,       \* generate_single_mockup tasks
    MaxSlot,     \* the slots are 0 .. MaxSlot - 1
    SlotCounts,  \* values of the key gpu_slots
    Pin,         \* the slot a worker's queue or GPU_WORKER_INDEX names, or NoPin
    NoPin,
    Timeout,     \* GPU_LOCK_TIMEOUT
    MaxHold,     \* longest time from taking a lock to releasing it
    MaxFaults,   \* bound on crashes and lost answers
    MaxSignals,  \* bound on SIGTERMs and SIGINTs
    Nobody, Orphan, NoTask

Slots == 0 .. MaxSlot - 1

ASSUME SlotsAssumption ==
    /\ MaxSlot \in Nat \ {0}
    /\ SlotCounts \subseteq 1 .. MaxSlot
    /\ Pin \in [Workers -> Slots \union {NoPin}]
    /\ NoPin \notin Slots
    /\ Timeout \in Nat \ {0}
    /\ MaxHold \in Nat
    /\ MaxFaults \in Nat
    /\ MaxSignals \in Nat
    /\ Nobody \notin Workers /\ Orphan \notin Workers /\ Nobody # Orphan
    /\ NoTask \notin Tasks

VARIABLES
    slots,    \* the key gpu_slots
    owner,    \* whose token the lock of a slot holds
    ttl,      \* time it has left
    pc,       \* where each worker is
    at, upto, \* the slot it asks for or holds, and where its loop ends
    age,      \* time since it took its lock
    active,   \* its _ACTIVE_LOCK: "none", "held", "stale" when release failed
    gauge,    \* its GPU_SLOTS_IN_USE
    task,     \* the task it runs
    result,   \* what the task is going to return
    state,    \* the state of each task
    saved,    \* rows save_generated_mockup inserted for it
    faults, signals

locks == <<owner, ttl>>
loop == <<at, upto>>
metrics == <<active, gauge>>
tasks == <<task, result, state, saved>>
bounds == <<faults, signals>>
vars == <<slots, locks, pc, loop, age, metrics, tasks, bounds>>

Waiting(w) == pc[w] \in {"loop", "probe"}
Holding(w) == pc[w] \in {"granted", "working", "releasing"}

\* Time a lock without a timeout has left.
Forever == Timeout + 1

Init ==
    /\ slots \in SlotCounts
    /\ owner = [s \in Slots |-> Nobody]
    /\ ttl = [s \in Slots |-> 0]
    /\ pc = [w \in Workers |-> "idle"]
    /\ at = [w \in Workers |-> 0]
    /\ upto = [w \in Workers |-> 0]
    /\ age = [w \in Workers |-> 0]
    /\ active = [w \in Workers |-> "none"]
    /\ gauge = [w \in Workers |-> 0]
    /\ task = [w \in Workers |-> NoTask]
    /\ result = [w \in Workers |-> "none"]
    /\ state = [t \in Tasks |-> "queued"]
    /\ saved = [t \in Tasks |-> 0]
    /\ faults = 0
    /\ signals = 0

-----------------------------------------------------------------------------
(***************************************************************************)
(* Taking a slot.                                                          *)
(***************************************************************************)

Goto(w, from, to) ==
    /\ pc[w] = from
    /\ pc' = [pc EXCEPT ![w] = to]

\* Celery hands a task to a process.
Deliver(w, t) ==
    /\ Goto(w, "idle", "loop")
    /\ state[t] = "queued"
    /\ state' = [state EXCEPT ![t] = "running"]
    /\ task' = [task EXCEPT ![w] = t]
    /\ UNCHANGED <<slots, locks, loop, age, metrics, result, saved, bounds>>

\* A pass of _acquire_gpu_lock: the slot it is pinned to, whatever gpu_slots
\* says, or all the slots there are at this moment.
ReadSlots(w) ==
    /\ Goto(w, "loop", "probe")
    /\ at' = [at EXCEPT ![w] = IF Pin[w] = NoPin THEN 0 ELSE Pin[w]]
    /\ upto' = [upto EXCEPT ![w] = IF Pin[w] = NoPin THEN slots ELSE Pin[w] + 1]
    /\ UNCHANGED <<slots, locks, age, metrics, tasks, bounds>>

\* Slip: SET without NX.
TakeAnyway(w) ==
    /\ owner' = [owner EXCEPT ![at[w]] = w]
    /\ ttl' = [ttl EXCEPT ![at[w]] = Timeout]

\* Slip: SET without PX.
TakeForGood(w) ==
    /\ owner[at[w]] = Nobody
    /\ owner' = [owner EXCEPT ![at[w]] = w]
    /\ ttl' = [ttl EXCEPT ![at[w]] = Forever]

\* SET gpu_slot:{idx} token NX PX timeout
Take(w) ==
    /\ owner[at[w]] = Nobody
    /\ owner' = [owner EXCEPT ![at[w]] = w]
    /\ ttl' = [ttl EXCEPT ![at[w]] = Timeout]

Grant(w) ==
    /\ at[w] < upto[w]
    /\ Goto(w, "probe", "granted")
    /\ Take(w)
    /\ age' = [age EXCEPT ![w] = 0]
    /\ UNCHANGED <<slots, loop, metrics, tasks, bounds>>

Miss(w) ==
    /\ pc[w] = "probe"
    /\ at[w] < upto[w]
    /\ owner[at[w]] # Nobody
    /\ at' = [at EXCEPT ![w] = @ + 1]
    /\ UNCHANGED <<slots, locks, pc, upto, age, metrics, tasks, bounds>>

\* No slot was free: the next pass in a tenth of a second.
Sleep(w) ==
    /\ at[w] = upto[w]
    /\ Goto(w, "probe", "loop")
    /\ UNCHANGED <<slots, locks, loop, age, metrics, tasks, bounds>>

\* The answer of SET reaches the process, which enters gpu_slot.
Enter(w) ==
    /\ Goto(w, "granted", "working")
    /\ active' = [active EXCEPT ![w] = "held"]
    /\ gauge' = [gauge EXCEPT ![w] = @ + 1]
    /\ UNCHANGED <<slots, locks, loop, age, tasks, bounds>>

-----------------------------------------------------------------------------
(***************************************************************************)
(* The mockup, and giving the slot back.                                   *)
(***************************************************************************)

\* What the body leaves behind: a mockup it has saved, or any exception as an
\* error; opening or closing the storage client may raise in either case.
Outcome(w) ==
    \E new \in {0, 1} :
        /\ saved' = [saved EXCEPT ![task[w]] = @ + new]
        /\ \E r \in {"failed", IF new = 1 THEN "saved" ELSE "error"} :
              result' = [result EXCEPT ![w] = r]

\* The body is over; gpu_slot decrements the gauge and calls release.
Finish(w) ==
    /\ Goto(w, "working", "releasing")
    /\ Outcome(w)
    /\ gauge' = [gauge EXCEPT ![w] = @ - 1]
    /\ UNCHANGED <<slots, locks, loop, age, active, task, state, bounds>>

\* The worker is rid of its task, which ends up in s.
Return(w, s) ==
    /\ state' = IF task[w] = NoTask THEN state ELSE [state EXCEPT ![task[w]] = s]
    /\ task' = [task EXCEPT ![w] = NoTask]
    /\ result' = [result EXCEPT ![w] = "none"]
    /\ UNCHANGED saved

Free(s) ==
    /\ owner' = [owner EXCEPT ![s] = Nobody]
    /\ ttl' = [ttl EXCEPT ![s] = 0]

\* Slip: the key is deleted whatever token it holds.
ReleaseAny(w) ==
    /\ Goto(w, "releasing", "idle")
    /\ Free(at[w])
    /\ active' = [active EXCEPT ![w] = "none"]
    /\ Return(w, result[w])
    /\ UNCHANGED <<slots, loop, age, gauge, bounds>>

\* The lock is released if it is still the worker's; if not, LockNotOwnedError
\* leaves gpu_slot before _ACTIVE_LOCK is reset, and the task fails.
Release(w) ==
    /\ Goto(w, "releasing", "idle")
    /\ \/ /\ owner[at[w]] = w
          /\ Free(at[w])
          /\ active' = [active EXCEPT ![w] = "none"]
          /\ Return(w, result[w])
       \/ /\ owner[at[w]] # w
          /\ active' = [active EXCEPT ![w] = "stale"]
          /\ Return(w, "failed")
          /\ UNCHANGED locks
    /\ UNCHANGED <<slots, loop, age, gauge, bounds>>

-----------------------------------------------------------------------------
(***************************************************************************)
(* Signals, crashes, the clock and the operator.                           *)
(***************************************************************************)

\* Nobody knows the token of the worker's lock any longer.
Forget(w) ==
    owner' = [s \in Slots |-> IF owner[s] = w THEN Orphan ELSE owner[s]]

\* The process is gone; Celery, which acknowledges late, puts its task back.
Die(w) ==
    /\ pc' = [pc EXCEPT ![w] = "exited"]
    /\ Forget(w)
    /\ active' = [active EXCEPT ![w] = "none"]
    /\ gauge' = [gauge EXCEPT ![w] = 0]
    /\ Return(w, "queued")
    /\ UNCHANGED <<slots, ttl, loop, age>>

\* An exception ends the task with its lock in place.
Abandon(w) ==
    /\ pc' = [pc EXCEPT ![w] = "idle"]
    /\ gauge' = [gauge EXCEPT ![w] = 0]
    /\ Forget(w)
    /\ Return(w, "failed")
    /\ UNCHANGED <<slots, ttl, loop, age>>

\* _release_on_signal without an active lock: it cleans up and exits.
SignalFree(w) == active[w] = "none" /\ Die(w)

\* With one, locked() is a coroutine object and so is true, release() gives up
\* the token, and asyncio.run raises RuntimeError inside the running loop:
\* nothing is released, the process goes on and its task fails ...
SignalHeld(w) ==
    /\ active[w] # "none"
    /\ active' = [active EXCEPT ![w] = "none"]
    /\ Abandon(w)

\* ... unless a handler of the body takes the exception for an error of its
\* own and generates by the fallback, without the token ...
SignalSwallowed(w) ==
    /\ active[w] = "held" /\ pc[w] = "working"
    /\ active' = [active EXCEPT ![w] = "none"]
    /\ Forget(w)
    /\ UNCHANGED <<slots, ttl, pc, loop, age, gauge, tasks>>

\* ... or the release was already under way and reaches Redis.
SignalLate(w) ==
    /\ active[w] = "held" /\ pc[w] = "releasing" /\ owner[at[w]] = w
    /\ Free(at[w])
    /\ pc' = [pc EXCEPT ![w] = "idle"]
    /\ active' = [active EXCEPT ![w] = "none"]
    /\ \E s \in {result[w], "failed"} : Return(w, s)
    /\ UNCHANGED <<slots, loop, age, gauge>>

Signal(w) ==
    /\ pc[w] # "exited"
    /\ signals < MaxSignals
    /\ signals' = signals + 1
    /\ SignalFree(w) \/ SignalHeld(w) \/ SignalSwallowed(w) \/ SignalLate(w)
    /\ UNCHANGED faults

Fault == faults < MaxFaults /\ faults' = faults + 1 /\ UNCHANGED signals

Crash(w) == pc[w] # "exited" /\ Die(w) /\ Fault

\* The connection breaks while the worker asks for slots, perhaps after SET was
\* applied: the task raises.
LoseAnswer(w) ==
    /\ Waiting(w) \/ pc[w] = "granted"
    /\ Abandon(w)
    /\ Fault
    /\ UNCHANGED active

\* The connection breaks around the release, which raises.
LoseRelease(w) ==
    /\ Goto(w, "releasing", "idle")
    /\ \/ owner[at[w]] = w /\ Free(at[w])
       \/ Forget(w) /\ UNCHANGED ttl
    /\ active' = [active EXCEPT ![w] = "stale"]
    /\ Return(w, "failed")
    /\ Fault
    /\ UNCHANGED <<slots, loop, age, gauge>>

Restart(w) ==
    /\ Goto(w, "exited", "idle")
    /\ UNCHANGED <<slots, locks, loop, age, metrics, tasks, bounds>>

\* redis-cli set gpu_slots n
SetSlots(n) ==
    /\ slots' = n
    /\ UNCHANGED <<locks, pc, loop, age, metrics, tasks, bounds>>

Less(n) == IF n \in {0, Forever} THEN n ELSE n - 1

\* Time passes, but for nobody beyond MaxHold with a lock.
Tick ==
    /\ \A w \in Workers : Holding(w) => age[w] < MaxHold
    /\ age' = [w \in Workers |-> IF Holding(w) THEN age[w] + 1 ELSE age[w]]
    /\ ttl' = [s \in Slots |-> Less(ttl[s])]
    /\ owner' = [s \in Slots |-> IF ttl[s] = 1 THEN Nobody ELSE owner[s]]
    /\ UNCHANGED <<slots, pc, loop, metrics, tasks, bounds>>

-----------------------------------------------------------------------------

Run(w) ==
    \/ ReadSlots(w) \/ Grant(w) \/ Miss(w) \/ Sleep(w)
    \/ Enter(w) \/ Finish(w) \/ Release(w)

Next ==
    \/ \E w \in Workers :
         \/ \E t \in Tasks : Deliver(w, t)
         \/ Run(w)
         \/ Signal(w) \/ Crash(w) \/ LoseAnswer(w) \/ LoseRelease(w) \/ Restart(w)
    \/ \E n \in SlotCounts : SetSlots(n)
    \/ Tick

Spec == Init /\ [][Next]_vars

\* Time passes, and a process that has a task runs it.
FairSpec == Spec /\ WF_vars(Tick) /\ \A w \in Workers : WF_vars(Run(w))

-----------------------------------------------------------------------------
(***************************************************************************)
(* What a slot is worth.                                                   *)
(***************************************************************************)

TypeOK ==
    /\ slots \in SlotCounts
    /\ owner \in [Slots -> Workers \union {Nobody, Orphan}]
    /\ ttl \in [Slots -> 0 .. Forever]
    /\ pc \in [Workers -> {"idle", "loop", "probe", "granted", "working",
                           "releasing", "exited"}]
    /\ at \in [Workers -> 0 .. MaxSlot]
    /\ upto \in [Workers -> 0 .. MaxSlot]
    /\ \A w \in Workers : Holding(w) => at[w] \in Slots
    /\ age \in [Workers -> 0 .. MaxHold]
    /\ active \in [Workers -> {"none", "held", "stale"}]
    /\ gauge \in [Workers -> {0, 1}]
    /\ task \in [Workers -> Tasks \union {NoTask}]
    /\ \A w \in Workers : Waiting(w) \/ Holding(w) => task[w] \in Tasks
    /\ result \in [Workers -> {"none", "saved", "error", "failed"}]
    /\ \A w \in Workers : pc[w] = "releasing" => result[w] # "none"
    /\ state \in [Tasks -> {"queued", "running", "saved", "error", "failed"}]
    /\ saved \in [Tasks -> Nat]
    /\ faults \in 0 .. MaxFaults
    /\ signals \in 0 .. MaxSignals

\* The lock of its slot is still the worker's.
Covered(w) == age[w] < Timeout

\* No two processes use a slot at the same time, whatever crashes, signals and
\* lost answers leave in Redis, as long as neither has outlasted its lock.
NoDoubleUse ==
    \A v, w \in Workers :
        /\ pc[v] = "working" /\ pc[w] = "working" /\ at[v] = at[w]
        /\ Covered(v) /\ Covered(w)
        => v = w

\* The inductive form: the lock that covers a user, whoever knows its token, has
\* just the time left that the user has not used, and is no other worker's.
Locked ==
    /\ \A s \in Slots : owner[s] = Nobody <=> ttl[s] = 0
    /\ \A w \in Workers : Holding(w) /\ Covered(w) =>
          /\ ttl[at[w]] + age[w] = Timeout
          /\ owner[at[w]] \in {w, Orphan}
    /\ \A v, w \in Workers :
          Holding(v) /\ Holding(w) /\ at[v] = at[w] /\ Covered(v) /\ Covered(w) => v = w

Counted ==
    \A w \in Workers : gauge[w] = IF pc[w] = "working" THEN 1 ELSE 0

IInv == Locked /\ Counted

\* A worker that lost its lock to the timeout leaves the lock of whoever has
\* the slot now alone.
ReleasesOwn ==
    [][\A w \in Workers, s \in Slots :
         /\ pc[w] = "releasing" /\ pc'[w] = "idle"
         /\ owner[s] \notin {w, Nobody}
         => owner'[s] = owner[s]]_vars

\* A task that is answered with a mockup has saved it, and saves it again only
\* when Celery delivers it again after a process has died.
SavedAccounted ==
    \A t \in Tasks :
        /\ state[t] = "saved" => saved[t] > 0
        /\ saved[t] <= 1 + faults + signals

\* A worker whose lock has run out harms nobody: not the slot's new user, and not
\* the task, which is not run a second time on its account.
LateHoldersHarmless == []SavedAccounted /\ ReleasesOwn

\* A worker that waits is let in, or sees another at work: a slot that a dead
\* process or a lost answer has left locked comes back.
WaitEnds ==
    \A w \in Workers :
        Waiting(w) ~> ~Waiting(w) \/ \E v \in Workers : pc[v] = "working"

=============================================================================
