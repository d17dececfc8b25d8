---------------------------- MODULE GpuSlotsProofs ----------------------------
(***************************************************************************)
(* Proofs about GpuSlots: its types, that no two processes use a slot at   *)
(* the same time as long as neither has outlasted its lock, and that one   *)
(* that has harms nobody.                                                  *)
(***************************************************************************)
EXTENDS GpuSlots, TLAPS

Inv == TypeOK /\ Counted

LEMMA InitInv == Init => Inv
  BY SlotsAssumption
  DEF Init, Inv, TypeOK, Counted, Slots, Holding, Waiting, Forever

\* What the actions that end a task do to the variables of the tasks.
LEMMA ReturnType ==
    ASSUME Inv, NEW w \in Workers, NEW s \in {"queued", "saved", "error", "failed"},
           Return(w, s)
    PROVE  /\ task' \in [Workers -> Tasks \union {NoTask}]
           /\ \A v \in Workers : v # w => task'[v] = task[v] /\ result'[v] = result[v]
           /\ result' \in [Workers -> {"none", "saved", "error", "failed"}]
           /\ state' \in [Tasks -> {"queued", "running", "saved", "error", "failed"}]
           /\ saved' = saved
  BY DEF Inv, TypeOK, Return

LEMMA ForgetType ==
    ASSUME Inv, NEW w \in Workers, Forget(w)
    PROVE  owner' \in [Slots -> Workers \union {Nobody, Orphan}]
  BY DEF Inv, TypeOK, Forget

LEMMA FreeType ==
    ASSUME Inv, NEW s, Free(s)
    PROVE  /\ owner' \in [Slots -> Workers \union {Nobody, Orphan}]
           /\ ttl' \in [Slots -> 0 .. Forever]
<1>1. 0 \in 0 .. Forever
  BY SlotsAssumption DEF Forever
<1>2. ttl \in [Slots -> 0 .. Forever]
  BY DEF Inv, TypeOK
<1>3. ttl' \in [Slots -> 0 .. Forever]
  BY <1>1, <1>2 DEF Free
<1>4. owner' \in [Slots -> Workers \union {Nobody, Orphan}]
  BY DEF Inv, TypeOK, Free
<1> QED
  BY <1>3, <1>4

\* A worker that ends its task in one way or another keeps the invariant.
LEMMA EndInv ==
    ASSUME Inv, NEW w \in Workers, NEW p \in {"idle", "exited"},
           pc' = [pc EXCEPT ![w] = p],
           gauge' = [gauge EXCEPT ![w] = 0] \/ (gauge' = gauge /\ pc[w] = "releasing"),
           active' \in [Workers -> {"none", "held", "stale"}],
           NEW s \in {"queued", "saved", "error", "failed"}, Return(w, s),
           owner' \in [Slots -> Workers \union {Nobody, Orphan}],
           ttl' \in [Slots -> 0 .. Forever],
           faults' \in 0 .. MaxFaults, signals' \in 0 .. MaxSignals,
           UNCHANGED <<slots, loop, age>>
    PROVE  Inv'
<1>1. \A v \in Workers : v # w => pc'[v] = pc[v] /\ gauge'[v] = gauge[v]
  BY DEF Inv, TypeOK
<1>2. pc'[w] = p /\ gauge'[w] = 0
  BY DEF Inv, TypeOK, Counted
<1>3. Counted'
  BY <1>1, <1>2 DEF Inv, Counted
<1>4. pc' \in [Workers -> {"idle", "loop", "probe", "granted", "working",
                          "releasing", "exited"}]
  BY DEF Inv, TypeOK
<1>5. gauge' \in [Workers -> {0, 1}]
  BY DEF Inv, TypeOK
<1>6. \A v \in Workers : Holding(v)' => at'[v] \in Slots
  BY <1>1, <1>2 DEF Inv, TypeOK, Holding, loop
<1>7. \A v \in Workers : Waiting(v)' \/ Holding(v)' => task'[v] \in Tasks
  BY <1>1, <1>2, ReturnType DEF Inv, TypeOK, Holding, Waiting
<1>8. \A v \in Workers : pc'[v] = "releasing" => result'[v] # "none"
  BY <1>1, <1>2, ReturnType DEF Inv, TypeOK
<1> QED
  BY <1>3, <1>4, <1>5, <1>6, <1>7, <1>8, ReturnType DEF Inv, TypeOK, loop

LEMMA NextInv == Inv /\ [Next]_vars => Inv'
<1> SUFFICES ASSUME Inv, [Next]_vars PROVE Inv'
  OBVIOUS
<1> USE SlotsAssumption
<1>1. ASSUME NEW w \in Workers, NEW t \in Tasks, Deliver(w, t) PROVE Inv'
  BY <1>1 DEF Deliver, Goto, Inv, TypeOK, Counted, Holding, Waiting, locks, loop,
              metrics, bounds
<1>2. ASSUME NEW w \in Workers, ReadSlots(w) PROVE Inv'
  <2>1. at' \in [Workers -> 0 .. MaxSlot] /\ upto' \in [Workers -> 0 .. MaxSlot]
    BY <1>2 DEF ReadSlots, Inv, TypeOK, Slots
  <2>2. \A v \in Workers : Holding(v)' => at'[v] = at[v] /\ Holding(v)
    BY <1>2 DEF ReadSlots, Goto, Inv, TypeOK, Holding
  <2> QED
    BY <1>2, <2>1, <2>2 DEF ReadSlots, Goto, Inv, TypeOK, Counted, Holding, Waiting,
                            locks, metrics, tasks, bounds
<1>3. ASSUME NEW w \in Workers, Grant(w) PROVE Inv'
  <2>1. at[w] \in Slots
    BY <1>3 DEF Grant, Inv, TypeOK, Slots
  <2>2. ttl' \in [Slots -> 0 .. Forever]
    <3>1. Timeout \in 0 .. Forever
      BY DEF Forever
    <3>2. ttl \in [Slots -> 0 .. Forever]
      BY DEF Inv, TypeOK
    <3> QED
      BY <1>3, <3>1, <3>2 DEF Grant, Take
  <2> QED
    BY <1>3, <2>1, <2>2 DEF Grant, Take, Goto, Inv, TypeOK, Counted, Holding, Waiting,
                            loop, metrics, tasks, bounds
<1>4. ASSUME NEW w \in Workers, Miss(w) PROVE Inv'
  <2>1. at' \in [Workers -> 0 .. MaxSlot]
    BY <1>4 DEF Miss, Inv, TypeOK
  <2>2. \A v \in Workers : Holding(v) => at'[v] = at[v]
    BY <1>4 DEF Miss, Inv, TypeOK, Holding
  <2> QED
    BY <1>4, <2>1, <2>2 DEF Miss, Inv, TypeOK, Counted, Holding, Waiting,
                            locks, metrics, tasks, bounds
<1>5. ASSUME NEW w \in Workers, Sleep(w) PROVE Inv'
  BY <1>5 DEF Sleep, Goto, Inv, TypeOK, Counted, Holding, Waiting, locks, loop,
              metrics, tasks, bounds
<1>6. ASSUME NEW w \in Workers, Enter(w) PROVE Inv'
  BY <1>6 DEF Enter, Goto, Inv, TypeOK, Counted, Holding, Waiting, locks, loop,
              tasks, bounds
<1>7. ASSUME NEW w \in Workers, Finish(w) PROVE Inv'
  <2> DEFINE Results == {"none", "saved", "error", "failed"}
  <2>1. task[w] \in Tasks
    BY <1>7 DEF Finish, Goto, Inv, TypeOK, Holding
  <2>2. PICK new \in {0, 1} :
          /\ saved' = [saved EXCEPT ![task[w]] = @ + new]
          /\ \E r \in {"failed", IF new = 1 THEN "saved" ELSE "error"} :
                result' = [result EXCEPT ![w] = r]
    BY <1>7 DEF Finish, Outcome
  <2>3. saved' \in [Tasks -> Nat]
    BY <2>1, <2>2 DEF Inv, TypeOK
  <2>4. PICK r \in {"failed", "saved", "error"} : result' = [result EXCEPT ![w] = r]
    BY <2>2
  <2>5. result' \in [Workers -> Results] /\ result'[w] # "none"
        /\ \A v \in Workers : v # w => result'[v] = result[v]
    BY <2>4 DEF Inv, TypeOK
  <2>6. gauge' = [gauge EXCEPT ![w] = 0]
    <3>1. gauge[w] = 1 /\ gauge' = [gauge EXCEPT ![w] = @ - 1]
      BY <1>7 DEF Finish, Goto, Inv, Counted
    <3> QED
      BY <3>1
  <2> HIDE DEF Results
  <2>7. Counted'
    BY <1>7, <2>6 DEF Finish, Goto, Inv, TypeOK, Counted
  <2>8. \A v \in Workers : pc'[v] = "releasing" => result'[v] # "none"
    BY <1>7, <2>5 DEF Finish, Goto, Inv, TypeOK
  <2> QED
    BY <1>7, <2>3, <2>5, <2>6, <2>7, <2>8, ZenonT(60)
    DEF Results, Finish, Goto, Inv, TypeOK, Holding, Waiting, locks, loop, bounds
<1>8. ASSUME NEW w \in Workers, Release(w) PROVE Inv'
  <2>1. pc[w] = "releasing" /\ pc' = [pc EXCEPT ![w] = "idle"]
        /\ result[w] \in {"saved", "error", "failed"}
    BY <1>8 DEF Release, Goto, Inv, TypeOK
  <2>2. faults' \in 0 .. MaxFaults /\ signals' \in 0 .. MaxSignals
        /\ UNCHANGED <<slots, loop, age, gauge>>
    BY <1>8 DEF Release, Inv, TypeOK, bounds
  <2>3. CASE owner[at[w]] = w /\ Free(at[w]) /\ Return(w, result[w])
              /\ active' = [active EXCEPT ![w] = "none"]
    <3>1. active' \in [Workers -> {"none", "held", "stale"}]
      BY <2>3 DEF Inv, TypeOK
    <3> QED
      BY <2>1, <2>2, <2>3, <3>1, FreeType, EndInv, ZenonT(60)
  <2>4. CASE Return(w, "failed") /\ UNCHANGED locks
              /\ active' = [active EXCEPT ![w] = "stale"]
    <3>1. /\ active' \in [Workers -> {"none", "held", "stale"}]
          /\ owner' \in [Slots -> Workers \union {Nobody, Orphan}]
          /\ ttl' \in [Slots -> 0 .. Forever]
      BY <2>4 DEF Inv, TypeOK, locks
    <3> QED
      BY <2>1, <2>2, <2>4, <3>1, EndInv
  <2> QED
    BY <1>8, <2>3, <2>4 DEF Release
<1>9. ASSUME NEW w \in Workers, Die(w), faults' \in 0 .. MaxFaults,
             signals' \in 0 .. MaxSignals
      PROVE  Inv'
  <2>1. active' \in [Workers -> {"none", "held", "stale"}]
        /\ ttl' \in [Slots -> 0 .. Forever]
    BY <1>9 DEF Die, Inv, TypeOK
  <2> QED
    BY <1>9, <2>1, ForgetType, EndInv DEF Die
<1>10. ASSUME NEW w \in Workers, Abandon(w), faults' \in 0 .. MaxFaults,
              signals' \in 0 .. MaxSignals,
              active' \in [Workers -> {"none", "held", "stale"}]
       PROVE  Inv'
  <2>1. ttl' \in [Slots -> 0 .. Forever]
    BY <1>10 DEF Abandon, Inv, TypeOK
  <2> QED
    BY <1>10, <2>1, ForgetType, EndInv DEF Abandon
<1>11. ASSUME NEW w \in Workers, Signal(w) PROVE Inv'
  <2>1. faults' \in 0 .. MaxFaults /\ signals' \in 0 .. MaxSignals
    BY <1>11 DEF Signal, Inv, TypeOK
  <2>2. CASE SignalFree(w)
    BY <1>9, <2>1, <2>2 DEF SignalFree
  <2>3. CASE SignalHeld(w)
    <3>1. active' \in [Workers -> {"none", "held", "stale"}]
      BY <2>3 DEF SignalHeld, Inv, TypeOK
    <3> QED
      BY <1>10, <2>1, <2>3, <3>1 DEF SignalHeld
  <2>4. CASE SignalSwallowed(w)
    <3>1. active' \in [Workers -> {"none", "held", "stale"}]
          /\ owner' \in [Slots -> Workers \union {Nobody, Orphan}]
      BY <2>4, ForgetType DEF SignalSwallowed, Inv, TypeOK
    <3> QED
      BY <2>1, <2>4, <3>1 DEF SignalSwallowed, Inv, TypeOK, Counted, Holding,
                              Waiting, loop, tasks
  <2>5. CASE SignalLate(w)
    <3>1. active' \in [Workers -> {"none", "held", "stale"}]
      BY <2>5 DEF SignalLate, Inv, TypeOK
    <3>2. PICK s \in {"saved", "error", "failed"} : Return(w, s)
      BY <2>5 DEF SignalLate, Inv, TypeOK
    <3> QED
      BY <2>1, <2>5, <3>1, <3>2, FreeType, EndInv, ZenonT(60) DEF SignalLate
  <2> QED
    BY <1>11, <2>2, <2>3, <2>4, <2>5 DEF Signal
<1>12. ASSUME NEW w \in Workers, Crash(w) PROVE Inv'
  <2>1. faults' \in 0 .. MaxFaults /\ signals' \in 0 .. MaxSignals
    BY <1>12 DEF Crash, Fault, Inv, TypeOK
  <2> QED
    BY <1>9, <1>12, <2>1 DEF Crash
<1>13. ASSUME NEW w \in Workers, LoseAnswer(w) PROVE Inv'
  <2>1. faults' \in 0 .. MaxFaults /\ signals' \in 0 .. MaxSignals
        /\ active' \in [Workers -> {"none", "held", "stale"}]
    BY <1>13 DEF LoseAnswer, Fault, Inv, TypeOK
  <2> QED
    BY <1>10, <1>13, <2>1 DEF LoseAnswer
<1>14. ASSUME NEW w \in Workers, LoseRelease(w) PROVE Inv'
  <2>1. faults' \in 0 .. MaxFaults /\ signals' \in 0 .. MaxSignals
        /\ active' \in [Workers -> {"none", "held", "stale"}]
    BY <1>14 DEF LoseRelease, Fault, Inv, TypeOK
  <2>2. owner' \in [Slots -> Workers \union {Nobody, Orphan}]
        /\ ttl' \in [Slots -> 0 .. Forever]
    BY <1>14, FreeType, ForgetType DEF LoseRelease, Inv, TypeOK
  <2> QED
    BY <1>14, <2>1, <2>2, EndInv DEF LoseRelease, Goto
<1>15. ASSUME NEW w \in Workers, Restart(w) PROVE Inv'
  BY <1>15 DEF Restart, Goto, Inv, TypeOK, Counted, Holding, Waiting, locks, loop,
               metrics, tasks, bounds
<1>16. ASSUME NEW n \in SlotCounts, SetSlots(n) PROVE Inv'
  BY <1>16 DEF SetSlots, Inv, TypeOK, Counted, Holding, Waiting, locks, loop,
               metrics, tasks, bounds
<1>17. CASE Tick
  <2>1. age' \in [Workers -> 0 .. MaxHold]
    BY <1>17 DEF Tick, Inv, TypeOK
  <2>2. ttl' \in [Slots -> 0 .. Forever]
    BY <1>17 DEF Tick, Less, Inv, TypeOK, Forever
  <2>3. owner' \in [Slots -> Workers \union {Nobody, Orphan}]
    BY <1>17 DEF Tick, Inv, TypeOK
  <2> QED
    BY <1>17, <2>1, <2>2, <2>3 DEF Tick, Inv, TypeOK, Counted, Holding, Waiting,
                                   loop, metrics, tasks, bounds
<1>18. CASE UNCHANGED vars
  BY <1>18 DEF vars, Inv, TypeOK, Counted, Holding, Waiting, locks, loop, metrics,
               tasks, bounds
<1> QED
  BY <1>1, <1>2, <1>3, <1>4, <1>5, <1>6, <1>7, <1>8, <1>11, <1>12, <1>13, <1>14,
     <1>15, <1>16, <1>17, <1>18
  DEF Next, Run

\* Every reachable state has the shape TypeOK gives it.
THEOREM SlotsTypeCorrect == Spec => []TypeOK
  BY InitInv, NextInv, PTL DEF Spec, Inv

-----------------------------------------------------------------------------
(***************************************************************************)
(* The locks of the slots in use.                                          *)
(***************************************************************************)

LEMMA InitLocked == Init => Locked
  BY DEF Init, Locked, Holding, Covered

\* The steps that touch neither a lock nor who holds one.
LEMMA LocksKept ==
    ASSUME Locked, UNCHANGED locks,
           \A w \in Workers :
               Holding(w)' => Holding(w) /\ at'[w] = at[w] /\ age'[w] = age[w]
    PROVE  Locked'
  BY DEF Locked, Covered, locks

\* A holder that leaves its lock behind, or goes on without its token.
LEMMA ForgetLocked ==
    ASSUME Inv, Locked, NEW w \in Workers, Forget(w), UNCHANGED <<ttl, loop, age>>,
           \A v \in Workers : Holding(v)' => Holding(v)
    PROVE  Locked'
<1>1. \A s \in Slots : owner'[s] = IF owner[s] = w THEN Orphan ELSE owner[s]
  BY DEF Forget
<1>2. \A s \in Slots : owner'[s] = Nobody <=> owner[s] = Nobody
  BY <1>1, SlotsAssumption DEF Inv, TypeOK
<1>3. \A v \in Workers : Holding(v)' /\ Covered(v)' =>
        owner'[at'[v]] \in {v, Orphan}
  BY <1>1 DEF Locked, Covered, Inv, TypeOK, loop
<1> QED
  BY <1>2, <1>3 DEF Locked, Covered, loop

\* A worker that frees a slot with its token: nobody else is covered by that lock.
LEMMA FreeLocked ==
    ASSUME Inv, Locked, NEW w \in Workers, Holding(w), owner[at[w]] = w, Free(at[w]),
           pc' = [pc EXCEPT ![w] = "idle"], UNCHANGED <<loop, age>>
    PROVE  Locked'
<1>1. at[w] \in Slots
  BY DEF Inv, TypeOK
<1>2. \A s \in Slots : owner'[s] = Nobody <=> ttl'[s] = 0
  BY <1>1 DEF Inv, TypeOK, Locked, Free
<1>3. \A v \in Workers : Holding(v)' => v # w /\ Holding(v) /\ at[v] \in Slots
  BY DEF Inv, TypeOK, Holding
<1>4. \A v \in Workers : Holding(v)' /\ Covered(v) => at[v] # at[w]
  BY <1>3, SlotsAssumption DEF Locked
<1>5. \A v \in Workers : Holding(v)' /\ Covered(v) =>
        ttl'[at[v]] = ttl[at[v]] /\ owner'[at[v]] = owner[at[v]]
  BY <1>3, <1>4 DEF Free, Inv, TypeOK
<1> QED
  BY <1>2, <1>3, <1>5 DEF Locked, Covered, loop

\* The lock that covers a worker has time left.
LEMMA StillLocked ==
    ASSUME Inv, Locked, NEW w \in Workers, Holding(w), Covered(w)
    PROVE  ttl[at[w]] > 0 /\ ttl[at[w]] < Forever /\ owner[at[w]] # Nobody
<1>1. age[w] \in 0 .. MaxHold /\ at[w] \in Slots /\ ttl[at[w]] \in 0 .. Forever
  BY DEF Inv, TypeOK
<1>2. ttl[at[w]] + age[w] = Timeout /\ age[w] < Timeout
  BY DEF Locked, Covered
<1>3. ttl[at[w]] > 0 /\ ttl[at[w]] < Forever
  BY <1>1, <1>2, SlotsAssumption DEF Forever
<1> QED
  BY <1>1, <1>3 DEF Locked

LEMMA GrantLocked ==
    ASSUME Inv, Locked, NEW w \in Workers, Grant(w)
    PROVE  Locked'
<1> DEFINE s == at[w]
<1>1. s \in Slots /\ owner[s] = Nobody
  BY SlotsAssumption DEF Grant, Take, Inv, TypeOK, Slots
<1>2. owner' = [owner EXCEPT ![s] = w] /\ ttl' = [ttl EXCEPT ![s] = Timeout]
      /\ age' = [age EXCEPT ![w] = 0] /\ at' = at
  BY DEF Grant, Take, loop
<1>3. \A v \in Workers : v # w /\ Holding(v)' =>
        Holding(v) /\ at[v] \in Slots /\ age'[v] = age[v]
  BY <1>2 DEF Grant, Goto, Inv, TypeOK, Holding
<1>4. \A v \in Workers : v # w /\ Holding(v)' /\ Covered(v)' => Covered(v) /\ at[v] # s
  BY <1>1, <1>3, StillLocked DEF Covered
<1>5. \A i \in Slots : owner'[i] = Nobody <=> ttl'[i] = 0
  BY <1>1, <1>2, SlotsAssumption DEF Locked, Inv, TypeOK
<1>6. ttl'[s] = Timeout /\ owner'[s] = w /\ age'[w] = 0
  BY <1>1, <1>2 DEF Inv, TypeOK
<1>7. \A v \in Workers : v # w /\ Holding(v)' /\ Covered(v)' =>
        /\ ttl'[at'[v]] + age'[v] = Timeout
        /\ owner'[at'[v]] \in {v, Orphan}
  <2> SUFFICES ASSUME NEW v \in Workers, v # w, Holding(v)', Covered(v)'
               PROVE  /\ ttl'[at'[v]] + age'[v] = Timeout
                      /\ owner'[at'[v]] \in {v, Orphan}
    OBVIOUS
  <2>1. ttl'[at'[v]] = ttl[at[v]] /\ age'[v] = age[v] /\ owner'[at'[v]] = owner[at[v]]
    BY <1>2, <1>3, <1>4 DEF Inv, TypeOK
  <2> QED
    BY <2>1, <1>3, <1>4 DEF Locked
<1>8. ttl'[at'[w]] + age'[w] = Timeout /\ owner'[at'[w]] = w
  BY <1>2, <1>6, SlotsAssumption
<1>9. \A u, v \in Workers :
        Holding(u)' /\ Holding(v)' /\ at'[u] = at'[v] /\ Covered(u)' /\ Covered(v)' => u = v
  BY <1>2, <1>3, <1>4 DEF Locked
<1> QED
  BY <1>5, <1>7, <1>8, <1>9 DEF Locked

LEMMA TickLocked ==
    ASSUME Inv, Locked, Tick PROVE Locked'
<1>1. at' = at /\ pc' = pc
  BY DEF Tick, loop
<1>2. \A s \in Slots : owner'[s] = Nobody <=> ttl'[s] = 0
  <2> SUFFICES ASSUME NEW s \in Slots PROVE owner'[s] = Nobody <=> ttl'[s] = 0
    OBVIOUS
  <2>1. /\ ttl'[s] = Less(ttl[s])
        /\ owner'[s] = IF ttl[s] = 1 THEN Nobody ELSE owner[s]
        /\ ttl[s] \in 0 .. Forever
    BY DEF Tick, Inv, TypeOK
  <2>2. Forever # 1 /\ Forever \in Nat
    BY SlotsAssumption DEF Forever
  <2>3. Less(ttl[s]) = 0 <=> ttl[s] \in {0, 1}
    BY <2>1, <2>2 DEF Less
  <2> QED
    BY <2>1, <2>3 DEF Locked
<1>3. \A w \in Workers : Holding(w) => age[w] \in Nat /\ age'[w] = age[w] + 1
  BY DEF Tick, Inv, TypeOK
<1>4. \A w \in Workers : Holding(w) /\ Covered(w)' => Covered(w)
  BY <1>3, SlotsAssumption DEF Covered
<1>5. ASSUME NEW w \in Workers, Holding(w), Covered(w)'
      PROVE  ttl'[at[w]] + age'[w] = Timeout /\ owner'[at[w]] \in {w, Orphan}
  <2>1. at[w] \in Slots /\ ttl[at[w]] \in 0 .. Forever
    BY <1>5 DEF Inv, TypeOK
  <2>2. ttl[at[w]] > 0 /\ ttl[at[w]] < Forever
    BY <1>4, <1>5, StillLocked
  <2>3. ttl'[at[w]] = ttl[at[w]] - 1
    BY <2>1, <2>2 DEF Tick, Less
  <2>4. ttl[at[w]] + age[w] = Timeout /\ owner[at[w]] \in {w, Orphan}
    BY <1>4, <1>5 DEF Locked
  <2>5. age'[w] = age[w] + 1 /\ age'[w] < Timeout /\ age[w] \in Nat
    BY <1>3, <1>5 DEF Covered
  <2>6. ttl[at[w]] # 1
    BY <2>1, <2>4, <2>5, SlotsAssumption DEF Forever
  <2>7. owner'[at[w]] = owner[at[w]]
    BY <2>1, <2>6 DEF Tick
  <2> QED
    BY <2>1, <2>3, <2>4, <2>5, <2>7, SlotsAssumption DEF Forever
<1>6. \A w \in Workers : Holding(w)' => Holding(w)
  BY <1>1 DEF Holding
<1>7. \A v, w \in Workers :
        Holding(v)' /\ Holding(w)' /\ at'[v] = at'[w] /\ Covered(v)' /\ Covered(w)' => v = w
  BY <1>1, <1>4, <1>6 DEF Locked
<1> QED
  BY <1>1, <1>2, <1>5, <1>6, <1>7 DEF Locked

LEMMA NextLocked ==
    ASSUME Inv, Locked, [Next]_vars PROVE Locked'
<1>1. ASSUME NEW w \in Workers, NEW t \in Tasks, Deliver(w, t) PROVE Locked'
  BY <1>1, LocksKept DEF Deliver, Goto, Inv, TypeOK, Holding, loop
<1>2. ASSUME NEW w \in Workers, ReadSlots(w) \/ Miss(w) PROVE Locked'
  BY <1>2, LocksKept DEF ReadSlots, Miss, Goto, Inv, TypeOK, Holding, loop
<1>3. ASSUME NEW w \in Workers, Sleep(w) \/ Enter(w) \/ Finish(w) \/ Restart(w)
      PROVE  Locked'
  BY <1>3, LocksKept DEF Sleep, Enter, Finish, Restart, Goto, Inv, TypeOK, Holding, loop
<1>4. ASSUME NEW w \in Workers, Release(w) PROVE Locked'
  <2>1. pc[w] = "releasing" /\ pc' = [pc EXCEPT ![w] = "idle"]
        /\ UNCHANGED <<loop, age>>
    BY <1>4 DEF Release, Goto
  <2>2. CASE owner[at[w]] = w /\ Free(at[w])
    BY <2>1, <2>2, FreeLocked DEF Holding
  <2>3. CASE UNCHANGED locks
    BY <2>1, <2>3, LocksKept DEF Inv, TypeOK, Holding, loop
  <2> QED
    BY <1>4, <2>2, <2>3 DEF Release
<1>5. ASSUME NEW w \in Workers, Die(w) \/ Abandon(w) PROVE Locked'
  BY <1>5, ForgetLocked DEF Die, Abandon, Inv, TypeOK, Holding
<1>6. ASSUME NEW w \in Workers, Signal(w) PROVE Locked'
  <2>1. CASE SignalSwallowed(w)
    BY <2>1, ForgetLocked DEF SignalSwallowed, Holding
  <2>2. CASE SignalLate(w)
    BY <2>2, FreeLocked DEF SignalLate, Holding
  <2> QED
    BY <1>5, <1>6, <2>1, <2>2 DEF Signal, SignalFree, SignalHeld
<1>7. ASSUME NEW w \in Workers, LoseRelease(w) PROVE Locked'
  <2>1. pc[w] = "releasing" /\ pc' = [pc EXCEPT ![w] = "idle"]
        /\ UNCHANGED <<loop, age>>
    BY <1>7 DEF LoseRelease, Goto
  <2>2. CASE owner[at[w]] = w /\ Free(at[w])
    BY <2>1, <2>2, FreeLocked DEF Holding
  <2>3. CASE Forget(w) /\ UNCHANGED ttl
    BY <2>1, <2>3, ForgetLocked DEF Inv, TypeOK, Holding
  <2> QED
    BY <1>7, <2>2, <2>3 DEF LoseRelease
<1>8. ASSUME NEW n \in SlotCounts, SetSlots(n) PROVE Locked'
  BY <1>8, LocksKept DEF SetSlots, Holding, loop
<1>9. CASE UNCHANGED vars
  BY <1>9, LocksKept DEF vars, Holding, loop
<1> QED
  BY <1>1, <1>2, <1>3, <1>4, <1>5, <1>6, <1>7, <1>8, <1>9, GrantLocked, TickLocked
  DEF Next, Run, Crash, LoseAnswer

\* The lock that covers a user has exactly the time left that the user has not
\* used, and no lock covers two users.
THEOREM SlotsInvariant == Spec => []IInv
<1>1. Init => Inv /\ IInv
  BY InitInv, InitLocked DEF Inv, IInv
<1>2. Inv /\ IInv /\ [Next]_vars => (Inv /\ IInv)'
  <2> SUFFICES ASSUME Inv, IInv, [Next]_vars PROVE (Inv /\ IInv)'
    OBVIOUS
  <2>1. Inv'
    BY NextInv
  <2>2. Locked'
    BY NextLocked DEF IInv
  <2> QED
    BY <2>1, <2>2 DEF IInv, Inv
<1> QED
  BY <1>1, <1>2, PTL DEF Spec

\* No two processes use a slot at the same time as long as neither has outlasted
\* its lock, for any number of processes, crashes, signals and lost answers.
THEOREM NoDoubleUseHolds == Spec => []NoDoubleUse
<1>1. IInv => NoDoubleUse
  BY DEF IInv, Locked, NoDoubleUse, Holding
<1> QED
  BY <1>1, SlotsInvariant, PTL

-----------------------------------------------------------------------------
(***************************************************************************)
(* Workers that have lost their lock.                                      *)
(***************************************************************************)

\* The deliveries of a task that may have saved a mockup, but for the present one.
Redone == faults + signals

Busy(w) == Waiting(w) \/ pc[w] \in {"granted", "working"}

\* A task that is to be run, or whose body is not over, has been saved no more often
\* than it was delivered before, and one worker runs it at the most.
SavedInv ==
    /\ \A v, w \in Workers : task[v] = task[w] /\ task[v] # NoTask => v = w
    /\ \A w \in Workers : task[w] # NoTask => state[task[w]] = "running"
    /\ \A w \in Workers : Busy(w) => saved[task[w]] <= Redone
    /\ \A w \in Workers : pc[w] = "releasing" /\ result[w] = "saved" => saved[task[w]] > 0
    /\ \A t \in Tasks : state[t] = "queued" => saved[t] <= Redone
    /\ SavedAccounted

LEMMA RedoneNat == Inv => faults \in Nat /\ signals \in Nat /\ Redone \in Nat
<1>1. Inv => faults \in 0 .. MaxFaults /\ signals \in 0 .. MaxSignals
  BY DEF Inv, TypeOK
<1>2. MaxFaults \in Nat /\ MaxSignals \in Nat
  BY SlotsAssumption
<1> QED
  BY <1>1, <1>2 DEF Redone

LEMMA SumInNat == \A m, n \in Nat : m + n \in Nat
  OBVIOUS

LEMMA RedoneNext == faults' \in Nat /\ signals' \in Nat => Redone' \in Nat
<1>1. Redone' = faults' + signals'
  BY DEF Redone
<1> QED
  BY <1>1, SumInNat

LEMMA InitSaved == Init => SavedInv
  BY DEF Init, SavedInv, SavedAccounted, Busy, Waiting, Redone

\* A worker is rid of its task, which is queued again only when it counts as redone.
LEMMA ReturnSaved ==
    ASSUME Inv, SavedInv, faults' \in Nat, signals' \in Nat, NEW w \in Workers,
           NEW s \in {"queued", "saved", "error", "failed"}, Return(w, s),
           pc'[w] \in {"idle", "exited"}, \A v \in Workers : v # w => pc'[v] = pc[v],
           Redone <= Redone', s = "queued" => Redone < Redone',
           s = "saved" /\ task[w] # NoTask => saved[task[w]] > 0
    PROVE  SavedInv'
<1>1. /\ task \in [Workers -> Tasks \union {NoTask}] /\ Redone \in Nat /\ Redone' \in Nat
      /\ state \in [Tasks -> {"queued", "running", "saved", "error", "failed"}]
      /\ saved \in [Tasks -> Nat] /\ pc \in [Workers -> {"idle", "loop", "probe", "granted",
                                                 "working", "releasing", "exited"}]
      /\ \A v \in Workers : Busy(v) \/ pc[v] = "releasing" => task[v] \in Tasks
  <2>1. Redone \in Nat /\ Redone' \in Nat
    BY RedoneNat, RedoneNext
  <2> QED
    BY <2>1 DEF Inv, TypeOK, Busy, Holding, Waiting
<1>2. /\ \A v \in Workers : task'[v] = IF v = w THEN NoTask ELSE task[v]
      /\ \A v \in Workers : v # w => result'[v] = result[v]
      /\ \A t \in Tasks : state'[t] = IF t = task[w] THEN s ELSE state[t]
      /\ saved' = saved
  BY <1>1, SlotsAssumption DEF Return, Inv, TypeOK
<1>3. \A v \in Workers : pc'[v] = "releasing" => v # w /\ pc[v] = "releasing"
  OBVIOUS
<1>4. \A v \in Workers : Busy(v)' => v # w /\ Busy(v)
  BY DEF Busy, Waiting
<1>5. \A v \in Workers : v # w /\ task[v] # NoTask => task[v] # task[w]
  BY DEF SavedInv
<1>6. \A v \in Workers : task'[v] # NoTask => state'[task'[v]] = "running"
  <2> SUFFICES ASSUME NEW v \in Workers, task'[v] # NoTask PROVE state'[task'[v]] = "running"
    OBVIOUS
  <2>1. v # w /\ task'[v] = task[v] /\ task[v] \in Tasks /\ task[v] # task[w]
    BY <1>1, <1>2, <1>5
  <2> QED
    BY <1>2, <2>1 DEF SavedInv
<1>7. \A v \in Workers : Busy(v)' => saved'[task'[v]] <= Redone'
  <2> SUFFICES ASSUME NEW v \in Workers, Busy(v)' PROVE saved'[task'[v]] <= Redone'
    OBVIOUS
  <2>1. Busy(v) /\ task'[v] = task[v] /\ task[v] \in Tasks
    BY <1>1, <1>2, <1>4
  <2>2. saved[task[v]] <= Redone /\ saved[task[v]] \in Nat
    BY <1>1, <2>1 DEF SavedInv
  <2> QED
    BY <1>1, <1>2, <2>1, <2>2
<1>8. \A v \in Workers : pc'[v] = "releasing" /\ result'[v] = "saved" => saved'[task'[v]] > 0
  BY <1>2, <1>3 DEF SavedInv
<1>9. \A t \in Tasks : state'[t] = "queued" => saved'[t] <= Redone'
  <2> SUFFICES ASSUME NEW t \in Tasks, state'[t] = "queued" PROVE saved[t] <= Redone'
    BY <1>2
  <2>1. saved[t] \in Nat /\ saved[t] <= 1 + Redone
    BY <1>1, SlotsAssumption DEF SavedInv, SavedAccounted, Redone, Inv, TypeOK
  <2>2. CASE t = task[w]
    BY <1>1, <1>2, <2>1, <2>2
  <2>3. CASE t # task[w]
    <3>1. saved[t] <= Redone
      BY <1>2, <2>3 DEF SavedInv
    <3> QED
      BY <1>1, <2>1, <3>1
  <2> QED
    BY <2>2, <2>3
<1>10. ASSUME NEW t \in Tasks
       PROVE  /\ state'[t] = "saved" => saved'[t] > 0
              /\ saved'[t] <= 1 + faults' + signals'
  <2>1. saved[t] \in Nat /\ saved[t] <= 1 + Redone /\ (state[t] = "saved" => saved[t] > 0)
    BY <1>1, SlotsAssumption DEF SavedInv, SavedAccounted, Redone, Inv, TypeOK
  <2>2. state'[t] = "saved" => saved[t] > 0
    BY <1>2, <2>1, SlotsAssumption
  <2> QED
    BY <1>1, <1>2, <2>1, <2>2 DEF Redone
<1>11. SavedAccounted'
  BY <1>10 DEF SavedAccounted, Redone
<1> QED
  BY <1>2, <1>5, <1>6, <1>7, <1>8, <1>9, <1>11 DEF SavedInv

\* A step of a worker with its task, or of the world.
LEMMA SavedKept ==
    ASSUME Inv, SavedInv, UNCHANGED tasks, faults' \in Nat, signals' \in Nat,
           Redone <= Redone',
           \A w \in Workers : (Busy(w)' => Busy(w)) /\ (pc'[w] = "releasing" => pc[w] = "releasing")
    PROVE  SavedInv'
<1>1. /\ Redone \in Nat /\ Redone' \in Nat /\ saved \in [Tasks -> Nat]
      /\ \A w \in Workers : Busy(w) => task[w] \in Tasks
  <2>1. Redone \in Nat /\ Redone' \in Nat
    BY RedoneNat, RedoneNext
  <2> QED
    BY <2>1 DEF Inv, TypeOK, Busy, Holding, Waiting
<1>2. \A n \in Nat : n <= Redone => n <= Redone'
  BY <1>1
<1>3. \A w \in Workers : Busy(w)' => saved'[task'[w]] <= Redone'
  BY <1>1, <1>2 DEF SavedInv, tasks
<1>4. \A t \in Tasks : state'[t] = "queued" => saved'[t] <= Redone'
  BY <1>1, <1>2 DEF SavedInv, tasks
<1>5. ASSUME NEW t \in Tasks PROVE saved[t] <= 1 + faults' + signals'
  <2>1. saved[t] \in Nat /\ saved[t] <= 1 + faults + signals
    BY <1>1 DEF SavedInv, SavedAccounted
  <2> QED
    BY <2>1, RedoneNat DEF Redone
<1>6. SavedAccounted'
  BY <1>5 DEF SavedInv, SavedAccounted, Redone, tasks
<1> QED
  BY <1>3, <1>4, <1>6 DEF SavedInv, tasks

LEMMA NextSaved == Inv /\ SavedInv /\ [Next]_vars => SavedInv'
<1> SUFFICES ASSUME Inv, SavedInv, [Next]_vars PROVE SavedInv'
  OBVIOUS
<1>0. /\ Redone \in Nat /\ Redone' \in Nat
      /\ pc \in [Workers -> {"idle", "loop", "probe", "granted", "working", "releasing", "exited"}]
      /\ faults \in Nat /\ signals \in Nat /\ faults' \in Nat /\ signals' \in Nat
      /\ result \in [Workers -> {"none", "saved", "error", "failed"}]
  <2>1. faults' \in 0 .. MaxFaults /\ signals' \in 0 .. MaxSignals
    BY NextInv DEF Inv, TypeOK
  <2>2. faults' \in Nat /\ signals' \in Nat /\ Redone' \in Nat
    BY <2>1, SlotsAssumption, RedoneNext
  <2> QED
    BY <2>2, RedoneNat DEF Inv, TypeOK
<1>1. ASSUME NEW w \in Workers, NEW t \in Tasks, Deliver(w, t) PROVE SavedInv'
  <2>1. /\ state[t] = "queued" /\ state' = [state EXCEPT ![t] = "running"]
        /\ task' = [task EXCEPT ![w] = t] /\ pc' = [pc EXCEPT ![w] = "loop"]
        /\ UNCHANGED <<result, saved, faults, signals>>
    BY <1>1 DEF Deliver, Goto, bounds
  <2>2. \A v \in Workers : task[v] # t
    BY <2>1, SlotsAssumption DEF SavedInv
  <2>3. /\ \A v \in Workers : task'[v] = IF v = w THEN t ELSE task[v]
        /\ \A v \in Workers : pc'[v] = IF v = w THEN "loop" ELSE pc[v]
        /\ \A u \in Tasks : state'[u] = IF u = t THEN "running" ELSE state[u]
        /\ \A v \in Workers : task[v] \in Tasks \union {NoTask}
    BY <1>0, <2>1 DEF Inv, TypeOK
  <2>4. Redone' = Redone
    BY <2>1 DEF Redone
  <2>5. SavedAccounted'
    BY <2>1, <2>3 DEF SavedInv, SavedAccounted
  <2>6. saved[t] <= Redone
    BY <2>1 DEF SavedInv
  <2>7. \A v \in Workers : Busy(v)' => saved'[task'[v]] <= Redone'
    BY <2>1, <2>3, <2>4, <2>6 DEF SavedInv, Busy, Waiting
  <2> QED
    BY <2>1, <2>2, <2>3, <2>4, <2>5, <2>7 DEF SavedInv
<1>2. ASSUME NEW w \in Workers, ReadSlots(w) \/ Grant(w) \/ Miss(w) \/ Sleep(w) \/ Enter(w)
      PROVE  SavedInv'
  <2>1. UNCHANGED <<tasks, faults, signals>> /\ Redone' = Redone
    BY <1>2 DEF ReadSlots, Grant, Miss, Sleep, Enter, bounds, Redone
  <2>2. \A v \in Workers : (Busy(v)' => Busy(v)) /\ (pc'[v] = "releasing" => pc[v] = "releasing")
    BY <1>0, <1>2 DEF ReadSlots, Grant, Miss, Sleep, Enter, Goto, Busy, Waiting
  <2> QED
    BY <1>0, <2>1, <2>2, SavedKept
<1>3. ASSUME NEW w \in Workers, Finish(w) PROVE SavedInv'
  <2>1. PICK new \in {0, 1} : /\ saved' = [saved EXCEPT ![task[w]] = @ + new]
                              /\ \E r \in {"failed", IF new = 1 THEN "saved" ELSE "error"} :
                                    result' = [result EXCEPT ![w] = r]
    BY <1>3 DEF Finish, Outcome
  <2>2. /\ pc[w] = "working" /\ pc' = [pc EXCEPT ![w] = "releasing"]
        /\ UNCHANGED <<task, state, faults, signals>> /\ Redone' = Redone
    BY <1>3 DEF Finish, Goto, bounds, Redone
  <2>3. /\ task[w] \in Tasks /\ saved \in [Tasks -> Nat]
        /\ \A v \in Workers : Busy(v) \/ pc[v] = "releasing" => task[v] \in Tasks
    BY <2>2 DEF Inv, TypeOK, Holding, Waiting, Busy
  <2>4. saved[task[w]] <= Redone /\ saved[task[w]] \in Nat
    BY <2>2, <2>3 DEF SavedInv, Busy
  <2>5. /\ \A t \in Tasks : saved'[t] = IF t = task[w] THEN saved[t] + new ELSE saved[t]
        /\ \A v \in Workers : pc'[v] = IF v = w THEN "releasing" ELSE pc[v]
        /\ \A v \in Workers : v # w => result'[v] = result[v]
        /\ result'[w] = "saved" => new = 1
    BY <1>0, <2>1, <2>2, <2>3
  <2>6. \A v \in Workers : v # w /\ (Busy(v) \/ pc[v] = "releasing") => task[v] # task[w]
    BY <2>3, SlotsAssumption DEF SavedInv
  <2>7. \A v \in Workers : Busy(v)' => saved'[task'[v]] <= Redone'
    BY <2>2, <2>3, <2>5, <2>6 DEF SavedInv, Busy, Waiting
  <2>8. \A v \in Workers : pc'[v] = "releasing" /\ result'[v] = "saved" => saved'[task'[v]] > 0
    BY <2>2, <2>3, <2>4, <2>5, <2>6 DEF SavedInv
  <2>9. state[task[w]] = "running"
    BY <2>3, SlotsAssumption DEF SavedInv
  <2>10. \A t \in Tasks : state'[t] = "queued" => saved'[t] <= Redone'
    BY <2>2, <2>5, <2>9 DEF SavedInv
  <2>11. SavedAccounted'
    <3>1. \A t \in Tasks : state'[t] = "saved" => saved'[t] > 0
      BY <2>2, <2>5, <2>9 DEF SavedInv, SavedAccounted
    <3>2. \A t \in Tasks : saved'[t] <= 1 + Redone
      BY <1>0, <2>3, <2>4, <2>5 DEF SavedInv, SavedAccounted, Redone
    <3> QED
      BY <1>0, <2>2, <2>3, <2>5, <3>1, <3>2 DEF SavedAccounted, Redone
  <2> QED
    BY <2>2, <2>7, <2>8, <2>10, <2>11 DEF SavedInv
<1>4. ASSUME NEW w \in Workers, Release(w) PROVE SavedInv'
  <2>1. /\ pc[w] = "releasing" /\ pc' = [pc EXCEPT ![w] = "idle"] /\ Redone' = Redone
        /\ Return(w, result[w]) \/ Return(w, "failed")
    BY <1>4 DEF Release, Goto, bounds, Redone
  <2>2. result[w] \in {"saved", "error", "failed"}
    BY <1>0, <2>1 DEF Inv, TypeOK
  <2>3. result[w] = "saved" => saved[task[w]] > 0
    BY <2>1 DEF SavedInv
  <2> QED
    BY <1>0, <2>1, <2>2, <2>3, ReturnSaved
<1>5. ASSUME NEW w \in Workers, Signal(w) PROVE SavedInv'
  <2>1. Redone' = Redone + 1
    BY <1>0, <1>5 DEF Signal, Redone
  <2>2. CASE SignalFree(w)
    BY <1>0, <2>1, <2>2, ReturnSaved DEF SignalFree, Die
  <2>3. CASE SignalHeld(w)
    BY <1>0, <2>1, <2>3, ReturnSaved DEF SignalHeld, Abandon
  <2>4. CASE SignalSwallowed(w)
    <3>1. UNCHANGED <<pc, tasks>>
      BY <2>4 DEF SignalSwallowed
    <3> QED
      BY <1>0, <2>1, <3>1, SavedKept DEF Busy, Waiting
  <2>5. CASE SignalLate(w)
    <3>1. PICK s \in {result[w], "failed"} :
            Return(w, s) /\ pc[w] = "releasing" /\ pc' = [pc EXCEPT ![w] = "idle"]
      BY <2>5 DEF SignalLate
    <3>2. result[w] \in {"saved", "error", "failed"}
      BY <1>0, <3>1 DEF Inv, TypeOK
    <3>3. s \in {"saved", "error", "failed"} /\ (s = "saved" => saved[task[w]] > 0)
      BY <3>1, <3>2 DEF SavedInv
    <3> QED
      BY <1>0, <2>1, <3>1, <3>3, ReturnSaved
  <2> QED
    BY <1>5, <2>2, <2>3, <2>4, <2>5 DEF Signal
<1>6. ASSUME NEW w \in Workers, Crash(w) \/ LoseAnswer(w) \/ LoseRelease(w) PROVE SavedInv'
  <2>1. Redone' = Redone + 1
    <3>1. faults' = faults + 1 /\ signals' = signals
      BY <1>6 DEF Crash, LoseAnswer, LoseRelease, Fault
    <3> QED
      BY <1>0, <3>1 DEF Redone
  <2>2. CASE Crash(w)
    BY <1>0, <2>1, <2>2, ReturnSaved DEF Crash, Die
  <2>3. CASE LoseAnswer(w)
    BY <1>0, <2>1, <2>3, ReturnSaved DEF LoseAnswer, Abandon
  <2>4. CASE LoseRelease(w)
    BY <1>0, <2>1, <2>4, ReturnSaved DEF LoseRelease, Goto
  <2> QED
    BY <1>6, <2>2, <2>3, <2>4
<1>7. ASSUME NEW w \in Workers, Restart(w) PROVE SavedInv'
  <2>1. UNCHANGED tasks /\ Redone' = Redone
    BY <1>7 DEF Restart, bounds, Redone
  <2>2. \A v \in Workers : (Busy(v)' => Busy(v)) /\ (pc'[v] = "releasing" => pc[v] = "releasing")
    BY <1>0, <1>7 DEF Restart, Goto, Busy, Waiting
  <2> QED
    BY <1>0, <2>1, <2>2, SavedKept
<1>8. CASE Tick \/ (\E n \in SlotCounts : SetSlots(n)) \/ UNCHANGED vars
  <2>1. UNCHANGED <<pc, tasks>> /\ Redone' = Redone
    BY <1>8 DEF Tick, SetSlots, vars, bounds, tasks, Redone
  <2> QED
    BY <1>0, <2>1, SavedKept DEF Busy, Waiting
<1> QED
  BY <1>1, <1>2, <1>3, <1>4, <1>5, <1>6, <1>7, <1>8 DEF Next, Run

\* A lock is freed with the token it holds.
LEMMA NextReleasesOwn ==
    ASSUME Inv, [Next]_vars, NEW w \in Workers, NEW s \in Slots,
           pc[w] = "releasing", pc'[w] = "idle", owner[s] \notin {w, Nobody}
    PROVE  owner'[s] = owner[s]
<1>0. owner \in [Slots -> Workers \union {Nobody, Orphan}]
      /\ pc \in [Workers -> {"idle", "loop", "probe", "granted", "working", "releasing", "exited"}]
  BY DEF Inv, TypeOK
<1>1. CASE Release(w) \/ LoseRelease(w)
  <2>1. \/ Free(at[w]) /\ owner[at[w]] = w
        \/ Forget(w)
        \/ owner' = owner
    BY <1>1 DEF Release, LoseRelease, locks
  <2> QED
    BY <1>0, <2>1 DEF Free, Forget
<1>2. CASE Signal(w)
  BY <1>0, <1>2 DEF Signal, SignalFree, SignalHeld, SignalSwallowed, SignalLate, Die, Abandon,
                    Free, Forget
<1>3. CASE Crash(w) \/ LoseAnswer(w)
  BY <1>0, <1>3 DEF Crash, LoseAnswer, Die, Abandon, Forget
<1>4. ASSUME \/ \E t \in Tasks : Deliver(w, t)
             \/ ReadSlots(w) \/ Grant(w) \/ Miss(w) \/ Sleep(w) \/ Enter(w) \/ Finish(w)
             \/ Restart(w) \/ Tick \/ (\E n \in SlotCounts : SetSlots(n)) \/ UNCHANGED vars
      PROVE  FALSE
  BY <1>0, <1>4 DEF Deliver, ReadSlots, Grant, Miss, Sleep, Enter, Finish, Restart, Tick,
                    SetSlots, Goto, vars
<1>5. ASSUME NEW v \in Workers, v # w,
             \/ \E t \in Tasks : Deliver(v, t)
             \/ Run(v) \/ Signal(v) \/ Crash(v) \/ LoseAnswer(v) \/ LoseRelease(v) \/ Restart(v)
      PROVE  FALSE
  <2>1. pc' = pc \/ \E p \in {"idle", "loop", "probe", "granted", "working", "releasing", "exited"} :
          pc' = [pc EXCEPT ![v] = p]
    BY <1>5 DEF Deliver, Run, ReadSlots, Grant, Miss, Sleep, Enter, Finish, Release, Signal,
                SignalFree, SignalHeld, SignalSwallowed, SignalLate, Die, Abandon, Crash,
                LoseAnswer, LoseRelease, Restart, Goto
  <2> QED
    BY <1>0, <1>5, <2>1
<1> QED
  BY <1>1, <1>2, <1>3, <1>4, <1>5 DEF Next, Run

\* A worker whose lock has run out frees nobody else's lock, and its task is saved
\* again only when a process has died, for any number of workers, tasks and faults.
THEOREM LateHoldersHarmlessHolds == Spec => LateHoldersHarmless
<1>1. Init => Inv /\ SavedInv
  BY InitInv, InitSaved
<1>2. Inv /\ SavedInv /\ [Next]_vars => (Inv /\ SavedInv)'
  BY NextInv, NextSaved
<1>3. Inv /\ SavedInv => SavedAccounted
  BY DEF SavedInv
<1>4. Inv /\ SavedInv /\ [Next]_vars =>
        [\A w \in Workers, s \in Slots :
           /\ pc[w] = "releasing" /\ pc'[w] = "idle"
           /\ owner[s] \notin {w, Nobody}
           => owner'[s] = owner[s]]_vars
  BY NextReleasesOwn
<1> QED
  BY <1>1, <1>2, <1>3, <1>4, PTL DEF Spec, LateHoldersHarmless, ReleasesOwn
=============================================================================
