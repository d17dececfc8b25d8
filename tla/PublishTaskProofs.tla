-------------------------- MODULE PublishTaskProofs --------------------------
(***************************************************************************)
(* What PublishTask keeps to for any number of tasks, chains and editors   *)
(* and for any max_attempts and HTTP retries.                              *)
(***************************************************************************)
EXTENDS PublishTask, FiniteSetTheorems, TLAPS

USE DEF vars, rows, world, session, chains

LEMMA InitTypeOK == Init => TypeOK
  BY ConstantsAssumption DEF Init, TypeOK, PublishStatus, Pending, Expired

LEMMA NextTypeOK == TypeOK /\ [Next]_vars => TypeOK'
<1> SUFFICES ASSUME TypeOK, [Next]_vars PROVE TypeOK'
  OBVIOUS
<1> USE ConstantsAssumption DEF TypeOK, PublishStatus, Pending, Expired
<1>1. ASSUME NEW c \in Chains, Trigger(c) PROVE TypeOK'
  <2> USE DEF Begin
  <2>1. ASSUME NEW t \in Tasks, CreateTask(c, t) PROVE TypeOK'
    BY <2>1 DEF CreateTask
  <2>2. ASSUME NEW t \in Tasks, RetryTask(c, t) PROVE TypeOK'
    BY <2>2 DEF RetryTask
  <2> QED
    BY <1>1, <2>1, <2>2 DEF Trigger
<1>2. ASSUME NEW c \in Chains, Attempt(c) PROVE TypeOK'
  <2> USE DEF Step, WriteStatus, Notify, Upload
  <2>1. CASE Load(c)
    BY <2>1 DEF Load
  <2>2. CASE Start(c) \/ Refuse(c) \/ Confirm(c) \/ MarkFailed(c)
    <3>1. CASE Start(c)
      BY <3>1 DEF Start
    <3>2. CASE Refuse(c)
      BY <3>2 DEF Refuse
    <3>3. CASE Confirm(c)
      BY <3>3 DEF Confirm
    <3>4. CASE MarkFailed(c)
      BY <3>4 DEF MarkFailed
    <3> QED
      BY <2>2, <3>1, <3>2, <3>3, <3>4
  <2>3. CASE ReportRefusal(c)
    BY <2>3 DEF ReportRefusal
  <2>4. CASE UploadAnswered(c)
    BY <2>4 DEF UploadAnswered
  <2>5. CASE UploadFails(c)
    BY <2>5 DEF UploadFails
  <2>6. CASE WriteFails(c)
    BY <2>6 DEF WriteFails
  <2>7. CASE Measure(c)
    BY <2>7 DEF Measure
  <2>8. CASE Count(c)
    BY <2>8 DEF Count
  <2>9. CASE CheckExhausted(c)
    <3>1. CASE Notify(c)
      BY <2>9, <3>1 DEF CheckExhausted
    <3>2. CASE ~Notify(c)
      BY <2>9, <3>2 DEF CheckExhausted
    <3> QED
      BY <3>1, <3>2
  <2>10. CASE Decide(c)
    BY <2>10 DEF Decide, Continue
  <2> QED
    BY <1>2, <2>1, <2>2, <2>3, <2>4, <2>5, <2>6, <2>7, <2>8, <2>9, <2>10
       DEF Attempt
<1>3. ASSUME NEW c \in Chains, Lose(c) PROVE TypeOK'
  BY <1>3 DEF Lose
<1>4. ASSUME Outside PROVE TypeOK'
  <2>1. ASSUME NEW t \in Tasks, NEW s \in HookStatuses, Webhook(t, s)
        PROVE TypeOK'
    BY <2>1 DEF Webhook, Report
  <2>2. ASSUME NEW e \in Editors, NEW t \in Tasks, PatchCheck(e, t)
        PROVE TypeOK'
    BY <2>2 DEF PatchCheck
  <2>3. ASSUME NEW e \in Editors, PatchWrite(e) PROVE TypeOK'
    BY <2>3 DEF PatchWrite
  <2> QED
    BY <1>4, <2>1, <2>2, <2>3 DEF Outside
<1>5. CASE UNCHANGED vars
  BY <1>5
<1> QED
  BY <1>1, <1>2, <1>3, <1>4, <1>5 DEF Next

\* The rows and the chains keep their types: in particular a status column
\* never holds anything but a PublishStatus.
THEOREM TypeCorrect == Spec => []TypeOK
  BY InitTypeOK, NextTypeOK, PTL DEF Spec

-----------------------------------------------------------------------------

\* The actions of a chain change nothing of the others.
LEMMA StepOther ==
    ASSUME TypeOK, NEW c \in Chains, Attempt(c), NEW d \in Chains, d # c
    PROVE  /\ pc'[d] = pc[d]
           /\ task'[d] = task[d]
           /\ tries'[d] = tries[d]
           /\ seen'[d] = seen[d]
  BY DEF TypeOK, Attempt, Load, Start, Refuse, ReportRefusal, UploadAnswered,
         UploadFails, WriteFails, Confirm, Measure, Count, MarkFailed,
         CheckExhausted, Decide, Continue, Step, WriteStatus, Notify, Upload

\* The attempts of a row never go down.
LEMMA AttemptsGrow ==
    ASSUME TypeOK, [Next]_vars, NEW t \in Tasks
    PROVE  attempts'[t] >= attempts[t]
<1>1. ASSUME NEW c \in Chains, Attempt(c) PROVE attempts'[t] >= attempts[t]
  <2>1. CASE Count(c)
    BY <2>1 DEF Count, TypeOK
  <2>2. CASE ~Count(c)
    BY <1>1, <2>2 DEF TypeOK, Attempt, Load, Start, Refuse, ReportRefusal,
       UploadAnswered, UploadFails, WriteFails, Confirm, Measure, MarkFailed,
       CheckExhausted, Decide, Continue, WriteStatus, Notify, Upload
  <2> QED
    BY <2>1, <2>2
<1> QED
  BY <1>1 DEF TypeOK, Next, Trigger, CreateTask, RetryTask, Begin, Lose, Outside,
     Webhook, Report, PatchCheck, PatchWrite

LEMMA InitIInv == Init => IInv
  BY ConstantsAssumption
  DEF Init, IInv, ChainInv, ChainOK, ExhaustionInv, ChainsOn, Failures, Expired

\* A chain that does not move keeps ChainOK, whatever happens to its row.
LEMMA StillChainOK ==
    ASSUME TypeOK, [Next]_vars, NEW c \in Chains, ChainOK(c),
           pc'[c] = pc[c], task'[c] = task[c], tries'[c] = tries[c],
           seen'[c] = seen[c]
    PROVE  ChainOK(c)'
<1>1. CASE pc[c] = "idle"
  BY <1>1 DEF ChainOK, Failures, TypeOK
<1>2. CASE pc[c] # "idle"
  <2>1. task[c] \in Tasks
    BY <1>2 DEF TypeOK
  <2>2. attempts'[task[c]] >= attempts[task[c]]
    BY <2>1, AttemptsGrow
  <2>3. TypeOK'
    BY NextTypeOK
  <2> QED
    BY <1>2, <2>1, <2>2, <2>3 DEF ChainOK, Failures, TypeOK, Expired
<1> QED
  BY <1>1, <1>2

LEMMA NextChainInv == TypeOK /\ ChainInv /\ [Next]_vars => ChainInv'
<1> SUFFICES ASSUME TypeOK, ChainInv, [Next]_vars, NEW d \in Chains
             PROVE  ChainOK(d)'
  BY DEF ChainInv
<1> ChainOK(d)
  BY DEF ChainInv
<1>0. TypeOK'
  BY NextTypeOK
<1>1. ASSUME NEW c \in Chains, Attempt(c) PROVE ChainOK(d)'
  <2>1. CASE d # c
    BY <1>1, <2>1, StepOther, StillChainOK
  <2>2. CASE d = c
    <3> USE <1>0, <2>2, ConstantsAssumption
        DEF ChainOK, Failures, TypeOK, Step, WriteStatus, Notify, Upload, Expired
    <3>1. CASE Load(c)
      BY <3>1 DEF Load
    <3>2. CASE Start(c) \/ Refuse(c) \/ Confirm(c) \/ MarkFailed(c)
      BY <3>2 DEF Start, Refuse, Confirm, MarkFailed
    <3>3. CASE ReportRefusal(c) \/ UploadAnswered(c) \/ UploadFails(c)
      BY <3>3 DEF ReportRefusal, UploadAnswered, UploadFails
    <3>4. CASE WriteFails(c) \/ Measure(c)
      BY <3>4 DEF WriteFails, Measure
    <3>5. CASE Count(c)
      BY <3>5 DEF Count
    <3>6. CASE CheckExhausted(c)
      BY <3>6 DEF CheckExhausted
    <3>7. CASE Decide(c)
      BY <3>7 DEF Decide, Continue, Refreshed
    <3> QED
      BY <1>1, <3>1, <3>2, <3>3, <3>4, <3>5, <3>6, <3>7 DEF Attempt
  <2> QED
    BY <2>1, <2>2
<1>2. ASSUME NEW c \in Chains, Trigger(c) PROVE ChainOK(d)'
  <2>1. CASE d # c
    BY <1>2, <2>1, StillChainOK DEF Trigger, CreateTask, RetryTask, Begin, TypeOK
  <2>2. CASE d = c
    BY <1>0, <1>2, <2>2, ConstantsAssumption
       DEF Trigger, CreateTask, RetryTask, Begin, TypeOK, ChainOK, Failures, Expired
  <2> QED
    BY <2>1, <2>2
<1>3. ASSUME NEW c \in Chains, Lose(c) PROVE ChainOK(d)'
  BY <1>3, StillChainOK DEF Lose
<1>4. CASE Outside \/ UNCHANGED vars
  BY <1>4, StillChainOK DEF Outside, Webhook, Report, PatchCheck, PatchWrite
<1> QED
  BY <1>1, <1>2, <1>3, <1>4 DEF Next

-----------------------------------------------------------------------------

\* A chain that reaches the limit tells, or is still about to.
LEMMA NextExhaustionInv ==
    TypeOK /\ ChainInv /\ ExhaustionInv /\ [Next]_vars => ExhaustionInv'
<1> SUFFICES ASSUME TypeOK, ChainInv, ExhaustionInv, [Next]_vars
             PROVE  ExhaustionInv'
  OBVIOUS
<1>0. TypeOK' /\ \A t \in Tasks : attempts'[t] >= attempts[t]
  BY NextTypeOK, AttemptsGrow
<1>1. ASSUME NEW c \in Chains, Attempt(c) PROVE ExhaustionInv'
  <2>0. ChainOK(c)
    BY DEF ChainInv
  <2> USE <1>0, <2>0, ConstantsAssumption
      DEF ChainOK, Failures, TypeOK, Step, WriteStatus, Notify, Upload, Expired,
          ExhaustionInv, ChainsOn
  <2>1. CASE Load(c)
    BY <2>1 DEF Load
  <2>2. CASE Start(c) \/ Refuse(c) \/ Confirm(c) \/ MarkFailed(c)
    <3>1. CASE Start(c)
      BY <3>1 DEF Start
    <3>2. CASE Refuse(c)
      BY <3>2 DEF Refuse
    <3>3. CASE Confirm(c)
      BY <3>3 DEF Confirm
    <3>4. CASE MarkFailed(c)
      BY <3>4 DEF MarkFailed
    <3> QED
      BY <2>2, <3>1, <3>2, <3>3, <3>4
  <2>3. CASE ReportRefusal(c) \/ UploadAnswered(c) \/ UploadFails(c)
    <3>1. CASE ReportRefusal(c)
      BY <3>1 DEF ReportRefusal
    <3>2. CASE UploadAnswered(c)
      BY <3>2 DEF UploadAnswered
    <3>3. CASE UploadFails(c)
      BY <3>3 DEF UploadFails
    <3> QED
      BY <2>3, <3>1, <3>2, <3>3
  <2>4. CASE WriteFails(c) \/ Measure(c)
    BY <2>4 DEF WriteFails, Measure
  <2>5. CASE Count(c)
    BY <2>5 DEF Count
  <2>6. CASE CheckExhausted(c)
    <3>1. CASE attempts[task[c]] >= MaxAttempts
      BY <2>6, <3>1 DEF CheckExhausted
    <3>2. CASE attempts[task[c]] < MaxAttempts
      BY <2>6, <3>2 DEF CheckExhausted
    <3>3. attempts[task[c]] \in Nat
      BY <2>6 DEF CheckExhausted
    <3> QED
      BY <3>1, <3>2, <3>3
  <2>7. CASE Decide(c)
    BY <2>7 DEF Decide, Continue, Refreshed
  <2> QED
    BY <1>1, <2>1, <2>2, <2>3, <2>4, <2>5, <2>6, <2>7 DEF Attempt
<1>2. ASSUME NEW c \in Chains, Trigger(c) PROVE ExhaustionInv'
  <2>1. pc[c] = "idle" /\ pc' = [pc EXCEPT ![c] = "scheduled"]
        /\ (\A d \in Chains : d # c => task'[d] = task[d])
        /\ UNCHANGED <<attempts, notified>>
    BY <1>2 DEF Trigger, CreateTask, RetryTask, Begin, TypeOK, world
  <2> QED
    BY <2>1 DEF TypeOK, ExhaustionInv, ChainsOn
<1>3. ASSUME NEW c \in Chains, Lose(c) PROVE ExhaustionInv'
  BY <1>3 DEF Lose, ExhaustionInv, ChainsOn
<1>4. CASE Outside \/ UNCHANGED vars
  <2>1. UNCHANGED <<attempts, notified, pc, task>>
    BY <1>4 DEF Outside, Webhook, Report, PatchCheck, PatchWrite, vars, rows,
       world, chains
  <2> QED
    BY <2>1 DEF ExhaustionInv, ChainsOn
<1> QED
  BY <1>1, <1>2, <1>3, <1>4 DEF Next

THEOREM InductiveInvariant == Spec => [](TypeOK /\ IInv)
<1>1. TypeOK /\ IInv /\ [Next]_vars => (TypeOK /\ IInv)'
  BY NextTypeOK, NextChainInv, NextExhaustionInv DEF IInv
<1> QED
  BY InitTypeOK, InitIInv, <1>1, PTL DEF Spec

\* No trigger publishes more than max_attempts times, however many chains
\* change the attempts it decides on.
THEOREM ChainBoundedHolds == Spec => []ChainBounded
<1>1. IInv => ChainBounded
  BY DEF IInv, ChainInv, ChainOK, ChainBounded
<1> QED
  BY InductiveInvariant, <1>1, PTL

\* A task that its chains have given up on has been reported.
THEOREM GivenUpNotifiedHolds == Spec => []GivenUpNotified
<1>1. TypeOK /\ IInv => GivenUpNotified
  BY DEF IInv, ExhaustionInv, GivenUpNotified, ChainsOn, Pending, TypeOK
<1> QED
  BY InductiveInvariant, <1>1, PTL

-----------------------------------------------------------------------------

LEMMA NextInProgressOwned ==
    TypeOK /\ InProgressOwned /\ [Next]_vars => InProgressOwned'
<1> SUFFICES ASSUME TypeOK, InProgressOwned, [Next]_vars PROVE InProgressOwned'
  OBVIOUS
<1> USE DEF InProgressOwned, Owing, ChainsOn, TypeOK
<1>1. ASSUME NEW c \in Chains, Attempt(c) PROVE InProgressOwned'
  <2> USE DEF Step, WriteStatus, Notify, Upload
  <2>1. CASE Load(c) \/ ReportRefusal(c) \/ Measure(c)
    BY <2>1 DEF Load, ReportRefusal, Measure
  <2>2. CASE Start(c) \/ Refuse(c) \/ Confirm(c) \/ MarkFailed(c)
    <3>1. CASE Start(c)
      BY <3>1 DEF Start
    <3>2. CASE Refuse(c)
      BY <3>2 DEF Refuse
    <3>3. CASE Confirm(c)
      BY <3>3 DEF Confirm
    <3>4. CASE MarkFailed(c)
      BY <3>4 DEF MarkFailed
    <3> QED
      BY <2>2, <3>1, <3>2, <3>3, <3>4
  <2>3. CASE UploadAnswered(c) \/ UploadFails(c)
    BY <2>3 DEF UploadAnswered, UploadFails
  <2>4. CASE WriteFails(c)
    BY <2>4 DEF WriteFails
  <2>5. CASE Count(c)
    BY <2>5 DEF Count
  <2>6. CASE CheckExhausted(c) \/ Decide(c)
    BY <2>6 DEF CheckExhausted, Decide, Continue
  <2> QED
    BY <1>1, <2>1, <2>2, <2>3, <2>4, <2>5, <2>6 DEF Attempt
<1>2. ASSUME NEW c \in Chains, Trigger(c) PROVE InProgressOwned'
  BY <1>2 DEF Trigger, CreateTask, RetryTask, Begin
<1>3. ASSUME NEW c \in Chains, Lose(c) PROVE InProgressOwned'
  BY <1>3 DEF Lose
<1>4. CASE Outside \/ UNCHANGED vars
  BY <1>4 DEF Outside, Webhook, Report, PatchCheck, PatchWrite
<1> QED
  BY <1>1, <1>2, <1>3, <1>4 DEF Next

\* No chain that ends by itself leaves its task in_progress.
THEOREM InProgressOwnedHolds == Spec => []InProgressOwned
<1>1. Init => InProgressOwned
  BY DEF Init, InProgressOwned
<1> QED
  BY <1>1, NextInProgressOwned, TypeCorrect, PTL DEF Spec

-----------------------------------------------------------------------------
(***************************************************************************)
(* The counts of a task: its failures, its chains and its listings.        *)
(***************************************************************************)

InPublish == {"loaded", "started", "listed", "failing"}
InDecision == {"counted", "marked", "checked"}

\* The chains of a task that can count one more failure once its attempts are at the
\* limit, and those that can count two, as what they have seen is old.
MayCountOnce(t) ==
    {c \in ChainsOn(t) : \/ pc[c] \in InPublish \union {"scheduled"}
                         \/ pc[c] \in InDecision /\ seen[c] # Expired /\ seen[c] < MaxAttempts}
MayCountTwice(t) ==
    {c \in ChainsOn(t) : pc[c] \in InPublish /\ seen[c] # Expired /\ seen[c] + 1 < MaxAttempts}

\* An idle chain has no task, and a chain that was cut had a step to take.
AtRest ==
    \A c \in Chains : /\ pc[c] = "idle" => task[c] = NoTask
                      /\ c \in lost => pc[c] \in Pending

FailuresCounted ==
    \A t \in Tasks : IsFiniteSet(Failed(t)) /\ attempts[t] = Cardinality(Failed(t))

\* Whoever counts the last failure before the limit sees it, or another chain has seen
\* the one before.
Watched(t) ==
    attempts[t] + 1 = MaxAttempts /\ attempts[t] > 0 =>
       \E c \in ChainsOn(t) : c \notin MayCountTwice(t)

\* At the limit, the failures counted and those still to come stay within the bound.
Limited(t) ==
    attempts[t] >= MaxAttempts =>
       attempts[t] + Cardinality(MayCountOnce(t)) + Cardinality(MayCountTwice(t))
         <= MaxAttempts + 2 * (Cardinality(ChainsOn(t)) - 1)

LimitInv == \A t \in Tasks : Watched(t) /\ Limited(t)

\* The chains whose present publish may have made listings that no failure accounts for.
Sent(t) == {c \in ChainsOn(t) : pc[c] \in {"listed", "failing", "confirmed", "done"}}

ListingsInv ==
    \A t \in Tasks : listings[t] <= HttpRetries * (attempts[t] + Cardinality(Sent(t)))

CountInv == AtRest /\ FailuresCounted /\ LimitInv /\ ListingsInv

Listed(t) == {c \in ChainsOn(t) : pc[c] \in {"listed", "confirmed", "done"}}
Done(t) == {c \in ChainsOn(t) : pc[c] = "done"}

\* A success is that of a chain which goes on to nothing but the metrics, or reported.
Credited(t) ==
    status[t] = "success" =>
       "success" \in events[t] \/ \E c \in ChainsOn(t) : pc[c] \in {"confirmed", "done"}

SuccessInv ==
    \A t \in Tasks :
        /\ measured[t] <= Cardinality(Done(t))
        /\ Cardinality(Listed(t)) <= listings[t]
        /\ Credited(t)

-----------------------------------------------------------------------------
(***************************************************************************)
(* What a step does to the counts.                                         *)
(***************************************************************************)

\* One step of a chain: where it leads, what it adds to the attempts of the task, and
\* what the chain has seen of them afterwards.
LEMMA StepEffect ==
    ASSUME TypeOK, NEW c \in Chains, Attempt(c)
    PROVE  /\ pc[c] # "idle" /\ task[c] \in Tasks /\ c \notin lost
           /\ pc' = [pc EXCEPT ![c] = pc'[c]] /\ UNCHANGED <<task, lost>>
           /\ \/ /\ pc[c] = "scheduled" /\ pc'[c] = "loaded" /\ UNCHANGED attempts
                 /\ seen' = [seen EXCEPT ![c] = attempts[task[c]]]
                 /\ tries' = [tries EXCEPT ![c] = @ + 1]
              \/ /\ pc[c] \in {"loaded", "started", "listed"} /\ UNCHANGED <<attempts, tries>>
                 /\ pc'[c] \in {"started", "refused", "listed", "failing", "confirmed"}
                 /\ seen' \in {seen, [seen EXCEPT ![c] = Expired]}
              \/ /\ pc[c] = "failing" /\ pc'[c] = "counted" /\ UNCHANGED tries
                 /\ attempts' = [attempts EXCEPT ![task[c]] = @ + 1]
                 /\ seen' = [seen EXCEPT ![c] = IF @ = Expired THEN Expired ELSE @ + 1]
              \/ /\ <<pc[c], pc'[c]>> \in {<<"counted", "marked">>, <<"marked", "checked">>,
                                           <<"refused", "rejected">>, <<"confirmed", "done">>}
                 /\ UNCHANGED <<attempts, seen, tries>>
              \/ /\ pc[c] = "checked" /\ UNCHANGED <<attempts, seen, tries>>
                 /\ pc'[c] = IF Refreshed(c) < MaxAttempts THEN "scheduled" ELSE "exhausted"
<1> USE DEF Step, TypeOK, Expired
<1>1. CASE Load(c)
  BY <1>1 DEF Load
<1>2. CASE Start(c) \/ Refuse(c) \/ Confirm(c) \/ MarkFailed(c)
  BY <1>2 DEF Start, Refuse, Confirm, MarkFailed, WriteStatus
<1>3. CASE UploadAnswered(c) \/ UploadFails(c)
  BY <1>3 DEF UploadAnswered, UploadFails, Upload
<1>4. CASE WriteFails(c)
  BY <1>4 DEF WriteFails
<1>5. CASE ReportRefusal(c) \/ Measure(c)
  BY <1>5 DEF ReportRefusal, Measure, Notify
<1>6. CASE Count(c)
  BY <1>6 DEF Count
<1>7. CASE CheckExhausted(c)
  BY <1>7 DEF CheckExhausted, Notify
<1>8. CASE Decide(c)
  BY <1>8 DEF Decide, Continue
<1> QED
  BY <1>1, <1>2, <1>3, <1>4, <1>5, <1>6, <1>7, <1>8 DEF Attempt

\* A trigger gives a chain that has none a task, and nothing else of the counts.
LEMMA TriggerEffect ==
    ASSUME TypeOK, NEW c \in Chains, Trigger(c)
    PROVE  /\ pc[c] = "idle" /\ pc' = [pc EXCEPT ![c] = "scheduled"]
           /\ \E t \in Tasks : task' = [task EXCEPT ![c] = t]
           /\ UNCHANGED <<attempts, seen, tries, lost, listings, measured, events>>
           /\ \A t \in Tasks : status'[t] # status[t] => status'[t] = "pending"
  BY DEF TypeOK, Trigger, CreateTask, RetryTask, Begin

\* The other steps leave the chains where they are.
LEMMA RestEffect ==
    ASSUME Outside \/ UNCHANGED vars \/ \E c \in Chains : Lose(c)
    PROVE  /\ UNCHANGED <<pc, task, attempts, seen, tries, listings, measured>>
           /\ \/ \E c \in Chains : Live(c) /\ lost' = lost \union {c}
              \/ UNCHANGED lost
  BY DEF Outside, Webhook, Report, PatchCheck, PatchWrite, Lose

LEMMA RestInit == Init => AtRest
  BY DEF Init, AtRest

LEMMA RestNext == TypeOK /\ AtRest /\ [Next]_vars => AtRest'
<1> SUFFICES ASSUME TypeOK, AtRest, [Next]_vars PROVE AtRest'
  OBVIOUS
<1>1. ASSUME NEW c \in Chains, Attempt(c) PROVE AtRest'
  <2>1. /\ pc[c] # "idle" /\ c \notin lost /\ pc'[c] # "idle"
        /\ UNCHANGED <<task, lost>> /\ \A d \in Chains : d # c => pc'[d] = pc[d]
    BY <1>1, StepEffect DEF TypeOK
  <2> QED
    BY <2>1 DEF AtRest
<1>2. ASSUME NEW c \in Chains, Trigger(c) PROVE AtRest'
  BY <1>2, TriggerEffect DEF AtRest, TypeOK, Pending
<1>3. CASE Outside \/ UNCHANGED vars \/ \E c \in Chains : Lose(c)
  BY <1>3, RestEffect DEF AtRest, Live
<1> QED
  BY <1>1, <1>2, <1>3 DEF Next

\* The chains of a task are finitely many.
LEMMA ChainsFinite ==
    ASSUME NEW S \in SUBSET Chains
    PROVE  IsFiniteSet(S) /\ Cardinality(S) \in Nat
  BY ConstantsAssumption, FS_Subset, FS_CardinalityType

\* As long as the failures of its chains are what they were, so are those of a task.
LEMMA FailedSame ==
    ASSUME TypeOK, AtRest, ChainInv, NEW t \in Tasks, tries' \in [Chains -> Nat],
           \A c \in Chains : task'[c] = task[c] \/ pc[c] = "idle",
           \A c \in Chains : pc'[c] # "idle" => Failures(c)' = Failures(c),
           \A c \in Chains : pc'[c] = "idle" => pc[c] = "idle" /\ task'[c] = task[c]
    PROVE  Failed(t)' = Failed(t)
<1>1. \A c \in Chains : pc[c] = "idle" => Failures(c) = 0
  BY DEF ChainInv, ChainOK, Failures
<1>2. \A c \in Chains : pc[c] = "idle" => c \notin ChainsOn(t)
  BY ConstantsAssumption DEF AtRest, ChainsOn
<1>3. ASSUME NEW p, p \in Failed(t) PROVE p \in Failed(t)'
  <2>1. PICK c \in ChainsOn(t) : p \in {c} \X (1 .. Failures(c))
    BY <1>3 DEF Failed
  <2>2. c \in ChainsOn(t)' /\ Failures(c)' = Failures(c)
    BY <1>2 DEF ChainsOn
  <2> QED
    BY <2>1, <2>2 DEF Failed
<1>4. ASSUME NEW p, p \in Failed(t)' PROVE p \in Failed(t)
  <2>1. PICK c \in ChainsOn(t)' : p \in {c} \X (1 .. Failures(c)')
    BY <1>4 DEF Failed
  <2>2. c \in Chains /\ pc'[c] # "idle"
    BY <1>2 DEF ChainsOn
  <2>3. Failures(c)' = Failures(c)
    BY <2>2
  <2>4. pc[c] # "idle"
    BY <1>1, <2>1, <2>2, <2>3
  <2> QED
    BY <2>1, <2>2, <2>3, <2>4 DEF Failed, ChainsOn
<1> QED
  BY <1>3, <1>4

LEMMA FailuresInit == Init => FailuresCounted
<1> SUFFICES ASSUME Init, NEW t \in Tasks PROVE IsFiniteSet(Failed(t)) /\ Cardinality(Failed(t)) = 0 /\ attempts[t] = 0
  BY DEF FailuresCounted
<1>1. Failed(t) = {}
  BY ConstantsAssumption DEF Init, Failed, ChainsOn
<1> QED
  BY <1>1, FS_EmptySet DEF Init

LEMMA FailuresNext == TypeOK /\ ChainInv /\ AtRest /\ FailuresCounted /\ [Next]_vars => FailuresCounted'
<1> SUFFICES ASSUME TypeOK, ChainInv, AtRest, FailuresCounted, [Next]_vars, NEW t \in Tasks
             PROVE  IsFiniteSet(Failed(t)') /\ attempts'[t] = Cardinality(Failed(t)')
  BY DEF FailuresCounted
<1>0. TypeOK' /\ tries \in [Chains -> Nat] /\ tries' \in [Chains -> Nat]
  BY NextTypeOK DEF TypeOK
<1>1. ASSUME NEW c \in Chains, Attempt(c) PROVE IsFiniteSet(Failed(t)') /\ attempts'[t] = Cardinality(Failed(t)')
  <2>1. CASE pc[c] = "failing" /\ task[c] = t
    <3>1. /\ pc'[c] = "counted" /\ attempts'[t] = attempts[t] + 1 /\ task' = task /\ tries' = tries
          /\ \A d \in Chains : d # c => pc'[d] = pc[d]
      BY <1>1, <2>1, StepEffect DEF TypeOK
    <3>2. Failures(c)' = tries[c] /\ Failures(c) = tries[c] - 1 /\ tries[c] \in Nat \ {0}
      BY <1>0, <2>1, <3>1 DEF Failures, ChainInv, ChainOK
    <3>3. \A d \in Chains : d # c => Failures(d)' = Failures(d)
      BY <3>1 DEF Failures
    <3>4. Failed(t)' = Failed(t) \cup {<<c, tries[c]>>}
      <4>1. ChainsOn(t)' = ChainsOn(t) /\ c \in ChainsOn(t)
        BY <2>1, <3>1 DEF ChainsOn
      <4>2. 1 .. Failures(c)' = (1 .. Failures(c)) \cup {tries[c]}
        BY <3>2
      <4>3. ASSUME NEW p, p \in Failed(t)' PROVE p \in Failed(t) \cup {<<c, tries[c]>>}
        <5>1. PICK d \in ChainsOn(t) : p \in {d} \X (1 .. Failures(d)')
          BY <4>1, <4>3 DEF Failed
        <5>2. CASE d = c
          BY <4>2, <5>1, <5>2 DEF Failed
        <5>3. CASE d # c
          BY <3>3, <5>1, <5>3 DEF Failed, ChainsOn
        <5> QED
          BY <5>2, <5>3
      <4>4. ASSUME NEW p, p \in Failed(t) \cup {<<c, tries[c]>>} PROVE p \in Failed(t)'
        <5>1. CASE p = <<c, tries[c]>>
          BY <4>1, <4>2, <5>1 DEF Failed
        <5>2. CASE p \in Failed(t)
          <6>1. PICK d \in ChainsOn(t) : p \in {d} \X (1 .. Failures(d))
            BY <5>2 DEF Failed
          <6>2. p \in {d} \X (1 .. Failures(d)')
            BY <3>3, <4>2, <6>1 DEF ChainsOn
          <6> QED
            BY <4>1, <6>1, <6>2 DEF Failed
        <5> QED
          BY <4>4, <5>1, <5>2
      <4> QED
        BY <4>3, <4>4
    <3>5. <<c, tries[c]>> \notin Failed(t)
      <4> SUFFICES ASSUME <<c, tries[c]>> \in Failed(t) PROVE FALSE
        OBVIOUS
      <4>1. PICK d \in ChainsOn(t) : <<c, tries[c]>> \in {d} \X (1 .. Failures(d))
        BY DEF Failed
      <4>2. tries[c] \in 1 .. Failures(c)
        BY <4>1
      <4> QED
        BY <3>2, <4>2
    <3>6. IsFiniteSet(Failed(t)) /\ attempts[t] = Cardinality(Failed(t))
      BY DEF FailuresCounted
    <3> QED
      BY <3>1, <3>4, <3>5, <3>6, FS_AddElement
  <2>2. CASE ~(pc[c] = "failing" /\ task[c] = t)
    <3>1. attempts'[t] = attempts[t] /\ task' = task /\ \A d \in Chains : pc'[d] = "idle" => pc[d] = "idle"
      BY <1>1, <2>2, StepEffect DEF TypeOK
    <3>2. CASE pc[c] # "failing"
      <4>1. \A d \in Chains : pc'[d] # "idle" => Failures(d)' = Failures(d)
        <5>1. \A d \in Chains : d # c => pc'[d] = pc[d] /\ tries'[d] = tries[d]
          BY <1>1, StepOther
        <5>2. Failures(c)' = Failures(c)
          <6>1. tries[c] \in Nat
            BY <1>0
          <6>2. CASE pc[c] = "scheduled"
            <7>1. pc'[c] = "loaded" /\ tries'[c] = tries[c] + 1
              BY <1>0, <1>1, <6>2, StepEffect
            <7> QED
              BY <6>1, <6>2, <7>1 DEF Failures
          <6>3. CASE pc[c] # "scheduled"
            <7>1. tries' = tries
              BY <1>1, <6>3, StepEffect
            <7>2. \/ pc[c] \in {"loaded", "started", "listed", "refused", "confirmed"}
                     /\ pc'[c] \in {"started", "refused", "listed", "failing", "confirmed", "rejected", "done"}
                  \/ pc[c] \in {"counted", "marked", "checked"}
                     /\ pc'[c] \in {"marked", "checked", "scheduled", "exhausted"}
              BY <1>1, <3>2, <6>3, StepEffect
            <7> QED
              BY <7>1, <7>2 DEF Failures
          <6> QED
            BY <6>2, <6>3
        <5> QED
          BY <5>1, <5>2 DEF Failures
      <4>2. Failed(t)' = Failed(t)
        BY <1>0, <3>1, <4>1, FailedSame
      <4> QED
        BY <3>1, <4>2 DEF FailuresCounted
    <3>3. CASE pc[c] = "failing"
      <4>1. \A d \in Chains : d # c => Failures(d)' = Failures(d)
        BY <1>1, StepOther DEF Failures
      <4>2. ChainsOn(t)' = ChainsOn(t) /\ c \notin ChainsOn(t)
        BY <2>2, <3>1, <3>3 DEF ChainsOn
      <4>3. Failed(t)' = Failed(t)
        BY <4>1, <4>2 DEF Failed, ChainsOn
      <4> QED
        BY <3>1, <4>3 DEF FailuresCounted
    <3> QED
      BY <3>2, <3>3
  <2> QED
    BY <2>1, <2>2
<1>2. ASSUME NEW c \in Chains, Trigger(c) PROVE IsFiniteSet(Failed(t)') /\ attempts'[t] = Cardinality(Failed(t)')
  <2>1. /\ pc[c] = "idle" /\ pc' = [pc EXCEPT ![c] = "scheduled"] /\ tries' = tries
        /\ attempts' = attempts /\ \A d \in Chains : d # c => task'[d] = task[d]
    BY <1>2, TriggerEffect DEF TypeOK
  <2>2. \A d \in Chains : Failures(d)' = Failures(d)
    BY <2>1 DEF Failures, TypeOK
  <2>3. Failed(t)' = Failed(t)
    BY <1>0, <2>1, <2>2, FailedSame DEF TypeOK
  <2> QED
    BY <2>1, <2>3 DEF FailuresCounted
<1>3. CASE Outside \/ UNCHANGED vars \/ \E c \in Chains : Lose(c)
  <2>1. UNCHANGED <<pc, task, attempts, tries>>
    BY <1>3, RestEffect
  <2> QED
    BY <2>1 DEF FailuresCounted, Failed, ChainsOn, Failures
<1> QED
  BY <1>1, <1>2, <1>3 DEF Next

-----------------------------------------------------------------------------
(***************************************************************************)
(* Above the limit.                                                        *)
(***************************************************************************)

\* A part of a set of chains has no more of them, and fewer when one is missing.
LEMMA Fewer ==
    ASSUME NEW S \in SUBSET Chains, NEW T \in SUBSET S
    PROVE  /\ Cardinality(S) \in Nat /\ Cardinality(T) \in Nat
           /\ Cardinality(T) <= Cardinality(S)
           /\ \A c \in S : c \notin T => Cardinality(T) + 1 <= Cardinality(S)
<1>1. IsFiniteSet(S) /\ IsFiniteSet(T) /\ Cardinality(S) \in Nat /\ Cardinality(T) \in Nat
  BY ChainsFinite
<1>2. Cardinality(T) <= Cardinality(S)
  BY <1>1, FS_Subset
<1>3. ASSUME NEW c \in S, c \notin T PROVE Cardinality(T) + 1 <= Cardinality(S)
  <2>1. IsFiniteSet(S \ {c}) /\ Cardinality(S \ {c}) = Cardinality(S) - 1
    BY <1>1, FS_RemoveElement
  <2>2. Cardinality(T) <= Cardinality(S \ {c})
    BY <1>3, <2>1, FS_Subset
  <2> QED
    BY <1>1, <2>1, <2>2
<1> QED
  BY <1>1, <1>2, <1>3

\* ... and by two when two are.
LEMMA FewerByTwo ==
    ASSUME NEW S \in SUBSET Chains, NEW T \in SUBSET S, NEW c \in S, NEW d \in S,
           c # d, c \notin T, d \notin T
    PROVE  Cardinality(T) + 2 <= Cardinality(S)
<1>1. Cardinality(T) + 1 <= Cardinality(S \ {d})
  <2>1. T \in SUBSET (S \ {d}) /\ c \in S \ {d} /\ S \ {d} \in SUBSET Chains
    OBVIOUS
  <2> QED
    BY <2>1, Fewer
<1>2. Cardinality(S \ {d}) + 1 <= Cardinality(S)
  BY Fewer
<1>3. Cardinality(S) \in Nat /\ Cardinality(T) \in Nat /\ Cardinality(S \ {d}) \in Nat
  BY ChainsFinite
<1> QED
  BY <1>1, <1>2, <1>3

LEMMA ManySets ==
    ASSUME NEW t
    PROVE  /\ MayCountOnce(t) \subseteq ChainsOn(t) /\ MayCountTwice(t) \subseteq ChainsOn(t)
           /\ MayCountOnce(t)' \subseteq ChainsOn(t)' /\ MayCountTwice(t)' \subseteq ChainsOn(t)'
           /\ ChainsOn(t) \subseteq Chains /\ ChainsOn(t)' \subseteq Chains
  BY DEF MayCountOnce, MayCountTwice, ChainsOn

\* Next to the limit no chain comes to hold an old value of attempts.
LEMMA TwiceShrinks ==
    ASSUME TypeOK, [Next]_vars, NEW t \in Tasks, attempts[t] + 1 >= MaxAttempts
    PROVE  MayCountTwice(t)' \subseteq MayCountTwice(t)
<1> SUFFICES ASSUME NEW d \in MayCountTwice(t)' PROVE d \in MayCountTwice(t)
  OBVIOUS
<1>0. /\ d \in Chains /\ task'[d] = t /\ pc'[d] \in InPublish /\ seen'[d] # Expired
      /\ seen'[d] + 1 < MaxAttempts
  BY DEF MayCountTwice, ChainsOn
<1>1. ASSUME NEW c \in Chains, Attempt(c) PROVE d \in MayCountTwice(t)
  <2>1. CASE d # c
    BY <1>0, <1>1, <2>1, StepOther DEF MayCountTwice, ChainsOn
  <2>2. CASE d = c
    <3>1. task[c] = t
      BY <1>0, <1>1, <2>2, StepEffect
    <3>2. pc[c] # "scheduled"
      <4> SUFFICES ASSUME pc[c] = "scheduled" PROVE FALSE
        OBVIOUS
      <4>1. seen'[c] = attempts[t] /\ attempts[t] \in Nat
        BY <1>1, <3>1, StepEffect DEF TypeOK
      <4> QED
        BY <1>0, <2>2, <4>1, ConstantsAssumption
    <3>3. pc[c] \in {"loaded", "started", "listed"} /\ seen'[c] \in {seen[c], Expired}
      BY <1>0, <1>1, <2>2, <3>2, StepEffect DEF InPublish, TypeOK
    <3> QED
      BY <1>0, <2>2, <3>1, <3>3 DEF MayCountTwice, ChainsOn, InPublish
  <2> QED
    BY <2>1, <2>2
<1>2. ASSUME NEW c \in Chains, Trigger(c) PROVE d \in MayCountTwice(t)
  BY <1>0, <1>2, TriggerEffect DEF MayCountTwice, ChainsOn, InPublish, TypeOK
<1>3. CASE Outside \/ UNCHANGED vars \/ \E c \in Chains : Lose(c)
  BY <1>0, <1>3, RestEffect DEF MayCountTwice, ChainsOn
<1> QED
  BY <1>1, <1>2, <1>3 DEF Next

\* Beyond the limit a chain that is to stop does not go on.
LEMMA OnceShrinks ==
    ASSUME TypeOK, NEW c \in Chains, Attempt(c), NEW t \in Tasks, attempts[t] >= MaxAttempts
    PROVE  MayCountOnce(t)' \subseteq MayCountOnce(t)
<1> SUFFICES ASSUME NEW d \in MayCountOnce(t)' PROVE d \in MayCountOnce(t)
  OBVIOUS
<1>0. /\ d \in Chains /\ task'[d] = t
      /\ \/ pc'[d] \in InPublish \union {"scheduled"}
         \/ pc'[d] \in InDecision /\ seen'[d] # Expired /\ seen'[d] < MaxAttempts
  BY DEF MayCountOnce, ChainsOn
<1>1. CASE d # c
  BY <1>0, <1>1, StepOther DEF MayCountOnce, ChainsOn
<1>2. CASE d = c
  <2>0. task[c] = t
    BY <1>0, <1>2, StepEffect
  <2>1. CASE pc[c] \in InPublish \union {"scheduled"}
    BY <1>2, <2>0, <2>1 DEF MayCountOnce, ChainsOn
  <2>2. CASE pc[c] \in {"counted", "marked"}
    <3>1. pc'[c] \in {"marked", "checked"} /\ seen' = seen
      BY <2>2, StepEffect
    <3> QED
      BY <1>0, <1>2, <2>0, <2>2, <3>1 DEF MayCountOnce, ChainsOn, InPublish, InDecision
  <2>3. CASE pc[c] = "checked"
    <3>1. pc'[c] = IF Refreshed(c) < MaxAttempts THEN "scheduled" ELSE "exhausted"
      BY <2>3, StepEffect
    <3>2. Refreshed(c) < MaxAttempts
      BY <1>0, <1>2, <3>1 DEF InPublish, InDecision
    <3>3. attempts[t] \in Nat
      BY DEF TypeOK
    <3>4. seen[c] # Expired /\ seen[c] < MaxAttempts
      BY <2>0, <3>2, <3>3, ConstantsAssumption DEF Refreshed
    <3> QED
      BY <1>2, <2>0, <2>3, <3>4 DEF MayCountOnce, ChainsOn, InDecision
  <2>4. CASE pc[c] \in {"refused", "confirmed"}
    <3>1. pc'[c] \in {"rejected", "done"}
      BY <2>4, StepEffect
    <3> QED
      BY <1>0, <1>2, <3>1 DEF InPublish, InDecision
  <2> QED
    BY <2>1, <2>2, <2>3, <2>4, StepEffect DEF InPublish
<1> QED
  BY <1>1, <1>2

LEMMA WatchedNext ==
    ASSUME TypeOK, AtRest, [Next]_vars, NEW t \in Tasks, Watched(t)
    PROVE  Watched(t)'
<1> SUFFICES ASSUME attempts'[t] + 1 = MaxAttempts, attempts'[t] > 0
             PROVE  \E c \in ChainsOn(t)' : c \notin MayCountTwice(t)'
  BY DEF Watched
<1>0. attempts[t] \in Nat /\ MaxAttempts \in Nat
  BY ConstantsAssumption DEF TypeOK
<1>1. CASE attempts'[t] = attempts[t]
  <2>1. PICK d \in ChainsOn(t) : d \notin MayCountTwice(t)
    BY <1>1 DEF Watched
  <2>2. d \notin MayCountTwice(t)'
    BY <1>0, <1>1, <2>1, TwiceShrinks
  <2>3. d \in ChainsOn(t)'
    <3>1. d \in Chains /\ task[d] = t
      BY DEF ChainsOn
    <3>2. pc[d] # "idle"
      BY <3>1, ConstantsAssumption DEF AtRest
    <3>3. task'[d] = t
      <4>1. ASSUME NEW c \in Chains, Attempt(c) PROVE task'[d] = t
        BY <3>1, <4>1, StepEffect
      <4>2. ASSUME NEW c \in Chains, Trigger(c) PROVE task'[d] = t
        BY <3>1, <3>2, <4>2, TriggerEffect DEF TypeOK
      <4>3. CASE Outside \/ UNCHANGED vars \/ \E c \in Chains : Lose(c)
        BY <3>1, <4>3, RestEffect
      <4> QED
        BY <4>1, <4>2, <4>3 DEF Next
    <3> QED
      BY <3>1, <3>3 DEF ChainsOn
  <2> QED
    BY <2>2, <2>3
<1>2. CASE attempts'[t] # attempts[t]
  <2>1. PICK c \in Chains : Attempt(c)
    BY <1>2, TriggerEffect, RestEffect DEF Next
  <2>2. pc'[c] = "counted" /\ task'[c] = t
    BY <1>2, <2>1, StepEffect DEF TypeOK
  <2> QED
    BY <2>2 DEF ChainsOn, MayCountTwice, InPublish
<1> QED
  BY <1>1, <1>2

\* The chain whose failure brings the attempts to the limit can count one more, if it
\* has not seen the limit coming; then another has, and can count only one more.
LEMMA LimitReached ==
    ASSUME TypeOK, [Next]_vars, NEW t \in Tasks, Watched(t), NEW c \in Chains,
           Attempt(c), pc[c] = "failing", task[c] = t, attempts[t] + 1 = MaxAttempts
    PROVE  Limited(t)'
<1>0. /\ attempts[t] \in Nat /\ MaxAttempts \in Nat \ {0} /\ seen[c] \in Nat \union {Expired}
      /\ attempts'[t] = MaxAttempts /\ pc'[c] = "counted" /\ task' = task
      /\ seen'[c] = IF seen[c] = Expired THEN Expired ELSE seen[c] + 1
  BY StepEffect, ConstantsAssumption DEF TypeOK
<1>1. c \in ChainsOn(t) /\ ChainsOn(t)' = ChainsOn(t) /\ c \notin MayCountTwice(t)'
  BY <1>0 DEF ChainsOn, MayCountTwice, InPublish
<1> DEFINE n == Cardinality(ChainsOn(t))
           one == Cardinality(MayCountOnce(t)')
           two == Cardinality(MayCountTwice(t)')
<1>2. n \in Nat /\ one \in Nat /\ two \in Nat /\ one <= n /\ two + 1 <= n
  BY <1>1, ManySets, Fewer
<1>3. one + two <= 2 * (n - 1)
  <2>1. CASE c \notin MayCountOnce(t)'
    <3>1. one + 1 <= n
      BY <1>1, <2>1, ManySets, Fewer
    <3> QED
      BY <1>2, <3>1
  <2>2. CASE c \in MayCountOnce(t)'
    <3>1. seen[c] # Expired /\ seen[c] + 1 < MaxAttempts
      BY <1>0, <2>2 DEF MayCountOnce, InPublish, InDecision
    <3>2. c \in MayCountTwice(t)
      BY <1>1, <3>1 DEF MayCountTwice, InPublish
    <3>3. attempts[t] > 0
      BY <1>0, <3>1 DEF Expired
    <3>4. PICK d \in ChainsOn(t) : d \notin MayCountTwice(t)
      BY <3>3 DEF Watched
    <3>5. d # c /\ d \notin MayCountTwice(t)'
      BY <1>0, <3>2, <3>4, TwiceShrinks
    <3>6. two + 2 <= n
      BY <1>1, <3>4, <3>5, ManySets, FewerByTwo
    <3> QED
      BY <1>2, <3>6
  <2> QED
    BY <2>1, <2>2
<1>4. Cardinality(ChainsOn(t))' = n
  BY <1>1
<1> HIDE DEF n, one, two
<1>5. attempts'[t] + one + two <= MaxAttempts + 2 * (n - 1)
  BY <1>0, <1>2, <1>3
<1> QED
  BY <1>4, <1>5 DEF Limited, n, one, two

\* A failure counted beyond the limit is one less to come.
LEMMA LimitPassed ==
    ASSUME TypeOK, [Next]_vars, NEW t \in Tasks, Limited(t), NEW c \in Chains,
           Attempt(c), pc[c] = "failing", task[c] = t, attempts[t] >= MaxAttempts
    PROVE  Limited(t)'
<1>0. /\ attempts[t] \in Nat /\ MaxAttempts \in Nat \ {0} /\ seen[c] \in Nat \union {Expired}
      /\ attempts'[t] = attempts[t] + 1 /\ pc'[c] = "counted" /\ task' = task
      /\ seen'[c] = IF seen[c] = Expired THEN Expired ELSE seen[c] + 1
  BY StepEffect, ConstantsAssumption DEF TypeOK
<1>1. c \in ChainsOn(t) /\ ChainsOn(t)' = ChainsOn(t) /\ c \notin MayCountTwice(t)'
  BY <1>0 DEF ChainsOn, MayCountTwice, InPublish
<1>2. c \in MayCountOnce(t)
  BY <1>1 DEF MayCountOnce, InPublish
<1> DEFINE n == Cardinality(ChainsOn(t))
           one == Cardinality(MayCountOnce(t))
           two == Cardinality(MayCountTwice(t))
           one1 == Cardinality(MayCountOnce(t)')
           two1 == Cardinality(MayCountTwice(t)')
<1>3. n \in Nat /\ one \in Nat /\ two \in Nat /\ one1 \in Nat /\ two1 \in Nat
  BY ManySets, ChainsFinite
<1>4. /\ MayCountOnce(t)' \in SUBSET MayCountOnce(t)
      /\ MayCountTwice(t)' \in SUBSET MayCountTwice(t)
  BY <1>0, OnceShrinks, TwiceShrinks
<1>5. one1 <= one /\ two1 <= two
  BY <1>4, ManySets, Fewer
<1>6. one1 + two1 + 1 <= one + two
  <2>1. CASE c \in MayCountTwice(t)
    <3>1. two1 + 1 <= two
      BY <1>1, <1>4, <2>1, ManySets, Fewer
    <3> QED
      BY <1>3, <1>5, <3>1
  <2>2. CASE c \notin MayCountTwice(t)
    <3>1. seen[c] = Expired \/ ~(seen[c] + 1 < MaxAttempts)
      BY <1>1, <2>2 DEF MayCountTwice, InPublish
    <3>2. c \notin MayCountOnce(t)'
      BY <1>0, <3>1 DEF MayCountOnce, InPublish, InDecision
    <3>3. one1 + 1 <= one
      BY <1>2, <1>4, <3>2, ManySets, Fewer
    <3> QED
      BY <1>3, <1>5, <3>3
  <2> QED
    BY <2>1, <2>2
<1>7. attempts[t] + one + two <= MaxAttempts + 2 * (n - 1)
  BY DEF Limited
<1>8. Cardinality(ChainsOn(t))' = n
  BY <1>1
<1> HIDE DEF n, one, two, one1, two1
<1>9. attempts'[t] + one1 + two1 <= MaxAttempts + 2 * (n - 1)
  BY <1>0, <1>3, <1>6, <1>7
<1> QED
  BY <1>8, <1>9 DEF Limited, n, one1, two1

\* The other steps of its chains leave a task where it was.
LEMMA LimitKept ==
    ASSUME TypeOK, NEW t \in Tasks, Limited(t), attempts'[t] = attempts[t],
           ChainsOn(t)' = ChainsOn(t),
           attempts[t] >= MaxAttempts => MayCountOnce(t)' \subseteq MayCountOnce(t)
                                      /\ MayCountTwice(t)' \subseteq MayCountTwice(t)
    PROVE  Limited(t)'
<1> SUFFICES ASSUME attempts[t] >= MaxAttempts
             PROVE  attempts[t] + Cardinality(MayCountOnce(t)') + Cardinality(MayCountTwice(t)')
                      <= MaxAttempts + 2 * (Cardinality(ChainsOn(t)) - 1)
  BY DEF Limited
<1> DEFINE n == Cardinality(ChainsOn(t))
           one == Cardinality(MayCountOnce(t))
           two == Cardinality(MayCountTwice(t))
           one1 == Cardinality(MayCountOnce(t)')
           two1 == Cardinality(MayCountTwice(t)')
<1>1. /\ n \in Nat /\ one \in Nat /\ two \in Nat /\ one1 \in Nat /\ two1 \in Nat
      /\ attempts[t] \in Nat /\ MaxAttempts \in Nat
  BY ManySets, ChainsFinite, ConstantsAssumption DEF TypeOK
<1>2. one1 <= one /\ two1 <= two
  BY ManySets, Fewer
<1>3. attempts[t] + one + two <= MaxAttempts + 2 * (n - 1)
  BY DEF Limited
<1> HIDE DEF n, one, two, one1, two1
<1>4. attempts[t] + one1 + two1 <= MaxAttempts + 2 * (n - 1)
  BY <1>1, <1>2, <1>3
<1> QED
  BY <1>4 DEF n, one1, two1

\* A new chain brings two more failures to the limit and may count one of them.
LEMMA LimitRaised ==
    ASSUME TypeOK, AtRest, NEW c \in Chains, Trigger(c), NEW t \in Tasks, Limited(t)
    PROVE  Limited(t)'
<1>0. /\ pc[c] = "idle" /\ pc' = [pc EXCEPT ![c] = "scheduled"]
      /\ \A d \in Chains : d # c => task'[d] = task[d]
      /\ UNCHANGED <<attempts, seen>>
  BY TriggerEffect DEF TypeOK
<1>1. c \notin ChainsOn(t)
  BY <1>0, ConstantsAssumption DEF AtRest, ChainsOn
<1>2. MayCountTwice(t)' = MayCountTwice(t)
  BY <1>0, <1>1 DEF MayCountTwice, ChainsOn, InPublish, TypeOK
<1>3. CASE task'[c] # t
  <2>1. ChainsOn(t)' = ChainsOn(t)
    BY <1>0, <1>1, <1>3 DEF ChainsOn
  <2>2. MayCountOnce(t)' = MayCountOnce(t)
    BY <1>0, <1>1, <2>1 DEF MayCountOnce, ChainsOn, TypeOK
  <2> QED
    BY <1>0, <1>2, <2>1, <2>2, LimitKept
<1>4. CASE task'[c] = t
  <2>1. ChainsOn(t)' = ChainsOn(t) \union {c}
    BY <1>0, <1>4 DEF ChainsOn
  <2>2. MayCountOnce(t)' = MayCountOnce(t) \union {c} /\ c \notin MayCountOnce(t)
    BY <1>0, <1>1, <2>1 DEF MayCountOnce, ChainsOn, TypeOK
  <2> DEFINE n == Cardinality(ChainsOn(t))
             one == Cardinality(MayCountOnce(t))
             two == Cardinality(MayCountTwice(t))
  <2>3. IsFiniteSet(ChainsOn(t)) /\ IsFiniteSet(MayCountOnce(t)) /\ n \in Nat /\ one \in Nat /\ two \in Nat
    BY ManySets, ChainsFinite
  <2>4. Cardinality(ChainsOn(t)') = n + 1 /\ Cardinality(MayCountOnce(t)') = one + 1
    BY <1>1, <2>1, <2>2, <2>3, FS_AddElement
  <2>5. attempts[t] >= MaxAttempts => attempts[t] + one + two <= MaxAttempts + 2 * (n - 1)
    BY DEF Limited
  <2>6. attempts[t] \in Nat /\ MaxAttempts \in Nat
    BY ConstantsAssumption DEF TypeOK
  <2> HIDE DEF n, one, two
  <2>7. attempts[t] >= MaxAttempts => attempts[t] + (one + 1) + two <= MaxAttempts + 2 * ((n + 1) - 1)
    BY <2>3, <2>5, <2>6
  <2> QED
    BY <1>0, <1>2, <2>4, <2>7 DEF Limited, n, one, two
<1> QED
  BY <1>3, <1>4

LEMMA LimitNext == TypeOK /\ AtRest /\ LimitInv /\ [Next]_vars => LimitInv'
<1> SUFFICES ASSUME TypeOK, AtRest, LimitInv, [Next]_vars, NEW t \in Tasks PROVE Limited(t)'
  BY WatchedNext DEF LimitInv
<1>0. Watched(t) /\ Limited(t) /\ attempts[t] \in Nat /\ MaxAttempts \in Nat
  BY ConstantsAssumption DEF TypeOK, LimitInv
<1>1. ASSUME NEW c \in Chains, Attempt(c) PROVE Limited(t)'
  <2>1. CASE pc[c] = "failing" /\ task[c] = t
    <3>1. attempts'[t] = attempts[t] + 1
      BY <1>1, <2>1, StepEffect DEF TypeOK
    <3>2. CASE attempts[t] + 1 < MaxAttempts
      BY <1>0, <3>1, <3>2 DEF Limited
    <3> QED
      BY <1>0, <1>1, <2>1, <3>2, LimitReached, LimitPassed
  <2>2. CASE ~(pc[c] = "failing" /\ task[c] = t)
    <3>1. attempts'[t] = attempts[t] /\ ChainsOn(t)' = ChainsOn(t)
      BY <1>1, <2>2, StepEffect DEF TypeOK, ChainsOn
    <3> QED
      BY <1>0, <1>1, <3>1, LimitKept, OnceShrinks, TwiceShrinks
  <2> QED
    BY <2>1, <2>2
<1>2. ASSUME NEW c \in Chains, Trigger(c) PROVE Limited(t)'
  BY <1>0, <1>2, LimitRaised
<1>3. CASE Outside \/ UNCHANGED vars \/ \E c \in Chains : Lose(c)
  <2>1. UNCHANGED <<pc, task, attempts, seen>>
    BY <1>3, RestEffect
  <2>2. /\ ChainsOn(t)' = ChainsOn(t) /\ MayCountOnce(t)' = MayCountOnce(t)
        /\ MayCountTwice(t)' = MayCountTwice(t)
    BY <2>1 DEF MayCountOnce, MayCountTwice, ChainsOn
  <2> QED
    BY <1>0, <2>1, <2>2 DEF Limited
<1> QED
  BY <1>1, <1>2, <1>3 DEF Next

-----------------------------------------------------------------------------
(***************************************************************************)
(* What the marketplace has, and what the rows say of it.                  *)
(***************************************************************************)

\* One step of a chain outside the counts: the listings it makes, the metrics it
\* stores and the status it writes.
LEMMA WorldEffect ==
    ASSUME TypeOK, NEW c \in Chains, Attempt(c)
    PROVE  /\ \/ listings' = listings /\ pc'[c] # "listed"
              \/ /\ pc[c] = "started" /\ pc'[c] \in {"listed", "failing"}
                 /\ \E n \in 0 .. HttpRetries :
                       /\ listings' = [listings EXCEPT ![task[c]] = @ + n]
                       /\ pc'[c] = "listed" => n > 0
           /\ \/ measured' = measured /\ pc'[c] # "done"
              \/ /\ pc[c] = "confirmed" /\ pc'[c] = "done"
                 /\ measured' = [measured EXCEPT ![task[c]] = @ + 1]
           /\ \/ status' = status /\ pc'[c] # "confirmed"
              \/ /\ pc[c] = "listed" /\ pc'[c] = "confirmed"
                 /\ status' = [status EXCEPT ![task[c]] = "success"]
              \/ /\ pc[c] \in {"loaded", "started", "counted"}
                 /\ \E s \in {"in_progress", "failed"} : status' = [status EXCEPT ![task[c]] = s]
           /\ events' = events
<1> USE ConstantsAssumption DEF Step, TypeOK
<1>1. CASE Load(c)
  BY <1>1 DEF Load
<1>2. CASE Start(c) \/ Refuse(c) \/ Confirm(c) \/ MarkFailed(c)
  BY <1>2 DEF Start, Refuse, Confirm, MarkFailed, WriteStatus
<1>3. CASE UploadAnswered(c) \/ UploadFails(c)
  <2>1. CASE UploadAnswered(c)
    <3>1. PICK n \in 1 .. HttpRetries : Upload(c, n)
      BY <2>1 DEF UploadAnswered
    <3>2. /\ pc[c] = "started" /\ pc'[c] = "listed" /\ UNCHANGED <<status, measured, events>>
          /\ listings' = [listings EXCEPT ![task[c]] = @ + n]
      BY <2>1, <3>1 DEF UploadAnswered, Upload
    <3>3. n \in 0 .. HttpRetries /\ n > 0
      OBVIOUS
    <3> QED
      BY <3>2, <3>3
  <2>2. CASE UploadFails(c)
    <3>1. PICK n \in 0 .. HttpRetries : Upload(c, n)
      BY <2>2 DEF UploadFails
    <3>2. /\ pc[c] = "started" /\ pc'[c] = "failing" /\ UNCHANGED <<status, measured, events>>
          /\ listings' = [listings EXCEPT ![task[c]] = @ + n]
      BY <2>2, <3>1 DEF UploadFails, Upload
    <3> QED
      BY <3>2
  <2> QED
    BY <1>3, <2>1, <2>2
<1>4. CASE WriteFails(c)
  BY <1>4 DEF WriteFails
<1>5. CASE ReportRefusal(c) \/ Measure(c)
  BY <1>5 DEF ReportRefusal, Measure, Notify
<1>6. CASE Count(c)
  BY <1>6 DEF Count
<1>7. CASE CheckExhausted(c)
  BY <1>7 DEF CheckExhausted, Notify
<1>8. CASE Decide(c)
  BY <1>8 DEF Decide, Continue
<1> QED
  BY <1>1, <1>2, <1>3, <1>4, <1>5, <1>6, <1>7, <1>8 DEF Attempt

LEMMA ListingsInit == Init => ListingsInv
<1> SUFFICES ASSUME Init, NEW t \in Tasks
             PROVE  listings[t] <= HttpRetries * (attempts[t] + Cardinality(Sent(t)))
  BY DEF ListingsInv
<1>1. Sent(t) = {}
  BY DEF Init, Sent, ChainsOn
<1> QED
  BY <1>1, FS_EmptySet, ConstantsAssumption DEF Init

\* Twice the bound on what is added to a count that is multiplied.
LEMMA TimesGrows ==
    ASSUME NEW h \in Nat, NEW x \in Nat, NEW y \in Nat, x <= y
    PROVE  h * x \in Nat /\ h * (x + 1) = h * x + h /\ h * x <= h * y
<1>1. PICK d \in Nat : y = x + d
  <2>1. y - x \in Nat /\ y = x + (y - x)
    OBVIOUS
  <2> QED
    BY <2>1
<1>2. h * (x + d) = h * x + h * d /\ h * d \in Nat /\ h * x \in Nat /\ h * (x + 1) = h * x + h
  OBVIOUS
<1> QED
  BY <1>1, <1>2

LEMMA ListingsNext == TypeOK /\ AtRest /\ ListingsInv /\ [Next]_vars => ListingsInv'
<1> SUFFICES ASSUME TypeOK, AtRest, ListingsInv, [Next]_vars, NEW t \in Tasks
             PROVE  listings'[t] <= HttpRetries * (attempts'[t] + Cardinality(Sent(t)'))
  BY DEF ListingsInv
<1> DEFINE sent == Cardinality(Sent(t))
           sent1 == Cardinality(Sent(t)')
           h == HttpRetries
<1>0. /\ Sent(t) \in SUBSET Chains /\ Sent(t)' \in SUBSET Chains /\ IsFiniteSet(Sent(t))
      /\ sent \in Nat /\ sent1 \in Nat /\ h \in Nat /\ attempts[t] \in Nat
      /\ listings[t] \in Nat /\ listings[t] <= h * (attempts[t] + sent)
  BY ChainsFinite, ConstantsAssumption DEF Sent, ChainsOn, TypeOK, ListingsInv
<1>1. ASSUME listings'[t] = listings[t], attempts'[t] = attempts[t], Sent(t) \subseteq Sent(t)'
      PROVE  listings'[t] <= h * (attempts'[t] + sent1)
  <2>1. sent <= sent1
    BY <1>0, <1>1, Fewer
  <2> HIDE DEF sent, sent1, h
  <2>2. attempts[t] + sent \in Nat /\ attempts[t] + sent1 \in Nat /\ attempts[t] + sent <= attempts[t] + sent1
    BY <1>0, <2>1
  <2>3. h * (attempts[t] + sent) <= h * (attempts[t] + sent1)
    BY <1>0, <2>2, TimesGrows
  <2>4. h * (attempts[t] + sent) \in Nat /\ h * (attempts[t] + sent1) \in Nat
    BY <1>0, <2>2, TimesGrows
  <2> QED
    BY <1>0, <1>1, <2>3, <2>4
<1>2. ASSUME NEW c \in Chains, Attempt(c) PROVE listings'[t] <= h * (attempts'[t] + sent1)
  <2>0. /\ task' = task /\ \A d \in Chains : d # c => pc'[d] = pc[d]
    BY <1>2, StepEffect, StepOther
  <2>1. CASE pc[c] = "started" /\ task[c] = t /\ listings'[t] # listings[t]
    <3>1. pc'[c] \in {"listed", "failing"} /\ attempts' = attempts
      BY <1>2, <2>1, WorldEffect, StepEffect
    <3>2. PICK n \in 0 .. HttpRetries : listings' = [listings EXCEPT ![task[c]] = @ + n]
      BY <1>2, <2>1, WorldEffect
    <3>3. listings'[t] <= listings[t] + h
      BY <1>0, <2>1, <3>2 DEF TypeOK
    <3>4. Sent(t)' = Sent(t) \union {c} /\ c \notin Sent(t)
      BY <2>0, <2>1, <3>1 DEF Sent, ChainsOn
    <3>5. sent1 = sent + 1
      BY <1>0, <3>4, FS_AddElement
    <3>6. listings'[t] \in Nat
      BY NextTypeOK DEF TypeOK
    <3> HIDE DEF sent, sent1, h
    <3>7. attempts[t] + sent \in Nat /\ attempts[t] + (sent + 1) = (attempts[t] + sent) + 1
      BY <1>0
    <3>8. h * (attempts[t] + sent1) = h * (attempts[t] + sent) + h
      BY <1>0, <3>5, <3>7, TimesGrows
    <3>9. h * (attempts[t] + sent) \in Nat
      BY <1>0, <3>7, TimesGrows
    <3> QED
      BY <1>0, <3>1, <3>3, <3>6, <3>8, <3>9
  <2>2. CASE pc[c] = "failing" /\ task[c] = t
    <3>1. pc'[c] = "counted" /\ attempts'[t] = attempts[t] + 1 /\ listings' = listings
      BY <1>2, <2>2, StepEffect, WorldEffect DEF TypeOK
    <3>2. Sent(t)' = Sent(t) \ {c} /\ c \in Sent(t)
      BY <2>0, <2>2, <3>1 DEF Sent, ChainsOn
    <3>3. sent1 = sent - 1
      BY <1>0, <3>2, FS_RemoveElement
    <3> HIDE DEF sent, sent1, h
    <3>4. attempts'[t] + sent1 = attempts[t] + sent
      BY <1>0, <3>1, <3>3
    <3> QED
      BY <1>0, <3>1, <3>4
  <2>3. CASE pc[c] = "failing" /\ task[c] # t
    <3>1. attempts'[t] = attempts[t] /\ listings' = listings
      BY <1>2, <2>3, StepEffect, WorldEffect DEF TypeOK
    <3>2. Sent(t)' = Sent(t)
      BY <2>0, <2>3 DEF Sent, ChainsOn
    <3> QED
      BY <1>1, <3>1, <3>2
  <2>4. CASE pc[c] # "failing" /\ listings'[t] = listings[t]
    <3>1. attempts' = attempts
      BY <1>2, <2>4, StepEffect
    <3>3. pc[c] = "listed" => pc'[c] \in {"confirmed", "failing"}
      BY <1>2 DEF Attempt, Load, Start, Refuse, ReportRefusal, UploadAnswered, UploadFails,
         WriteFails, Confirm, Measure, Count, MarkFailed, CheckExhausted, Decide, Continue,
         Step, TypeOK
    <3>4. pc[c] \in {"confirmed", "done"} => pc'[c] = "done"
      BY <1>2, StepEffect
    <3>5. Sent(t) \subseteq Sent(t)'
      BY <2>0, <2>4, <3>3, <3>4 DEF Sent, ChainsOn
    <3> QED
      BY <1>1, <2>4, <3>1, <3>5
  <2>5. listings'[t] = listings[t] \/ (pc[c] = "started" /\ task[c] = t)
    BY <1>2, WorldEffect, StepEffect DEF TypeOK
  <2> QED
    BY <2>1, <2>2, <2>3, <2>4, <2>5
<1>3. ASSUME NEW c \in Chains, Trigger(c) PROVE listings'[t] <= h * (attempts'[t] + sent1)
  <2>1. Sent(t) \subseteq Sent(t)'
    BY <1>3, TriggerEffect DEF Sent, ChainsOn, TypeOK
  <2> QED
    BY <1>1, <1>3, <2>1, TriggerEffect
<1>4. CASE Outside \/ UNCHANGED vars \/ \E c \in Chains : Lose(c)
  BY <1>1, <1>4, RestEffect DEF Sent, ChainsOn
<1> QED
  BY <1>2, <1>3, <1>4 DEF Next

LEMMA CountInit == Init => CountInv
<1> SUFFICES ASSUME Init PROVE LimitInv
  BY RestInit, FailuresInit, ListingsInit DEF CountInv
<1>1. \A t \in Tasks : ChainsOn(t) = {} /\ attempts[t] = 0
  BY ConstantsAssumption DEF Init, ChainsOn
<1> QED
  BY <1>1, ConstantsAssumption DEF LimitInv, Watched, Limited

LEMMA CountInvariant == Spec => [](TypeOK /\ IInv /\ CountInv)
<1>1. TypeOK /\ IInv /\ CountInv /\ [Next]_vars => (TypeOK /\ IInv /\ CountInv)'
  BY NextTypeOK, NextChainInv, NextExhaustionInv, RestNext, FailuresNext, LimitNext, ListingsNext
     DEF IInv, CountInv
<1> QED
  BY InitTypeOK, InitIInv, CountInit, <1>1, PTL DEF Spec

\* The attempts of a task are the failures of its chains; they pass max_attempts by two
\* for each chain but one, and bound the listings the task may have.
THEOREM AttemptsAccountedHolds == Spec => []AttemptsAccounted
<1> SUFFICES TypeOK /\ CountInv => AttemptsAccounted
  BY CountInvariant, PTL
<1> SUFFICES ASSUME TypeOK, CountInv PROVE AttemptsAccounted
  OBVIOUS
<1>1. AttemptsCounted
  BY DEF CountInv, FailuresCounted, AttemptsCounted
<1>2. ASSUME NEW t \in Tasks, ChainsOn(t) # {}
      PROVE  attempts[t] <= MaxAttempts + 2 * (Cardinality(ChainsOn(t)) - 1)
  <2> DEFINE n == Cardinality(ChainsOn(t))
             one == Cardinality(MayCountOnce(t))
             two == Cardinality(MayCountTwice(t))
  <2>1. /\ n \in Nat /\ one \in Nat /\ two \in Nat
        /\ attempts[t] \in Nat /\ MaxAttempts \in Nat /\ IsFiniteSet(ChainsOn(t))
    BY ManySets, ChainsFinite, ConstantsAssumption DEF TypeOK
  <2>2. n # 0
    BY <1>2, <2>1, FS_EmptySet
  <2>3. attempts[t] >= MaxAttempts => attempts[t] + one + two <= MaxAttempts + 2 * (n - 1)
    BY DEF CountInv, LimitInv, Limited
  <2> HIDE DEF n, one, two
  <2>4. attempts[t] <= MaxAttempts + 2 * (n - 1)
    BY <2>1, <2>2, <2>3
  <2> QED
    BY <2>4 DEF n
<1>3. ASSUME NEW t \in Tasks
      PROVE  listings[t] <= HttpRetries * (attempts[t] + Cardinality(ChainsOn(t)))
  <2> DEFINE n == Cardinality(ChainsOn(t))
             sent == Cardinality(Sent(t))
  <2>1. sent <= n /\ sent \in Nat /\ n \in Nat
    BY Fewer DEF Sent, ChainsOn
  <2>2. attempts[t] \in Nat /\ listings[t] \in Nat /\ HttpRetries \in Nat
    BY ConstantsAssumption DEF TypeOK
  <2>3. listings[t] <= HttpRetries * (attempts[t] + sent)
    BY DEF CountInv, ListingsInv
  <2> HIDE DEF n, sent
  <2>4. attempts[t] + sent \in Nat /\ attempts[t] + n \in Nat /\ attempts[t] + sent <= attempts[t] + n
    BY <2>1, <2>2
  <2>5. /\ HttpRetries * (attempts[t] + sent) <= HttpRetries * (attempts[t] + n)
        /\ HttpRetries * (attempts[t] + sent) \in Nat /\ HttpRetries * (attempts[t] + n) \in Nat
    BY <2>2, <2>4, TimesGrows
  <2>6. listings[t] <= HttpRetries * (attempts[t] + n)
    BY <2>2, <2>3, <2>5
  <2> QED
    BY <2>6 DEF n
<1> QED
  BY <1>1, <1>2, <1>3 DEF AttemptsAccounted, AttemptsBounded, DuplicatesAccounted

-----------------------------------------------------------------------------

LEMMA SuccessInit == Init => SuccessInv
<1> SUFFICES ASSUME Init, NEW t \in Tasks
             PROVE  /\ measured[t] <= Cardinality(Done(t))
                    /\ Cardinality(Listed(t)) <= listings[t]
                    /\ status[t] # "success"
  BY DEF SuccessInv, Credited
<1>1. Done(t) = {} /\ Listed(t) = {} /\ measured[t] = 0 /\ listings[t] = 0
  BY DEF Init, Done, Listed, ChainsOn
<1> QED
  BY <1>1, FS_EmptySet DEF Init

\* The metrics of a task are those of its chains that are done.
LEMMA MeasuredNext ==
    ASSUME TypeOK, AtRest, [Next]_vars, NEW t \in Tasks, measured[t] <= Cardinality(Done(t))
    PROVE  measured'[t] <= Cardinality(Done(t)')
<1>0. /\ Done(t) \in SUBSET Chains /\ Done(t)' \in SUBSET Chains /\ IsFiniteSet(Done(t))
      /\ Cardinality(Done(t)) \in Nat /\ Cardinality(Done(t)') \in Nat
      /\ measured[t] \in Nat /\ measured'[t] \in Nat
  BY NextTypeOK, ChainsFinite DEF Done, ChainsOn, TypeOK
<1>1. ASSUME measured'[t] = measured[t], Done(t) \subseteq Done(t)'
      PROVE  measured'[t] <= Cardinality(Done(t)')
  <2>1. Cardinality(Done(t)) <= Cardinality(Done(t)')
    BY <1>0, <1>1, Fewer
  <2> QED
    BY <1>0, <1>1, <2>1
<1>2. ASSUME NEW c \in Chains, Attempt(c) PROVE measured'[t] <= Cardinality(Done(t)')
  <2>0. task' = task /\ pc[c] # "done" /\ \A d \in Chains : d # c => pc'[d] = pc[d]
    BY <1>2, StepEffect, StepOther
  <2>1. CASE measured'[t] = measured[t]
    BY <1>1, <2>0, <2>1 DEF Done, ChainsOn
  <2>2. CASE measured'[t] # measured[t]
    <3>1. /\ task[c] = t /\ pc'[c] = "done" /\ measured'[t] = measured[t] + 1
      BY <1>2, <2>2, WorldEffect DEF TypeOK
    <3>2. Done(t)' = Done(t) \union {c} /\ c \notin Done(t)
      BY <2>0, <3>1 DEF Done, ChainsOn
    <3>3. Cardinality(Done(t)') = Cardinality(Done(t)) + 1
      BY <1>0, <3>2, FS_AddElement
    <3> QED
      BY <1>0, <3>1, <3>3
  <2> QED
    BY <2>1, <2>2
<1>3. ASSUME NEW c \in Chains, Trigger(c) PROVE measured'[t] <= Cardinality(Done(t)')
  BY <1>1, <1>3, TriggerEffect DEF Done, ChainsOn, TypeOK
<1>4. CASE Outside \/ UNCHANGED vars \/ \E c \in Chains : Lose(c)
  BY <1>1, <1>4, RestEffect DEF Done, ChainsOn
<1> QED
  BY <1>2, <1>3, <1>4 DEF Next

\* Each chain whose upload was answered has a listing of its own.
LEMMA ListedNext ==
    ASSUME TypeOK, AtRest, [Next]_vars, NEW t \in Tasks, Cardinality(Listed(t)) <= listings[t]
    PROVE  Cardinality(Listed(t)') <= listings'[t]
<1>0. /\ Listed(t) \in SUBSET Chains /\ Listed(t)' \in SUBSET Chains /\ IsFiniteSet(Listed(t))
      /\ Cardinality(Listed(t)) \in Nat /\ Cardinality(Listed(t)') \in Nat
      /\ listings[t] \in Nat /\ listings'[t] \in Nat
  BY NextTypeOK, ChainsFinite DEF Listed, ChainsOn, TypeOK
<1>1. ASSUME listings'[t] >= listings[t], Listed(t)' \subseteq Listed(t)
      PROVE  Cardinality(Listed(t)') <= listings'[t]
  <2>1. Cardinality(Listed(t)') <= Cardinality(Listed(t))
    BY <1>0, <1>1, Fewer
  <2> QED
    BY <1>0, <1>1, <2>1
<1>2. ASSUME NEW c \in Chains, Attempt(c) PROVE Cardinality(Listed(t)') <= listings'[t]
  <2>0. task' = task /\ \A d \in Chains : d # c => pc'[d] = pc[d]
    BY <1>2, StepEffect, StepOther
  <2>1. CASE pc'[c] = "listed" /\ task[c] = t
    <3>1. pc[c] = "started" /\ \E n \in 0 .. HttpRetries : n > 0 /\ listings' = [listings EXCEPT ![task[c]] = @ + n]
      BY <1>2, <2>1, WorldEffect
    <3>2. listings'[t] >= listings[t] + 1
      BY <1>0, <2>1, <3>1, ConstantsAssumption DEF TypeOK
    <3>3. Listed(t)' = Listed(t) \union {c} /\ c \notin Listed(t)
      BY <2>0, <2>1, <3>1 DEF Listed, ChainsOn
    <3>4. Cardinality(Listed(t)') = Cardinality(Listed(t)) + 1
      BY <1>0, <3>3, FS_AddElement
    <3> QED
      BY <1>0, <3>2, <3>4
  <2>2. CASE ~(pc'[c] = "listed" /\ task[c] = t)
    <3>1. listings'[t] >= listings[t]
      BY <1>0, <1>2, WorldEffect, ConstantsAssumption DEF TypeOK
    <3>2. pc'[c] \in {"confirmed", "done"} => pc[c] \in {"listed", "confirmed"}
      <4>1. pc'[c] = "confirmed" => pc[c] = "listed"
        BY <1>2 DEF Attempt, Load, Start, Refuse, ReportRefusal, UploadAnswered, UploadFails,
           WriteFails, Confirm, Measure, Count, MarkFailed, CheckExhausted, Decide, Continue,
           Step, TypeOK
      <4>2. pc'[c] = "done" => pc[c] = "confirmed"
        BY <1>2, StepEffect
      <4> QED
        BY <4>1, <4>2
    <3>3. Listed(t)' \subseteq Listed(t)
      BY <2>0, <2>2, <3>2 DEF Listed, ChainsOn
    <3> QED
      BY <1>1, <3>1, <3>3
  <2> QED
    BY <2>1, <2>2
<1>3. ASSUME NEW c \in Chains, Trigger(c) PROVE Cardinality(Listed(t)') <= listings'[t]
  BY <1>0, <1>1, <1>3, TriggerEffect DEF Listed, ChainsOn, TypeOK
<1>4. CASE Outside \/ UNCHANGED vars \/ \E c \in Chains : Lose(c)
  BY <1>0, <1>1, <1>4, RestEffect DEF Listed, ChainsOn
<1> QED
  BY <1>2, <1>3, <1>4 DEF Next

LEMMA CreditedNext ==
    ASSUME TypeOK, AtRest, [Next]_vars, NEW t \in Tasks, Credited(t)
    PROVE  Credited(t)'
<1>1. ASSUME NEW c \in Chains, Attempt(c) PROVE Credited(t)'
  <2>0. /\ task' = task /\ events' = events /\ \A d \in Chains : d # c => pc'[d] = pc[d]
        /\ pc[c] \in {"confirmed", "done"} => pc'[c] = "done"
    BY <1>1, StepEffect, StepOther, WorldEffect
  <2>1. CASE pc'[c] = "confirmed" /\ task[c] = t
    BY <2>0, <2>1 DEF Credited, ChainsOn
  <2>2. CASE ~(pc'[c] = "confirmed" /\ task[c] = t)
    <3>1. status'[t] = "success" => status[t] = "success"
      BY <1>1, <2>2, WorldEffect DEF TypeOK
    <3> QED
      BY <2>0, <3>1 DEF Credited, ChainsOn
  <2> QED
    BY <2>1, <2>2
<1>2. ASSUME NEW c \in Chains, Trigger(c) PROVE Credited(t)'
  <2>1. /\ \A d \in Chains : pc[d] # "idle" => pc'[d] = pc[d] /\ task'[d] = task[d]
        /\ events' = events /\ (status'[t] = "success" => status[t] = "success")
    BY <1>2, TriggerEffect DEF TypeOK
  <2>2. ASSUME NEW d \in ChainsOn(t), pc[d] \in {"confirmed", "done"}
        PROVE  d \in ChainsOn(t)' /\ pc'[d] \in {"confirmed", "done"}
    BY <2>1, <2>2 DEF ChainsOn
  <2> QED
    BY <2>1, <2>2 DEF Credited
<1>3. CASE Outside
  <2>1. UNCHANGED <<pc, task>>
    BY <1>3, RestEffect
  <2>2. /\ events[t] \subseteq events'[t]
        /\ status'[t] = "success" => status[t] = "success" \/ "success" \in events'[t]
    <3>1. ASSUME NEW u \in Tasks, NEW s \in HookStatuses, Webhook(u, s)
          PROVE  /\ events[t] \subseteq events'[t]
                 /\ status'[t] = "success" => status[t] = "success" \/ "success" \in events'[t]
      BY <3>1 DEF Webhook, Report, TypeOK
    <3> QED
      BY <1>3, <3>1 DEF Outside, PatchCheck, PatchWrite
  <2> QED
    BY <2>1, <2>2 DEF Credited, ChainsOn
<1>4. CASE UNCHANGED vars \/ \E c \in Chains : Lose(c)
  BY <1>4 DEF Lose, Credited, ChainsOn
<1> QED
  BY <1>1, <1>2, <1>3, <1>4 DEF Next

LEMMA SuccessInvariant == Spec => [](TypeOK /\ AtRest /\ SuccessInv)
<1>1. TypeOK /\ AtRest /\ SuccessInv /\ [Next]_vars => (TypeOK /\ AtRest /\ SuccessInv)'
  <2> SUFFICES ASSUME TypeOK, AtRest, SuccessInv, [Next]_vars, NEW t \in Tasks
               PROVE  /\ measured'[t] <= Cardinality(Done(t)')
                      /\ Cardinality(Listed(t)') <= listings'[t]
                      /\ Credited(t)'
    BY NextTypeOK, RestNext DEF SuccessInv
  <2> QED
    BY MeasuredNext, ListedNext, CreditedNext DEF SuccessInv
<1> QED
  BY InitTypeOK, RestInit, SuccessInit, <1>1, PTL DEF Spec

\* Only a chain that has not yet answered for its publish writes over a success.
LEMMA TakenBack ==
    ASSUME TypeOK, SuccessInv, [Next]_vars, NEW t \in Tasks,
           status[t] = "success", status'[t] # "success"
    PROVE  events[t] # {} \/ events'[t] # {} \/ Cardinality(ChainsOn(t)) > 1
<1> SUFFICES ASSUME events[t] = {}, events'[t] = {} PROVE Cardinality(ChainsOn(t)) > 1
  OBVIOUS
<1>1. PICK d \in ChainsOn(t) : pc[d] \in {"confirmed", "done"}
  BY DEF SuccessInv, Credited
<1>2. \E c \in Chains : Attempt(c)
  <2>1. ASSUME NEW c \in Chains, Trigger(c) PROVE FALSE
    BY <2>1 DEF Trigger, CreateTask, RetryTask, TypeOK
  <2>2. ASSUME NEW u \in Tasks, NEW s \in HookStatuses, Webhook(u, s) PROVE FALSE
    BY <2>2 DEF Webhook, Report, TypeOK
  <2> QED
    BY <2>1, <2>2 DEF Next, Outside, PatchCheck, PatchWrite, Lose
<1>3. PICK c \in Chains : Attempt(c)
  BY <1>2
<1>4. task[c] = t /\ pc[c] \in {"loaded", "started", "counted"}
  BY <1>3, WorldEffect DEF TypeOK
<1>5. c \in ChainsOn(t) /\ d \in ChainsOn(t) /\ c # d
  BY <1>1, <1>4 DEF ChainsOn
<1>6. {} \in SUBSET ChainsOn(t) /\ ChainsOn(t) \in SUBSET Chains
  BY DEF ChainsOn
<1>7. Cardinality({}) + 2 <= Cardinality(ChainsOn(t))
  BY <1>5, <1>6, FewerByTwo
<1> QED
  BY <1>6, <1>7, FS_EmptySet, ChainsFinite

\* A success has a listing or the word of the marketplace behind it, and only another
\* chain, or the marketplace, takes it back.
THEOREM SuccessSoundHolds == Spec => SuccessSound
<1>1. TypeOK /\ SuccessInv => SuccessBacked
  <2> SUFFICES ASSUME TypeOK, SuccessInv, NEW t \in Tasks
               PROVE  /\ status[t] = "success" => listings[t] > 0 \/ "success" \in events[t]
                      /\ measured[t] <= listings[t]
    BY DEF SuccessBacked
  <2>0. /\ Listed(t) \in SUBSET Chains /\ Done(t) \in SUBSET Listed(t)
        /\ listings[t] \in Nat /\ measured[t] \in Nat
    BY DEF Listed, Done, ChainsOn, TypeOK
  <2>1. /\ Cardinality(Done(t)) <= Cardinality(Listed(t))
        /\ Cardinality(Done(t)) \in Nat /\ Cardinality(Listed(t)) \in Nat
    BY <2>0, Fewer
  <2>2. measured[t] <= Cardinality(Done(t)) /\ Cardinality(Listed(t)) <= listings[t]
    BY DEF SuccessInv
  <2>3. ASSUME NEW c \in Listed(t) PROVE listings[t] > 0
    <3>1. Cardinality(Listed(t)) # 0
      BY <2>0, FS_EmptySet, ChainsFinite
    <3> QED
      BY <2>0, <2>1, <2>2, <3>1
  <2>4. status[t] = "success" => "success" \in events[t] \/ \E c \in Listed(t) : TRUE
    BY DEF SuccessInv, Credited, Listed
  <2> QED
    BY <2>0, <2>1, <2>2, <2>3, <2>4
<1>2. TypeOK /\ SuccessInv /\ [Next]_vars =>
        [\A t \in Tasks : status[t] = "success" /\ status'[t] # "success" =>
            events[t] # {} \/ events'[t] # {} \/ Cardinality(ChainsOn(t)) > 1]_vars
  BY TakenBack
<1> QED
  BY SuccessInvariant, <1>1, <1>2, PTL DEF Spec, SuccessSound, SuccessTakenBack

-----------------------------------------------------------------------------
(***************************************************************************)
(* A chain keeps the budget of its trigger.                                *)
(***************************************************************************)

\* A step that moves one chain and leaves its tries and failures, changes its phase only.
LEMMA PhaseMoves ==
    ASSUME TypeOK, NEW c \in Chains, tries' = tries,
           \A d \in Chains : d # c => Phase(d)' = Phase(d),
           \A d \in Chains : Failures(d)' = Failures(d)
    PROVE  /\ [d \in Chains |-> Phase(d)]' = [[d \in Chains |-> Phase(d)] EXCEPT ![c] = Phase(c)']
           /\ [d \in Chains |-> Failures(d)]' = [d \in Chains |-> Failures(d)]
  OBVIOUS

LEMMA BudgetInit == Init => Budget!Init
<1> SUFFICES ASSUME Init PROVE Budget!Init
  OBVIOUS
<1>1. \A c \in Chains : Phase(c) = "idle" /\ Failures(c) = 0
  BY DEF Init, Phase, Live, Pending, Failures
<1> QED
  BY <1>1 DEF Init, Budget!Init

\* A trigger begins a chain in the abstract.
LEMMA BudgetTrigger ==
    ASSUME TypeOK, AtRest, NEW c \in Chains, Trigger(c) PROVE Budget!Begin(c)
<1>1. /\ pc[c] = "idle" /\ pc' = [pc EXCEPT ![c] = "scheduled"]
      /\ UNCHANGED <<tries, lost>> /\ c \notin lost
  BY TriggerEffect DEF AtRest, Pending
<1>2. Phase(c) = "idle" /\ Phase(c)' = "running" /\ \A d \in Chains : d # c => Phase(d)' = Phase(d)
  BY <1>1 DEF Phase, Live, Pending, TypeOK
<1>3. \A d \in Chains : Failures(d)' = Failures(d)
  BY <1>1 DEF Failures, TypeOK
<1> QED
  BY <1>1, <1>2, <1>3, PhaseMoves DEF Budget!Begin, Budget!Move

LEMMA BudgetCut ==
    ASSUME TypeOK, NEW c \in Chains, Lose(c) PROVE Budget!Cut(c)
<1>1. Live(c) /\ lost' = lost \union {c} /\ UNCHANGED <<pc, tries>>
  BY DEF Lose
<1>2. Phase(c) = "running" /\ Phase(c)' = "cut" /\ \A d \in Chains : d # c => Phase(d)' = Phase(d)
  BY <1>1 DEF Phase, Live, Pending
<1>3. \A d \in Chains : Failures(d)' = Failures(d)
  BY <1>1 DEF Failures
<1> QED
  BY <1>1, <1>2, <1>3, PhaseMoves DEF Budget!Cut, Budget!Move

\* A step of a chain is a try, a failure, its end, or nothing that the budget knows of.
LEMMA BudgetAttempt ==
    ASSUME TypeOK, ChainInv, NEW c \in Chains, Attempt(c)
    PROVE  Budget!Try(c) \/ Budget!Fail(c) \/ Budget!End(c) \/ UNCHANGED Budget!vars
<1>0. /\ c \notin lost /\ lost' = lost /\ tries[c] \in Nat /\ tries \in [Chains -> Nat]
      /\ MaxAttempts \in Nat /\ ChainOK(c)
  BY StepEffect, ConstantsAssumption DEF TypeOK, ChainInv
<1>1. \A d \in Chains : d # c => Phase(d)' = Phase(d) /\ Failures(d)' = Failures(d)
  BY <1>0, StepOther DEF Phase, Live, Failures
<1>2. Phase(c) = "running"
  BY <1>0, StepEffect DEF Phase, Live, Pending
<1>3. CASE pc[c] = "scheduled"
  <2>1. pc'[c] = "loaded" /\ tries' = [tries EXCEPT ![c] = @ + 1]
    BY <1>3, StepEffect
  <2>2. Failures(c) = tries[c] /\ tries[c] < MaxAttempts
    BY <1>0, <1>3 DEF ChainOK, Failures
  <2>3. Failures(c)' = tries[c]
    BY <1>0, <2>1 DEF Failures
  <2>4. Phase(c)' = "running"
    BY <1>0, <2>1 DEF Phase, Live, Pending
  <2>5. \A d \in Chains : Phase(d)' = Phase(d) /\ Failures(d)' = Failures(d)
    BY <1>1, <1>2, <2>2, <2>3, <2>4
  <2> QED
    BY <1>2, <2>1, <2>2, <2>5 DEF Budget!Try
<1>4. CASE pc[c] = "failing"
  <2>1. pc'[c] = "counted" /\ tries' = tries
    BY <1>4, StepEffect
  <2>2. Failures(c) = tries[c] - 1 /\ Failures(c)' = tries[c]
    BY <1>4, <2>1 DEF Failures
  <2>3. Phase(c)' = "running"
    BY <1>0, <2>1 DEF Phase, Live, Pending
  <2>4. \A d \in Chains : Phase(d)' = Phase(d)
    BY <1>1, <1>2, <2>3
  <2>5. [d \in Chains |-> Failures(d)]' = [[d \in Chains |-> Failures(d)] EXCEPT ![c] = @ + 1]
    <3>1. tries[c] = Failures(c) + 1
      BY <1>0, <2>2
    <3>2. Failures(c)' = Failures(c) + 1
      BY <2>2, <3>1
    <3> QED
      BY <1>1, <3>2
  <2> QED
    BY <1>0, <1>2, <2>1, <2>2, <2>4, <2>5 DEF Budget!Fail
<1>5. CASE \/ pc[c] \in {"refused", "confirmed"}
           \/ pc[c] = "checked" /\ ~(Refreshed(c) < MaxAttempts)
  <2>1. /\ tries' = tries
        /\ <<pc[c], pc'[c]>> \in {<<"refused", "rejected">>, <<"confirmed", "done">>,
                                  <<"checked", "exhausted">>}
    BY <1>5, StepEffect
  <2>2. Failures(c)' = Failures(c)
    BY <2>1 DEF Failures
  <2>3. Phase(c)' = "ended"
    BY <1>0, <2>1 DEF Phase, Live, Pending
  <2> QED
    BY <1>1, <1>2, <2>1, <2>2, <2>3, PhaseMoves DEF Budget!End, Budget!Move
<1>6. CASE \/ pc[c] \in {"loaded", "started", "listed", "counted", "marked"}
           \/ pc[c] = "checked" /\ Refreshed(c) < MaxAttempts
  <2>1. /\ tries' = tries
        /\ \/ /\ pc[c] \in {"loaded", "started", "listed"}
              /\ pc'[c] \in {"started", "refused", "listed", "failing", "confirmed"}
           \/ pc[c] \in {"counted", "marked", "checked"} /\ pc'[c] \in {"marked", "checked", "scheduled"}
    BY <1>6, StepEffect
  <2>2. Failures(c)' = Failures(c)
    BY <2>1 DEF Failures
  <2>3. Phase(c)' = "running"
    BY <1>0, <2>1 DEF Phase, Live, Pending
  <2>4. \A d \in Chains : Phase(d)' = Phase(d) /\ Failures(d)' = Failures(d)
    BY <1>1, <1>2, <2>2, <2>3
  <2> QED
    BY <2>1, <2>4 DEF Budget!vars
<1>7. pc[c] \in {"scheduled", "loaded", "started", "refused", "listed", "confirmed", "failing",
                "counted", "marked", "checked"}
  BY DEF Attempt, Load, Start, Refuse, ReportRefusal, UploadAnswered, UploadFails, WriteFails,
         Confirm, Measure, Count, MarkFailed, CheckExhausted, Decide, Continue, Step
<1> QED
  BY <1>3, <1>4, <1>5, <1>6, <1>7

LEMMA BudgetNext ==
    TypeOK /\ ChainInv /\ AtRest /\ [Next]_vars => [Budget!Next]_(Budget!vars)
<1> SUFFICES ASSUME TypeOK, ChainInv, AtRest, [Next]_vars
             PROVE  Budget!Next \/ UNCHANGED Budget!vars
  OBVIOUS
<1>1. ASSUME NEW c \in Chains, Trigger(c) \/ Attempt(c) \/ Lose(c)
      PROVE  Budget!Next \/ UNCHANGED Budget!vars
  BY <1>1, BudgetTrigger, BudgetAttempt, BudgetCut DEF Budget!Next
<1>2. CASE Outside \/ UNCHANGED vars
  <2>1. UNCHANGED <<pc, tries, lost>>
    BY <1>2 DEF Outside, Webhook, Report, PatchCheck, PatchWrite
  <2>2. \A d \in Chains : Phase(d)' = Phase(d) /\ Failures(d)' = Failures(d)
    BY <2>1 DEF Phase, Live, Failures
  <2> QED
    BY <2>1, <2>2 DEF Budget!vars
<1> QED
  BY <1>1, <1>2 DEF Next

\* The publisher implements RetryBudget: for its trigger, each chain takes its tries one
\* after the other, another only after a failure, and at most max_attempts of them.
THEOREM KeepsBudgetHolds == Spec => KeepsBudget
  BY CountInvariant, BudgetInit, BudgetNext, PTL
  DEF Spec, KeepsBudget, Budget!Spec, IInv, CountInv
=============================================================================
