------------------------ MODULE ApprovalPipelineProofs -----------------------
(***************************************************************************)
(* What an approval is worth for any number of runs, any set of items and  *)
(* any time to live of the approvals and of the cached answers.            *)
(***************************************************************************)
EXTENDS ApprovalPipeline, TLAPS

USE DEF vars, dagster, publisher, gateway

LEMMA InitTypeOK == Init => TypeOK
  BY PipelineAssumption DEF Init, TypeOK, NoResponse

LEMMA TurnType ==
    ASSUME TypeOK, NEW r \in Runs, NEW o, NEW from,
           NEW to \in {"waiting", "running", "done", "failed"},
           Turn(r, o, from, to)
    PROVE  /\ op' \in [Runs -> [Ops -> {"waiting", "running", "done", "failed"}]]
           /\ job' = job
<1>1. op[r] \in [Ops -> {"waiting", "running", "done", "failed"}]
  BY DEF TypeOK
<1>2. [op[r] EXCEPT ![o] = to] \in [Ops -> {"waiting", "running", "done", "failed"}]
  BY <1>1
<1> QED
  BY <1>2 DEF Turn, TypeOK

LEMMA LessBelow ==
    ASSUME NEW m \in Nat, NEW n \in 0 .. m
    PROVE  Less(n) \in 0 .. m /\ (n = 0 => Less(n) = 0)
  BY DEF Less

LEMMA NextTypeOK == TypeOK /\ [Next]_vars => TypeOK'
<1> SUFFICES ASSUME TypeOK, [Next]_vars PROVE TypeOK'
  OBVIOUS
<1> USE PipelineAssumption
<1>1. ASSUME NEW r \in Runs, NEW j \in Jobs, Launch(r, j) PROVE TypeOK'
  BY <1>1 DEF Launch, TypeOK
<1>2. ASSUME NEW r \in Runs, NEW o \in Ops, Start(r, o) PROVE TypeOK'
  <2>1. [i \in Items |-> IF i \in items[r] THEN HttpTries ELSE 0]
          \in [Items -> 0 .. HttpTries]
    OBVIOUS
  <2>2. unsent' \in [Runs -> [Items -> 0 .. HttpTries]]
    BY <1>2, <2>1 DEF Start, TypeOK
  <2> QED
    BY <1>2, <2>2, TurnType DEF Start, TypeOK
<1>3. ASSUME NEW r \in Runs, NEW o \in Ops, Fail(r, o) PROVE TypeOK'
  <2>1. unsent' \in [Runs -> [Items -> 0 .. HttpTries]]
    BY <1>3 DEF Fail, TypeOK
  <2>2. op' \in [Runs -> [Ops -> {"waiting", "running", "done", "failed"}]]
        /\ job' = job
    BY <1>3, TurnType DEF Fail, Raise
  <2>3. tries' \in [Runs -> [Ops -> 0 .. MaxRetries]]
    <3>1. tries[r] \in [Ops -> 0 .. MaxRetries]
      BY DEF TypeOK
    <3>2. tries[r][o] < MaxRetries =>
            [tries[r] EXCEPT ![o] = @ + 1] \in [Ops -> 0 .. MaxRetries]
      BY <3>1
    <3> QED
      BY <1>3, <3>2 DEF Fail, Raise, TypeOK
  <2> QED
    BY <1>3, <2>1, <2>2, <2>3 DEF Fail, TypeOK
<1>4. ASSUME NEW r \in Runs, NEW o \in Ops, Finish(r, o) PROVE TypeOK'
  BY <1>4, TurnType DEF Finish, TypeOK
<1>5. ASSUME NEW r \in Runs, Generate(r) \/ Published(r) PROVE TypeOK'
  <2>1. CASE Generate(r)
    <3>1. items' \in [Runs -> SUBSET Items]
      BY <2>1 DEF Generate, TypeOK
    <3> QED
      BY <2>1, <3>1, TurnType DEF Generate, TypeOK
  <2>2. CASE Published(r)
    BY <2>2, TurnType DEF Published, TypeOK
  <2> QED
    BY <1>5, <2>1, <2>2
<1>6. ASSUME NEW r \in Runs, NEW i \in Items, Post(r, i) PROVE TypeOK'
  <2>1. PICK reached \in {0, 1}, answered \in {0, 1} :
          /\ posted' = [posted EXCEPT ![r][i] = @ + reached]
          /\ unsent' = [unsent EXCEPT ![r][i] = IF answered = 1 THEN 0 ELSE @ - 1]
    BY <1>6 DEF Post
  <2>2. posted[r] \in [Items -> Nat] /\ unsent[r] \in [Items -> 0 .. HttpTries]
    BY DEF TypeOK
  <2>3. [posted[r] EXCEPT ![i] = @ + reached] \in [Items -> Nat]
    BY <2>2
  <2>4. [unsent[r] EXCEPT ![i] = IF answered = 1 THEN 0 ELSE @ - 1]
          \in [Items -> 0 .. HttpTries]
    BY <1>6, <2>2 DEF Post
  <2>5. posted' \in [Runs -> [Items -> Nat]]
    BY <2>1, <2>3 DEF TypeOK
  <2>6. unsent' \in [Runs -> [Items -> 0 .. HttpTries]]
    BY <2>1, <2>4 DEF TypeOK
  <2> QED
    BY <1>6, <2>5, <2>6 DEF Post, TypeOK
<1>7. ASSUME NEW r \in Runs, Poll(r) \/ PollFails(r) PROVE TypeOK'
  <2>1. ASSUME NEW yes \in BOOLEAN, Answer(r, yes)
        PROVE  /\ op' \in [Runs -> [Ops -> {"waiting", "running", "done", "failed"}]]
               /\ job' = job
               /\ poll' \in [Runs -> {"due", "yes", "no", "done"}]
    BY <2>1, TurnType DEF Answer, TypeOK
  <2>2. CASE PollCache(r)
    BY <2>1, <2>2 DEF PollCache, Answer, TypeOK
  <2>3. CASE PollKey(r)
    BY <2>3 DEF PollKey, TypeOK
  <2>4. CASE PollFill(r)
    <3>1. cache' \in [Runs -> [answer : BOOLEAN, ttl : 0 .. CacheTtl]]
      BY <2>4 DEF PollFill, TypeOK
    <3> QED
      BY <2>1, <2>4, <3>1 DEF PollFill, Answer, TypeOK
  <2>5. CASE PollFails(r)
    BY <2>5 DEF PollFails, TypeOK
  <2> QED
    BY <1>7, <2>2, <2>3, <2>4, <2>5 DEF Poll
<1>8. ASSUME NEW r \in Runs, Approve(r) PROVE TypeOK'
  <2>1. KeyTtl \in 0 .. KeyTtl
    OBVIOUS
  <2> QED
    BY <1>8, <2>1 DEF Approve, TypeOK
<1>9. CASE Tick
  <2>1. key' \in [Runs -> 0 .. KeyTtl]
    <3>1. KeyTtl \in Nat
      OBVIOUS
    <3>2. ASSUME NEW r \in Runs PROVE Less(key[r]) \in 0 .. KeyTtl
      <4>1. key[r] \in 0 .. KeyTtl
        BY DEF TypeOK
      <4> QED
        BY <3>1, <4>1, LessBelow
    <3> QED
      BY <1>9, <3>2 DEF Tick
  <2>3. cache' \in [Runs -> [answer : BOOLEAN, ttl : 0 .. CacheTtl]]
    <3>1. ASSUME NEW r \in Runs
          PROVE  [cache[r] EXCEPT !.ttl = Less(@)]
                   \in [answer : BOOLEAN, ttl : 0 .. CacheTtl]
      <4>1. cache[r] \in [answer : BOOLEAN, ttl : 0 .. CacheTtl]
        BY DEF TypeOK
      <4>2. Less(cache[r].ttl) \in 0 .. CacheTtl
        BY <4>1, LessBelow
      <4> QED
        BY <4>1, <4>2
    <3> QED
      BY <1>9, <3>1 DEF Tick
  <2> QED
    BY <1>9, <2>1, <2>3 DEF Tick, TypeOK
<1>10. CASE UNCHANGED vars
  BY <1>10 DEF TypeOK
<1> QED
  BY <1>1, <1>2, <1>3, <1>4, <1>5, <1>6, <1>7, <1>8, <1>9, <1>10 DEF Next

\* Runs, keys and cached responses keep their types.
THEOREM PipelineTypeCorrect == Spec => []TypeOK
  BY InitTypeOK, NextTypeOK, PTL DEF Spec

-----------------------------------------------------------------------------

\* The actions that leave the approval of a run alone.
LEMMA Untouched ==
    ASSUME TypeOK, IInv, UNCHANGED <<key, cache, poll, approved>>,
           \A r \in Runs : op'[r]["await_approval"] = "done"
                          => op[r]["await_approval"] = "done"
    PROVE  IInv'
  BY DEF IInv

\* An op other than await_approval, or a step of await_approval that does not
\* finish it.
LEMMA TurnElsewhere ==
    ASSUME TypeOK, NEW r \in Runs, NEW o \in Ops, NEW from, NEW to,
           Turn(r, o, from, to), o # "await_approval" \/ to # "done"
    PROVE  \A s \in Runs : op'[s]["await_approval"] = "done"
                          => op[s]["await_approval"] = "done"
  BY DEF TypeOK, Turn

LEMMA OpNames == "await_approval" \in Ops /\ "generate_content" \in Ops
                 /\ "publish_content" \in Ops
<1>1. "idea_job" \in DOMAIN Needs /\ DOMAIN Needs["idea_job"] = DOMAIN Publishing
  BY DEF Needs
<1> QED
  BY <1>1 DEF Ops, Publishing

LEMMA NextIInv == TypeOK /\ IInv /\ [Next]_vars => IInv'
<1> SUFFICES ASSUME TypeOK, IInv, [Next]_vars PROVE IInv'
  OBVIOUS
<1>1. ASSUME NEW r \in Runs, NEW j \in Jobs, Launch(r, j) PROVE IInv'
  BY <1>1, Untouched DEF Launch
<1>2. ASSUME NEW r \in Runs, NEW o \in Ops, Start(r, o) PROVE IInv'
  BY <1>2, Untouched, TurnElsewhere DEF Start
<1>3. ASSUME NEW r \in Runs, NEW o \in Ops, Fail(r, o) PROVE IInv'
  BY <1>3, Untouched, TurnElsewhere DEF Fail, Raise
<1>4. ASSUME NEW r \in Runs, NEW o \in Ops, Finish(r, o) PROVE IInv'
  BY <1>4, Untouched, TurnElsewhere DEF Finish
<1>5. ASSUME NEW r \in Runs, Generate(r) \/ Published(r) PROVE IInv'
  BY <1>5, Untouched, TurnElsewhere, OpNames DEF Generate, Published
<1>6. ASSUME NEW r \in Runs, NEW i \in Items, Post(r, i) PROVE IInv'
  BY <1>6, Untouched DEF Post
<1>7. ASSUME NEW r \in Runs, Poll(r) \/ PollFails(r) PROVE IInv'
  <2> USE OpNames DEF TypeOK, IInv, Answer, Turn
  <2>1. CASE PollCache(r)
    BY <1>7, <2>1 DEF PollCache
  <2>2. CASE PollKey(r)
    BY <1>7, <2>2 DEF PollKey
  <2>3. CASE PollFill(r)
    BY <1>7, <2>3 DEF PollFill
  <2>4. CASE PollFails(r)
    BY <1>7, <2>4 DEF PollFails
  <2> QED
    BY <1>7, <2>1, <2>2, <2>3, <2>4 DEF Poll
<1>8. ASSUME NEW r \in Runs, Approve(r) PROVE IInv'
  BY <1>8 DEF Approve, TypeOK, IInv
<1>9. CASE Tick
  <2> SUFFICES ASSUME NEW r \in Runs \ approved
               PROVE  /\ key'[r] = 0
                      /\ ~(cache'[r].answer /\ cache'[r].ttl > 0)
                      /\ poll'[r] # "yes"
                      /\ op'[r]["await_approval"] # "done"
    BY <1>9 DEF Tick, IInv
  <2>1. /\ key'[r] = Less(key[r])
        /\ cache'[r] = [cache[r] EXCEPT !.ttl = Less(@)]
        /\ poll'[r] = "due" /\ op' = op
    BY <1>9 DEF Tick
  <2>2. cache[r] \in [answer : BOOLEAN, ttl : Nat]
    BY PipelineAssumption DEF TypeOK
  <2>3. cache'[r].answer = cache[r].answer /\ cache'[r].ttl = Less(cache[r].ttl)
    BY <2>1, <2>2
  <2> QED
    BY <2>1, <2>2, <2>3 DEF IInv, Less
<1>10. CASE UNCHANGED vars
  BY <1>10 DEF IInv
<1> QED
  BY <1>1, <1>2, <1>3, <1>4, <1>5, <1>6, <1>7, <1>8, <1>9, <1>10 DEF Next

LEMMA InitIInv == Init => IInv
  BY OpNames DEF Init, IInv, NoResponse

\* Every copy of an approval, in Redis, in the response cache or in an answer
\* under way, goes back to an admin's approval of that run.
THEOREM ApprovalsGenuine == Spec => [](TypeOK /\ IInv)
<1>1. TypeOK /\ IInv /\ [Next]_vars => (TypeOK /\ IInv)'
  BY NextTypeOK, NextIInv
<1> QED
  BY InitTypeOK, InitIInv, <1>1, PTL DEF Spec

LEMMA EveryJobAwaits ==
    ASSUME NEW j \in DOMAIN Needs PROVE "await_approval" \in DOMAIN Needs[j]
  BY DEF Needs, Publishing

\* No run of a job with an approval step succeeds unapproved.
THEOREM SucceededApprovedHolds == Spec => []SucceededApproved
<1>1. TypeOK /\ IInv => SucceededApproved
  <2> SUFFICES ASSUME TypeOK, IInv, NEW r \in Runs, Succeeded(r)
               PROVE  r \in approved
    BY DEF SucceededApproved
  <2>1. job[r] \in DOMAIN Needs /\ Plan(r) = Needs[job[r]]
    BY PipelineAssumption DEF Succeeded, Plan, TypeOK
  <2>2. op[r]["await_approval"] = "done"
    BY <2>1, EveryJobAwaits DEF Succeeded
  <2> QED
    BY <2>2 DEF IInv
<1> QED
  BY ApprovalsGenuine, <1>1, PTL

-----------------------------------------------------------------------------

\* The POSTs that the attempts of publish_content which are over may have sent.
Before(r) == HttpTries * tries[r]["publish_content"]

\* An attempt that has not begun has nothing to send, and what earlier ones sent is
\* within their tries; one that has begun adds the tries of one at the most.
PostsInTries(r) ==
    \A i \in Items :
        /\ posted[r][i] + unsent[r][i] <= Before(r) + HttpTries
        /\ op[r]["publish_content"] = "waiting" => unsent[r][i] = 0 /\ posted[r][i] <= Before(r)

PostInv == \A r \in Runs : PostsInTries(r)

LEMMA BudgetOfTries ==
    ASSUME NEW n \in Nat PROVE /\ HttpTries * (n + 1) = HttpTries * n + HttpTries
                               /\ HttpTries * n \in Nat
  BY PipelineAssumption

\* A run whose publish_content takes no step stays within its tries.
LEMMA PostsUntouched ==
    ASSUME PostInv, NEW s \in Runs, UNCHANGED <<posted[s], unsent[s]>>,
           tries'[s]["publish_content"] = tries[s]["publish_content"],
           op'[s]["publish_content"] = op[s]["publish_content"]
    PROVE  PostsInTries(s)'
  BY DEF PostInv, PostsInTries, Before

LEMMA NextPostInv == TypeOK /\ PostInv /\ [Next]_vars => PostInv'
<1> SUFFICES ASSUME TypeOK, PostInv, [Next]_vars, NEW s \in Runs PROVE PostsInTries(s)'
  BY DEF PostInv
<1> DEFINE P == "publish_content"
<1>0. /\ P \in Ops /\ tries[s][P] \in Nat /\ Before(s) \in Nat /\ HttpTries \in Nat
      /\ \A i \in Items : posted[s][i] \in Nat /\ unsent[s][i] \in Nat
      /\ op \in [Runs -> [Ops -> {"waiting", "running", "done", "failed"}]]
      /\ tries \in [Runs -> [Ops -> Nat]]
  BY OpNames, BudgetOfTries, PipelineAssumption DEF TypeOK, Before
<1>1. ASSUME NEW r \in Runs, NEW o \in Ops, Start(r, o) PROVE PostsInTries(s)'
  <2>1. CASE r # s \/ o # P
    BY <1>0, <1>1, <2>1, PostsUntouched DEF Start, Turn, TypeOK
  <2>2. CASE r = s /\ o = P
    <3>1. /\ op[s][P] = "waiting" /\ op'[s][P] = "running" /\ UNCHANGED <<tries, posted>>
          /\ \A i \in Items : unsent'[s][i] \in {0, HttpTries}
      BY <1>0, <1>1, <2>2 DEF Start, Turn, TypeOK
    <3>2. ASSUME NEW i \in Items PROVE posted'[s][i] + unsent'[s][i] <= Before(s) + HttpTries
      BY <1>0, <3>1 DEF PostInv, PostsInTries
    <3> QED
      BY <3>1, <3>2 DEF PostsInTries, Before
  <2> QED
    BY <2>1, <2>2
<1>2. ASSUME NEW r \in Runs, NEW o \in Ops, Fail(r, o) PROVE PostsInTries(s)'
  <2>1. CASE r # s \/ o # P
    <3>1. posted'[s] = posted[s] /\ unsent'[s] = unsent[s]
      BY <1>2, <2>1 DEF Fail, TypeOK
    <3>2. tries'[s][P] = tries[s][P]
      BY <1>0, <1>2, <2>1 DEF Fail, Raise
    <3>3. op'[s][P] = op[s][P]
      BY <1>0, <1>2, <2>1 DEF Fail, Raise, Turn
    <3> QED
      BY <3>1, <3>2, <3>3, PostsUntouched
  <2>2. CASE r = s /\ o = P
    <3>1. UNCHANGED posted /\ \A i \in Items : unsent'[s][i] = 0
      BY <1>2, <2>2 DEF Fail, TypeOK
    <3>2. ASSUME NEW i \in Items PROVE posted'[s][i] <= Before(s) + HttpTries
      BY <1>0, <3>1 DEF PostInv, PostsInTries
    <3>3. CASE tries'[s][P] = tries[s][P] + 1
      <4>1. Before(s)' = Before(s) + HttpTries
        BY <1>0, <3>3, BudgetOfTries DEF Before
      <4> QED
        BY <1>0, <3>1, <3>2, <4>1 DEF PostsInTries
    <3>4. CASE tries' = tries /\ op'[s][P] = "failed"
      BY <1>0, <3>1, <3>2, <3>4 DEF PostsInTries, Before
    <3>5. tries'[s][P] = tries[s][P] + 1 \/ (tries' = tries /\ op'[s][P] = "failed")
      BY <1>0, <1>2, <2>2 DEF Fail, Raise, Turn
    <3> QED
      BY <3>3, <3>4, <3>5
  <2> QED
    BY <2>1, <2>2
<1>3. ASSUME NEW r \in Runs, NEW i \in Items, Post(r, i) PROVE PostsInTries(s)'
  <2>1. /\ op[r][P] = "running" /\ unsent[r][i] > 0 /\ UNCHANGED <<op, tries>>
    BY <1>3 DEF Post
  <2>2. PICK reached \in {0, 1}, answered \in {0, 1} :
          /\ answered <= reached
          /\ posted' = [posted EXCEPT ![r][i] = @ + reached]
          /\ unsent' = [unsent EXCEPT ![r][i] = IF answered = 1 THEN 0 ELSE @ - 1]
    BY <1>3 DEF Post
  <2>3. CASE r # s
    BY <2>1, <2>2, <2>3, PostsUntouched DEF TypeOK
  <2>4. CASE r = s
    <3>1. ASSUME NEW j \in Items PROVE posted'[s][j] + unsent'[s][j] <= Before(s) + HttpTries
      <4>1. posted[s][j] + unsent[s][j] <= Before(s) + HttpTries
        BY DEF PostInv, PostsInTries
      <4>2. CASE j # i
        BY <2>2, <2>4, <4>1, <4>2 DEF TypeOK
      <4>3. CASE j = i
        <5>1. /\ posted'[s][j] = posted[s][j] + reached
              /\ unsent'[s][j] = IF answered = 1 THEN 0 ELSE unsent[s][j] - 1
          BY <2>2, <2>4, <4>3 DEF TypeOK
        <5> QED
          BY <1>0, <2>1, <2>2, <2>4, <4>1, <4>3, <5>1
      <4> QED
        BY <4>2, <4>3
    <3> QED
      BY <2>1, <2>4, <3>1 DEF PostsInTries, Before
  <2> QED
    BY <2>3, <2>4
<1>4. CASE UNCHANGED <<op, tries, posted, unsent>>
  BY <1>4, PostsUntouched
<1>5. ASSUME NEW r \in Runs, NEW o \in Ops, Finish(r, o) PROVE PostsInTries(s)'
  BY <1>0, <1>5, PostsUntouched DEF Finish, Turn, TypeOK, PostInv, PostsInTries, Before
<1>6. ASSUME NEW r \in Runs, Generate(r) \/ Published(r) \/ PollCache(r) \/ PollFill(r)
      PROVE  PostsInTries(s)'
  <2>1. /\ UNCHANGED <<tries, posted, unsent>>
        /\ op'[s][P] = op[s][P] \/ op'[s][P] = "done"
    BY <1>0, <1>6 DEF Generate, Published, PollCache, PollFill, Answer, Turn, TypeOK
  <2> QED
    BY <2>1 DEF PostInv, PostsInTries, Before
<1> QED
  BY <1>1, <1>2, <1>3, <1>4, <1>5, <1>6
  DEF Next, Launch, Poll, PollKey, PollFails, Approve, Tick

LEMMA InitPostInv == Init => PostInv
<1> SUFFICES ASSUME Init, NEW r \in Runs PROVE PostsInTries(r)
  BY DEF PostInv
<1>1. tries[r]["publish_content"] = 0
  BY OpNames DEF Init
<1>2. Before(r) = 0 /\ HttpTries \in Nat
  BY <1>1, PipelineAssumption DEF Before
<1> QED
  BY <1>2 DEF Init, PostsInTries

\* An item is not posted more often than the retries of its POST and those of its op
\* together allow, for any numbers of them.
THEOREM PostsBoundedHolds == Spec => []PostsBounded
<1>1. TypeOK /\ PostInv /\ [Next]_vars => (TypeOK /\ PostInv)'
  BY NextTypeOK, NextPostInv
<1>2. TypeOK /\ PostInv => PostsBounded
  <2> SUFFICES ASSUME TypeOK, PostInv, NEW r \in Runs, NEW i \in Items
               PROVE  posted[r][i] + unsent[r][i]
                        <= HttpTries * (tries[r]["publish_content"] + 1)
    BY DEF PostsBounded
  <2>1. tries[r]["publish_content"] \in Nat
    BY OpNames, PipelineAssumption DEF TypeOK
  <2>2. posted[r][i] + unsent[r][i] <= Before(r) + HttpTries
    BY DEF PostInv, PostsInTries
  <2> QED
    BY <2>1, <2>2, BudgetOfTries DEF Before
<1> QED
  BY InitTypeOK, InitPostInv, <1>1, <1>2, PTL DEF Spec
=============================================================================
