-------------------------- MODULE TokenBucketProofs --------------------------
(***************************************************************************)
(* What a token bucket keeps to for any number of requests, any limit and  *)
(* any window.                                                             *)
(***************************************************************************)
EXTENDS TokenBucket, FiniteSetTheorems, TLAPS

USE DEF vars, bucket

LEMMA InitOK == Init => TypeOK /\ IInv
  BY BucketAssumption
  DEF Init, TypeOK, IInv, Accounted, FreshReads, Trying, Answered, Forever

-----------------------------------------------------------------------------

LEMMA ShiftedType == TypeOK => Shifted \in [0 .. Window - 1 -> Nat]
  BY BucketAssumption DEF TypeOK, Shifted

\* One more token has been taken in the present second.
LEMMA RecentType ==
    ASSUME TypeOK
    PROVE  [recent EXCEPT ![0] = @ + 1] \in [0 .. Window - 1 -> Nat]
  BY BucketAssumption DEF TypeOK

LEMMA ApplyType ==
    ASSUME TypeOK, NEW r \in Requests, Apply(r)
    PROVE  /\ tokens' \in Int
           /\ ttl' \in 0 .. Forever
           /\ dirty' \subseteq Requests
           /\ taken' \in Nat
           /\ recent' \in [0 .. Window - 1 -> Nat]
  BY RecentType, BucketAssumption
  DEF TypeOK, Apply, Set, Decr, Touch, Forever

LEMMA NextTypeOK == TypeOK /\ [Next]_vars => TypeOK'
<1> SUFFICES ASSUME TypeOK, [Next]_vars PROVE TypeOK'
  OBVIOUS
<1> USE BucketAssumption
<1>1. CASE Tick
  BY <1>1, ShiftedType DEF Tick, TypeOK, Touch, Forever
<1>2. ASSUME NEW r \in Requests, Arrive(r) \/ Watch(r) \/ Get(r) \/ Abort(r)
                               \/ TurnAway(r) \/ Leave(r)
      PROVE  TypeOK'
  <2> USE DEF Goto, TypeOK, Trying, Answered
  <2>1. CASE Arrive(r)
    BY <2>1 DEF Arrive, Passes
  <2>2. CASE Watch(r)
    BY <2>2 DEF Watch
  <2>3. CASE Get(r)
    BY <2>3 DEF Get
  <2>4. CASE Abort(r) \/ TurnAway(r)
    BY <2>4 DEF Abort, TurnAway
  <2>5. CASE Leave(r)
    BY <2>5 DEF Leave
  <2> QED
    BY <1>2, <2>1, <2>2, <2>3, <2>4, <2>5
<1>3. ASSUME NEW r \in Requests, Exec(r) PROVE TypeOK'
  <2>1. pc[r] \in {"set", "decr"} /\ left[r] \in 1 .. 2
    BY <1>3 DEF Exec, Apply, TypeOK, Trying
  <2>2. left' \in [Requests -> 0 .. 2]
    BY <1>3, <2>1 DEF Exec, TypeOK
  <2>3. \A s \in Requests : pc'[s] \in Trying => left'[s] > 0
    BY <1>3, <2>1 DEF Exec, TypeOK, Trying
  <2>4. pc' \in [Requests -> Trying \union Answered \union {"idle"}]
    BY <1>3 DEF Exec, TypeOK, Trying, Answered
  <2>5. cuts' \in 0 .. MaxCuts
    BY <1>3 DEF Exec, TypeOK
  <2>6. /\ tokens' \in Int /\ ttl' \in 0 .. Forever /\ dirty' \subseteq Requests
        /\ taken' \in Nat /\ recent' \in [0 .. Window - 1 -> Nat]
    BY <1>3, ApplyType DEF Exec
  <2> QED
    BY <2>2, <2>3, <2>4, <2>5, <2>6 DEF TypeOK
<1>4. ASSUME NEW r \in Requests, LoseConnection(r) PROVE TypeOK'
  <2>1. /\ cuts' \in 0 .. MaxCuts
        /\ \/ pc' = [pc EXCEPT ![r] = "failed"]
           \/ pc[r] \in Trying /\ pc' = [pc EXCEPT ![r] = "watch"]
        /\ UNCHANGED left
    BY <1>4 DEF LoseConnection, Goto, Apply, TypeOK, Trying
  <2>2. CASE Apply(r)
    BY <2>1, <2>2, ApplyType DEF TypeOK, Trying, Answered
  <2>3. CASE UNCHANGED <<bucket, dirty>>
    BY <2>1, <2>3 DEF TypeOK, Trying, Answered
  <2> QED
    BY <1>4, <2>2, <2>3 DEF LoseConnection
<1>5. CASE UNCHANGED vars
  BY <1>5 DEF TypeOK
<1> QED
  BY <1>1, <1>2, <1>3, <1>4, <1>5 DEF Next, Acquire

\* A bucket keeps the type of its key and of its counters.
THEOREM BucketTypeCorrect == Spec => []TypeOK
  BY InitOK, NextTypeOK, PTL DEF Spec

-----------------------------------------------------------------------------

\* An accepted transaction leaves the key accounted for and every other
\* transaction on it dirty.
LEMMA ApplyInv ==
    ASSUME TypeOK, IInv, NEW r \in Requests, r \notin dirty, Apply(r)
    PROVE  /\ Accounted' /\ (Limit > 0 => taken' <= Limit)
           /\ \A s \in Requests \ dirty' : pc[s] \notin {"set", "decr"}
<1> USE BucketAssumption DEF IInv, Accounted, FreshReads, TypeOK, Touch, Forever
<1>1. CASE pc[r] = "set" /\ Set(r)
  BY <1>1 DEF Apply, Set
<1>2. CASE pc[r] = "decr" /\ Decr(r)
  BY <1>2 DEF Apply, Decr
<1> QED
  BY <1>1, <1>2 DEF Apply

LEMMA NextIInv == TypeOK /\ IInv /\ [Next]_vars => IInv'
<1> SUFFICES ASSUME TypeOK, IInv, [Next]_vars PROVE IInv'
  OBVIOUS
<1> USE BucketAssumption
<1>1. CASE Tick
  BY <1>1 DEF Tick, Touch, TypeOK, IInv, Accounted, FreshReads, Forever
<1>2. ASSUME NEW r \in Requests, Arrive(r) \/ Watch(r) \/ Get(r) \/ Abort(r)
                               \/ TurnAway(r) \/ Leave(r)
      PROVE  IInv'
  BY <1>2 DEF Arrive, Watch, Get, Abort, TurnAway, Leave, Goto, Answered,
     TypeOK, IInv, Accounted, FreshReads
<1>3. ASSUME NEW r \in Requests, Exec(r) PROVE IInv'
  BY <1>3, ApplyInv DEF Exec, TypeOK, IInv, FreshReads
<1>4. ASSUME NEW r \in Requests, LoseConnection(r) PROVE IInv'
  <2>1. CASE r \notin dirty /\ Apply(r) /\ pc' = [pc EXCEPT ![r] = "watch"]
    BY <2>1, ApplyInv DEF TypeOK, IInv, FreshReads
  <2>2. CASE UNCHANGED <<bucket, dirty>> /\ \E to \in {"failed", "watch"} :
                pc' = [pc EXCEPT ![r] = to]
    BY <2>2 DEF TypeOK, IInv, Accounted, FreshReads
  <2> QED
    BY <1>4, <2>1, <2>2 DEF LoseConnection, Goto
<1>5. CASE UNCHANGED vars
  BY <1>5 DEF IInv, Accounted, FreshReads
<1> QED
  BY <1>1, <1>2, <1>3, <1>4, <1>5 DEF Next, Acquire

THEOREM BucketInvariant == Spec => [](TypeOK /\ IInv)
<1>1. TypeOK /\ IInv /\ [Next]_vars => (TypeOK /\ IInv)'
  BY NextTypeOK, NextIInv
<1> QED
  BY InitOK, <1>1, PTL DEF Spec

\* With a positive limit no window hands out more than Limit tokens, however
\* many requests race for them and whichever connections are lost.
THEOREM WindowBoundedHolds == Limit > 0 => (Spec => []WindowBounded)
<1> SUFFICES ASSUME Limit > 0 PROVE Spec => []WindowBounded
  OBVIOUS
<1>1. IInv => WindowBounded
  BY DEF IInv, WindowBounded
<1> QED
  BY BucketInvariant, <1>1, PTL

\* No interleaving leaves a key without an expiry, which would turn its users
\* away for ever.
THEOREM KeyExpiresHolds == Spec => []KeyExpires
<1>1. TypeOK /\ IInv => KeyExpires
  BY BucketAssumption DEF IInv, Accounted, KeyExpires, Forever, TypeOK
<1> QED
  BY BucketInvariant, <1>1, PTL

-----------------------------------------------------------------------------
(***************************************************************************)
(* Two windows in one stretch.                                             *)
(***************************************************************************)

\* The key with t seconds to live was made Window - t seconds ago: what was handed out
\* since is its own, and the rest is that of the key before.
Young(t) == {p \in Recently : t > 0 /\ p[1] + t <= Window}
Old(t) == Recently \ Young(t)

StretchInv ==
    /\ IsFiniteSet(Recently)
    /\ Cardinality(Young(ttl)) <= taken
    /\ Cardinality(Old(ttl)) <= Limit
    /\ ttl = 0 => recent[0] = 0

\* What the pairs of a count of tokens per second are.
LEMMA PairsOf ==
    ASSUME NEW f \in [0 .. Window - 1 -> Nat], NEW p
    PROVE  p \in UNION {{age} \X (1 .. f[age]) : age \in DOMAIN f} <=>
             \E age \in 0 .. Window - 1, k \in Nat \ {0} : p = <<age, k>> /\ k <= f[age]
<1>1. ASSUME p \in UNION {{age} \X (1 .. f[age]) : age \in DOMAIN f}
      PROVE  \E age \in 0 .. Window - 1, k \in Nat \ {0} : p = <<age, k>> /\ k <= f[age]
  <2>1. PICK age \in 0 .. Window - 1 : p \in {age} \X (1 .. f[age])
    BY <1>1
  <2>2. PICK k \in 1 .. f[age] : p = <<age, k>>
    BY <2>1
  <2>3. k \in Nat \ {0} /\ k <= f[age]
    OBVIOUS
  <2> QED
    BY <2>2, <2>3
<1>2. ASSUME NEW age \in 0 .. Window - 1, NEW k \in Nat \ {0}, p = <<age, k>>, k <= f[age]
      PROVE  p \in UNION {{a} \X (1 .. f[a]) : a \in DOMAIN f}
  <2>1. p \in {age} \X (1 .. f[age])
    BY <1>2
  <2> QED
    BY <2>1
<1> QED
  BY <1>1, <1>2

LEMMA YoungOld ==
    ASSUME IsFiniteSet(Recently), NEW t
    PROVE  /\ IsFiniteSet(Young(t)) /\ IsFiniteSet(Old(t))
           /\ Cardinality(Young(t)) \in Nat /\ Cardinality(Old(t)) \in Nat
  BY FS_Subset, FS_CardinalityType DEF Young, Old

\* A set that maps one to one into a finite one has no more elements.
LEMMA NoMore ==
    ASSUME NEW S, NEW T, IsFiniteSet(T), NEW f \in [S -> T],
           \A p, q \in S : f[p] = f[q] => p = q
    PROVE  IsFiniteSet(S) /\ Cardinality(S) <= Cardinality(T)
<1>1. f \in Injection(S, T)
  BY DEF Injection, IsInjective
<1> QED
  BY <1>1, FS_Injection

LEMMA InitStretch == Init => StretchInv
<1> SUFFICES ASSUME Init PROVE StretchInv
  OBVIOUS
<1>1. Recently = {}
  BY BucketAssumption DEF Init, Recently
<1>2. Young(ttl) = {} /\ Old(ttl) = {}
  BY <1>1 DEF Young, Old
<1>3. recent[0] = 0
  BY BucketAssumption DEF Init
<1>4. taken = 0 /\ Limit \in Nat
  BY BucketAssumption DEF Init
<1> QED
  BY <1>1, <1>2, <1>3, <1>4, FS_EmptySet DEF StretchInv

\* A second later each token is a second older.
LEMMA Older ==
    ASSUME TypeOK, Tick, NEW p \in Recently'
    PROVE  /\ p = <<p[1], p[2]>> /\ p[1] \in 1 .. Window - 1 /\ p[2] \in Nat
           /\ <<p[1] - 1, p[2]>> \in Recently
<1>1. recent \in [0 .. Window - 1 -> Nat] /\ recent' \in [0 .. Window - 1 -> Nat] /\ recent' = Shifted
  BY ShiftedType DEF TypeOK, Tick
<1>2. PICK age \in 0 .. Window - 1, k \in Nat \ {0} : p = <<age, k>> /\ k <= recent'[age]
  BY <1>1, PairsOf DEF Recently
<1>3. age # 0 /\ recent'[age] = recent[age - 1] /\ age - 1 \in 0 .. Window - 1
  BY <1>1, <1>2, BucketAssumption DEF Shifted
<1>4. <<age - 1, k>> \in Recently
  BY <1>1, <1>2, <1>3, PairsOf DEF Recently
<1> QED
  BY <1>2, <1>3, <1>4

LEMMA TickStretch ==
    ASSUME Limit > 0, TypeOK, IInv, StretchInv, Tick PROVE StretchInv'
<1>0. ttl \in 0 .. Window /\ taken \in Nat /\ taken <= Limit /\ Limit \in Nat /\ Window \in Nat \ {0}
  BY BucketAssumption DEF IInv, Accounted, TypeOK, Forever
<1> DEFINE f == [p \in Recently' |-> <<p[1] - 1, p[2]>>]
<1>1. \A p, q \in Recently' : f[p] = f[q] => p = q
  <2> SUFFICES ASSUME NEW p \in Recently', NEW q \in Recently', f[p] = f[q] PROVE p = q
    OBVIOUS
  <2>1. p[1] - 1 = q[1] - 1 /\ p[2] = q[2]
    OBVIOUS
  <2>2. p[1] \in Int /\ q[1] \in Int /\ p = <<p[1], p[2]>> /\ q = <<q[1], q[2]>>
    BY Older
  <2>3. p[1] = q[1]
    BY <2>1, <2>2
  <2> QED
    BY <2>1, <2>2, <2>3
<1>2. ASSUME NEW S, NEW T, IsFiniteSet(T), S \subseteq Recently',
             \A p \in S : <<p[1] - 1, p[2]>> \in T
      PROVE  IsFiniteSet(S) /\ Cardinality(S) <= Cardinality(T)
  <2> DEFINE g == [p \in S |-> f[p]]
  <2>1. g \in [S -> T] /\ \A p, q \in S : g[p] = g[q] => p = q
    BY <1>1, <1>2
  <2> HIDE DEF g
  <2> QED
    BY <1>2, <2>1, NoMore
<1>3. IsFiniteSet(Recently')
  BY <1>2, Older DEF StretchInv
<1>4. recent'[0] = 0
  BY BucketAssumption DEF Tick, Shifted, TypeOK
<1>5. /\ IsFiniteSet(Young(ttl)) /\ IsFiniteSet(Old(ttl))
      /\ Cardinality(Young(ttl)) \in Nat /\ Cardinality(Old(ttl)) \in Nat
  BY YoungOld DEF StretchInv
<1>6. IsFiniteSet(Young(ttl)') /\ IsFiniteSet(Old(ttl)')
      /\ Cardinality(Young(ttl)') \in Nat /\ Cardinality(Old(ttl)') \in Nat
  BY <1>3, FS_Subset, FS_CardinalityType DEF Young, Old
<1>7. CASE ttl = 0
  <2>1. ttl' = 0 /\ taken' = taken
    BY <1>7 DEF Tick
  <2>2. Young(ttl)' = {} /\ Young(ttl) = {} /\ Old(ttl)' \subseteq Recently' /\ Old(ttl) = Recently
    BY <1>7, <2>1 DEF Young, Old
  <2>3. \A p \in Old(ttl)' : <<p[1] - 1, p[2]>> \in Old(ttl)
    BY <2>2, Older
  <2>4. Cardinality(Old(ttl)') <= Cardinality(Old(ttl))
    BY <1>2, <1>5, <2>2, <2>3
  <2>5. Cardinality(Old(ttl)') <= Limit
    BY <1>0, <1>5, <1>6, <2>4 DEF StretchInv
  <2> QED
    BY <1>0, <1>3, <1>4, <2>1, <2>2, <2>5, FS_EmptySet DEF StretchInv
<1>8. CASE ttl = 1
  <2>1. ttl' = 0 /\ taken' = 0
    BY <1>8, BucketAssumption DEF Tick, Forever
  <2>2. Young(ttl)' = {} /\ Old(ttl)' \subseteq Recently'
    BY <2>1 DEF Young, Old
  <2>3. ASSUME NEW p \in Old(ttl)' PROVE <<p[1] - 1, p[2]>> \in Young(ttl)
    <3>1. p[1] \in 1 .. Window - 1 /\ <<p[1] - 1, p[2]>> \in Recently
      BY <2>2, Older
    <3> QED
      BY <1>0, <1>8, <3>1 DEF Young
  <2>4. Cardinality(Old(ttl)') <= Cardinality(Young(ttl))
    BY <1>2, <1>5, <2>2, <2>3
  <2>5. Cardinality(Old(ttl)') <= Limit
    BY <1>0, <1>5, <1>6, <2>4 DEF StretchInv
  <2> QED
    BY <1>3, <1>4, <2>1, <2>2, <2>5, FS_EmptySet DEF StretchInv
<1>9. CASE ttl > 1
  <2>1. ttl' = ttl - 1 /\ taken' = taken
    BY <1>0, <1>9 DEF Tick, Forever
  <2>2. Young(ttl)' \subseteq Recently' /\ Old(ttl)' \subseteq Recently'
    BY DEF Young, Old
  <2>3. ASSUME NEW p \in Recently'
        PROVE  <<p[1] - 1, p[2]>> \in Young(ttl) <=> p \in Young(ttl)'
    <3>1. p[1] \in 1 .. Window - 1 /\ <<p[1] - 1, p[2]>> \in Recently
      BY Older
    <3>2. (p[1] - 1) + ttl <= Window <=> p[1] + (ttl - 1) <= Window
      BY <1>0, <3>1
    <3> QED
      BY <1>0, <1>9, <2>1, <3>1, <3>2 DEF Young
  <2>4. \A p \in Young(ttl)' : <<p[1] - 1, p[2]>> \in Young(ttl)
    BY <2>2, <2>3
  <2>5. \A p \in Old(ttl)' : <<p[1] - 1, p[2]>> \in Old(ttl)
    BY <2>2, <2>3, Older DEF Old
  <2>6. Cardinality(Young(ttl)') <= Cardinality(Young(ttl))
    BY <1>2, <1>5, <2>2, <2>4
  <2>7. Cardinality(Old(ttl)') <= Cardinality(Old(ttl))
    BY <1>2, <1>5, <2>2, <2>5
  <2>8. Cardinality(Young(ttl)') <= taken' /\ Cardinality(Old(ttl)') <= Limit
    BY <1>0, <1>5, <1>6, <2>1, <2>6, <2>7 DEF StretchInv
  <2>9. ttl' # 0
    BY <1>0, <1>9, <2>1
  <2> QED
    BY <1>3, <2>8, <2>9 DEF StretchInv
<1> QED
  BY <1>0, <1>7, <1>8, <1>9

\* A token handed out now belongs to the present key.
LEMMA ApplyStretch ==
    ASSUME TypeOK, IInv, StretchInv, NEW r \in Requests, r \notin dirty, Apply(r)
    PROVE  StretchInv'
<1>0. /\ ttl \in 0 .. Window /\ taken \in Nat /\ Window \in Nat \ {0} /\ 0 \in 0 .. Window - 1
      /\ recent \in [0 .. Window - 1 -> Nat] /\ recent[0] \in Nat
  BY BucketAssumption DEF IInv, Accounted, TypeOK, Forever
<1> DEFINE new == <<0, recent[0] + 1>>
<1>1. recent' = [recent EXCEPT ![0] = @ + 1] /\ recent' \in [0 .. Window - 1 -> Nat] /\ taken' = taken + 1
  BY RecentType DEF Apply
<1>2. \A p : p \in Recently' <=> p \in Recently \/ p = new
  <2>1. \A age \in 0 .. Window - 1 : recent'[age] = IF age = 0 THEN recent[0] + 1 ELSE recent[age]
    BY <1>1
  <2>2. ASSUME NEW p PROVE p \in Recently' <=> p \in Recently \/ p = new
    <3>1. p \in Recently <=> \E age \in 0 .. Window - 1, k \in Nat \ {0} : p = <<age, k>> /\ k <= recent[age]
      BY <1>0, PairsOf DEF Recently
    <3>2. p \in Recently' <=> \E age \in 0 .. Window - 1, k \in Nat \ {0} : p = <<age, k>> /\ k <= recent'[age]
      BY <1>1, PairsOf DEF Recently
    <3>3. ASSUME NEW age \in 0 .. Window - 1, NEW k \in Nat \ {0}, p = <<age, k>>
          PROVE  k <= recent'[age] <=> k <= recent[age] \/ p = new
      <4>1. recent[age] \in Nat
        BY <1>0
      <4>2. CASE age = 0
        BY <1>0, <2>1, <3>3, <4>1, <4>2
      <4>3. CASE age # 0
        BY <1>0, <2>1, <3>3, <4>1, <4>3
      <4> QED
        BY <4>2, <4>3
    <3>4. p = new => \E age \in 0 .. Window - 1, k \in Nat \ {0} : p = <<age, k>>
      BY <1>0
    <3> QED
      BY <3>1, <3>2, <3>3, <3>4
  <2> QED
    BY <2>2
<1>3. new \notin Recently
  <2> SUFFICES ASSUME new \in Recently PROVE FALSE
    OBVIOUS
  <2>1. PICK age \in 0 .. Window - 1, k \in Nat \ {0} : new = <<age, k>> /\ k <= recent[age]
    BY <1>0, PairsOf DEF Recently
  <2> QED
    BY <1>0, <2>1
<1>4. Recently' = Recently \union {new} /\ IsFiniteSet(Recently')
  BY <1>2, FS_AddElement DEF StretchInv
<1>5. /\ IsFiniteSet(Young(ttl)) /\ IsFiniteSet(Old(ttl))
      /\ Cardinality(Young(ttl)) \in Nat /\ Cardinality(Old(ttl)) \in Nat
  BY YoungOld DEF StretchInv
<1>6. CASE pc[r] = "set" /\ Set(r)
  <2>1. ttl = 0 /\ ttl' = Window /\ taken = 0 /\ recent[0] = 0
    BY <1>6, BucketAssumption DEF Set, IInv, FreshReads, Accounted, StretchInv
  <2>2. Young(ttl) = {} /\ Old(ttl) = Recently
    BY <2>1 DEF Young, Old
  <2>3. ASSUME NEW p \in Recently PROVE ~(p[1] + Window <= Window)
    <3>1. PICK age \in 0 .. Window - 1, k \in Nat \ {0} : p = <<age, k>> /\ k <= recent[age]
      BY <1>0, PairsOf DEF Recently
    <3>2. age # 0
      BY <2>1, <3>1
    <3> QED
      BY <1>0, <3>1, <3>2
  <2>4. Young(ttl)' = {new} /\ Old(ttl)' = Recently
    BY <1>0, <1>3, <1>4, <2>1, <2>3 DEF Young, Old
  <2>5. Cardinality(Young(ttl)') = 1
    BY <2>4, FS_Singleton
  <2>6. Cardinality(Old(ttl)') <= Limit
    BY <2>2, <2>4 DEF StretchInv
  <2> QED
    BY <1>0, <1>1, <1>4, <2>1, <2>5, <2>6 DEF StretchInv
<1>7. CASE pc[r] = "decr" /\ Decr(r)
  <2>1. ttl # 0 /\ ttl' = ttl
    BY <1>7 DEF Decr, IInv, FreshReads
  <2>2. Young(ttl)' = Young(ttl) \union {new} /\ Old(ttl)' = Old(ttl)
    BY <1>0, <1>3, <1>4, <2>1 DEF Young, Old
  <2>3. new \notin Young(ttl)
    BY <1>3 DEF Young
  <2>4. Cardinality(Young(ttl)') = Cardinality(Young(ttl)) + 1
    BY <1>5, <2>2, <2>3, FS_AddElement
  <2>5. Cardinality(Young(ttl)') <= taken'
    BY <1>0, <1>1, <1>5, <2>4 DEF StretchInv
  <2> QED
    BY <1>4, <2>1, <2>2, <2>5 DEF StretchInv
<1> QED
  BY <1>6, <1>7 DEF Apply

LEMMA NextStretch ==
    Limit > 0 /\ TypeOK /\ IInv /\ StretchInv /\ [Next]_vars => StretchInv'
<1> SUFFICES ASSUME Limit > 0, TypeOK, IInv, StretchInv, [Next]_vars PROVE StretchInv'
  OBVIOUS
<1>1. CASE Tick
  BY <1>1, TickStretch
<1>2. CASE UNCHANGED bucket
  BY <1>2 DEF StretchInv, Young, Old, Recently
<1>3. ASSUME NEW r \in Requests, r \notin dirty, Apply(r) PROVE StretchInv'
  BY <1>3, ApplyStretch
<1>4. ASSUME NEW r \in Requests, Arrive(r) \/ Acquire(r) \/ LoseConnection(r) \/ Leave(r)
      PROVE  UNCHANGED bucket \/ (r \notin dirty /\ Apply(r))
  BY <1>4 DEF Arrive, Acquire, Watch, Get, Exec, Abort, TurnAway, LoseConnection, Leave
<1> QED
  BY <1>1, <1>2, <1>3, <1>4 DEF Next

\* With a positive limit any Window seconds see at most twice Limit tokens, wherever in the
\* life of a key they begin.
THEOREM AnyStretchBoundedHolds == Limit > 0 => (Spec => []AnyStretchBounded)
<1> SUFFICES ASSUME Limit > 0 PROVE Spec => []AnyStretchBounded
  OBVIOUS
<1>1. TypeOK /\ IInv /\ StretchInv => AnyStretchBounded
  <2> SUFFICES ASSUME TypeOK, IInv, StretchInv PROVE Cardinality(Recently) <= 2 * Limit
    BY DEF AnyStretchBounded
  <2>1. /\ IsFiniteSet(Young(ttl)) /\ IsFiniteSet(Old(ttl))
        /\ Cardinality(Young(ttl)) \in Nat /\ Cardinality(Old(ttl)) \in Nat
    BY YoungOld DEF StretchInv
  <2>2. Recently = Young(ttl) \union Old(ttl) /\ Young(ttl) \intersect Old(ttl) = {}
    BY DEF Young, Old
  <2>3. Cardinality(Recently) = Cardinality(Young(ttl)) + Cardinality(Old(ttl))
    BY <2>1, <2>2, FS_Union, FS_EmptySet
  <2>4. Cardinality(Young(ttl)) <= taken /\ taken <= Limit /\ taken \in Nat /\ Limit \in Nat
        /\ Cardinality(Old(ttl)) <= Limit
    BY BucketAssumption DEF StretchInv, IInv, TypeOK
  <2> QED
    BY <2>1, <2>3, <2>4
<1>2. (TypeOK /\ IInv /\ StretchInv) /\ [Next]_vars => (TypeOK /\ IInv /\ StretchInv)'
  BY NextTypeOK, NextIInv, NextStretch
<1> QED
  BY InitOK, InitStretch, <1>1, <1>2, PTL DEF Spec
=============================================================================
