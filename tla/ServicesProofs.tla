------------------------------ MODULE ServicesProofs ------------------------------
(***************************************************************************)
(* Proofs about the services, for any number of signals, words, users,     *)
(* requests, instances, replicas and readers and any periods of time.      *)
(* First of what comes into the system: every announced message is a row   *)
(* that was stored, how often a signal is stored and embedded, and the     *)
(* trending keywords stay within their bound.  Then of the services around *)
(* the gateway: that the audit log can be trusted, how long what is        *)
(* answered from a copy can be out of date, and how often an alert pages.  *)
(* At the end they are put together.                                       *)
(***************************************************************************)
EXTENDS MCServices, FiniteSetTheorems, SequenceTheorems, TLAPS

-----------------------------------------------------------------------------
(***************************************************************************)
(* How often a signal is in a sequence.                                    *)
(***************************************************************************)

Queues == Seq(Signals)

\* A sequence is finite, and so are the places of a signal in it.
LEMMA PlacesFinite ==
    ASSUME NEW S, NEW q \in Seq(S), NEW s
    PROVE  IsFiniteSet(Places(q, s)) /\ InSeq(q, s) \in Nat
<1>1. DOMAIN q = 1 .. Len(q) /\ Len(q) \in Nat
  BY LenProperties
<1>2. IsFiniteSet(1 .. Len(q))
  BY <1>1, FS_Interval
<1>3. Places(q, s) \in SUBSET (1 .. Len(q))
  BY <1>1 DEF Places
<1> QED
  BY <1>2, <1>3, FS_Subset, FS_CardinalityType DEF InSeq

LEMMA InEmpty == \A s : InSeq(<<>>, s) = 0
<1>1. \A s : Places(<<>>, s) = {}
  BY DEF Places
<1> QED
  BY <1>1, FS_EmptySet DEF InSeq

\* What is appended is there once more.
LEMMA InAppend ==
    ASSUME NEW S, NEW q \in Seq(S), NEW x \in S, NEW s
    PROVE  InSeq(Append(q, x), s) = IF x = s THEN InSeq(q, s) + 1 ELSE InSeq(q, s)
<1> DEFINE more == Append(q, x)
           n == Len(q)
<1>1. /\ n \in Nat /\ DOMAIN q = 1 .. n /\ DOMAIN more = 1 .. n + 1
      /\ \A i \in 1 .. n : more[i] = q[i]
      /\ more[n + 1] = x
  OBVIOUS
<1>2. n + 1 \notin Places(q, s)
  BY <1>1 DEF Places
<1>f. IsFiniteSet(Places(q, s))
  BY PlacesFinite
<1> HIDE DEF n, more
<1>3. 1 .. n + 1 = (1 .. n) \union {n + 1} /\ n + 1 \notin 1 .. n
  BY <1>1
<1>4. CASE x = s
  <2>1. Places(more, s) = Places(q, s) \union {n + 1}
    BY <1>1, <1>3, <1>4 DEF Places
  <2> QED
    BY <2>1, <1>2, <1>f, <1>4, FS_AddElement DEF InSeq, more
<1>5. CASE x # s
  <2>1. Places(more, s) = Places(q, s)
    BY <1>1, <1>3, <1>5 DEF Places
  <2> QED
    BY <2>1, <1>5 DEF InSeq, more
<1> QED
  BY <1>4, <1>5

\* What is taken from the front is there once less.
LEMMA InTail ==
    ASSUME NEW S, NEW q \in Seq(S), q # <<>>, NEW s
    PROVE  InSeq(q, s) = IF Head(q) = s THEN InSeq(Tail(q), s) + 1 ELSE InSeq(Tail(q), s)
<1> DEFINE rest == Tail(q)
           n == Len(q)
           T == Places(q, s) \ {1}
           f == [i \in Places(rest, s) |-> i + 1]
<1>1. /\ n \in Nat \ {0} /\ DOMAIN q = 1 .. n /\ rest \in Seq(S)
      /\ DOMAIN rest = 1 .. n - 1 /\ Head(q) = q[1]
      /\ \A i \in 1 .. n - 1 : rest[i] = q[i + 1]
  BY HeadTailProperties, LenProperties
<1>2. IsFiniteSet(Places(q, s)) /\ IsFiniteSet(Places(rest, s))
  BY <1>1, PlacesFinite
<1> HIDE DEF n, rest
<1>3. \A i : i \in Places(rest, s) <=> i \in 1 .. n - 1 /\ q[i + 1] = s
  BY <1>1 DEF Places
<1>4. \A i : i \in T <=> i \in 2 .. n /\ q[i] = s
  BY <1>1 DEF Places
<1> HIDE DEF T
<1>5. f \in Bijection(Places(rest, s), T)
  <2>1. f \in [Places(rest, s) -> T]
    <3>1. \A i \in Places(rest, s) : i + 1 \in T
      BY <1>1, <1>3, <1>4
    <3> QED
      BY <3>1
  <2>2. \A i, j \in Places(rest, s) : f[i] = f[j] => i = j
    BY <1>1, <1>3
  <2>3. \A j \in T : \E i \in Places(rest, s) : f[i] = j
    <3> SUFFICES ASSUME NEW j \in T PROVE j - 1 \in Places(rest, s) /\ f[j - 1] = j
      OBVIOUS
    <3>1. j - 1 \in 1 .. n - 1 /\ q[(j - 1) + 1] = s
      BY <1>1, <1>4
    <3> QED
      BY <1>3, <1>4, <3>1
  <2> QED
    BY <2>1, <2>2, <2>3 DEF Bijection, Injection, Surjection, IsInjective
<1>6. IsFiniteSet(T) /\ Cardinality(T) = InSeq(rest, s)
  BY <1>2, <1>5, FS_Bijection DEF ExistsBijection, InSeq
<1>7. InSeq(rest, s) \in Nat
  BY <1>1, PlacesFinite
<1>8. CASE q[1] = s
  <2>1. Places(q, s) = T \union {1} /\ 1 \notin T
    BY <1>1, <1>8 DEF T, Places
  <2>2. Cardinality(T \union {1}) = Cardinality(T) + 1
    BY <2>1, <1>6, FS_AddElement
  <2>3. InSeq(q, s) = InSeq(rest, s) + 1
    BY <2>1, <2>2, <1>6 DEF InSeq
  <2> QED
    BY <2>3, <1>1, <1>8 DEF rest
<1>9. CASE q[1] # s
  <2>1. Places(q, s) = T
    BY <1>1, <1>9 DEF T, Places
  <2> QED
    BY <2>1, <1>1, <1>6, <1>9 DEF InSeq, rest
<1> QED
  BY <1>8, <1>9

\* The beginning of the topic that a consumer has read, and one message more.
LEMMA InPrefix ==
    ASSUME NEW S, NEW q \in Seq(S), NEW n \in 0 .. Len(q)
    PROVE  /\ SubSeq(q, 1, n) \in Seq(S)
           /\ n < Len(q) => SubSeq(q, 1, n + 1) = Append(SubSeq(q, 1, n), q[n + 1])
           /\ \A x \in S : SubSeq(Append(q, x), 1, n) = SubSeq(q, 1, n)
           /\ n = 0 => SubSeq(q, 1, n) = <<>>
  OBVIOUS

\* A beginning of a sequence holds no more than the sequence.
LEMMA InPart ==
    ASSUME NEW S, NEW q \in Seq(S), NEW n \in 0 .. Len(q), NEW s
    PROVE  InSeq(SubSeq(q, 1, n), s) <= InSeq(q, s)
<1>1. DOMAIN q = 1 .. Len(q) /\ DOMAIN SubSeq(q, 1, n) = 1 .. n
      /\ \A i \in 1 .. n : SubSeq(q, 1, n)[i] = q[i]
  OBVIOUS
<1>2. Places(SubSeq(q, 1, n), s) \in SUBSET Places(q, s)
  BY <1>1 DEF Places
<1> QED
  BY <1>2, PlacesFinite, FS_Subset DEF InSeq

-----------------------------------------------------------------------------

LEMMA AmongPairs == \A h, s, i, j : <<i, j>> \in Among(h, s) <=> i \in DOMAIN h /\ j \in Places(h[i], s)
  BY DEF Among

\* Finitely many sequences hold a finite number of everything.
LEMMA AmongFinite ==
    ASSUME NEW S, NEW W, IsFiniteSet(W), NEW held \in [W -> Seq(S)], NEW s
    PROVE  IsFiniteSet(Among(held, s)) /\ Total(held, s) \in Nat
<1> DEFINE pieces == [x \in W |-> {x} \X Places(held[x], s)]
           parts == {{x} \X Places(held[x], s) : x \in W}
<1>1. \A x \in W : IsFiniteSet({x} \X Places(held[x], s))
  <2> SUFFICES ASSUME NEW x \in W PROVE IsFiniteSet({x} \X Places(held[x], s))
    OBVIOUS
  <2>1. IsFiniteSet(Places(held[x], s)) /\ IsFiniteSet({x})
    BY PlacesFinite, FS_Singleton
  <2> QED
    BY <2>1, FS_Product
<1>2. pieces \in Surjection(W, parts)
  BY DEF Surjection
<1>3. IsFiniteSet(parts)
  BY <1>2, FS_Surjection
<1>4. IsFiniteSet(UNION parts)
  BY <1>1, <1>3, FS_UNION
<1>5. DOMAIN held = W
  OBVIOUS
<1> QED
  BY <1>4, <1>5, FS_CardinalityType DEF Among, Total

\* When one of the sequences changes, so does the total, by as much.
LEMMA AmongOne ==
    ASSUME NEW f \in [Workers -> Queues], NEW g \in [Workers -> Queues], NEW x \in Workers,
           \A y \in Workers \ {x} : g[y] = f[y], NEW s
    PROVE  Total(g, s) + InSeq(f[x], s) = Total(f, s) + InSeq(g[x], s)
<1> DEFINE Rest == UNION {{y} \X Places(f[y], s) : y \in Workers \ {x}}
           Mine(h) == {x} \X Places(h[x], s)
<1>1. ASSUME NEW h \in [Workers -> Queues], \A y \in Workers \ {x} : h[y] = f[y]
      PROVE  /\ IsFiniteSet(Rest) /\ Cardinality(Rest) \in Nat
             /\ Total(h, s) = Cardinality(Rest) + InSeq(h[x], s)
  <2>1. DOMAIN h = Workers
    OBVIOUS
  <2>2. Among(h, s) = Rest \union Mine(h)
    <3>1. ASSUME NEW p \in Among(h, s) PROVE p \in Rest \union Mine(h)
      <4>1. PICK y \in Workers : p \in {y} \X Places(h[y], s)
        BY <2>1, <3>1 DEF Among
      <4>2. CASE y = x
        BY <4>1, <4>2
      <4>3. CASE y # x
        BY <4>1, <4>3, <1>1
      <4> QED
        BY <4>2, <4>3
    <3>2. Mine(h) \subseteq Among(h, s)
      BY <2>1 DEF Among
    <3>3. ASSUME NEW p \in Rest PROVE p \in Among(h, s)
      <4>1. PICK y \in Workers \ {x} : p \in {y} \X Places(f[y], s)
        OBVIOUS
      <4>2. p \in {y} \X Places(h[y], s)
        BY <4>1, <1>1
      <4> QED
        BY <4>2, <2>1 DEF Among
    <3> QED
      BY <3>1, <3>2, <3>3
  <2>3. Rest \cap Mine(h) = {}
    OBVIOUS
  <2>4. IsFiniteSet(Among(h, s)) /\ Rest \in SUBSET Among(h, s)
    BY <2>2, AmongFinite, IngestAssumption DEF Queues
  <2>5. IsFiniteSet(Rest) /\ Cardinality(Rest) \in Nat
    BY <2>4, FS_Subset, FS_CardinalityType
  <2>6. IsFiniteSet(Mine(h)) /\ Cardinality(Mine(h)) = InSeq(h[x], s) /\ InSeq(h[x], s) \in Nat
    <3>1. IsFiniteSet(Places(h[x], s)) /\ InSeq(h[x], s) \in Nat
      BY PlacesFinite DEF Queues
    <3>2. IsFiniteSet({x}) /\ Cardinality({x}) = 1
      BY FS_Singleton
    <3>3. IsFiniteSet(Mine(h)) /\ Cardinality(Mine(h)) = 1 * Cardinality(Places(h[x], s))
      BY <3>1, <3>2, FS_Product
    <3> QED
      BY <3>1, <3>3 DEF InSeq
  <2> HIDE DEF Rest, Mine
  <2>7. Cardinality(Rest \union Mine(h))
          = Cardinality(Rest) + Cardinality(Mine(h)) - Cardinality(Rest \cap Mine(h))
    BY <2>5, <2>6, FS_Union
  <2>8. Cardinality(Rest \cap Mine(h)) = 0
    BY <2>3, FS_EmptySet
  <2>9. Total(h, s) = Cardinality(Rest \union Mine(h))
    BY <2>2 DEF Total
  <2> QED
    BY <2>5, <2>6, <2>7, <2>8, <2>9
<1>2. Total(f, s) = Cardinality(Rest) + InSeq(f[x], s)
  BY <1>1
<1>3. Total(g, s) = Cardinality(Rest) + InSeq(g[x], s)
  BY <1>1
<1>4. Cardinality(Rest) \in Nat /\ InSeq(f[x], s) \in Nat /\ InSeq(g[x], s) \in Nat
  BY <1>1, PlacesFinite DEF Queues
<1> HIDE DEF Rest
<1> QED
  BY <1>2, <1>3, <1>4

\* Empty sequences hold nothing.
LEMMA AmongNone ==
    ASSUME NEW held, \A x \in DOMAIN held : held[x] = <<>>, NEW s
    PROVE  Total(held, s) = 0
<1>1. \A x \in DOMAIN held : Places(held[x], s) = {}
  BY DEF Places
<1>2. Among(held, s) = {}
  BY <1>1 DEF Among
<1> QED
  BY <1>2, FS_EmptySet DEF Total

\* Another sequence brings with it what it holds ...
LEMMA AmongAppend ==
    ASSUME NEW S, NEW q \in Seq(Seq(S)), NEW m \in Seq(S), NEW s
    PROVE  Total(Append(q, m), s) = Total(q, s) + InSeq(m, s)
<1> DEFINE more == Append(q, m)
           n == Len(q)
           Mine == {n + 1} \X Places(m, s)
<1>1. /\ n \in Nat /\ DOMAIN q = 1 .. n /\ DOMAIN more = 1 .. n + 1
      /\ \A i \in 1 .. n : more[i] = q[i]
      /\ more[n + 1] = m
  OBVIOUS
<1>2. q \in [1 .. n -> Seq(S)] /\ IsFiniteSet(1 .. n)
  BY <1>1, FS_Interval
<1> HIDE DEF n, more
<1>3. 1 .. n + 1 = (1 .. n) \union {n + 1} /\ n + 1 \notin 1 .. n
  BY <1>1
<1>4. IsFiniteSet(Among(q, s)) /\ Total(q, s) \in Nat
  BY <1>2, AmongFinite
<1>5. IsFiniteSet(Mine) /\ Cardinality(Mine) = InSeq(m, s) /\ InSeq(m, s) \in Nat
  <2>1. IsFiniteSet(Places(m, s)) /\ InSeq(m, s) \in Nat
    BY PlacesFinite
  <2>2. IsFiniteSet({n + 1}) /\ Cardinality({n + 1}) = 1
    BY FS_Singleton
  <2>3. IsFiniteSet(Mine) /\ Cardinality(Mine) = 1 * Cardinality(Places(m, s))
    BY <2>1, <2>2, FS_Product
  <2> QED
    BY <2>1, <2>3 DEF InSeq
<1>6. Among(more, s) = Among(q, s) \union Mine
  <2>1. ASSUME NEW p \in Among(more, s) PROVE p \in Among(q, s) \union Mine
    <3>1. PICK i \in 1 .. n + 1 : p \in {i} \X Places(more[i], s)
      BY <1>1, <2>1 DEF Among
    <3>2. CASE i = n + 1
      BY <1>1, <3>1, <3>2
    <3>3. CASE i \in 1 .. n
      BY <1>1, <3>1, <3>3 DEF Among
    <3> QED
      BY <1>3, <3>2, <3>3
  <2>2. ASSUME NEW p \in Among(q, s) PROVE p \in Among(more, s)
    <3>1. PICK i \in 1 .. n : p \in {i} \X Places(q[i], s)
      BY <1>1, <2>2 DEF Among
    <3>2. i \in DOMAIN more /\ p \in {i} \X Places(more[i], s)
      BY <1>1, <1>3, <3>1
    <3> QED
      BY <3>2 DEF Among
  <2>3. ASSUME NEW p \in Mine PROVE p \in Among(more, s)
    <3>1. n + 1 \in DOMAIN more /\ p \in {n + 1} \X Places(more[n + 1], s)
      BY <1>1, <1>3, <2>3
    <3> QED
      BY <3>1 DEF Among
  <2> QED
    BY <2>1, <2>2, <2>3
<1>7. Among(q, s) \cap Mine = {}
  <2> SUFFICES ASSUME NEW p \in Among(q, s), p \in Mine PROVE FALSE
    OBVIOUS
  <2>1. PICK i \in 1 .. n : p \in {i} \X Places(q[i], s)
    BY <1>1 DEF Among
  <2>2. p[1] = i /\ p[1] = n + 1
    BY <2>1
  <2> QED
    BY <2>2, <1>3
<1> HIDE DEF Mine
<1>8. Cardinality(Among(q, s) \union Mine)
        = Cardinality(Among(q, s)) + Cardinality(Mine) - Cardinality(Among(q, s) \cap Mine)
  BY <1>4, <1>5, FS_Union
<1>9. Cardinality(Among(q, s) \cap Mine) = 0
  BY <1>7, FS_EmptySet
<1>10. Total(more, s) = Cardinality(Among(q, s) \union Mine)
  BY <1>6 DEF Total
<1>11. Cardinality(Among(q, s)) = Total(q, s)
  BY DEF Total
<1>12. Total(more, s) = Total(q, s) + InSeq(m, s)
  BY <1>4, <1>5, <1>8, <1>9, <1>10, <1>11
<1> QED
  BY <1>12 DEF more

\* ... and the first takes it away.
LEMMA AmongTail ==
    ASSUME NEW S, NEW q \in Seq(Seq(S)), q # <<>>, NEW s
    PROVE  Total(q, s) = Total(Tail(q), s) + InSeq(Head(q), s)
<1> DEFINE rest == Tail(q)
           n == Len(q)
           Mine == {1} \X Places(q[1], s)
           T == Among(q, s) \ Mine
           f == [p \in Among(rest, s) |-> <<p[1] + 1, p[2]>>]
<1>1. /\ n \in Nat \ {0} /\ DOMAIN q = 1 .. n /\ rest \in Seq(Seq(S))
      /\ DOMAIN rest = 1 .. n - 1 /\ Head(q) = q[1] /\ q[1] \in Seq(S)
      /\ \A i \in 1 .. n - 1 : rest[i] = q[i + 1]
  OBVIOUS
<1>2. /\ q \in [1 .. n -> Seq(S)] /\ rest \in [1 .. n - 1 -> Seq(S)]
      /\ IsFiniteSet(1 .. n) /\ IsFiniteSet(1 .. n - 1)
  <2>1. IsFiniteSet(1 .. n) /\ IsFiniteSet(1 .. n - 1)
    BY <1>1, FS_Interval
  <2>2. q \in [1 .. n -> Seq(S)]
    OBVIOUS
  <2>3. rest \in [1 .. n - 1 -> Seq(S)]
    <3>1. rest \in [1 .. Len(rest) -> Seq(S)] /\ DOMAIN rest = 1 .. Len(rest)
      BY <1>1, LenProperties
    <3> QED
      BY <3>1, <1>1
  <2> QED
    BY <2>1, <2>2, <2>3
<1> HIDE DEF n, rest
<1>3. IsFiniteSet(Among(q, s)) /\ IsFiniteSet(Among(rest, s)) /\ Total(rest, s) \in Nat
  BY <1>2, AmongFinite
<1>4. IsFiniteSet(Mine) /\ Cardinality(Mine) = InSeq(q[1], s) /\ InSeq(q[1], s) \in Nat
  <2>1. IsFiniteSet(Places(q[1], s)) /\ InSeq(q[1], s) \in Nat
    BY <1>1, PlacesFinite
  <2>2. IsFiniteSet({1}) /\ Cardinality({1}) = 1
    BY FS_Singleton
  <2>3. IsFiniteSet(Mine) /\ Cardinality(Mine) = 1 * Cardinality(Places(q[1], s))
    BY <2>1, <2>2, FS_Product
  <2> QED
    BY <2>1, <2>3 DEF InSeq
\* Which pairs there are.
<1>5. \A i, j : <<i, j>> \in Among(rest, s) <=> i \in 1 .. n - 1 /\ j \in Places(q[i + 1], s)
  <2>1. \A i, j : <<i, j>> \in Among(rest, s) <=> i \in 1 .. n - 1 /\ j \in Places(rest[i], s)
    BY <1>1, AmongPairs
  <2> QED
    BY <2>1, <1>1
<1>6. \A i, j : <<i, j>> \in T <=> i \in 2 .. n /\ j \in Places(q[i], s)
  <2>1. \A i, j : <<i, j>> \in Among(q, s) <=> i \in 1 .. n /\ j \in Places(q[i], s)
    BY <1>1, AmongPairs
  <2>2. \A i, j : <<i, j>> \in Mine <=> i = 1 /\ j \in Places(q[1], s)
    OBVIOUS
  <2>3. \A i : i \in 2 .. n <=> i \in 1 .. n /\ i # 1
    BY <1>1
  <2> HIDE DEF Mine
  <2> QED
    BY <2>1, <2>2, <2>3
<1>7. \A p \in Among(rest, s) \union T : p = <<p[1], p[2]>>
  <2>1. \A h, p : p \in Among(h, s) => p = <<p[1], p[2]>>
    BY DEF Among
  <2> QED
    BY <2>1
<1> HIDE DEF T
<1>8. f \in Bijection(Among(rest, s), T)
  <2>1. f \in [Among(rest, s) -> T]
    <3>1. ASSUME NEW p \in Among(rest, s) PROVE <<p[1] + 1, p[2]>> \in T
      <4>1. p = <<p[1], p[2]>>
        BY <1>7
      <4>2. p[1] \in 1 .. n - 1 /\ p[2] \in Places(q[p[1] + 1], s)
        BY <4>1, <1>5
      <4>3. p[1] + 1 \in 2 .. n
        BY <4>2, <1>1
      <4> QED
        BY <4>2, <4>3, <1>6
    <3> QED
      BY <3>1
  <2>2. ASSUME NEW p \in Among(rest, s), NEW r \in Among(rest, s), f[p] = f[r] PROVE p = r
    <3>1. p = <<p[1], p[2]>> /\ r = <<r[1], r[2]>>
      BY <1>7
    <3>2. p[1] \in 1 .. n - 1 /\ r[1] \in 1 .. n - 1
      BY <3>1, <1>5
    <3>3. p[1] + 1 = r[1] + 1 /\ p[2] = r[2]
      BY <2>2
    <3>c. \A c, d \in Nat : c + 1 = d + 1 => c = d
      OBVIOUS
    <3>n. p[1] \in Nat /\ r[1] \in Nat
      BY <3>2, <1>1
    <3>4. p[1] = r[1]
      BY <3>3, <3>c, <3>n
    <3> QED
      BY <3>1, <3>3, <3>4
  <2>3. ASSUME NEW p \in T PROVE \E r \in Among(rest, s) : f[r] = p
    <3>1. p = <<p[1], p[2]>>
      BY <1>7
    <3>2. p[1] \in 2 .. n /\ p[2] \in Places(q[p[1]], s)
      BY <3>1, <1>6
    <3>3. p[1] - 1 \in 1 .. n - 1 /\ (p[1] - 1) + 1 = p[1]
      <4>1. \A k \in 2 .. n : k - 1 \in 1 .. n - 1 /\ (k - 1) + 1 = k
        BY <1>1
      <4> QED
        BY <3>2, <4>1
    <3>4. <<p[1] - 1, p[2]>> \in Among(rest, s)
      BY <3>2, <3>3, <1>5
    <3>5. f[<<p[1] - 1, p[2]>>] = <<(p[1] - 1) + 1, p[2]>>
      BY <3>4
    <3> QED
      BY <3>1, <3>3, <3>4, <3>5
  <2> HIDE DEF f
  <2> QED
    BY <2>1, <2>2, <2>3 DEF Bijection, Injection, Surjection, IsInjective
<1>9. IsFiniteSet(T) /\ Cardinality(T) = Total(rest, s)
  BY <1>3, <1>8, FS_Bijection DEF ExistsBijection, Total
<1>10. Among(q, s) = T \union Mine /\ T \cap Mine = {}
  <2>1. Mine \subseteq Among(q, s)
    <3>1. 1 \in DOMAIN q
      BY <1>1
    <3> QED
      BY <3>1 DEF Among
  <2> QED
    BY <2>1 DEF T
<1> HIDE DEF Mine
<1>11. Cardinality(T \union Mine) = Cardinality(T) + Cardinality(Mine) - Cardinality(T \cap Mine)
  BY <1>4, <1>9, FS_Union
<1>12. Cardinality(T \cap Mine) = 0
  BY <1>10, FS_EmptySet
<1>13. Total(q, s) = Cardinality(T \union Mine)
  BY <1>10 DEF Total
<1>14. Total(q, s) = Total(rest, s) + InSeq(q[1], s)
  BY <1>3, <1>4, <1>9, <1>11, <1>12, <1>13
<1> QED
  BY <1>1, <1>14 DEF rest

-----------------------------------------------------------------------------
(***************************************************************************)
(* Ingestion, the topic and the consumer.                                  *)
(***************************************************************************)

IngestSteps == {"idle", "request", "check", "mark", "announce"}

\* The rows of each process that are stored and not announced, and those that
\* are marked and not stored.
Stored == [w \in Workers |-> IF step[w] = "announce" THEN batch[w] ELSE <<>>]
Unsaved == [w \in Workers |-> IF step[w] = "announce" THEN <<>> ELSE batch[w]]

\* The processes that can mark a signal before the marks next expire.
MayMark(s) ==
    IF s \in marked THEN {w \in Workers : step[w] = "mark" /\ Head(page[w]) = s} ELSE Workers

\* What a process saves, it has marked in this task.
BatchesFresh == \A w \in Workers : step[w] \in {"idle", "request"} => batch[w] = <<>>

\* A message is a row that is on its way or has arrived.
RowsCover ==
    \A s \in Signals : InSeq(topic, s) + Total(buffer, s) + Total(Stored, s) <= written[s]

\* Each process marks a signal once between two expiries.
MarksCover ==
    \A s \in Signals :
        written[s] + Total(Unsaved, s) + Cardinality(MayMark(s))
            <= Cardinality(Workers) * (1 + expiries)

\* What the thread has dispatched since it was started, or holds, it has read.
ReadsCover ==
    \A s \in Signals :
        dispatched[s] + InSeq(group, s) <= InSeq(SubSeq(topic, 1, offset), s)

\* Each earlier start accounts for one embedding of a message, and what has been
\* dispatched since for the rest.
StartsCover ==
    /\ starts = 0 => thread = "off" /\ embedTasks = <<>>
    /\ \A s \in Signals :
          IF starts = 0 THEN embedded[s] = 0
          ELSE embedded[s] + Total(embedTasks, s) + InSeq(topic, s)
                   <= starts * InSeq(topic, s) + dispatched[s]

IngestInv ==
    /\ IngestTypeOK
    /\ BatchesFresh /\ RowsCover /\ MarksCover
    /\ ReadsCover /\ ConsumedOnce /\ StartsCover

-----------------------------------------------------------------------------

PageTags == DOMAIN Offers \union {NoTag}
RunAttempts == 0 .. Retries
SignalCounts == [Signals -> Nat]
ThreadPoints == {"off", "running", "dead"}

LEMMA IngestNats ==
    /\ IsFiniteSet(Workers) /\ Cardinality(Workers) \in Nat
    /\ Retries \in Nat \ {0} /\ DedupTtl \in Nat \ {0} /\ EmbedBatch \in Nat \ {0}
    /\ MaxRuns \in Nat /\ MaxEvents \in Nat
    /\ <<>> \in Queues /\ <<>> \in Seq(Queues) /\ NoTag \in PageTags
    /\ {"idle", "request", "check", "mark", "announce"} \subseteq IngestSteps
    /\ {"off", "running", "dead"} \subseteq ThreadPoints
    /\ 0 \in RunAttempts /\ \A n : n \in RunAttempts <=> n \in Nat /\ n <= Retries
    /\ \A n : n \in 0 .. DedupTtl <=> n \in Nat /\ n <= DedupTtl
    /\ \A n : n \in 0 .. MaxRuns <=> n \in Nat /\ n <= MaxRuns
  BY IngestAssumption, FS_CardinalityType DEF Queues, PageTags, IngestSteps, ThreadPoints, RunAttempts

LEMMA OffersKnown ==
    /\ DOMAIN Offers = 1 .. Len(Offers) /\ Len(Offers) \in Nat /\ 1 \in DOMAIN Offers
    /\ DOMAIN Offers \subseteq PageTags
    /\ \A v \in DOMAIN Offers : Offers[v] \in Queues /\ v \in Nat
<1>1. Offers \in Seq(Seq(Signals)) /\ Offers # <<>>
  BY IngestAssumption
<1>2. /\ DOMAIN Offers = 1 .. Len(Offers) /\ Len(Offers) \in Nat /\ 1 \in DOMAIN Offers
      /\ \A v \in DOMAIN Offers : Offers[v] \in Seq(Signals) /\ v \in Nat
  BY <1>1
<1> QED
  BY <1>2 DEF PageTags, Queues

SourceTypes ==
    /\ version \in DOMAIN Offers /\ etag \in PageTags
    /\ marked \subseteq Signals /\ ttl \in 0 .. DedupTtl
    /\ signalRows \subseteq Signals
    /\ sent \in [Workers -> PageTags] /\ attempt \in [Workers -> RunAttempts]
    /\ runs \in 0 .. MaxRuns /\ queued \in 0 .. runs

TaskTypes ==
    /\ step \in [Workers -> IngestSteps]
    /\ page \in [Workers -> Queues] /\ batch \in [Workers -> Queues]
    /\ buffer \in [Workers -> Queues] /\ topic \in Queues
    /\ \A w \in Workers : step[w] = "mark" => page[w] # <<>>

CountTypes ==
    /\ written \in SignalCounts
    /\ expiries \in Nat /\ starts \in Nat /\ expiries + starts <= MaxEvents

ThreadTypes ==
    /\ thread \in ThreadPoints /\ stopping \in BOOLEAN
    /\ offset \in 0 .. Len(topic) /\ group \in Queues
    /\ embedTasks \in Seq(Queues)
    /\ embedded \in SignalCounts /\ dispatched \in SignalCounts

LEMMA IngestTypes == IngestTypeOK <=> SourceTypes /\ TaskTypes /\ CountTypes /\ ThreadTypes
  BY DEF IngestTypeOK, SourceTypes, TaskTypes, CountTypes, ThreadTypes,
         Queues, PageTags, RunAttempts, SignalCounts, ThreadPoints, IngestSteps

\* Adding the messages of a sequence to counts.
LEMMA PlusAdds ==
    ASSUME NEW c \in SignalCounts, NEW q \in Queues
    PROVE  /\ Plus(c, q) \in SignalCounts
           /\ \A s \in Signals : Plus(c, q)[s] = c[s] + InSeq(q, s)
<1>1. \A s \in Signals : c[s] \in Nat /\ InSeq(q, s) \in Nat
  BY PlacesFinite DEF SignalCounts, Queues
<1> QED
  BY <1>1 DEF Plus, SignalCounts

-----------------------------------------------------------------------------

\* The tables of the processes, as functions to queues.
LEMMA HeldTypes ==
    ASSUME TaskTypes
    PROVE  /\ buffer \in [Workers -> Queues] /\ Stored \in [Workers -> Queues]
           /\ Unsaved \in [Workers -> Queues]
           /\ \A s : Total(buffer, s) \in Nat /\ Total(Stored, s) \in Nat
                     /\ Total(Unsaved, s) \in Nat
<1>1. /\ buffer \in [Workers -> Queues] /\ Stored \in [Workers -> Queues]
      /\ Unsaved \in [Workers -> Queues]
  BY IngestNats DEF TaskTypes, Stored, Unsaved
<1> QED
  BY <1>1, AmongFinite, IngestNats DEF Queues

\* The processes that can mark are finitely many.
LEMMA MarkersFinite ==
    \A s : /\ MayMark(s) \subseteq Workers /\ IsFiniteSet(MayMark(s))
           /\ Cardinality(MayMark(s)) \in Nat
           /\ Cardinality(MayMark(s)) <= Cardinality(Workers)
<1> SUFFICES ASSUME NEW s
             PROVE  /\ MayMark(s) \subseteq Workers /\ IsFiniteSet(MayMark(s))
                    /\ Cardinality(MayMark(s)) \in Nat
                    /\ Cardinality(MayMark(s)) <= Cardinality(Workers)
  OBVIOUS
<1>1. MayMark(s) \in SUBSET Workers
  BY DEF MayMark
<1> QED
  BY <1>1, IngestNats, FS_Subset, FS_CardinalityType

\* Where the others stay as they are, totals change by what one process holds.
LEMMA OthersStay ==
    ASSUME TaskTypes, TaskTypes', NEW w \in Workers,
           \A x \in Workers \ {w} : step'[x] = step[x] /\ batch'[x] = batch[x] /\ buffer'[x] = buffer[x],
           NEW s
    PROVE  /\ Total(Stored', s) + InSeq(Stored[w], s) = Total(Stored, s) + InSeq(Stored'[w], s)
           /\ Total(Unsaved', s) + InSeq(Unsaved[w], s) = Total(Unsaved, s) + InSeq(Unsaved'[w], s)
           /\ Total(buffer', s) + InSeq(buffer[w], s) = Total(buffer, s) + InSeq(buffer'[w], s)
           /\ InSeq(Stored[w], s) \in Nat /\ InSeq(Stored'[w], s) \in Nat
           /\ InSeq(Unsaved[w], s) \in Nat /\ InSeq(Unsaved'[w], s) \in Nat
           /\ InSeq(buffer[w], s) \in Nat /\ InSeq(buffer'[w], s) \in Nat
           /\ Total(Stored, s) \in Nat /\ Total(Stored', s) \in Nat
           /\ Total(Unsaved, s) \in Nat /\ Total(Unsaved', s) \in Nat
           /\ Total(buffer, s) \in Nat /\ Total(buffer', s) \in Nat
<1>1. /\ buffer \in [Workers -> Queues] /\ Stored \in [Workers -> Queues]
      /\ Unsaved \in [Workers -> Queues]
      /\ Total(buffer, s) \in Nat /\ Total(Stored, s) \in Nat /\ Total(Unsaved, s) \in Nat
  BY HeldTypes
<1>2. /\ buffer' \in [Workers -> Queues] /\ Stored' \in [Workers -> Queues]
      /\ Unsaved' \in [Workers -> Queues]
  BY IngestNats DEF TaskTypes, Stored, Unsaved
<1>3. /\ Total(buffer', s) \in Nat /\ Total(Stored', s) \in Nat /\ Total(Unsaved', s) \in Nat
  BY <1>2, AmongFinite, IngestNats DEF Queues
<1>4. \A x \in Workers \ {w} : Stored'[x] = Stored[x] /\ Unsaved'[x] = Unsaved[x]
  BY DEF Stored, Unsaved
<1>5. Total(Stored', s) + InSeq(Stored[w], s) = Total(Stored, s) + InSeq(Stored'[w], s)
  BY <1>1, <1>2, <1>4, AmongOne
<1>6. Total(Unsaved', s) + InSeq(Unsaved[w], s) = Total(Unsaved, s) + InSeq(Unsaved'[w], s)
  BY <1>1, <1>2, <1>4, AmongOne
<1>7. Total(buffer', s) + InSeq(buffer[w], s) = Total(buffer, s) + InSeq(buffer'[w], s)
  BY <1>1, <1>2, AmongOne
<1>8. /\ InSeq(Stored[w], s) \in Nat /\ InSeq(Stored'[w], s) \in Nat
      /\ InSeq(Unsaved[w], s) \in Nat /\ InSeq(Unsaved'[w], s) \in Nat
      /\ InSeq(buffer[w], s) \in Nat /\ InSeq(buffer'[w], s) \in Nat
  BY <1>1, <1>2, PlacesFinite DEF Queues
<1> QED
  BY <1>1, <1>3, <1>5, <1>6, <1>7, <1>8

\* What a step of one process leaves of the numbers, signal by signal.
LEMMA RowsAfter ==
    ASSUME TaskTypes, TaskTypes', CountTypes, CountTypes', RowsCover, NEW w \in Workers,
           \A x \in Workers \ {w} : step'[x] = step[x] /\ batch'[x] = batch[x] /\ buffer'[x] = buffer[x],
           \A s \in Signals :
               InSeq(topic', s) + InSeq(buffer'[w], s) + InSeq(Stored'[w], s) + written[s]
                   <= InSeq(topic, s) + InSeq(buffer[w], s) + InSeq(Stored[w], s) + written'[s]
    PROVE  RowsCover'
<1> SUFFICES ASSUME NEW s \in Signals
             PROVE  InSeq(topic', s) + Total(buffer', s) + Total(Stored', s) <= written'[s]
  BY DEF RowsCover
<1>1. /\ Total(Stored', s) + InSeq(Stored[w], s) = Total(Stored, s) + InSeq(Stored'[w], s)
      /\ Total(buffer', s) + InSeq(buffer[w], s) = Total(buffer, s) + InSeq(buffer'[w], s)
      /\ InSeq(Stored[w], s) \in Nat /\ InSeq(Stored'[w], s) \in Nat
      /\ InSeq(buffer[w], s) \in Nat /\ InSeq(buffer'[w], s) \in Nat
      /\ Total(Stored, s) \in Nat /\ Total(Stored', s) \in Nat
      /\ Total(buffer, s) \in Nat /\ Total(buffer', s) \in Nat
  BY OthersStay
<1>2. InSeq(topic, s) \in Nat /\ InSeq(topic', s) \in Nat
  BY PlacesFinite DEF TaskTypes, Queues
<1>3. written[s] \in Nat /\ written'[s] \in Nat
  BY DEF CountTypes, SignalCounts
<1>4. InSeq(topic, s) + Total(buffer, s) + Total(Stored, s) <= written[s]
  BY DEF RowsCover
<1>5. InSeq(topic', s) + InSeq(buffer'[w], s) + InSeq(Stored'[w], s) + written[s]
          <= InSeq(topic, s) + InSeq(buffer[w], s) + InSeq(Stored[w], s) + written'[s]
  OBVIOUS
<1> QED
  BY <1>1, <1>2, <1>3, <1>4, <1>5

LEMMA MarksAfter ==
    ASSUME TaskTypes, TaskTypes', CountTypes, CountTypes', MarksCover, NEW w \in Workers,
           expiries' = expiries,
           \A x \in Workers \ {w} : step'[x] = step[x] /\ batch'[x] = batch[x] /\ buffer'[x] = buffer[x],
           \A s \in Signals :
               /\ Cardinality(MayMark(s)') \in Nat
               /\ written'[s] + InSeq(Unsaved'[w], s) + Cardinality(MayMark(s)')
                      <= written[s] + InSeq(Unsaved[w], s) + Cardinality(MayMark(s))
    PROVE  MarksCover'
<1> SUFFICES ASSUME NEW s \in Signals
             PROVE  written'[s] + Total(Unsaved', s) + Cardinality(MayMark(s)')
                        <= Cardinality(Workers) * (1 + expiries')
  BY DEF MarksCover
<1> DEFINE most == Cardinality(Workers) * (1 + expiries)
<1>1. /\ Total(Unsaved', s) + InSeq(Unsaved[w], s) = Total(Unsaved, s) + InSeq(Unsaved'[w], s)
      /\ InSeq(Unsaved[w], s) \in Nat /\ InSeq(Unsaved'[w], s) \in Nat
      /\ Total(Unsaved, s) \in Nat /\ Total(Unsaved', s) \in Nat
  BY OthersStay
<1>2. written[s] \in Nat /\ written'[s] \in Nat
  BY DEF CountTypes, SignalCounts
<1>3. written[s] + Total(Unsaved, s) + Cardinality(MayMark(s)) <= most
  BY DEF MarksCover
<1>4. most \in Nat /\ most' = most
  BY IngestNats DEF CountTypes
<1>5. Cardinality(MayMark(s)) \in Nat
  BY MarkersFinite
<1>6. /\ Cardinality(MayMark(s)') \in Nat
      /\ written'[s] + InSeq(Unsaved'[w], s) + Cardinality(MayMark(s)')
             <= written[s] + InSeq(Unsaved[w], s) + Cardinality(MayMark(s))
  OBVIOUS
<1> HIDE DEF most
<1>7. written'[s] + Total(Unsaved', s) + Cardinality(MayMark(s)') <= most
  BY <1>1, <1>2, <1>3, <1>4, <1>5, <1>6
<1> QED
  BY <1>4, <1>7 DEF most

\* Fewer can mark if nobody comes to mark but what is not marked.
LEMMA FewerMark ==
    ASSUME NEW w \in Workers, NEW s, s \in marked <=> s \in marked',
           \A x \in Workers \ {w} : step'[x] = step[x] /\ page'[x] = page[x],
           step'[w] = "mark" => Head(page'[w]) \notin marked
    PROVE  /\ Cardinality(MayMark(s)') \in Nat
           /\ Cardinality(MayMark(s)') <= Cardinality(MayMark(s))
           /\ Cardinality(MayMark(s)) \in Nat
<1>1. MayMark(s)' \in SUBSET MayMark(s)
  BY DEF MayMark
<1> QED
  BY <1>1, MarkersFinite, FS_Subset, FS_CardinalityType

\* A step of a process that marks, stores, announces and delivers nothing.
LEMMA QuietStep ==
    ASSUME TaskTypes, TaskTypes', CountTypes, CountTypes', RowsCover, MarksCover, NEW w \in Workers,
           UNCHANGED <<topic, written, expiries, marked>>,
           \A x \in Workers \ {w} : /\ step'[x] = step[x] /\ page'[x] = page[x]
                                    /\ batch'[x] = batch[x] /\ buffer'[x] = buffer[x],
           buffer'[w] = buffer[w] \/ buffer'[w] = <<>>,
           Stored'[w] = Stored[w] \/ Stored'[w] = <<>>,
           Unsaved'[w] = Unsaved[w] \/ Unsaved'[w] = <<>>,
           step'[w] = "mark" => Head(page'[w]) \notin marked
    PROVE  RowsCover' /\ MarksCover'
<1>1. ASSUME NEW s \in Signals
      PROVE  /\ InSeq(Stored'[w], s) <= InSeq(Stored[w], s)
             /\ InSeq(Unsaved'[w], s) <= InSeq(Unsaved[w], s)
             /\ InSeq(buffer'[w], s) <= InSeq(buffer[w], s)
             /\ InSeq(Stored[w], s) \in Nat /\ InSeq(Stored'[w], s) \in Nat
             /\ InSeq(Unsaved[w], s) \in Nat /\ InSeq(Unsaved'[w], s) \in Nat
             /\ InSeq(buffer[w], s) \in Nat /\ InSeq(buffer'[w], s) \in Nat
  <2>1. /\ InSeq(Stored[w], s) \in Nat /\ InSeq(Stored'[w], s) \in Nat
        /\ InSeq(Unsaved[w], s) \in Nat /\ InSeq(Unsaved'[w], s) \in Nat
        /\ InSeq(buffer[w], s) \in Nat /\ InSeq(buffer'[w], s) \in Nat
    BY OthersStay
  <2>2. ASSUME NEW p, NEW q, q = p \/ q = <<>>, InSeq(p, s) \in Nat
        PROVE  InSeq(q, s) <= InSeq(p, s)
    BY <2>2, InEmpty
  <2> QED
    BY <2>1, <2>2
<1>2. ASSUME NEW s \in Signals
      PROVE  /\ Cardinality(MayMark(s)') \in Nat
             /\ Cardinality(MayMark(s)') <= Cardinality(MayMark(s))
             /\ Cardinality(MayMark(s)) \in Nat
  BY FewerMark
<1>3. \A s \in Signals : InSeq(topic, s) \in Nat /\ written[s] \in Nat
  BY PlacesFinite DEF TaskTypes, Queues, CountTypes, SignalCounts
<1>4. RowsCover'
  <2>1. \A s \in Signals :
            InSeq(topic', s) + InSeq(buffer'[w], s) + InSeq(Stored'[w], s) + written[s]
                <= InSeq(topic, s) + InSeq(buffer[w], s) + InSeq(Stored[w], s) + written'[s]
    BY <1>1, <1>3
  <2> QED
    BY <2>1, RowsAfter
<1>5. MarksCover'
  <2>1. \A s \in Signals :
            /\ Cardinality(MayMark(s)') \in Nat
            /\ written'[s] + InSeq(Unsaved'[w], s) + Cardinality(MayMark(s)')
                   <= written[s] + InSeq(Unsaved[w], s) + Cardinality(MayMark(s))
    BY <1>1, <1>2, <1>3
  <2> QED
    BY <2>1, MarksAfter
<1> QED
  BY <1>4, <1>5

\* A mark is one more row to save, and one process fewer that can mark it.
LEMMA MarkStep ==
    ASSUME TaskTypes, TaskTypes', CountTypes, CountTypes', RowsCover, MarksCover,
           NEW w \in Workers, MarkSeen(w)
    PROVE  RowsCover' /\ MarksCover'
<1> DEFINE h == Head(page[w])
<1>1. /\ step[w] = "mark" /\ step' = [step EXCEPT ![w] = "check"]
      /\ marked' = marked \union {h}
      /\ page' = [page EXCEPT ![w] = Tail(page[w])]
      /\ batch' = [batch EXCEPT ![w] = Append(batch[w], h)]
      /\ UNCHANGED <<topic, written, expiries, buffer>>
  BY DEF MarkSeen, Goto, tableVars
<1>2. /\ step \in [Workers -> IngestSteps] /\ page \in [Workers -> Queues] /\ batch \in [Workers -> Queues]
      /\ page[w] # <<>>
  BY <1>1 DEF TaskTypes
<1>3. h \in Signals /\ batch[w] \in Queues
  <2>1. page[w] \in Seq(Signals) /\ page[w] # <<>>
    BY <1>2 DEF Queues
  <2> QED
    BY <2>1, <1>2, HeadTailProperties
<1> HIDE DEF h
<1>4. /\ \A x \in Workers \ {w} : /\ step'[x] = step[x] /\ page'[x] = page[x]
                                  /\ batch'[x] = batch[x] /\ buffer'[x] = buffer[x]
      /\ step'[w] = "check" /\ batch'[w] = Append(batch[w], h)
  BY <1>1, <1>2
<1>5. /\ Stored[w] = <<>> /\ Stored'[w] = <<>>
      /\ Unsaved[w] = batch[w] /\ Unsaved'[w] = Append(batch[w], h) /\ buffer'[w] = buffer[w]
  BY <1>1, <1>4 DEF Stored, Unsaved
<1>6. \A s \in Signals :
          /\ InSeq(batch[w], s) \in Nat
          /\ InSeq(Unsaved'[w], s) = IF h = s THEN InSeq(batch[w], s) + 1 ELSE InSeq(batch[w], s)
  BY <1>3, <1>5, InAppend, PlacesFinite DEF Queues
<1>7. \A s \in Signals : /\ InSeq(topic, s) \in Nat /\ written[s] \in Nat
                         /\ InSeq(buffer[w], s) \in Nat
  BY PlacesFinite DEF TaskTypes, Queues, CountTypes, SignalCounts
<1>8. RowsCover'
  <2>1. \A s \in Signals :
            InSeq(topic', s) + InSeq(buffer'[w], s) + InSeq(Stored'[w], s) + written[s]
                <= InSeq(topic, s) + InSeq(buffer[w], s) + InSeq(Stored[w], s) + written'[s]
    BY <1>1, <1>5, <1>7, InEmpty
  <2> QED
    BY <2>1, <1>4, RowsAfter
<1>9. ASSUME NEW s \in Signals
      PROVE  /\ Cardinality(MayMark(s)') \in Nat /\ Cardinality(MayMark(s)) \in Nat
             /\ Cardinality(MayMark(s)') <= Cardinality(MayMark(s)) - (IF h = s THEN 1 ELSE 0)
  <2>1. CASE h = s
    <3>1. w \in MayMark(s) /\ MayMark(s)' \in SUBSET (MayMark(s) \ {w})
      BY <1>1, <1>4, <2>1 DEF MayMark, h
    <3>2. /\ IsFiniteSet(MayMark(s) \ {w})
          /\ Cardinality(MayMark(s) \ {w}) = Cardinality(MayMark(s)) - 1
      BY <3>1, MarkersFinite, FS_RemoveElement
    <3>3. /\ Cardinality(MayMark(s)') \in Nat
          /\ Cardinality(MayMark(s)') <= Cardinality(MayMark(s) \ {w})
      BY <3>1, <3>2, FS_Subset, FS_CardinalityType
    <3> QED
      BY <2>1, <3>2, <3>3, MarkersFinite
  <2>2. CASE h # s
    <3>1. s \in marked <=> s \in marked'
      BY <1>1, <2>2
    <3>2. step'[w] # "mark"
      BY <1>4
    <3>3. /\ Cardinality(MayMark(s)') \in Nat /\ Cardinality(MayMark(s)) \in Nat
          /\ Cardinality(MayMark(s)') <= Cardinality(MayMark(s))
      BY <1>4, <3>1, <3>2, FewerMark
    <3> QED
      BY <2>2, <3>3
  <2> QED
    BY <2>1, <2>2
<1>10. MarksCover'
  <2>1. ASSUME NEW s \in Signals
        PROVE  /\ Cardinality(MayMark(s)') \in Nat
               /\ written'[s] + InSeq(Unsaved'[w], s) + Cardinality(MayMark(s)')
                      <= written[s] + InSeq(Unsaved[w], s) + Cardinality(MayMark(s))
    <3>1. written'[s] = written[s] /\ written[s] \in Nat /\ Unsaved[w] = batch[w]
      BY <1>1, <1>5, <1>7
    <3> QED
      BY <3>1, <1>6, <1>9
  <2> QED
    BY <2>1, <1>1, <1>4, MarksAfter
<1> QED
  BY <1>8, <1>10

\* A batch that is saved is as many rows as it has signals.
LEMMA SaveStep ==
    ASSUME TaskTypes, TaskTypes', CountTypes, CountTypes', RowsCover, MarksCover,
           NEW w \in Workers, Save(w)
    PROVE  RowsCover' /\ MarksCover'
<1>1. /\ step[w] = "check" /\ step' = [step EXCEPT ![w] = "announce"]
      /\ written' = Plus(written, batch[w])
      /\ UNCHANGED <<topic, marked, expiries, buffer, page, batch>>
  BY DEF Save, Goto, dedupVars, workVars
<1>2. step \in [Workers -> IngestSteps] /\ batch \in [Workers -> Queues] /\ written \in SignalCounts
  BY DEF TaskTypes, CountTypes
<1>3. /\ \A x \in Workers \ {w} : /\ step'[x] = step[x] /\ page'[x] = page[x]
                                  /\ batch'[x] = batch[x] /\ buffer'[x] = buffer[x]
      /\ step'[w] = "announce" /\ batch'[w] = batch[w] /\ batch[w] \in Queues
  BY <1>1, <1>2
<1>4. /\ Stored[w] = <<>> /\ Stored'[w] = batch[w]
      /\ Unsaved[w] = batch[w] /\ Unsaved'[w] = <<>> /\ buffer'[w] = buffer[w]
  BY <1>1, <1>3 DEF Stored, Unsaved
<1>5. \A s \in Signals : /\ written'[s] = written[s] + InSeq(batch[w], s)
                         /\ InSeq(batch[w], s) \in Nat /\ InSeq(<<>>, s) = 0
  BY <1>1, <1>2, <1>3, PlusAdds, PlacesFinite, InEmpty DEF Queues
<1>6. \A s \in Signals : /\ InSeq(topic, s) \in Nat /\ written[s] \in Nat
                         /\ InSeq(buffer[w], s) \in Nat
  BY PlacesFinite DEF TaskTypes, Queues, CountTypes, SignalCounts
<1>7. RowsCover'
  <2>1. ASSUME NEW s \in Signals
        PROVE  InSeq(topic', s) + InSeq(buffer'[w], s) + InSeq(Stored'[w], s) + written[s]
                <= InSeq(topic, s) + InSeq(buffer[w], s) + InSeq(Stored[w], s) + written'[s]
    <3>1. topic' = topic /\ buffer'[w] = buffer[w] /\ Stored'[w] = batch[w] /\ Stored[w] = <<>>
      BY <1>1, <1>4
    <3> QED
      BY <3>1, <1>5, <1>6
  <2> QED
    BY <2>1, <1>3, RowsAfter
<1>8. ASSUME NEW s \in Signals
      PROVE  /\ Cardinality(MayMark(s)') \in Nat
             /\ Cardinality(MayMark(s)') <= Cardinality(MayMark(s))
             /\ Cardinality(MayMark(s)) \in Nat
  BY <1>1, <1>3, FewerMark
<1>9. MarksCover'
  <2>1. ASSUME NEW s \in Signals
        PROVE  /\ Cardinality(MayMark(s)') \in Nat
               /\ written'[s] + InSeq(Unsaved'[w], s) + Cardinality(MayMark(s)')
                      <= written[s] + InSeq(Unsaved[w], s) + Cardinality(MayMark(s))
    <3>1. Unsaved'[w] = <<>> /\ Unsaved[w] = batch[w]
      BY <1>4
    <3> QED
      BY <3>1, <1>5, <1>6, <1>8
  <2> QED
    BY <2>1, <1>1, <1>3, MarksAfter
<1> QED
  BY <1>7, <1>9

\* What is announced goes from the batch to the buffer, what is delivered from
\* the buffer to the topic.
LEMMA MoveStep ==
    ASSUME TaskTypes, TaskTypes', CountTypes, CountTypes', RowsCover, MarksCover,
           NEW w \in Workers, Announce(w) \/ Deliver(w)
    PROVE  RowsCover' /\ MarksCover'
<1>1. /\ UNCHANGED <<step, page, written, marked, expiries>>
      /\ \A x \in Workers \ {w} : /\ step'[x] = step[x] /\ page'[x] = page[x]
                                  /\ batch'[x] = batch[x] /\ buffer'[x] = buffer[x]
  BY DEF Announce, Deliver, tableVars, dedupVars, workVars, TaskTypes
<1>2. \A s \in Signals : written[s] \in Nat
  BY DEF CountTypes, SignalCounts
<1>3. CASE Announce(w)
  <2> DEFINE h == Head(batch[w])
  <2>1. /\ batch[w] # <<>> /\ step[w] = "announce" /\ topic' = topic
        /\ buffer' = [buffer EXCEPT ![w] = Append(buffer[w], h)]
        /\ batch' = [batch EXCEPT ![w] = Tail(batch[w])]
    BY <1>3 DEF Announce
  <2>2. batch[w] \in Seq(Signals) /\ h \in Signals /\ buffer[w] \in Seq(Signals)
        /\ topic \in Seq(Signals) /\ Tail(batch[w]) \in Seq(Signals)
    <3>1. batch[w] \in Seq(Signals) /\ buffer[w] \in Seq(Signals) /\ topic \in Seq(Signals)
      BY DEF TaskTypes, Queues
    <3> QED
      BY <2>1, <3>1, HeadTailProperties
  <2>3. /\ Stored[w] = batch[w] /\ Stored'[w] = Tail(batch[w])
        /\ buffer'[w] = Append(buffer[w], h) /\ Unsaved[w] = <<>> /\ Unsaved'[w] = <<>>
    BY <1>1, <2>1 DEF Stored, Unsaved, TaskTypes
  <2>4. ASSUME NEW s \in Signals
        PROVE  /\ InSeq(batch[w], s) =
                    IF h = s THEN InSeq(Tail(batch[w]), s) + 1 ELSE InSeq(Tail(batch[w]), s)
               /\ InSeq(Append(buffer[w], h), s) =
                    IF h = s THEN InSeq(buffer[w], s) + 1 ELSE InSeq(buffer[w], s)
               /\ InSeq(Tail(batch[w]), s) \in Nat /\ InSeq(buffer[w], s) \in Nat
               /\ InSeq(topic, s) \in Nat
    <3>1. InSeq(batch[w], s) =
              IF h = s THEN InSeq(Tail(batch[w]), s) + 1 ELSE InSeq(Tail(batch[w]), s)
      BY <2>1, <2>2, InTail
    <3> HIDE DEF h
    <3>2. InSeq(Append(buffer[w], h), s) =
              IF h = s THEN InSeq(buffer[w], s) + 1 ELSE InSeq(buffer[w], s)
      BY <2>2, InAppend
    <3>3. /\ InSeq(Tail(batch[w]), s) \in Nat /\ InSeq(buffer[w], s) \in Nat
          /\ InSeq(topic, s) \in Nat
      BY <2>2, PlacesFinite
    <3> QED
      BY <3>1, <3>2, <3>3
  <2>5. ASSUME NEW s \in Signals
        PROVE  InSeq(topic', s) + InSeq(buffer'[w], s) + InSeq(Stored'[w], s) + written[s]
                <= InSeq(topic, s) + InSeq(buffer[w], s) + InSeq(Stored[w], s) + written'[s]
    <3>1. topic' = topic /\ Stored'[w] = Tail(batch[w]) /\ Stored[w] = batch[w]
          /\ buffer'[w] = Append(buffer[w], h) /\ written' = written
      BY <1>1, <2>1, <2>3
    <3> HIDE DEF h
    <3> QED
      BY <3>1, <2>4, <1>2
  <2>6. RowsCover'
    BY <2>5, <1>1, RowsAfter
  <2>7. ASSUME NEW s \in Signals
        PROVE  /\ Cardinality(MayMark(s)') \in Nat
               /\ written'[s] + InSeq(Unsaved'[w], s) + Cardinality(MayMark(s)')
                      <= written[s] + InSeq(Unsaved[w], s) + Cardinality(MayMark(s))
    <3>1. MayMark(s)' = MayMark(s) /\ Unsaved'[w] = Unsaved[w] /\ written' = written
      BY <1>1, <2>3 DEF MayMark
    <3>2. Cardinality(MayMark(s)) \in Nat /\ InSeq(Unsaved[w], s) \in Nat
      BY <2>3, MarkersFinite, InEmpty
    <3> QED
      BY <3>1, <3>2, <1>2
  <2>8. MarksCover'
    BY <2>7, <1>1, MarksAfter
  <2> QED
    BY <2>6, <2>8
<1>4. CASE Deliver(w)
  <2> DEFINE h == Head(buffer[w])
  <2>1. /\ buffer[w] # <<>> /\ topic' = Append(topic, h) /\ batch' = batch
        /\ buffer' = [buffer EXCEPT ![w] = Tail(buffer[w])]
    BY <1>4 DEF Deliver, workVars
  <2>2. /\ buffer[w] \in Seq(Signals) /\ h \in Signals /\ topic \in Seq(Signals)
        /\ Tail(buffer[w]) \in Seq(Signals) /\ batch[w] \in Seq(Signals)
    <3>1. buffer[w] \in Seq(Signals) /\ topic \in Seq(Signals) /\ batch[w] \in Seq(Signals)
      BY DEF TaskTypes, Queues
    <3> QED
      BY <2>1, <3>1, HeadTailProperties
  <2>3. buffer'[w] = Tail(buffer[w]) /\ Stored' = Stored /\ Unsaved' = Unsaved
    BY <1>1, <2>1 DEF Stored, Unsaved, TaskTypes
  <2>4. ASSUME NEW s \in Signals
        PROVE  /\ InSeq(buffer[w], s) =
                    IF h = s THEN InSeq(Tail(buffer[w]), s) + 1 ELSE InSeq(Tail(buffer[w]), s)
               /\ InSeq(Append(topic, h), s) =
                    IF h = s THEN InSeq(topic, s) + 1 ELSE InSeq(topic, s)
               /\ InSeq(Tail(buffer[w]), s) \in Nat /\ InSeq(topic, s) \in Nat
               /\ InSeq(Stored[w], s) \in Nat /\ InSeq(Unsaved[w], s) \in Nat
    <3>1. Stored[w] \in Seq(Signals) /\ Unsaved[w] \in Seq(Signals)
      BY <2>2 DEF Stored, Unsaved
    <3>2. InSeq(buffer[w], s) =
              IF h = s THEN InSeq(Tail(buffer[w]), s) + 1 ELSE InSeq(Tail(buffer[w]), s)
      BY <2>1, <2>2, InTail
    <3> HIDE DEF h
    <3>3. InSeq(Append(topic, h), s) = IF h = s THEN InSeq(topic, s) + 1 ELSE InSeq(topic, s)
      BY <2>2, InAppend
    <3>4. /\ InSeq(Tail(buffer[w]), s) \in Nat /\ InSeq(topic, s) \in Nat
          /\ InSeq(Stored[w], s) \in Nat /\ InSeq(Unsaved[w], s) \in Nat
      BY <2>2, <3>1, PlacesFinite
    <3> QED
      BY <3>2, <3>3, <3>4
  <2>5. ASSUME NEW s \in Signals
        PROVE  InSeq(topic', s) + InSeq(buffer'[w], s) + InSeq(Stored'[w], s) + written[s]
                <= InSeq(topic, s) + InSeq(buffer[w], s) + InSeq(Stored[w], s) + written'[s]
    <3>1. /\ topic' = Append(topic, h) /\ Stored'[w] = Stored[w]
          /\ buffer'[w] = Tail(buffer[w]) /\ written' = written
      BY <1>1, <2>1, <2>3
    <3> HIDE DEF h
    <3> QED
      BY <3>1, <2>4, <1>2
  <2>6. RowsCover'
    BY <2>5, <1>1, RowsAfter
  <2>7. ASSUME NEW s \in Signals
        PROVE  /\ Cardinality(MayMark(s)') \in Nat
               /\ written'[s] + InSeq(Unsaved'[w], s) + Cardinality(MayMark(s)')
                      <= written[s] + InSeq(Unsaved[w], s) + Cardinality(MayMark(s))
    <3>1. MayMark(s)' = MayMark(s) /\ Unsaved'[w] = Unsaved[w] /\ written' = written
      BY <1>1, <2>3 DEF MayMark
    <3>2. Cardinality(MayMark(s)) \in Nat /\ InSeq(Unsaved[w], s) \in Nat
      BY <2>4, MarkersFinite
    <3> QED
      BY <3>1, <3>2, <1>2
  <2>8. MarksCover'
    BY <2>7, <1>1, MarksAfter
  <2> QED
    BY <2>6, <2>8
<1> QED
  BY <1>3, <1>4

\* An expiry lets every process mark again.
LEMMA TickStep ==
    ASSUME TaskTypes, CountTypes, RowsCover, MarksCover, Tick
    PROVE  RowsCover' /\ MarksCover'
<1>1. /\ UNCHANGED <<step, page, batch, buffer, topic, written>>
      /\ \/ marked' = marked /\ expiries' = expiries
         \/ marked' = {} /\ expiries' = expiries + 1
  BY DEF Tick, tableVars, workVars
<1>2. Stored' = Stored /\ Unsaved' = Unsaved
  BY <1>1 DEF Stored, Unsaved
<1>3. RowsCover'
  BY <1>1, <1>2 DEF RowsCover, Total, Among, InSeq, Places
<1>4. ASSUME NEW s \in Signals
      PROVE  written'[s] + Total(Unsaved', s) + Cardinality(MayMark(s)')
                 <= Cardinality(Workers) * (1 + expiries')
  <2> DEFINE all == Cardinality(Workers)
             may == Cardinality(MayMark(s))
             held == written[s] + Total(Unsaved, s)
  <2>1. held + may <= all * (1 + expiries)
    BY DEF MarksCover
  <2>2. all \in Nat /\ may \in Nat /\ held \in Nat /\ expiries \in Nat
    BY IngestNats, MarkersFinite, HeldTypes DEF CountTypes, SignalCounts
  <2>3. written'[s] + Total(Unsaved', s) = held
    BY <1>1, <1>2
  <2>4. CASE marked' = marked /\ expiries' = expiries
    <3>1. MayMark(s)' = MayMark(s)
      BY <1>1, <2>4 DEF MayMark
    <3> HIDE DEF all, may, held
    <3>2. held + may <= all * (1 + expiries')
      BY <2>1, <2>4
    <3> QED
      BY <3>1, <3>2, <2>3 DEF all, may
  <2>5. CASE marked' = {} /\ expiries' = expiries + 1
    <3>1. MayMark(s)' = Workers
      BY <2>5 DEF MayMark
    <3> HIDE DEF all, may, held
    <3>2. \A a, e \in Nat : a * (1 + (e + 1)) = a * (1 + e) + a /\ a * (1 + e) \in Nat
      OBVIOUS
    <3>3. held + all <= all * (1 + expiries')
      BY <2>1, <2>2, <2>5, <3>2
    <3> QED
      BY <3>1, <3>3, <2>3 DEF all
  <2> QED
    BY <1>1, <2>4, <2>5
<1> QED
  BY <1>3, <1>4 DEF MarksCover

\* IngestSteps of which the marks and the rows know nothing.
LEMMA SourceStill ==
    ASSUME RowsCover, MarksCover,
           UNCHANGED <<step, page, batch, buffer, topic, written, marked, expiries>>
    PROVE  RowsCover' /\ MarksCover'
<1>1. Stored' = Stored /\ Unsaved' = Unsaved /\ buffer' = buffer /\ topic' = topic
      /\ written' = written /\ expiries' = expiries
  BY DEF Stored, Unsaved
<1>2. \A s : MayMark(s)' = MayMark(s)
  BY DEF MayMark
<1> QED
  BY <1>1, <1>2 DEF RowsCover, MarksCover, Total, Among, InSeq, Places
-----------------------------------------------------------------------------

\* A step that moves one process only keeps the types.
LEMMA TaskMoves ==
    ASSUME TaskTypes, NEW w \in Workers, topic' = topic,
           step' = step \/ \E a \in IngestSteps : step' = [step EXCEPT ![w] = a],
           page' = page \/ \E p \in Queues : page' = [page EXCEPT ![w] = p],
           batch' = batch \/ \E p \in Queues : batch' = [batch EXCEPT ![w] = p],
           buffer' = buffer \/ \E p \in Queues : buffer' = [buffer EXCEPT ![w] = p],
           step'[w] = "mark" => page'[w] # <<>>
    PROVE  /\ TaskTypes'
           /\ \A x \in Workers \ {w} : /\ step'[x] = step[x] /\ page'[x] = page[x]
                                       /\ batch'[x] = batch[x] /\ buffer'[x] = buffer[x]
<1>1. /\ step \in [Workers -> IngestSteps] /\ page \in [Workers -> Queues] /\ batch \in [Workers -> Queues]
      /\ buffer \in [Workers -> Queues] /\ topic \in Queues
      /\ \A x \in Workers : step[x] = "mark" => page[x] # <<>>
  BY DEF TaskTypes
<1>2. /\ step' \in [Workers -> IngestSteps] /\ page' \in [Workers -> Queues]
      /\ batch' \in [Workers -> Queues] /\ buffer' \in [Workers -> Queues]
  BY <1>1
<1>3. \A x \in Workers \ {w} : /\ step'[x] = step[x] /\ page'[x] = page[x]
                               /\ batch'[x] = batch[x] /\ buffer'[x] = buffer[x]
  BY <1>1
<1>4. \A x \in Workers : step'[x] = "mark" => page'[x] # <<>>
  BY <1>1, <1>3
<1> QED
  BY <1>1, <1>2, <1>3, <1>4 DEF TaskTypes

SourceInv == SourceTypes /\ TaskTypes /\ CountTypes /\ BatchesFresh /\ RowsCover /\ MarksCover

\* The quiet steps of a process.
QuietAction(w) ==
    StartIngest(w) \/ NotModified(w) \/ Answer(w) \/ RequestFails(w) \/ CheckSeen(w)
    \/ EndIngest(w) \/ RaiseInTask(w) \/ Crash(w)

\* Such a step takes the process from one point to another and may empty its queues.
LEMMA QuietEffect ==
    ASSUME SourceInv, NEW w \in Workers, QuietAction(w)
    PROVE  /\ UNCHANGED <<topic, written, expiries, marked, ttl, version>>
           /\ step' = step \/ \E a \in IngestSteps : step' = [step EXCEPT ![w] = a]
           /\ page' = page \/ \E p \in Queues : page' = [page EXCEPT ![w] = p]
           /\ batch' = batch \/ batch' = [batch EXCEPT ![w] = <<>>]
           /\ buffer' = buffer \/ buffer' = [buffer EXCEPT ![w] = <<>>]
           /\ step'[w] = "mark" => page'[w] # <<>> /\ Head(page'[w]) \notin marked
           /\ step'[w] \in {"idle", "request"} => batch'[w] = <<>>
           /\ Stored'[w] = Stored[w] \/ Stored'[w] = <<>>
           /\ Unsaved'[w] = Unsaved[w] \/ Unsaved'[w] = <<>>
<1>1. /\ step \in [Workers -> IngestSteps] /\ page \in [Workers -> Queues] /\ batch \in [Workers -> Queues]
      /\ buffer \in [Workers -> Queues]
      /\ step[w] \in {"idle", "request"} => batch[w] = <<>>
  BY DEF SourceInv, TaskTypes, BatchesFresh
<1> USE IngestNats
<1>2. CASE StartIngest(w)
  <2>1. /\ step[w] = "idle" /\ step' = [step EXCEPT ![w] = "request"]
        /\ UNCHANGED <<topic, written, expiries, marked, ttl, version, page, batch, buffer>>
    BY <1>2 DEF StartIngest, Goto, sourceVars, dedupVars, workVars
  <2> QED
    BY <2>1, <1>1 DEF Stored, Unsaved
<1>3. CASE NotModified(w) \/ Answer(w)
  <2>1. /\ step[w] = "request" /\ step' = [step EXCEPT ![w] = "check"]
        /\ UNCHANGED <<topic, written, expiries, marked, ttl, version, batch, buffer>>
    BY <1>3 DEF NotModified, Answer, Goto, sourceVars, dedupVars, tableVars, workVars
  <2>2. page' = page \/ \E p \in Queues : page' = [page EXCEPT ![w] = p]
    <3>1. Offers[version] \in Queues
      BY OffersKnown DEF SourceInv, SourceTypes
    <3> QED
      BY <1>3, <3>1 DEF NotModified, Answer, workVars
  <2> QED
    BY <2>1, <2>2, <1>1 DEF Stored, Unsaved
<1>4. CASE \/ RequestFails(w) \/ RaiseInTask(w) \/ Crash(w)
  <2>1. UNCHANGED <<topic, written, expiries, marked, ttl, version>>
    BY <1>4 DEF RequestFails, RaiseInTask, Crash, sourceVars, dedupVars, tableVars
  <2>2. CASE Leave(w)
    <3>1. /\ step' = [step EXCEPT ![w] = "idle"]
          /\ page' = [page EXCEPT ![w] = <<>>] /\ batch' = [batch EXCEPT ![w] = <<>>]
      BY <2>2 DEF Leave
    <3>2. buffer' = buffer \/ buffer' = [buffer EXCEPT ![w] = <<>>]
      BY <1>4 DEF RequestFails, RaiseInTask, Crash
    <3> QED
      BY <2>1, <3>1, <3>2, <1>1 DEF Stored, Unsaved
  <2>3. CASE ~Leave(w)
    <3>1. UNCHANGED <<step, page, batch, buffer>> /\ step[w] = "request"
      BY <1>4, <2>3 DEF RequestFails, RaiseInTask, Crash, workVars
    <3> QED
      BY <2>1, <3>1, <1>1 DEF Stored, Unsaved
  <2> QED
    BY <2>2, <2>3
<1>5. CASE CheckSeen(w)
  <2>1. /\ UNCHANGED <<topic, written, expiries, marked, ttl, version, batch, buffer>>
        /\ page[w] # <<>> /\ step[w] = "check"
        /\ \/ page' = [page EXCEPT ![w] = Tail(page[w])] /\ step' = step
           \/ /\ step' = [step EXCEPT ![w] = "mark"] /\ page' = page
              /\ Head(page[w]) \notin marked
    BY <1>5 DEF CheckSeen, Goto, sourceVars, dedupVars, tableVars
  <2>2. Tail(page[w]) \in Queues
    BY <2>1, <1>1, HeadTailProperties DEF Queues
  <2> QED
    BY <2>1, <2>2, <1>1 DEF Stored, Unsaved
<1>6. CASE EndIngest(w)
  <2>1. /\ step[w] = "announce" /\ step' = [step EXCEPT ![w] = "idle"] /\ batch[w] = <<>>
        /\ UNCHANGED <<topic, written, expiries, marked, ttl, version, page, batch, buffer>>
    BY <1>6 DEF EndIngest, Goto, sourceVars, dedupVars, tableVars, workVars
  <2> QED
    BY <2>1, <1>1 DEF Stored, Unsaved
<1> QED
  BY <1>2, <1>3, <1>4, <1>5, <1>6 DEF QuietAction

LEMMA QuietTypes ==
    ASSUME SourceInv, NEW w \in Workers, QuietAction(w)
    PROVE  SourceTypes' /\ starts' = starts
<1>1. SourceTypes /\ version' = version /\ marked' = marked /\ ttl' = ttl
  BY QuietEffect DEF SourceInv
<1>2. starts' = starts
  BY DEF QuietAction, StartIngest, NotModified, Answer, RequestFails, CheckSeen, EndIngest,
         RaiseInTask, Crash, consumerVars
<1>3. etag' \in PageTags
  <2>1. etag' \in {etag, version}
    BY <1>1 DEF QuietAction, StartIngest, NotModified, Answer, RequestFails, CheckSeen,
         EndIngest, RaiseInTask, Crash, sourceVars
  <2> QED
    BY <1>1, <2>1 DEF SourceTypes, PageTags
<1>4. signalRows' \subseteq Signals
  <2>1. signalRows' \subseteq signalRows
    BY DEF QuietAction, StartIngest, NotModified, Answer, RequestFails, CheckSeen,
           EndIngest, RaiseInTask, Crash, tableVars, PurgeOld
  <2> QED
    BY <1>1, <2>1 DEF SourceTypes
<1>5. sent' \in [Workers -> PageTags] /\ attempt' \in [Workers -> RunAttempts]
  <2>1. sent \in [Workers -> PageTags] /\ attempt \in [Workers -> RunAttempts] /\ etag \in PageTags
    BY <1>1 DEF SourceTypes
  <2>2. \/ sent' = sent /\ attempt' = attempt
        \/ Answered(w)
        \/ sent' = [sent EXCEPT ![w] = etag] /\ attempt' = attempt
        \/ /\ attempt[w] + 1 < Retries /\ attempt' = [attempt EXCEPT ![w] = attempt[w] + 1]
           /\ sent' = sent
    BY DEF QuietAction, StartIngest, NotModified, Answer, RequestFails, CheckSeen,
           EndIngest, RaiseInTask, Crash, requestVars, Leave
  <2>3. attempt[w] + 1 < Retries => attempt[w] + 1 \in RunAttempts
    BY <2>1, IngestNats
  <2> QED
    BY <2>1, <2>2, <2>3, IngestNats DEF Answered
<1>6. runs' \in 0 .. MaxRuns /\ queued' \in 0 .. runs'
  <2>1. runs \in 0 .. MaxRuns /\ queued \in 0 .. runs
    BY <1>1 DEF SourceTypes
  <2>2. runs' = runs /\ (queued' = queued \/ (queued > 0 /\ queued' = queued - 1))
    BY DEF QuietAction, StartIngest, NotModified, Answer, RequestFails, CheckSeen,
           EndIngest, RaiseInTask, Crash, queueVars
  <2> QED
    BY <2>1, <2>2, IngestNats
<1> QED
  BY <1>1, <1>2, <1>3, <1>4, <1>5, <1>6 DEF SourceTypes

\* Every step of a process keeps the invariant of the source side.
LEMMA ProcessSteps ==
    ASSUME SourceInv, NEW w \in Workers,
           QuietAction(w) \/ MarkSeen(w) \/ Save(w) \/ Announce(w) \/ Deliver(w)
    PROVE  SourceInv'
<1>i. SourceTypes /\ TaskTypes /\ CountTypes /\ BatchesFresh /\ RowsCover /\ MarksCover
  BY DEF SourceInv
<1>t. /\ step \in [Workers -> IngestSteps] /\ page \in [Workers -> Queues] /\ batch \in [Workers -> Queues]
      /\ buffer \in [Workers -> Queues] /\ topic \in Queues
      /\ step[w] = "mark" => page[w] # <<>>
      /\ \A x \in Workers : step[x] \in {"idle", "request"} => batch[x] = <<>>
      /\ written \in SignalCounts /\ signalRows \subseteq Signals /\ marked \subseteq Signals
  BY <1>i DEF TaskTypes, BatchesFresh, CountTypes, SourceTypes
<1>1. CASE QuietAction(w)
  <2>1. /\ UNCHANGED <<topic, written, expiries, marked>>
        /\ step' = step \/ \E a \in IngestSteps : step' = [step EXCEPT ![w] = a]
        /\ page' = page \/ \E p \in Queues : page' = [page EXCEPT ![w] = p]
        /\ batch' = batch \/ batch' = [batch EXCEPT ![w] = <<>>]
        /\ buffer' = buffer \/ buffer' = [buffer EXCEPT ![w] = <<>>]
        /\ step'[w] = "mark" => page'[w] # <<>> /\ Head(page'[w]) \notin marked
        /\ step'[w] \in {"idle", "request"} => batch'[w] = <<>>
        /\ Stored'[w] = Stored[w] \/ Stored'[w] = <<>>
        /\ Unsaved'[w] = Unsaved[w] \/ Unsaved'[w] = <<>>
    BY <1>1, QuietEffect
  <2>2. /\ batch' = batch \/ \E p \in Queues : batch' = [batch EXCEPT ![w] = p]
        /\ buffer' = buffer \/ \E p \in Queues : buffer' = [buffer EXCEPT ![w] = p]
    BY <2>1, IngestNats
  <2>3. /\ TaskTypes'
        /\ \A x \in Workers \ {w} : /\ step'[x] = step[x] /\ page'[x] = page[x]
                                    /\ batch'[x] = batch[x] /\ buffer'[x] = buffer[x]
    <3>1. topic' = topic /\ (step'[w] = "mark" => page'[w] # <<>>)
      BY <2>1
    <3>2. step' = step \/ \E a \in IngestSteps : step' = [step EXCEPT ![w] = a]
      BY <2>1
    <3>3. page' = page \/ \E p \in Queues : page' = [page EXCEPT ![w] = p]
      BY <2>1
    <3> QED
      BY <1>i, <2>2, <3>1, <3>2, <3>3, TaskMoves
  <2>4. SourceTypes' /\ CountTypes'
    BY <1>1, <2>1, <1>i, QuietTypes DEF CountTypes
  <2>5. buffer'[w] = buffer[w] \/ buffer'[w] = <<>>
    BY <2>1, <1>t
  <2>6. RowsCover' /\ MarksCover'
    BY <2>1, <2>3, <2>4, <2>5, <1>i, QuietStep
  <2>7. BatchesFresh'
    BY <2>1, <2>3, <1>t DEF BatchesFresh
  <2> QED
    BY <2>3, <2>4, <2>6, <2>7 DEF SourceInv
<1>2. CASE MarkSeen(w)
  <2> DEFINE h == Head(page[w])
  <2>1. /\ step[w] = "mark" /\ step' = [step EXCEPT ![w] = "check"]
        /\ marked' = marked \union {h} /\ ttl' = DedupTtl
        /\ page' = [page EXCEPT ![w] = Tail(page[w])]
        /\ batch' = [batch EXCEPT ![w] = Append(batch[w], h)]
        /\ UNCHANGED <<topic, written, expiries, starts, buffer, version, etag, signalRows,
                       sent, attempt, runs, queued>>
    BY <1>2 DEF MarkSeen, Goto, tableVars, sourceVars, requestVars, queueVars, consumerVars
  <2>2. h \in Signals /\ Tail(page[w]) \in Queues /\ Append(batch[w], h) \in Queues
    <3>1. page[w] \in Seq(Signals) /\ page[w] # <<>> /\ batch[w] \in Seq(Signals)
      BY <1>t, <2>1 DEF Queues
    <3>2. h \in Signals /\ Tail(page[w]) \in Seq(Signals)
      BY <3>1, HeadTailProperties
    <3> HIDE DEF h
    <3> QED
      BY <3>1, <3>2, AppendProperties DEF Queues
  <2> HIDE DEF h
  <2>3. step'[w] = "check"
    BY <2>1, <1>t
  <2>4. /\ TaskTypes'
        /\ \A x \in Workers \ {w} : /\ step'[x] = step[x] /\ page'[x] = page[x]
                                    /\ batch'[x] = batch[x] /\ buffer'[x] = buffer[x]
    BY <1>i, <2>1, <2>2, <2>3, IngestNats, TaskMoves
  <2>5. SourceTypes'
    <3>1. marked' \subseteq Signals /\ ttl' \in 0 .. DedupTtl
      BY <2>1, <2>2, <1>t, IngestNats
    <3> QED
      BY <3>1, <2>1, <1>i DEF SourceTypes
  <2>6. CountTypes'
    BY <2>1, <1>i DEF CountTypes
  <2>7. RowsCover' /\ MarksCover'
    BY <1>2, <2>4, <2>6, <1>i, MarkStep
  <2>8. BatchesFresh'
    BY <2>3, <2>4, <1>t DEF BatchesFresh
  <2> QED
    BY <2>4, <2>5, <2>6, <2>7, <2>8 DEF SourceInv
<1>3. CASE Save(w)
  <2>1. /\ step' = [step EXCEPT ![w] = "announce"] /\ written' = Plus(written, batch[w])
        /\ signalRows' = signalRows \union {batch[w][i] : i \in DOMAIN batch[w]}
        /\ UNCHANGED <<topic, marked, ttl, expiries, starts, buffer, page, batch, version, etag,
                       sent, attempt, runs, queued>>
    BY <1>3 DEF Save, Goto, dedupVars, workVars, sourceVars, requestVars, queueVars, consumerVars
  <2>2. step'[w] = "announce"
    BY <2>1, <1>t
  <2>3. /\ TaskTypes'
        /\ \A x \in Workers \ {w} : /\ step'[x] = step[x] /\ page'[x] = page[x]
                                    /\ batch'[x] = batch[x] /\ buffer'[x] = buffer[x]
    BY <1>i, <2>1, <2>2, IngestNats, TaskMoves
  <2>4. SourceTypes'
    <3>1. \A i \in DOMAIN batch[w] : batch[w][i] \in Signals
      <4>1. batch[w] \in Seq(Signals)
        BY <1>t DEF Queues
      <4> QED
        BY <4>1
    <3>2. signalRows' \subseteq Signals
      BY <2>1, <3>1, <1>t
    <3> QED
      BY <3>2, <2>1, <1>i DEF SourceTypes
  <2>5. CountTypes'
    <3>1. written' \in SignalCounts
      BY <2>1, <1>t, PlusAdds
    <3> QED
      BY <3>1, <2>1, <1>i DEF CountTypes
  <2>6. RowsCover' /\ MarksCover'
    BY <1>3, <2>3, <2>5, <1>i, SaveStep
  <2>7. BatchesFresh'
    BY <2>2, <2>3, <1>t DEF BatchesFresh
  <2> QED
    BY <2>3, <2>4, <2>5, <2>6, <2>7 DEF SourceInv
<1>4. CASE Announce(w)
  <2>1. /\ batch[w] # <<>> /\ step[w] = "announce" /\ step' = step
        /\ buffer' = [buffer EXCEPT ![w] = Append(buffer[w], Head(batch[w]))]
        /\ batch' = [batch EXCEPT ![w] = Tail(batch[w])]
        /\ UNCHANGED <<topic, written, marked, ttl, expiries, starts, page, version, etag,
                       signalRows, sent, attempt, runs, queued>>
    BY <1>4 DEF Announce, dedupVars, tableVars, sourceVars, requestVars, queueVars, consumerVars
  <2>2. Append(buffer[w], Head(batch[w])) \in Queues /\ Tail(batch[w]) \in Queues
    <3> DEFINE h == Head(batch[w])
    <3>1. batch[w] \in Seq(Signals) /\ batch[w] # <<>> /\ buffer[w] \in Seq(Signals)
      BY <1>t, <2>1 DEF Queues
    <3>2. h \in Signals /\ Tail(batch[w]) \in Seq(Signals)
      BY <3>1, HeadTailProperties
    <3> HIDE DEF h
    <3>3. Append(buffer[w], h) \in Seq(Signals)
      BY <3>1, <3>2, AppendProperties
    <3> QED
      BY <3>2, <3>3 DEF Queues, h
  <2>3. step'[w] # "mark" /\ step'[w] \notin {"idle", "request"}
    BY <2>1
  <2>4. /\ TaskTypes'
        /\ \A x \in Workers \ {w} : /\ step'[x] = step[x] /\ page'[x] = page[x]
                                    /\ batch'[x] = batch[x] /\ buffer'[x] = buffer[x]
    BY <1>i, <2>1, <2>2, <2>3, TaskMoves
  <2>5. SourceTypes' /\ CountTypes'
    BY <2>1, <1>i DEF SourceTypes, CountTypes
  <2>6. RowsCover' /\ MarksCover'
    BY <1>4, <2>4, <2>5, <1>i, MoveStep
  <2>7. BatchesFresh'
    BY <2>3, <2>4, <1>t DEF BatchesFresh
  <2> QED
    BY <2>4, <2>5, <2>6, <2>7 DEF SourceInv
<1>5. CASE Deliver(w)
  <2> DEFINE h == Head(buffer[w])
  <2>1. /\ buffer[w] # <<>> /\ topic' = Append(topic, h)
        /\ buffer' = [buffer EXCEPT ![w] = Tail(buffer[w])]
        /\ UNCHANGED <<step, batch, written, marked, ttl, expiries, starts, page, version, etag,
                       signalRows, sent, attempt, runs, queued>>
    BY <1>5 DEF Deliver, dedupVars, tableVars, sourceVars, requestVars, workVars, queueVars, consumerVars
  <2>2. Tail(buffer[w]) \in Queues /\ topic' \in Queues
    <3>1. buffer[w] \in Seq(Signals) /\ buffer[w] # <<>> /\ topic \in Seq(Signals)
      BY <1>t, <2>1 DEF Queues
    <3>2. h \in Signals /\ Tail(buffer[w]) \in Seq(Signals)
      BY <3>1, HeadTailProperties
    <3> HIDE DEF h
    <3>3. Append(topic, h) \in Seq(Signals)
      BY <3>1, <3>2, AppendProperties
    <3> QED
      BY <2>1, <3>2, <3>3 DEF Queues
  <2> HIDE DEF h
  <2>3. TaskTypes'
    <3>1. buffer' \in [Workers -> Queues]
      BY <2>1, <2>2, <1>t
    <3> QED
      BY <2>1, <2>2, <3>1, <1>i DEF TaskTypes
  <2>4. SourceTypes' /\ CountTypes'
    BY <2>1, <1>i DEF SourceTypes, CountTypes
  <2>5. RowsCover' /\ MarksCover'
    BY <1>5, <2>3, <2>4, <1>i, MoveStep
  <2>6. BatchesFresh'
    BY <2>1, <1>t DEF BatchesFresh
  <2> QED
    BY <2>3, <2>4, <2>5, <2>6 DEF SourceInv
<1> QED
  BY <1>1, <1>2, <1>3, <1>4, <1>5

\* So do the steps of the scheduler, the page and time.
LEMMA OtherSteps ==
    ASSUME SourceInv, IngestJob \/ Ingest \/ Change \/ Tick
    PROVE  SourceInv'
<1>i. SourceTypes /\ TaskTypes /\ CountTypes /\ BatchesFresh /\ RowsCover /\ MarksCover
  BY DEF SourceInv
<1>1. UNCHANGED <<step, page, batch, buffer, topic, written, starts, sent, attempt, etag>>
  BY DEF IngestJob, Ingest, Change, Tick, sourceVars, tableVars, requestVars, workVars, consumerVars
<1>2. TaskTypes' /\ BatchesFresh'
  BY <1>1, <1>i DEF TaskTypes, BatchesFresh
<1>3. CASE Tick
  <2>1. RowsCover' /\ MarksCover'
    BY <1>3, <1>i, TickStep
  <2>2. /\ ttl > 0 /\ ttl' = ttl - 1
        /\ ttl = 1 => expiries + starts < MaxEvents
        /\ marked' = IF ttl = 1 THEN {} ELSE marked
        /\ expiries' = IF ttl = 1 THEN expiries + 1 ELSE expiries
        /\ UNCHANGED <<version, signalRows, runs, queued>>
    BY <1>3 DEF Tick, sourceVars, tableVars, queueVars
  <2>3. ttl' \in 0 .. DedupTtl
    <3>1. ttl \in 0 .. DedupTtl
      BY <1>i DEF SourceTypes
    <3> QED
      BY <3>1, <2>2, IngestNats
  <2>4. marked' \subseteq Signals
    BY <2>2, <1>i DEF SourceTypes
  <2>5. SourceTypes'
    BY <2>2, <2>3, <2>4, <1>1, <1>i DEF SourceTypes
  <2>6. CountTypes'
    <3>1. expiries \in Nat /\ starts \in Nat /\ expiries + starts <= MaxEvents
      BY <1>i DEF CountTypes
    <3>2. expiries' \in Nat /\ starts' \in Nat /\ expiries' + starts' <= MaxEvents
      BY <2>2, <3>1, <1>1, IngestNats
    <3> QED
      BY <3>2, <1>1, <1>i DEF CountTypes
  <2> QED
    BY <1>2, <2>1, <2>5, <2>6 DEF SourceInv
<1>4. CASE IngestJob \/ Ingest \/ Change
  <2>1. UNCHANGED <<marked, ttl, expiries>>
    BY <1>4 DEF IngestJob, Ingest, Change, dedupVars
  <2>2. RowsCover' /\ MarksCover'
    BY <1>1, <1>i, <2>1, SourceStill
  <2>3. CountTypes'
    BY <1>1, <2>1, <1>i DEF CountTypes
  <2>4. version' \in DOMAIN Offers
    <3>1. version' = version \/ (version < Len(Offers) /\ version' = version + 1)
      BY <1>4 DEF IngestJob, Ingest, Change, sourceVars
    <3>2. version \in DOMAIN Offers
      BY <1>i DEF SourceTypes
    <3> QED
      BY <3>1, <3>2, OffersKnown
  <2>5. signalRows' \subseteq Signals
    BY <1>4, <1>i DEF IngestJob, Ingest, Change, PurgeOld, tableVars, SourceTypes
  <2>6. runs' \in 0 .. MaxRuns /\ queued' \in 0 .. runs'
    <3>1. \/ runs' = runs /\ queued' = queued
          \/ runs < MaxRuns /\ runs' = runs + 1 /\ queued' = queued + 1
      BY <1>4 DEF IngestJob, Ingest, Change, SendTask, queueVars
    <3>2. runs \in 0 .. MaxRuns /\ queued \in 0 .. runs
      BY <1>i DEF SourceTypes
    <3> QED
      BY <3>1, <3>2, IngestNats
  <2>7. SourceTypes'
    BY <2>1, <2>4, <2>5, <2>6, <1>1, <1>i DEF SourceTypes
  <2> QED
    BY <1>2, <2>2, <2>3, <2>7 DEF SourceInv
<1> QED
  BY <1>3, <1>4
-----------------------------------------------------------------------------

ThreadInv == ThreadTypes /\ ReadsCover /\ ConsumedOnce /\ StartsCover

\* The numbers of the thread, signal by signal.
LEMMA ThreadNumbers ==
    ASSUME TaskTypes, CountTypes, ThreadInv, NEW s \in Signals
    PROVE  /\ InSeq(topic, s) \in Nat /\ InSeq(group, s) \in Nat
           /\ InSeq(SubSeq(topic, 1, offset), s) \in Nat
           /\ InSeq(SubSeq(topic, 1, offset), s) <= InSeq(topic, s)
           /\ Total(embedTasks, s) \in Nat
           /\ dispatched[s] \in Nat /\ embedded[s] \in Nat /\ starts \in Nat
           /\ starts * InSeq(topic, s) \in Nat
           /\ dispatched[s] + InSeq(group, s) <= InSeq(SubSeq(topic, 1, offset), s)
           /\ starts = 0 => embedded[s] = 0 /\ Total(embedTasks, s) = 0
           /\ starts # 0 => embedded[s] + Total(embedTasks, s) + InSeq(topic, s)
                                <= starts * InSeq(topic, s) + dispatched[s]
<1>1. /\ topic \in Seq(Signals) /\ group \in Seq(Signals) /\ embedTasks \in Seq(Seq(Signals))
      /\ offset \in 0 .. Len(topic) /\ starts \in Nat
      /\ dispatched \in [Signals -> Nat] /\ embedded \in [Signals -> Nat]
  BY DEF TaskTypes, CountTypes, ThreadInv, ThreadTypes, Queues, SignalCounts
<1>2. SubSeq(topic, 1, offset) \in Seq(Signals)
  BY <1>1, InPrefix
<1>3. /\ InSeq(topic, s) \in Nat /\ InSeq(group, s) \in Nat
      /\ InSeq(SubSeq(topic, 1, offset), s) \in Nat
  BY <1>1, <1>2, PlacesFinite
<1>4. InSeq(SubSeq(topic, 1, offset), s) <= InSeq(topic, s)
  BY <1>1, InPart
<1>5. Total(embedTasks, s) \in Nat
  <2>a. Len(embedTasks) \in Nat /\ embedTasks \in [1 .. Len(embedTasks) -> Seq(Signals)]
    BY <1>1
  <2>b. IsFiniteSet(1 .. Len(embedTasks))
    BY <2>a, FS_Interval
  <2>1. embedTasks \in [1 .. Len(embedTasks) -> Seq(Signals)] /\ IsFiniteSet(1 .. Len(embedTasks))
    BY <2>a, <2>b
  <2> QED
    BY <2>1, AmongFinite
<1>6. starts * InSeq(topic, s) \in Nat
  BY <1>1, <1>3
<1>7. dispatched[s] + InSeq(group, s) <= InSeq(SubSeq(topic, 1, offset), s)
  BY DEF ThreadInv, ReadsCover
<1>8. starts = 0 => embedded[s] = 0 /\ Total(embedTasks, s) = 0
  BY AmongNone DEF ThreadInv, StartsCover
<1>9. starts # 0 => embedded[s] + Total(embedTasks, s) + InSeq(topic, s)
                        <= starts * InSeq(topic, s) + dispatched[s]
  BY DEF ThreadInv, StartsCover
<1> QED
  BY <1>1, <1>3, <1>4, <1>5, <1>6, <1>7, <1>8, <1>9

\* IngestSteps that leave the thread and the topic alone.
LEMMA ThreadStill ==
    ASSUME ThreadInv, UNCHANGED <<topic, consumerVars>>
    PROVE  ThreadInv'
<1>1. UNCHANGED <<topic, thread, stopping, offset, group, embedTasks, starts, embedded, dispatched>>
  BY DEF consumerVars
<1>2. ThreadTypes'
  BY <1>1 DEF ThreadInv, ThreadTypes
<1>3. ReadsCover' /\ ConsumedOnce'
  BY <1>1 DEF ThreadInv, ReadsCover, ConsumedOnce
<1>4. StartsCover'
  BY <1>1 DEF ThreadInv, StartsCover
<1> QED
  BY <1>2, <1>3, <1>4 DEF ThreadInv

\* A message that arrives is not read yet.
LEMMA ThreadArrival ==
    ASSUME TaskTypes, CountTypes, ThreadInv, NEW h \in Signals, topic' = Append(topic, h),
           UNCHANGED consumerVars
    PROVE  ThreadInv'
<1>1. UNCHANGED <<thread, stopping, offset, group, embedTasks, starts, embedded, dispatched>>
  BY DEF consumerVars
<1>2. topic \in Seq(Signals) /\ offset \in 0 .. Len(topic)
  BY DEF TaskTypes, ThreadInv, ThreadTypes, Queues
<1>3. SubSeq(topic', 1, offset') = SubSeq(topic, 1, offset)
  BY <1>1, <1>2, InPrefix
<1>4. offset' \in 0 .. Len(topic')
  BY <1>1, <1>2
<1>5. ThreadTypes'
  BY <1>1, <1>4 DEF ThreadInv, ThreadTypes
<1>6. ReadsCover' /\ ConsumedOnce'
  BY <1>1, <1>3 DEF ThreadInv, ReadsCover, ConsumedOnce
<1>7. ASSUME NEW s \in Signals, starts # 0
      PROVE  embedded[s] + Total(embedTasks, s) + InSeq(topic', s)
                 <= starts * InSeq(topic', s) + dispatched[s]
  <2> DEFINE t == InSeq(topic, s)
             u == InSeq(topic', s)
             e == embedded[s] + Total(embedTasks, s)
  <2>1. /\ t \in Nat /\ e \in Nat /\ starts \in Nat /\ dispatched[s] \in Nat
        /\ e + t <= starts * t + dispatched[s]
    <3>1. /\ t \in Nat /\ starts \in Nat /\ dispatched[s] \in Nat
          /\ embedded[s] \in Nat /\ Total(embedTasks, s) \in Nat
      BY ThreadNumbers
    <3>2. e \in Nat
      BY <3>1
    <3>3. e + t <= starts * t + dispatched[s]
      BY <1>7, ThreadNumbers
    <3> QED
      BY <3>1, <3>2, <3>3
  <2>2. u = IF h = s THEN t + 1 ELSE t
    BY <1>2, InAppend
  <2>3. \A a, b \in Nat : a * (b + 1) = a * b + a /\ a * b \in Nat
    OBVIOUS
  <2>4. e + u <= starts * u + dispatched[s]
    <3> HIDE DEF t, u, e
    <3>1. CASE u = t
      BY <2>1, <3>1
    <3>2. CASE u = t + 1
      <4>1. starts * u = starts * t + starts /\ starts * t \in Nat
        BY <2>1, <2>3, <3>2
      <4> QED
        BY <2>1, <3>2, <4>1, <1>7
    <3> QED
      BY <2>2, <3>1, <3>2
  <2> QED
    BY <2>4
<1>8. StartsCover'
  BY <1>1, <1>7 DEF ThreadInv, StartsCover, Total, Among
<1> QED
  BY <1>5, <1>6, <1>8 DEF ThreadInv

\* What is dispatched is counted as it joins the tasks.
LEMMA DispatchCounts ==
    ASSUME TaskTypes, CountTypes, ThreadInv, NEW q \in Queues, Dispatch(q)
    PROVE  /\ embedTasks' \in Seq(Queues) /\ dispatched' \in SignalCounts
           /\ \A s \in Signals : /\ dispatched'[s] = dispatched[s] + InSeq(q, s)
                                 /\ Total(embedTasks', s) = Total(embedTasks, s) + InSeq(q, s)
                                 /\ InSeq(q, s) \in Nat
<1>1. /\ embedTasks \in Seq(Queues) /\ dispatched \in SignalCounts
      /\ embedTasks' = Append(embedTasks, q) /\ dispatched' = Plus(dispatched, q)
  BY DEF ThreadInv, ThreadTypes, Dispatch
<1>2. embedTasks' \in Seq(Queues)
  BY <1>1, AppendProperties
<1>3. dispatched' \in SignalCounts /\ \A s \in Signals : dispatched'[s] = dispatched[s] + InSeq(q, s)
  BY <1>1, PlusAdds
<1>4. \A s \in Signals : /\ Total(embedTasks', s) = Total(embedTasks, s) + InSeq(q, s)
                         /\ InSeq(q, s) \in Nat
  BY <1>1, AmongAppend, PlacesFinite DEF Queues
<1> QED
  BY <1>2, <1>3, <1>4

\* A start counts for one more embedding of every message.
LEMMA StartStep ==
    ASSUME TaskTypes, CountTypes, ThreadInv, StartConsumer
    PROVE  ThreadInv'
<1>1. /\ thread' = "running" /\ stopping' = FALSE /\ offset' = 0 /\ group' = <<>>
      /\ dispatched' = None /\ starts' = starts + 1
      /\ topic' = topic /\ embedTasks' = embedTasks /\ embedded' = embedded
  BY DEF StartConsumer, producerVars
<1>2. /\ topic \in Seq(Signals) /\ starts \in Nat
      /\ embedTasks \in Seq(Queues) /\ embedded \in SignalCounts
  BY DEF TaskTypes, CountTypes, ThreadInv, ThreadTypes, Queues
<1>3. dispatched' \in SignalCounts /\ \A s \in Signals : dispatched'[s] = 0
  BY <1>1 DEF None, SignalCounts
<1>4. SubSeq(topic', 1, offset') = <<>> /\ 0 \in 0 .. Len(topic)
  <2>1. 0 \in 0 .. Len(topic)
    BY <1>2
  <2> QED
    BY <2>1, <1>1, <1>2, InPrefix
<1>5. ThreadTypes'
  BY <1>1, <1>2, <1>3, <1>4, IngestNats DEF ThreadTypes
<1>6. ReadsCover' /\ ConsumedOnce'
  <2> DEFINE read == SubSeq(topic', 1, offset')
  <2>1. read = <<>> /\ group' = <<>> /\ \A s \in Signals : InSeq(<<>>, s) = 0
    BY <1>1, <1>4, InEmpty
  <2> HIDE DEF read
  <2>2. \A s \in Signals : /\ dispatched'[s] + InSeq(group', s) = InSeq(read, s)
                           /\ dispatched'[s] + InSeq(group', s) <= InSeq(read, s)
    BY <2>1, <1>3
  <2> QED
    BY <2>2 DEF ReadsCover, ConsumedOnce, read
<1>7. ASSUME NEW s \in Signals
      PROVE  embedded[s] + Total(embedTasks, s) + InSeq(topic, s)
                 <= (starts + 1) * InSeq(topic, s) + 0
  <2> DEFINE t == InSeq(topic, s)
             e == embedded[s] + Total(embedTasks, s)
  <2>1. /\ t \in Nat /\ e \in Nat /\ starts \in Nat /\ starts * t \in Nat
        /\ starts = 0 => e = 0
        /\ starts # 0 => e + t <= starts * t + dispatched[s]
        /\ dispatched[s] <= t /\ dispatched[s] \in Nat
    BY ThreadNumbers
  <2>2. \A a, b \in Nat : (a + 1) * b = a * b + b
    OBVIOUS
  <2>3. e + t <= (starts + 1) * t + 0
    <3> HIDE DEF e, t
    <3>1. (starts + 1) * t = starts * t + t
      BY <2>1, <2>2
    <3> QED
      BY <2>1, <3>1
  <2> QED
    BY <2>3
<1>8. starts' # 0
  BY <1>1, <1>2
<1>9. StartsCover'
  <2>1. \A s \in Signals : embedded'[s] + Total(embedTasks', s) + InSeq(topic', s)
                               <= starts' * InSeq(topic', s) + dispatched'[s]
    BY <1>1, <1>3, <1>7
  <2> QED
    BY <2>1, <1>8 DEF StartsCover
<1> QED
  BY <1>5, <1>6, <1>9 DEF ThreadInv

\* A message is read into the batch, and a full batch dispatched.
LEMMA ConsumeStep ==
    ASSUME TaskTypes, CountTypes, ThreadInv, Consume
    PROVE  ThreadInv'
<1> DEFINE m == topic[offset + 1]
           more == Append(group, m)
<1>1. /\ thread = "running" /\ ~stopping /\ offset < Len(topic) /\ offset' = offset + 1
      /\ \/ Dispatch(more) /\ group' = <<>>
         \/ group' = more /\ embedTasks' = embedTasks /\ dispatched' = dispatched
      /\ UNCHANGED <<topic, thread, stopping, starts, embedded>>
  BY DEF Consume, producerVars
<1>2. /\ topic \in Seq(Signals) /\ offset \in 0 .. Len(topic) /\ group \in Seq(Signals)
      /\ starts # 0 /\ ConsumedOnce
  BY <1>1 DEF TaskTypes, ThreadInv, ThreadTypes, Queues, StartsCover
<1>3. m \in Signals /\ offset' \in 0 .. Len(topic)
  BY <1>1, <1>2
<1>4. more \in Queues
  <2> HIDE DEF m
  <2> QED
    BY <1>2, <1>3, AppendProperties DEF Queues
<1>5. SubSeq(topic, 1, offset + 1) = Append(SubSeq(topic, 1, offset), m)
      /\ SubSeq(topic, 1, offset) \in Seq(Signals)
  BY <1>1, <1>2, InPrefix
<1> HIDE DEF m
<1>6. ASSUME NEW s \in Signals
      PROVE  /\ InSeq(more, s) = IF m = s THEN InSeq(group, s) + 1 ELSE InSeq(group, s)
             /\ InSeq(SubSeq(topic, 1, offset + 1), s) =
                  IF m = s THEN InSeq(SubSeq(topic, 1, offset), s) + 1
                  ELSE InSeq(SubSeq(topic, 1, offset), s)
             /\ InSeq(group, s) \in Nat /\ InSeq(SubSeq(topic, 1, offset), s) \in Nat
             /\ dispatched[s] \in Nat
             /\ dispatched[s] + InSeq(group, s) = InSeq(SubSeq(topic, 1, offset), s)
  <2>1. InSeq(more, s) = IF m = s THEN InSeq(group, s) + 1 ELSE InSeq(group, s)
    BY <1>2, <1>3, InAppend
  <2>2. InSeq(Append(SubSeq(topic, 1, offset), m), s) =
            IF m = s THEN InSeq(SubSeq(topic, 1, offset), s) + 1
            ELSE InSeq(SubSeq(topic, 1, offset), s)
    <3> DEFINE read == SubSeq(topic, 1, offset)
    <3>1. read \in Seq(Signals)
      BY <1>5
    <3> HIDE DEF read
    <3>2. InSeq(Append(read, m), s) = IF m = s THEN InSeq(read, s) + 1 ELSE InSeq(read, s)
      BY <1>3, <3>1, InAppend
    <3> QED
      BY <3>2 DEF read
  <2>3. /\ InSeq(group, s) \in Nat /\ InSeq(SubSeq(topic, 1, offset), s) \in Nat
        /\ dispatched[s] \in Nat
    BY ThreadNumbers
  <2>4. dispatched[s] + InSeq(group, s) = InSeq(SubSeq(topic, 1, offset), s)
    BY <1>1, <1>2 DEF ConsumedOnce
  <2> QED
    BY <2>1, <2>2, <2>3, <2>4, <1>5
<1> HIDE DEF more
\* Read, dispatched and held agree after the step.
<1>7. ASSUME NEW s \in Signals
      PROVE  /\ dispatched'[s] + InSeq(group', s) = InSeq(SubSeq(topic', 1, offset'), s)
             /\ dispatched'[s] \in Nat /\ InSeq(group', s) \in Nat
  <2>1. CASE Dispatch(more) /\ group' = <<>>
    <3>1. dispatched'[s] = dispatched[s] + InSeq(more, s) /\ InSeq(more, s) \in Nat
      BY <2>1, <1>4, DispatchCounts
    <3>2. InSeq(group', s) = 0
      BY <2>1, InEmpty
    <3>3. InSeq(SubSeq(topic', 1, offset'), s) = InSeq(SubSeq(topic, 1, offset + 1), s)
      BY <1>1
    <3> QED
      BY <3>1, <3>2, <3>3, <1>6
  <2>2. CASE group' = more /\ embedTasks' = embedTasks /\ dispatched' = dispatched
    <3>1. InSeq(SubSeq(topic', 1, offset'), s) = InSeq(SubSeq(topic, 1, offset + 1), s)
      BY <1>1
    <3> QED
      BY <2>2, <3>1, <1>6
  <2> QED
    BY <1>1, <2>1, <2>2
<1>8. ReadsCover'
  <2>1. \A s \in Signals : dispatched'[s] + InSeq(group', s) <= InSeq(SubSeq(topic', 1, offset'), s)
    BY <1>7
  <2> QED
    BY <2>1 DEF ReadsCover
<1>9. ConsumedOnce'
  BY <1>7 DEF ConsumedOnce
<1>10. ThreadTypes'
  <2>1. /\ group' \in Queues /\ embedTasks' \in Seq(Queues) /\ dispatched' \in SignalCounts
    <3>1. embedTasks \in Seq(Queues) /\ dispatched \in SignalCounts
      BY DEF ThreadInv, ThreadTypes
    <3> QED
      BY <3>1, <1>1, <1>4, DispatchCounts, IngestNats
  <2>2. offset' \in 0 .. Len(topic')
    BY <1>1, <1>3
  <2> QED
    BY <1>1, <2>1, <2>2 DEF ThreadInv, ThreadTypes
<1>11. ASSUME NEW s \in Signals
       PROVE  embedded'[s] + Total(embedTasks', s) + InSeq(topic', s)
                  <= starts' * InSeq(topic', s) + dispatched'[s]
  <2> DEFINE most == starts * InSeq(topic, s)
  <2>1. /\ embedded[s] + Total(embedTasks, s) + InSeq(topic, s) <= most + dispatched[s]
        /\ embedded[s] \in Nat /\ Total(embedTasks, s) \in Nat /\ InSeq(topic, s) \in Nat
        /\ most \in Nat /\ dispatched[s] \in Nat
    BY <1>2, ThreadNumbers
  <2>2. starts' * InSeq(topic', s) = most /\ embedded' = embedded /\ topic' = topic
    BY <1>1
  <2>3. \/ Total(embedTasks', s) = Total(embedTasks, s) /\ dispatched'[s] = dispatched[s]
        \/ /\ Total(embedTasks', s) = Total(embedTasks, s) + InSeq(more, s)
           /\ dispatched'[s] = dispatched[s] + InSeq(more, s) /\ InSeq(more, s) \in Nat
    BY <1>1, <1>4, DispatchCounts
  <2> HIDE DEF most
  <2> QED
    BY <2>1, <2>2, <2>3
<1>12. StartsCover'
  <2>1. starts' # 0
    BY <1>1, <1>2
  <2> QED
    BY <2>1, <1>11 DEF StartsCover
<1> QED
  BY <1>8, <1>9, <1>10, <1>12 DEF ThreadInv

\* The thread ends: what it holds is dispatched or lost.
LEMMA ThreadEnds ==
    ASSUME TaskTypes, CountTypes, ThreadInv, Drain \/ Kill \/ ThreadDies \/ StopConsumer
    PROVE  ThreadInv'
<1>1. /\ UNCHANGED <<topic, starts, embedded>>
      /\ thread # "off"
      /\ thread' \in ThreadPoints /\ stopping' \in BOOLEAN
      /\ thread' # "running" \/ stopping'
  BY IngestNats DEF Drain, Kill, ThreadDies, StopConsumer, producerVars, ThreadInv, ThreadTypes
<1>2. /\ topic \in Seq(Signals) /\ offset \in 0 .. Len(topic) /\ group \in Queues
      /\ embedTasks \in Seq(Queues) /\ dispatched \in SignalCounts /\ starts # 0
  BY <1>1 DEF TaskTypes, ThreadInv, ThreadTypes, Queues, StartsCover
<1>3. /\ offset' \in 0 .. Len(topic) /\ (offset' = offset \/ (offset < Len(topic) /\ offset' = offset + 1))
  BY <1>2 DEF Drain, Kill, ThreadDies, StopConsumer
<1>4. \/ /\ embedTasks' = embedTasks /\ dispatched' = dispatched
         /\ group' = group \/ group' = <<>>
      \/ Dispatch(group) /\ group' = <<>>
  BY DEF Drain, Kill, ThreadDies, StopConsumer
<1>5. ASSUME NEW s \in Signals
      PROVE  /\ dispatched'[s] + InSeq(group', s) <= dispatched[s] + InSeq(group, s)
             /\ dispatched'[s] \in Nat /\ InSeq(group', s) \in Nat
             /\ \/ Total(embedTasks', s) = Total(embedTasks, s) /\ dispatched'[s] = dispatched[s]
                \/ /\ Total(embedTasks', s) = Total(embedTasks, s) + InSeq(group, s)
                   /\ dispatched'[s] = dispatched[s] + InSeq(group, s)
  <2>1. dispatched[s] \in Nat /\ InSeq(group, s) \in Nat /\ InSeq(<<>>, s) = 0
    BY ThreadNumbers, InEmpty
  <2>2. CASE embedTasks' = embedTasks /\ dispatched' = dispatched /\ (group' = group \/ group' = <<>>)
    BY <2>1, <2>2
  <2>3. CASE Dispatch(group) /\ group' = <<>>
    <3>1. /\ dispatched'[s] = dispatched[s] + InSeq(group, s)
          /\ Total(embedTasks', s) = Total(embedTasks, s) + InSeq(group, s)
      BY <2>3, <1>2, DispatchCounts
    <3> QED
      BY <2>1, <2>3, <3>1
  <2> QED
    BY <1>4, <2>2, <2>3
<1>6. ReadsCover'
  <2> SUFFICES ASSUME NEW s \in Signals
               PROVE  dispatched'[s] + InSeq(group', s) <= InSeq(SubSeq(topic', 1, offset'), s)
    BY DEF ReadsCover
  <2> DEFINE now == SubSeq(topic, 1, offset)
  <2>1. /\ dispatched[s] + InSeq(group, s) <= InSeq(now, s) /\ InSeq(now, s) \in Nat
        /\ dispatched[s] \in Nat /\ InSeq(group, s) \in Nat
    BY ThreadNumbers
  <2>2. InSeq(SubSeq(topic, 1, offset'), s) \in Nat /\ InSeq(now, s) <= InSeq(SubSeq(topic, 1, offset'), s)
    <3>1. CASE offset' = offset
      BY <2>1, <3>1
    <3>2. CASE offset < Len(topic) /\ offset' = offset + 1
      <4>1. /\ SubSeq(topic, 1, offset') = Append(now, topic[offset + 1])
            /\ now \in Seq(Signals) /\ topic[offset + 1] \in Signals
        BY <1>2, <3>2, InPrefix
      <4> HIDE DEF now
      <4>2. InSeq(Append(now, topic[offset + 1]), s) =
                IF topic[offset + 1] = s THEN InSeq(now, s) + 1 ELSE InSeq(now, s)
        BY <4>1, InAppend
      <4>3. InSeq(SubSeq(topic, 1, offset'), s) = InSeq(Append(now, topic[offset + 1]), s)
        BY <4>1
      <4>4. \A n, k \in Nat : (k = n \/ k = n + 1) => n <= k
        OBVIOUS
      <4>5. InSeq(Append(now, topic[offset + 1]), s) \in {InSeq(now, s), InSeq(now, s) + 1}
        BY <4>2
      <4>6. InSeq(now, s) \in Nat
        BY <2>1
      <4> DEFINE a == InSeq(now, s)
                 b == InSeq(Append(now, topic[offset + 1]), s)
      <4> HIDE DEF a, b
      <4>7. a \in Nat /\ b \in {a, a + 1}
        BY <4>5, <4>6 DEF a, b
      <4>8. b \in Nat /\ a <= b
        BY <4>7
      <4> QED
        BY <4>3, <4>8 DEF a, b
    <3> QED
      BY <1>3, <3>1, <3>2
  <2> HIDE DEF now
  <2>3. dispatched'[s] + InSeq(group', s) <= InSeq(SubSeq(topic, 1, offset'), s)
    BY <1>5, <2>1, <2>2
  <2> QED
    BY <1>1, <2>3
<1>7. ConsumedOnce'
  BY <1>1 DEF ConsumedOnce
<1>8. ThreadTypes'
  <2>1. group' \in Queues /\ embedTasks' \in Seq(Queues) /\ dispatched' \in SignalCounts
    BY <1>2, <1>4, DispatchCounts, IngestNats
  <2> QED
    BY <1>1, <1>3, <2>1 DEF ThreadInv, ThreadTypes
<1>9. ASSUME NEW s \in Signals
      PROVE  embedded'[s] + Total(embedTasks', s) + InSeq(topic', s)
                 <= starts' * InSeq(topic', s) + dispatched'[s]
  <2> DEFINE most == starts * InSeq(topic, s)
  <2>1. /\ embedded[s] + Total(embedTasks, s) + InSeq(topic, s) <= most + dispatched[s]
        /\ embedded[s] \in Nat /\ Total(embedTasks, s) \in Nat /\ InSeq(topic, s) \in Nat
        /\ most \in Nat /\ dispatched[s] \in Nat /\ InSeq(group, s) \in Nat
    BY <1>2, ThreadNumbers
  <2>2. starts' * InSeq(topic', s) = most /\ embedded' = embedded /\ topic' = topic
    BY <1>1
  <2> HIDE DEF most
  <2> QED
    BY <2>1, <2>2, <1>5
<1>10. StartsCover'
  <2>1. starts' # 0
    BY <1>1, <1>2
  <2> QED
    BY <2>1, <1>9 DEF StartsCover
<1> QED
  BY <1>6, <1>7, <1>8, <1>10 DEF ThreadInv

\* A task embeds what it was sent, or nothing.
LEMMA EmbedStep ==
    ASSUME TaskTypes, CountTypes, ThreadInv, Embed
    PROVE  ThreadInv'
<1>1. /\ embedTasks # <<>> /\ embedTasks' = Tail(embedTasks)
      /\ embedded' = embedded \/ embedded' = Plus(embedded, Head(embedTasks))
      /\ UNCHANGED <<topic, thread, stopping, offset, group, starts, dispatched>>
  BY DEF Embed, producerVars
<1>2. embedTasks \in Seq(Queues) /\ embedded \in SignalCounts /\ starts # 0
  BY <1>1 DEF ThreadInv, ThreadTypes, StartsCover
<1>3. Tail(embedTasks) \in Seq(Queues) /\ Head(embedTasks) \in Queues
  BY <1>1, <1>2, HeadTailProperties
<1>4. embedded' \in SignalCounts
  BY <1>1, <1>2, <1>3, PlusAdds
<1>5. ThreadTypes'
  BY <1>1, <1>3, <1>4 DEF ThreadInv, ThreadTypes
<1>6. ReadsCover' /\ ConsumedOnce'
  BY <1>1 DEF ThreadInv, ReadsCover, ConsumedOnce
<1>7. ASSUME NEW s \in Signals
      PROVE  embedded'[s] + Total(embedTasks', s) + InSeq(topic', s)
                 <= starts' * InSeq(topic', s) + dispatched'[s]
  <2> DEFINE most == starts * InSeq(topic, s)
             q == Head(embedTasks)
  <2>1. /\ embedded[s] + Total(embedTasks, s) + InSeq(topic, s) <= most + dispatched[s]
        /\ embedded[s] \in Nat /\ Total(embedTasks, s) \in Nat /\ InSeq(topic, s) \in Nat
        /\ most \in Nat /\ dispatched[s] \in Nat
    BY <1>2, ThreadNumbers
  <2>2. /\ starts' * InSeq(topic', s) = most /\ topic' = topic /\ dispatched' = dispatched
    BY <1>1
  <2>3. Total(embedTasks, s) = Total(embedTasks', s) + InSeq(q, s)
    BY <1>1, <1>2, AmongTail DEF Queues
  <2>4. InSeq(q, s) \in Nat /\ embedded'[s] \in Nat
    BY <1>3, <1>4, PlacesFinite DEF Queues, SignalCounts
  <2>5. embedded'[s] = embedded[s] \/ embedded'[s] = embedded[s] + InSeq(q, s)
    BY <1>1, <1>2, <1>3, PlusAdds
  <2>6. Total(embedTasks', s) \in Nat
    <3> DEFINE rest == Tail(embedTasks)
    <3>1. rest \in Seq(Seq(Signals))
      BY <1>3 DEF Queues
    <3> HIDE DEF rest
    <3>2. rest \in [1 .. Len(rest) -> Seq(Signals)] /\ IsFiniteSet(1 .. Len(rest))
      BY <3>1, FS_Interval
    <3> QED
      BY <1>1, <3>2, AmongFinite DEF rest
  <2> HIDE DEF most, q
  <2> QED
    BY <2>1, <2>2, <2>3, <2>4, <2>5, <2>6
<1>8. StartsCover'
  <2>1. starts' # 0
    BY <1>1, <1>2
  <2> QED
    BY <2>1, <1>7 DEF StartsCover
<1> QED
  BY <1>5, <1>6, <1>8 DEF ThreadInv

-----------------------------------------------------------------------------

LEMMA IngestInvParts == IngestInv <=> SourceInv /\ ThreadInv
  BY IngestTypes DEF IngestInv, SourceInv, ThreadInv

LEMMA IngestInvPartsNext == (SourceInv /\ ThreadInv)' => IngestInv'
  BY DEF IngestInv, SourceInv, ThreadInv, IngestTypeOK, SourceTypes, TaskTypes, CountTypes,
         ThreadTypes, Queues, PageTags, RunAttempts, SignalCounts, ThreadPoints, IngestSteps

LEMMA IngestInvInit == IngestInit => IngestInv
<1> SUFFICES ASSUME IngestInit PROVE SourceInv /\ ThreadInv
  BY IngestInvParts
<1> USE DEF IngestInit
<1>1. SourceTypes
  BY IngestNats, OffersKnown DEF SourceTypes
<1>2. TaskTypes
  BY IngestNats DEF TaskTypes
<1>3. CountTypes
  BY IngestNats DEF CountTypes, SignalCounts, None
<1>4. \A s \in Signals : written[s] = 0 /\ dispatched[s] = 0 /\ embedded[s] = 0
  BY DEF None
<1>5. /\ \A w \in Workers : buffer[w] = <<>> /\ Stored[w] = <<>> /\ Unsaved[w] = <<>>
      /\ DOMAIN buffer = Workers /\ DOMAIN Stored = Workers /\ DOMAIN Unsaved = Workers
  BY DEF Stored, Unsaved
<1>6. \A s : Total(buffer, s) = 0 /\ Total(Stored, s) = 0 /\ Total(Unsaved, s) = 0
             /\ InSeq(topic, s) = 0
  BY <1>5, AmongNone, InEmpty
<1>7. RowsCover
  BY <1>4, <1>6 DEF RowsCover
<1>8. MarksCover
  <2> SUFFICES ASSUME NEW s \in Signals
               PROVE  written[s] + Total(Unsaved, s) + Cardinality(MayMark(s))
                          <= Cardinality(Workers) * (1 + expiries)
    BY DEF MarksCover
  <2>1. /\ Cardinality(MayMark(s)) <= Cardinality(Workers)
        /\ Cardinality(MayMark(s)) \in Nat /\ Cardinality(Workers) \in Nat
    BY MarkersFinite, IngestNats
  <2>2. \A n \in Nat : n * (1 + 0) = n
    OBVIOUS
  <2>3. Cardinality(Workers) * (1 + expiries) = Cardinality(Workers)
    BY <2>1, <2>2
  <2> QED
    BY <1>4, <1>6, <2>1, <2>3
<1>9. BatchesFresh
  BY DEF BatchesFresh
<1>10. ThreadTypes
  <2>1. 0 \in 0 .. Len(<<>>)
    OBVIOUS
  <2> QED
    BY <2>1, IngestNats DEF ThreadTypes, SignalCounts, None
<1>11. SubSeq(topic, 1, offset) = <<>>
  OBVIOUS
<1>12. ReadsCover /\ ConsumedOnce
  <2> DEFINE read == SubSeq(topic, 1, offset)
  <2>1. read = <<>> /\ group = <<>> /\ \A s \in Signals : InSeq(<<>>, s) = 0
    BY <1>11, InEmpty
  <2> HIDE DEF read
  <2>2. \A s \in Signals : dispatched[s] + InSeq(group, s) = InSeq(read, s)
                           /\ dispatched[s] + InSeq(group, s) <= InSeq(read, s)
    BY <2>1, <1>4
  <2> QED
    BY <2>2 DEF ReadsCover, ConsumedOnce, read
<1>13. StartsCover
  BY <1>4 DEF StartsCover
<1> QED
  BY <1>1, <1>2, <1>3, <1>7, <1>8, <1>9, <1>10, <1>12, <1>13 DEF SourceInv, ThreadInv

LEMMA IngestInvNext == IngestInv /\ [IngestNext]_ingestVars => IngestInv'
<1> SUFFICES ASSUME SourceInv, ThreadInv, [IngestNext]_ingestVars PROVE SourceInv' /\ ThreadInv'
  BY IngestInvParts, IngestInvPartsNext
<1>i. TaskTypes /\ CountTypes /\ RowsCover /\ MarksCover /\ SourceTypes /\ BatchesFresh
  BY DEF SourceInv
<1>1. ASSUME NEW w \in Workers, QuietAction(w) \/ MarkSeen(w) \/ Save(w) \/ Announce(w)
      PROVE  SourceInv' /\ ThreadInv'
  <2>1. UNCHANGED <<topic, consumerVars>>
    BY <1>1 DEF QuietAction, StartIngest, NotModified, Answer, RequestFails, CheckSeen,
         EndIngest, RaiseInTask, Crash, MarkSeen, Save, Announce
  <2> QED
    BY <1>1, <2>1, ProcessSteps, ThreadStill
<1>2. ASSUME NEW w \in Workers, Deliver(w)
      PROVE  SourceInv' /\ ThreadInv'
  <2>1. /\ buffer[w] # <<>> /\ topic' = Append(topic, Head(buffer[w]))
        /\ UNCHANGED consumerVars
    BY <1>2 DEF Deliver
  <2>2. Head(buffer[w]) \in Signals
    <3>1. buffer[w] \in Seq(Signals)
      BY <1>i DEF TaskTypes, Queues
    <3> QED
      BY <2>1, <3>1, HeadTailProperties
  <2> QED
    BY <1>2, <2>1, <2>2, <1>i, ProcessSteps, ThreadArrival
<1>3. ASSUME IngestJob \/ Ingest \/ Change \/ Tick
      PROVE  SourceInv' /\ ThreadInv'
  <2>1. UNCHANGED <<topic, consumerVars>>
    BY <1>3 DEF IngestJob, Ingest, Change, Tick
  <2> QED
    BY <1>3, <2>1, OtherSteps, ThreadStill
<1>4. ASSUME \/ StartConsumer \/ Consume \/ ThreadDies \/ StopConsumer \/ Drain \/ Kill \/ Embed
      PROVE  SourceInv' /\ ThreadInv'
  <2>1. ThreadInv'
    BY <1>4, <1>i, StartStep, ConsumeStep, ThreadEnds, EmbedStep
  <2>2. UNCHANGED <<version, etag, marked, ttl, expiries, signalRows, written, step, sent, attempt,
                    page, batch, buffer, topic, runs, queued>>
    BY <1>4 DEF StartConsumer, Consume, ThreadDies, StopConsumer, Drain, Kill, Embed, producerVars,
         sourceVars, dedupVars, tableVars, requestVars, workVars, queueVars
  <2>3. RowsCover' /\ MarksCover'
    BY <2>2, <1>i, SourceStill
  <2>4. SourceTypes' /\ TaskTypes' /\ BatchesFresh'
    BY <2>2, <1>i DEF SourceTypes, TaskTypes, BatchesFresh
  <2>5. CountTypes'
    <3>1. starts' = starts \/ (expiries + starts < MaxEvents /\ starts' = starts + 1)
      BY <1>4 DEF StartConsumer, Consume, ThreadDies, StopConsumer, Drain, Kill, Embed
    <3>2. expiries \in Nat /\ starts \in Nat /\ expiries + starts <= MaxEvents
      BY <1>i DEF CountTypes
    <3>3. expiries' \in Nat /\ starts' \in Nat /\ expiries' + starts' <= MaxEvents
      BY <2>2, <3>1, <3>2, IngestNats
    <3> QED
      BY <2>2, <3>3, <1>i DEF CountTypes
  <2> QED
    BY <2>1, <2>3, <2>4, <2>5 DEF SourceInv
<1>5. CASE UNCHANGED ingestVars
  <2>1. UNCHANGED <<version, etag, marked, ttl, expiries, signalRows, written, step, sent, attempt,
                    page, batch, buffer, topic, runs, queued, starts, consumerVars>>
    BY <1>5 DEF ingestVars, sourceVars, dedupVars, tableVars, requestVars, workVars, queueVars,
         consumerVars
  <2>2. RowsCover' /\ MarksCover'
    BY <2>1, <1>i, SourceStill
  <2>3. SourceTypes' /\ TaskTypes' /\ BatchesFresh' /\ CountTypes'
    BY <2>1, <1>i DEF SourceTypes, TaskTypes, BatchesFresh, CountTypes
  <2>4. ThreadInv'
    BY <2>1, ThreadStill
  <2> QED
    BY <2>2, <2>3, <2>4 DEF SourceInv
<1> QED
  BY <1>1, <1>2, <1>3, <1>4, <1>5 DEF IngestNext, QuietAction

\* What the invariant says of the messages.
LEMMA IngestInvAccounts == IngestInv => SignalsAccounted /\ BatchesAccounted
<1> SUFFICES ASSUME SourceInv, ThreadInv PROVE SignalsAccounted /\ BatchesAccounted
  BY IngestInvParts
<1>i. TaskTypes /\ CountTypes /\ RowsCover /\ MarksCover
  BY DEF SourceInv
<1>1. AnnouncedStored
  <2> SUFFICES ASSUME NEW s \in Signals
               PROVE  InSeq(topic, s) + Total(buffer, s) <= written[s]
    BY DEF AnnouncedStored
  <2>1. /\ InSeq(topic, s) \in Nat /\ Total(buffer, s) \in Nat /\ Total(Stored, s) \in Nat
        /\ written[s] \in Nat
    BY <1>i, HeldTypes, ThreadNumbers DEF CountTypes, SignalCounts
  <2> QED
    BY <1>i, <2>1 DEF RowsCover
<1>2. StoredOncePerMark
  <2> SUFFICES ASSUME NEW s \in Signals
               PROVE  written[s] <= Cardinality(Workers) * (1 + expiries)
    BY DEF StoredOncePerMark
  <2>1. /\ written[s] \in Nat /\ Total(Unsaved, s) \in Nat /\ Cardinality(MayMark(s)) \in Nat
        /\ Cardinality(Workers) * (1 + expiries) \in Nat
    BY <1>i, HeldTypes, MarkersFinite, IngestNats DEF CountTypes, SignalCounts
  <2> QED
    BY <1>i, <2>1 DEF MarksCover
<1>3. EmbeddedOncePerStart
  <2> SUFFICES ASSUME NEW s \in Signals PROVE embedded[s] <= starts * InSeq(topic, s)
    BY DEF EmbeddedOncePerStart
  <2> DEFINE most == starts * InSeq(topic, s)
  <2>1. /\ embedded[s] \in Nat /\ Total(embedTasks, s) \in Nat /\ InSeq(topic, s) \in Nat
        /\ dispatched[s] \in Nat /\ most \in Nat /\ InSeq(group, s) \in Nat
        /\ dispatched[s] <= InSeq(topic, s)
        /\ starts = 0 => embedded[s] = 0
        /\ starts # 0 => embedded[s] + Total(embedTasks, s) + InSeq(topic, s) <= most + dispatched[s]
    BY <1>i, ThreadNumbers
  <2> HIDE DEF most
  <2>2. embedded[s] <= most
    BY <2>1
  <2> QED
    BY <2>2 DEF most
<1> QED
  BY <1>1, <1>2, <1>3 DEF SignalsAccounted, BatchesAccounted, ThreadInv

\* A message on the topic, or on its way to it, is a row that is stored, and each process
\* stores a signal at most once between two expiries of the marks, for any number of
\* processes and signals, wherever a task is interrupted or repeated.
THEOREM SignalsAccountedHolds == IngestSpec => []SignalsAccounted
<1>1. IngestSpec => []IngestInv
  BY IngestInvInit, IngestInvNext, PTL DEF IngestSpec
<1>2. IngestInv => SignalsAccounted
  BY IngestInvAccounts
<1> QED
  BY <1>1, <1>2, PTL

\* The consumer dispatches a message at most once between two starts, and a message is
\* embedded at most once for each start of the process, for any batches and any signals.
THEOREM BatchesAccountedHolds == IngestSpec => []BatchesAccounted
<1>1. IngestSpec => []IngestInv
  BY IngestInvInit, IngestInvNext, PTL DEF IngestSpec
<1>2. IngestInv => BatchesAccounted
  BY IngestInvAccounts
<1> QED
  BY <1>1, <1>2, PTL

-----------------------------------------------------------------------------
(***************************************************************************)
(* The trending keywords.                                                  *)
(***************************************************************************)

Scores == 0 .. MaxScore
Trims == 0 .. MaxTrims
SeenPoints == {"never", "recently", "long ago"}
TrimPoints == {"idle", "stale", "scan", "decay", "write", "count", "choose", "cut"}

\* What the trimmer counted is still too much by what has arrived since, and
\* so is what it has chosen.
TrimInv ==
    /\ TrendTypeOK
    /\ TrimBounds
    /\ trim = "choose" => Cardinality(Kept) <= MaxKeywords + excess + arrived
    /\ trim = "cut" => Cardinality(Kept \ doomed) <= MaxKeywords + arrived

LEMMA TrendNats ==
    /\ MaxScore \in Nat /\ MaxTrims \in Nat /\ MaxKeywords \in Nat
    /\ Cardinality(Words) \in Nat /\ IsFiniteSet(Words)
    /\ 0 \in Scores /\ 0 \in Trims
    /\ \A n : n \in Scores <=> n \in Nat /\ n <= MaxScore
    /\ \A n : n \in Trims <=> n \in Nat /\ n <= MaxTrims
  BY TrendingAssumption, FS_CardinalityType DEF Scores, Trims

LEMMA TrendTypes ==
    TrendTypeOK <=>
        /\ score \in [Words -> Scores] /\ shot \in [Words -> Scores]
        /\ seen \in [Words -> SeenPoints] /\ trim \in TrimPoints
        /\ staleWords \subseteq Words /\ doomed \subseteq Words
        /\ arrived \in Nat /\ excess \in Nat /\ trims \in Trims
  BY DEF TrendTypeOK, Scores, Trims, SeenPoints, TrimPoints

LEMMA TrendPoints ==
    /\ {"idle", "stale", "scan", "decay", "write", "count", "choose", "cut"} \subseteq TrimPoints
    /\ {"never", "recently", "long ago"} \subseteq SeenPoints
  BY DEF SeenPoints, TrimPoints

\* The lesser of two numbers.
LEMMA MinOfTwo ==
    ASSUME NEW a \in Nat, NEW b \in Nat
    PROVE  /\ Min({a, b}) \in Nat
           /\ a <= b => Min({a, b}) = a
           /\ b <= a => Min({a, b}) = b
<1> DEFINE m == CHOOSE x \in {a, b} : \A y \in {a, b} : x <= y
<1>1. \E x \in {a, b} : \A y \in {a, b} : x <= y
  <2>1. CASE a <= b
    BY <2>1
  <2>2. CASE b <= a
    BY <2>2
  <2> QED
    BY <2>1, <2>2
<1>2. m \in {a, b} /\ \A y \in {a, b} : m <= y
  BY <1>1
<1>3. Min({a, b}) = m
  BY DEF Min
<1> HIDE DEF m
<1> QED
  BY <1>2, <1>3

\* The words that are in the set are finitely many.
LEMMA KeptFinite ==
    /\ Kept \subseteq Words /\ IsFiniteSet(Kept)
    /\ Cardinality(Kept) \in Nat /\ Cardinality(Kept) <= Cardinality(Words)
    /\ \A D : IsFiniteSet(Kept \ D) /\ Cardinality(Kept \ D) \in Nat
               /\ Cardinality(Kept \ D) <= Cardinality(Kept)
<1>1. Kept \subseteq Words
  BY DEF Kept
<1>2. IsFiniteSet(Kept) /\ Cardinality(Kept) \in Nat /\ Cardinality(Kept) <= Cardinality(Words)
  BY <1>1, TrendingAssumption, FS_Subset, FS_CardinalityType
<1>3. ASSUME NEW D
      PROVE  IsFiniteSet(Kept \ D) /\ Cardinality(Kept \ D) \in Nat
             /\ Cardinality(Kept \ D) <= Cardinality(Kept)
  <2>1. Kept \ D \in SUBSET Kept
    OBVIOUS
  <2> QED
    BY <2>1, <1>2, FS_Subset, FS_CardinalityType
<1> QED
  BY <1>1, <1>2, <1>3

LEMMA TrimInvInit == TrendInit => TrimInv
<1> SUFFICES ASSUME TrendInit PROVE TrimInv
  OBVIOUS
<1>1. TrendTypeOK
  BY TrendTypes, TrendNats, TrendPoints DEF TrendInit
<1> QED
  BY <1>1 DEF TrendInit, TrimInv, TrimBounds

\* Storing words adds those that are new to the set, less those counted.
LEMMA StoreGrows ==
    ASSUME NEW words \in SUBSET Words, NEW D, Kept' = Kept \union words
    PROVE  /\ Cardinality(words \ Kept) \in Nat
           /\ Cardinality(Kept') \in Nat /\ Cardinality(Kept') <= Cardinality(Words)
           /\ Cardinality(Kept' \ D) \in Nat /\ Cardinality(Kept' \ D) <= Cardinality(Words)
           /\ Cardinality(Kept') <= Cardinality(Kept) + Cardinality(words \ Kept)
           /\ Cardinality(Kept' \ D) <= Cardinality(Kept \ D) + Cardinality(words \ Kept)
<1> DEFINE New == words \ Kept
           Left == Kept \ D
           Both == Left \union New
<1>1. /\ IsFiniteSet(Kept) /\ IsFiniteSet(Left) /\ IsFiniteSet(Words)
      /\ Cardinality(Kept) \in Nat /\ Cardinality(Left) \in Nat /\ Cardinality(Words) \in Nat
  BY KeptFinite, TrendNats
<1>2. New \in SUBSET Words /\ Kept' = Kept \union New /\ Kept' \in SUBSET Words
      /\ Kept' \ D \in SUBSET Both /\ Kept' \ D \in SUBSET Words
  BY KeptFinite
<1>3. IsFiniteSet(New) /\ Cardinality(New) \in Nat
  BY <1>1, <1>2, FS_Subset, FS_CardinalityType
<1>4. /\ Cardinality(Kept') \in Nat /\ Cardinality(Kept') <= Cardinality(Words)
      /\ Cardinality(Kept' \ D) \in Nat /\ Cardinality(Kept' \ D) <= Cardinality(Words)
  BY <1>1, <1>2, FS_Subset, FS_CardinalityType
<1>5. ASSUME NEW S, IsFiniteSet(S), IsFiniteSet(New)
      PROVE  /\ IsFiniteSet(S \union New)
             /\ Cardinality(S \union New) <= Cardinality(S) + Cardinality(New)
  <2>1. /\ IsFiniteSet(S \union New)
        /\ Cardinality(S \union New)
             = Cardinality(S) + Cardinality(New) - Cardinality(S \cap New)
    BY <1>5, FS_Union
  <2>2. S \cap New \in SUBSET S
    OBVIOUS
  <2>3. /\ Cardinality(S \cap New) \in Nat /\ Cardinality(S) \in Nat
        /\ Cardinality(New) \in Nat
    BY <1>5, <2>2, FS_Subset, FS_CardinalityType
  <2> HIDE DEF New
  <2> QED
    BY <2>1, <2>3
<1>6. Cardinality(Kept') <= Cardinality(Kept) + Cardinality(New)
  BY <1>1, <1>2, <1>3, <1>5
<1>7. /\ IsFiniteSet(Both)
      /\ Cardinality(Both) <= Cardinality(Left) + Cardinality(New)
  BY <1>1, <1>3, <1>5
<1>8. Cardinality(Both) \in Nat /\ Cardinality(Kept' \ D) <= Cardinality(Both)
  BY <1>2, <1>7, FS_Subset, FS_CardinalityType
<1>9. Cardinality(Kept' \ D) <= Cardinality(Left) + Cardinality(New)
  <2> HIDE DEF Both, New, Left
  <2> QED
    BY <1>1, <1>3, <1>4, <1>7, <1>8
<1> QED
  BY <1>3, <1>4, <1>6, <1>9

\* The invariant after a step of which only this is known.
LEMMA TrimInvNext == TrimInv /\ [TrendNext]_trendVars => TrimInv'
<1> SUFFICES ASSUME TrimInv, [TrendNext]_trendVars PROVE TrimInv'
  OBVIOUS
<1>i. TrendTypeOK /\ TrimInv
  BY DEF TrimInv
<1>t. /\ score \in [Words -> Scores] /\ shot \in [Words -> Scores]
      /\ seen \in [Words -> SeenPoints] /\ trim \in TrimPoints
      /\ staleWords \subseteq Words /\ doomed \subseteq Words
      /\ arrived \in Nat /\ excess \in Nat /\ trims \in Trims
  BY <1>i, TrendTypes
<1>k. /\ MaxKeywords \in Nat /\ Cardinality(Words) \in Nat /\ Cardinality(Kept) \in Nat
      /\ \A D : Cardinality(Kept \ D) \in Nat
  BY TrendNats, KeptFinite
\* Keeping where the trimmer is and fewer words in the set keeps the bounds.
<1>f. ASSUME UNCHANGED <<trim, excess, doomed, trims, arrived>>, Kept' \in SUBSET Kept
      PROVE  /\ TrimBounds'
             /\ trim' = "choose" => Cardinality(Kept') <= MaxKeywords + excess' + arrived'
             /\ trim' = "cut" => Cardinality(Kept' \ doomed') <= MaxKeywords + arrived'
  <2>1. Kept' \ doomed \in SUBSET (Kept \ doomed)
    BY <1>f
  <2>2. IsFiniteSet(Kept) /\ IsFiniteSet(Kept \ doomed)
    BY KeptFinite
  <2>3. /\ Cardinality(Kept') \in Nat /\ Cardinality(Kept') <= Cardinality(Kept)
        /\ Cardinality(Kept' \ doomed) \in Nat
        /\ Cardinality(Kept' \ doomed) <= Cardinality(Kept \ doomed)
    BY <1>f, <2>1, <2>2, FS_Subset, FS_CardinalityType
  <2>4. doomed' = doomed /\ excess' = excess /\ arrived' = arrived /\ trim' = trim /\ trims' = trims
    BY <1>f
  <2> QED
    BY <2>3, <2>4, <1>i, <1>t, <1>k DEF TrimInv, TrimBounds
<1>1. ASSUME NEW words \in SUBSET Words, StoreKeywords(words) PROVE TrimInv'
  <2>1. /\ \A w \in words : score[w] < MaxScore
        /\ score' = [w \in Words |-> IF w \in words THEN score[w] + 1 ELSE score[w]]
        /\ seen' = [w \in Words |-> IF w \in words THEN "recently" ELSE seen[w]]
        /\ arrived' = Min({arrived + Cardinality(words \ Kept), Cardinality(Words)})
        /\ UNCHANGED <<trim, staleWords, shot, excess, doomed, trims>>
    BY <1>1 DEF StoreKeywords
  <2>2. \A w \in Words : score[w] \in Nat
    BY <1>t, TrendNats
  <2>3. Kept' = Kept \union words
    BY <2>1, <2>2 DEF Kept
  <2>4. /\ Cardinality(words \ Kept) \in Nat
        /\ Cardinality(Kept') \in Nat /\ Cardinality(Kept') <= Cardinality(Words)
        /\ Cardinality(Kept' \ doomed) \in Nat /\ Cardinality(Kept' \ doomed) <= Cardinality(Words)
        /\ Cardinality(Kept') <= Cardinality(Kept) + Cardinality(words \ Kept)
        /\ Cardinality(Kept' \ doomed) <= Cardinality(Kept \ doomed) + Cardinality(words \ Kept)
    BY <2>3, StoreGrows
  <2>5. arrived + Cardinality(words \ Kept) \in Nat
    BY <2>4, <1>t
  <2>6. /\ arrived' \in Nat
        /\ arrived' = arrived + Cardinality(words \ Kept) \/ arrived' = Cardinality(Words)
    <3> DEFINE sum == arrived + Cardinality(words \ Kept)
               cap == Cardinality(Words)
    <3>1. sum \in Nat /\ cap \in Nat /\ arrived' = Min({sum, cap})
      BY <2>1, <2>5, <1>k
    <3> HIDE DEF sum, cap
    <3>2. Min({sum, cap}) \in Nat /\ (Min({sum, cap}) = sum \/ Min({sum, cap}) = cap)
      BY <3>1, MinOfTwo
    <3> QED
      BY <3>1, <3>2 DEF sum, cap
  <2>7. TrendTypeOK'
    <3>1. score' \in [Words -> Scores]
      <4>1. \A w \in words : score[w] + 1 \in Scores
        BY <2>1, <2>2, TrendNats
      <4> QED
        BY <4>1, <2>1, <1>t
    <3>2. seen' \in [Words -> SeenPoints]
      BY <2>1, <1>t, TrendPoints
    <3> QED
      BY <3>1, <3>2, <2>1, <2>6, <1>t, TrendTypes DEF TrendTypeOK, Scores, Trims, SeenPoints, TrimPoints
  <2>8. trim' = trim /\ doomed' = doomed /\ excess' = excess /\ trims' = trims
    BY <2>1
  <2>9. TrimBounds'
    BY <2>4, <2>6, <2>8, <1>i, <1>t, <1>k DEF TrimInv, TrimBounds
  <2>10. trim' = "choose" => Cardinality(Kept') <= MaxKeywords + excess' + arrived'
    BY <2>4, <2>6, <2>8, <1>i, <1>t, <1>k DEF TrimInv
  <2>11. trim' = "cut" => Cardinality(Kept' \ doomed') <= MaxKeywords + arrived'
    BY <2>4, <2>6, <2>8, <1>i, <1>t, <1>k DEF TrimInv
  <2> QED
    BY <2>7, <2>9, <2>10, <2>11 DEF TrimInv
<1>2. ASSUME NEW w \in Words, Forgotten(w) PROVE TrimInv'
  <2>1. /\ seen' = [seen EXCEPT ![w] = "long ago"]
        /\ UNCHANGED <<score, trim, staleWords, shot, excess, doomed, trims, arrived>>
    BY <1>2 DEF Forgotten
  <2>2. Kept' \in SUBSET Kept
    BY <2>1 DEF Kept
  <2>3. seen' \in [Words -> SeenPoints]
    BY <2>1, <1>t, TrendPoints
  <2>4. TrendTypeOK'
    BY <2>1, <2>3, <1>i DEF TrendTypeOK, SeenPoints
  <2> QED
    BY <2>1, <2>2, <2>4, <1>f DEF TrimInv
<1>3. CASE KeysExpire
  <2>1. /\ score' = [w \in Words |-> 0] /\ seen' = [w \in Words |-> "never"]
        /\ UNCHANGED <<trim, staleWords, shot, excess, doomed, trims, arrived>>
    BY <1>3 DEF KeysExpire
  <2>2. Kept' \in SUBSET Kept
    BY <2>1 DEF Kept
  <2>3. TrendTypeOK'
    BY <2>1, <1>i, TrendNats DEF TrendTypeOK, Scores
  <2> QED
    BY <2>1, <2>2, <2>3, <1>f DEF TrimInv
\* Where the trimmer goes next nothing is bounded.
<1>4. CASE FindStale \/ RemoveStale \/ Scan \/ ReadTimes \/ Decay
  <2>1. TrendTypeOK'
    <3>1. CASE FindStale
      <4>0. trims < MaxTrims /\ trims \in Nat
        BY <3>1, <1>t, TrendNats DEF FindStale
      <4>1. trims + 1 \in Trims
        BY <4>0, TrendNats
      <4> QED
        BY <4>1, <3>1, <1>i DEF FindStale, TrimStep, TrendTypeOK, Trims
    <3>2. CASE RemoveStale
      <4>1. score' \in [Words -> Scores] /\ seen' \in [Words -> SeenPoints]
        BY <3>2, <1>t, TrendNats, TrendPoints DEF RemoveStale
      <4> QED
        BY <4>1, <3>2, <1>i DEF RemoveStale, TrimStep, TrendTypeOK, Scores, SeenPoints
    <3>3. CASE Scan
      BY <3>3, <1>i DEF Scan, TrimStep, TrendTypeOK
    <3>4. CASE ReadTimes
      BY <3>4, <1>i DEF ReadTimes, TrimStep, TrendTypeOK
    <3>5. CASE Decay
      <4>1. score' \in [Words -> 0 .. MaxScore] /\ shot' = [w \in Words |-> 0]
            /\ doomed' = {} /\ trim' = "count" /\ UNCHANGED <<staleWords, excess, trims, arrived>>
        BY <3>5 DEF Decay, TrimStep
      <4>2. seen' \in [Words -> SeenPoints]
        BY <3>5, <1>t, TrendPoints DEF Decay
      <4>3. shot' \in [Words -> Scores]
        BY <4>1, TrendNats
      <4> QED
        BY <4>1, <4>2, <4>3, <1>i DEF TrendTypeOK, Scores, SeenPoints
    <3> QED
      BY <1>4, <3>1, <3>2, <3>3, <3>4, <3>5
  <2>2. trim' \in {"stale", "scan", "decay", "write", "count"}
    BY <1>4 DEF FindStale, RemoveStale, Scan, ReadTimes, Decay, TrimStep
  <2> QED
    BY <2>1, <2>2 DEF TrimInv, TrimBounds
<1>5. CASE Count
  <2>1. /\ trim' = "choose" /\ arrived' = 0
        /\ excess' = IF Cardinality(Kept) > MaxKeywords THEN Cardinality(Kept) - MaxKeywords ELSE 0
        /\ UNCHANGED <<score, seen, staleWords, shot, doomed, trims>>
    BY <1>5 DEF Count, TrimStep
  <2>2. Kept' = Kept
    BY <2>1 DEF Kept
  <2>3. excess' \in Nat /\ Cardinality(Kept) <= MaxKeywords + excess' + 0
    BY <2>1, <1>k
  <2>4. TrendTypeOK'
    BY <2>1, <2>3, <1>i DEF TrendTypeOK
  <2> QED
    BY <2>1, <2>2, <2>3, <2>4 DEF TrimInv, TrimBounds
<1>6. CASE Choose
  <2>1. /\ trim = "choose" /\ trim' = "cut" /\ doomed' \in SUBSET Kept /\ excess' = 0
        /\ Cardinality(doomed') = Min({excess, Cardinality(Kept)})
        /\ UNCHANGED <<score, seen, staleWords, shot, trims, arrived>>
    BY <1>6 DEF Choose, TrimStep
  <2>2. Kept' = Kept
    BY <2>1 DEF Kept
  <2>3. Kept \cap doomed' = doomed' /\ IsFiniteSet(Kept)
    BY <2>1, KeptFinite
  <2>4. Cardinality(Kept \ doomed') = Cardinality(Kept) - Cardinality(doomed')
    BY <2>3, FS_Difference
  <2>5. \/ excess <= Cardinality(Kept) /\ Cardinality(doomed') = excess
        \/ Cardinality(Kept) <= excess /\ Cardinality(doomed') = Cardinality(Kept)
    BY <2>1, <1>t, <1>k, MinOfTwo
  <2>6. Cardinality(Kept) <= MaxKeywords + excess + arrived
    BY <2>1, <1>i DEF TrimInv
  <2>7. Cardinality(Kept \ doomed') <= MaxKeywords + arrived
    BY <2>4, <2>5, <2>6, <1>t, <1>k
  <2>8. doomed' \subseteq Words
    BY <2>1, KeptFinite
  <2>9. TrendTypeOK'
    BY <2>1, <2>8, <1>i DEF TrendTypeOK
  <2> QED
    BY <2>1, <2>2, <2>7, <2>9 DEF TrimInv, TrimBounds
<1>7. CASE Cut
  <2>1. /\ trim = "cut" /\ trim' = "idle" /\ doomed' = {}
        /\ score' = [w \in Words |-> IF w \in doomed THEN 0 ELSE score[w]]
        /\ seen' = [w \in Words |-> IF w \in doomed THEN "never" ELSE seen[w]]
        /\ UNCHANGED <<staleWords, shot, excess, trims, arrived>>
    BY <1>7 DEF Cut, TrimStep
  <2>2. Kept' = Kept \ doomed
    BY <2>1 DEF Kept
  <2>3. score' \in [Words -> Scores] /\ seen' \in [Words -> SeenPoints]
    BY <2>1, <1>t, TrendNats, TrendPoints
  <2>4. TrendTypeOK'
    BY <2>1, <2>3, <1>i DEF TrendTypeOK, Scores, SeenPoints
  <2>5. Cardinality(Kept \ doomed) <= MaxKeywords + arrived
    BY <2>1, <1>i DEF TrimInv
  <2> QED
    BY <2>1, <2>2, <2>4, <2>5 DEF TrimInv, TrimBounds
<1>8. CASE UNCHANGED trendVars
  <2>1. UNCHANGED <<score, seen, trim, staleWords, shot, excess, doomed, trims, arrived>>
    BY <1>8 DEF trendVars
  <2>2. Kept' \in SUBSET Kept
    BY <2>1 DEF Kept
  <2>3. TrendTypeOK'
    BY <2>1, <1>i DEF TrendTypeOK
  <2> QED
    BY <2>1, <2>2, <2>3, <1>f DEF TrimInv
<1> QED
  BY <1>1, <1>2, <1>3, <1>4, <1>5, <1>6, <1>7, <1>8 DEF TrendNext

\* A trim leaves at most as many words as are allowed, and one more for each new word
\* stored after it had counted, for any number of words, any bound and any order of the
\* stores, the decay and the expiry.
THEOREM TrimBoundsHolds == TrendSpec => []TrimBounds
<1>1. TrendSpec => []TrimInv
  BY TrimInvInit, TrimInvNext, PTL DEF TrendSpec
<1>2. TrimInv => TrimBounds
  BY DEF TrimInv
<1> QED
  BY <1>1, <1>2, PTL

-----------------------------------------------------------------------------
(***************************************************************************)
(* Signing in and the audit log.                                           *)
(***************************************************************************)

\* What handlers are made of.
Deeds == {"look", "find", "write", "call", "audit"}

\* In what is left of a handler, no change comes after the audit row.
Orderly(s) ==
    \A i, j \in DOMAIN s : i < j /\ s[i] = "audit" => s[j] \notin Changing

Has(s, deed) == \E i \in DOMAIN s : s[i] = deed

ChangesIn(s) == \E i \in DOMAIN s : s[i] \in Changing

RequestShape == [handler : Seq(Deeds), left : Seq(Deeds), changed : BOOLEAN,
                 audited : BOOLEAN, answer : {"none", "ok", "error"}]

\* What the steps made so far have left behind, seen from those that are left.
Sound(q) ==
    LET h == q.handler
    IN  ChangesIn(h) =>
          /\ Orderly(q.left)
          /\ q.left # <<>> /\ ~ChangesIn(q.left) => q.changed
          /\ q.audited => q.changed

\* A request that has no handler yet has left nothing behind.
Fresh(q) == q.handler = <<>> => q.left = <<>> /\ ~q.audited /\ q.answer = "none"

Recorded(q) ==
    /\ Fresh(q)
    /\ q.left # <<>> => q.audited \/ Has(q.left, "audit")
    /\ q.answer = "ok" => q.audited

AuditInv ==
    /\ request \in [Requests -> RequestShape]
    /\ \A r \in Requests : Sound(request[r]) /\ Recorded(request[r])

-----------------------------------------------------------------------------

LEMMA ChangesIsIn == \A s \in Seq(Deeds) : Changes(s) <=> ChangesIn(s)
  BY DEF Changes, ChangesIn, ToSet, Changing

\* Every handler writes its audit row, and after its changes if it makes any.
LEMMA HandlersOrderly ==
    \A h \in Handlers : h \in Seq(Deeds) /\ h # <<>> /\ Has(h, "audit") /\ (ChangesIn(h) => Orderly(h))
<1> SUFFICES ASSUME NEW h \in Handlers
             PROVE  h \in Seq(Deeds) /\ h # <<>> /\ Has(h, "audit") /\ (ChangesIn(h) => Orderly(h))
  OBVIOUS
<1> USE DEF Deeds, Has, ChangesIn, Orderly, Changing
<1>1. CASE h = <<"look", "audit">>
  BY <1>1
<1>2. CASE h = <<"find", "write", "audit">>
  BY <1>2
<1>3. CASE h = <<"audit", "look">>
  BY <1>3
<1>4. CASE h = <<"write", "audit", "look">>
  BY <1>4
<1>5. CASE h = <<"audit">>
  BY <1>5
<1>6. CASE h = <<"write", "write", "audit">>
  BY <1>6
<1>7. CASE h = <<"write", "audit">>
  BY <1>7
<1>8. CASE h = <<"call", "audit">>
  BY <1>8
<1> QED
  BY <1>1, <1>2, <1>3, <1>4, <1>5, <1>6, <1>7, <1>8
  DEF Handlers, ListRoles, AssignRole, ListFlags, ToggleFlag, Protected, TriggerCleanup,
      PurgePii, ApproveRun, RejectRun, AuditLogs, ListModels, SwitchModel, EditTask, RetryTask

\* What a step leaves is the rest of what was left.
LEMMA RestOf ==
    ASSUME NEW s \in Seq(Deeds), s # <<>>
    PROVE  /\ Tail(s) \in Seq(Deeds) /\ Head(s) \in Deeds
           /\ Orderly(s) => Orderly(Tail(s))
           /\ ChangesIn(s) => Head(s) \in Changing \/ ChangesIn(Tail(s))
           /\ Has(s, "audit") => Head(s) = "audit" \/ Has(Tail(s), "audit")
           /\ Orderly(s) /\ Head(s) = "audit" => ~ChangesIn(Tail(s))
           /\ ChangesIn(Tail(s)) => ChangesIn(s)
           /\ Len(s) = 1 <=> Tail(s) = <<>>
<1>1. /\ Tail(s) \in Seq(Deeds) /\ Head(s) \in Deeds /\ Head(s) = s[1]
      /\ Len(s) \in Nat \ {0} /\ Len(Tail(s)) = Len(s) - 1
      /\ DOMAIN s = 1 .. Len(s) /\ DOMAIN Tail(s) = 1 .. Len(s) - 1
      /\ \A i \in 1 .. Len(s) - 1 : Tail(s)[i] = s[i + 1]
  OBVIOUS
<1>2. \A i \in DOMAIN s : i = 1 \/ (i - 1 \in DOMAIN Tail(s) /\ Tail(s)[i - 1] = s[i])
  BY <1>1
<1>3. \A i \in DOMAIN Tail(s) : i + 1 \in DOMAIN s /\ i + 1 > 1 /\ 1 \in DOMAIN s
  BY <1>1
<1>4. Orderly(s) => Orderly(Tail(s))
  BY <1>1, <1>3 DEF Orderly
<1>5. ChangesIn(s) => Head(s) \in Changing \/ ChangesIn(Tail(s))
  BY <1>1, <1>2 DEF ChangesIn
<1>6. Has(s, "audit") => Head(s) = "audit" \/ Has(Tail(s), "audit")
  BY <1>1, <1>2 DEF Has
<1>7. Orderly(s) /\ Head(s) = "audit" => ~ChangesIn(Tail(s))
  BY <1>1, <1>3 DEF Orderly, ChangesIn
<1>8. ChangesIn(Tail(s)) => ChangesIn(s)
  BY <1>1, <1>3 DEF ChangesIn
<1>9. Len(s) = 1 <=> Tail(s) = <<>>
  BY <1>1
<1> QED
  BY <1>1, <1>4, <1>5, <1>6, <1>7, <1>8, <1>9

\* The request after a step, field by field.
LEMMA MadeShape ==
    ASSUME NEW q \in RequestShape, q.left # <<>>
    PROVE  /\ Made(q) \in RequestShape
           /\ Made(q).handler = q.handler /\ Made(q).left = Tail(q.left)
           /\ Made(q).changed <=> q.changed \/ Head(q.left) \in Changing
           /\ Made(q).audited <=> q.audited \/ Head(q.left) = "audit"
           /\ Made(q).answer = "ok" => q.answer = "ok" \/ Len(q.left) = 1
<1>1. q.left \in Seq(Deeds) /\ Tail(q.left) \in Seq(Deeds)
  BY RestOf DEF RequestShape
<1>2. /\ (q.changed \/ Head(q.left) \in Changing) \in BOOLEAN
      /\ (q.audited \/ Head(q.left) = "audit") \in BOOLEAN
      /\ (IF Len(q.left) = 1 THEN "ok" ELSE q.answer) \in {"none", "ok", "error"}
  BY DEF RequestShape
<1> QED
  BY <1>1, <1>2 DEF Made, RequestShape

LEMMA MadeSound ==
    ASSUME NEW q \in RequestShape, q.left # <<>>, Sound(q), Recorded(q)
    PROVE  Sound(Made(q)) /\ Recorded(Made(q))
<1> DEFINE n == Made(q)
<1>1. /\ n.handler = q.handler /\ n.left = Tail(q.left)
      /\ n.changed <=> q.changed \/ Head(q.left) \in Changing
      /\ n.audited <=> q.audited \/ Head(q.left) = "audit"
      /\ n.answer = "ok" => q.answer = "ok" \/ Len(q.left) = 1
  BY MadeShape
<1>2. q.left \in Seq(Deeds)
  BY DEF RequestShape
<1> HIDE DEF n
<1>3. Sound(n)
  <2> SUFFICES ASSUME ChangesIn(q.handler)
               PROVE  /\ Orderly(n.left)
                      /\ n.left # <<>> /\ ~ChangesIn(n.left) => n.changed
                      /\ n.audited => n.changed
    BY <1>1 DEF Sound
  <2>1. Orderly(q.left) /\ (~ChangesIn(q.left) => q.changed) /\ (q.audited => q.changed)
    BY DEF Sound
  <2>2. ~ChangesIn(n.left) => n.changed
    BY <1>1, <1>2, <2>1, RestOf
  <2>3. Head(q.left) = "audit" => n.changed
    BY <1>1, <1>2, <2>1, <2>2, RestOf
  <2> QED
    BY <1>1, <1>2, <2>1, <2>2, <2>3, RestOf
<1>4. Recorded(n)
  <2>1. n.audited \/ Has(n.left, "audit")
    BY <1>1, <1>2, RestOf DEF Recorded
  <2>2. Len(q.left) = 1 => ~Has(n.left, "audit")
    BY <1>1, <1>2, RestOf DEF Has
  <2> QED
    BY <1>1, <2>1, <2>2 DEF Recorded, Fresh
<1> QED
  BY <1>3, <1>4 DEF n

-----------------------------------------------------------------------------

LEMMA AccessInitOK == AccessInit => AuditInv
<1> SUFFICES ASSUME AccessInit PROVE AuditInv
  OBVIOUS
<1>1. request \in [Requests -> RequestShape]
  BY DEF AccessInit, RequestShape
<1>2. \A r \in Requests : request[r].handler = <<>> /\ request[r].left = <<>>
                         /\ ~request[r].audited /\ request[r].answer = "none"
  BY DEF AccessInit
<1>3. ~ChangesIn(<<>>)
  BY DEF ChangesIn
<1> QED
  BY <1>1, <1>2, <1>3 DEF AuditInv, Sound, Recorded, Fresh

\* What becomes of one request is sound if its new record is.
LEMMA OneRequest ==
    ASSUME AuditInv, NEW r \in Requests, NEW q \in RequestShape,
           request' = [request EXCEPT ![r] = q], Sound(q), Recorded(q)
    PROVE  AuditInv'
  BY DEF AuditInv

LEMMA AccessNextOK == AuditInv /\ [AccessNext]_accessVars => AuditInv'
<1> SUFFICES ASSUME AuditInv, [AccessNext]_accessVars PROVE AuditInv'
  OBVIOUS
<1>1. ASSUME NEW r \in Requests, NEW t \in Tokens, NEW h \in Handlers, LetIn(r, t, h)
      PROVE  AuditInv'
  <2> DEFINE q == [request[r] EXCEPT !.handler = h, !.left = h]
  <2>1. request[r] \in RequestShape /\ h \in Seq(Deeds)
    BY HandlersOrderly DEF AuditInv
  <2>2. request[r].handler = <<>> /\ request' = [request EXCEPT ![r] = q]
    BY <1>1 DEF LetIn
  <2>3. ~request[r].audited /\ request[r].answer = "none"
    BY <2>2 DEF AuditInv, Recorded, Fresh
  <2>4. /\ q \in RequestShape /\ q.handler = h /\ q.left = h
        /\ ~q.audited /\ q.answer = "none"
    BY <2>1, <2>3 DEF RequestShape
  <2> HIDE DEF q
  <2>5. Sound(q) /\ Recorded(q)
    BY <2>4, HandlersOrderly DEF Sound, Recorded, Fresh
  <2> QED
    BY <2>2, <2>4, <2>5, OneRequest
<1>2. ASSUME NEW r \in Requests, Step(r) PROVE AuditInv'
  <2>1. /\ request[r] \in RequestShape /\ request[r].left # <<>>
        /\ Sound(request[r]) /\ Recorded(request[r])
        /\ request' = [request EXCEPT ![r] = Made(request[r])]
    BY <1>2 DEF AuditInv, Step
  <2> QED
    BY <2>1, MadeShape, MadeSound, OneRequest
<1>3. ASSUME NEW r \in Requests, NEW c \in BOOLEAN, request[r].left # <<>>,
             request' = [request EXCEPT ![r] = [request[r] EXCEPT !.left = <<>>,
                           !.changed = request[r].changed \/ c, !.answer = "error"]]
      PROVE  AuditInv'
  <2> DEFINE q == [request[r] EXCEPT !.left = <<>>, !.changed = request[r].changed \/ c,
                                     !.answer = "error"]
  <2>1. request[r] \in RequestShape /\ Sound(request[r]) /\ Recorded(request[r])
    BY DEF AuditInv
  <2>2. /\ q \in RequestShape /\ q.handler = request[r].handler /\ q.left = <<>>
        /\ (q.audited <=> request[r].audited) /\ q.answer = "error"
        /\ request[r].changed => q.changed
    <3>1. <<>> \in Seq(Deeds) /\ (request[r].changed \/ c) \in BOOLEAN
      OBVIOUS
    <3>2. q \in RequestShape
      BY <2>1, <3>1 DEF RequestShape
    <3> QED
      BY <2>1, <3>1, <3>2 DEF RequestShape
  <2> HIDE DEF q
  <2>3. Orderly(<<>>)
    BY DEF Orderly
  <2>4. Sound(q) /\ Recorded(q)
    BY <1>3, <2>1, <2>2, <2>3 DEF Sound, Recorded, Fresh
  <2>5. request' = [request EXCEPT ![r] = q]
    BY <1>3 DEF q
  <2> QED
    BY <2>2, <2>4, <2>5, OneRequest
<1>4. ASSUME NEW r \in Requests, Raise(r) PROVE AuditInv'
  <2>1. request[r] \in RequestShape
    BY DEF AuditInv
  <2>2. request' = [request EXCEPT ![r] = [request[r] EXCEPT !.left = <<>>,
                      !.changed = request[r].changed \/ FALSE, !.answer = "error"]]
    BY <1>4, <2>1 DEF Raise, RequestShape, AuditInv
  <2> QED
    BY <1>3, <1>4, <2>2 DEF Raise
<1>5. ASSUME NEW r \in Requests, CallTimesOut(r) PROVE AuditInv'
  <2>1. request' = [request EXCEPT ![r] = [request[r] EXCEPT !.left = <<>>,
                      !.changed = request[r].changed \/ TRUE, !.answer = "error"]]
    BY <1>5 DEF CallTimesOut, AuditInv
  <2> QED
    BY <1>3, <1>5, <2>1 DEF CallTimesOut
<1>6. CASE UNCHANGED request
  BY <1>6 DEF AuditInv
<1> QED
  BY <1>1, <1>2, <1>4, <1>5, <1>6
  DEF AccessNext, SeedRole, IssueToken, Refresh, Expire, Revoke, RevokeToken, accessVars


\* What can be left of a handler.
Rests == UNION {Suffixes(h) : h \in Handlers \union {<<>>}}

\* A request keeps to one of the handlers, and the tables to those there are.
AccessTypes ==
    /\ \A r \in Requests : request[r].handler \in Handlers \union {<<>>} /\ request[r].left \in Rests
    /\ roles \subseteq Users
    /\ refresh \subseteq Renewals /\ expired \subseteq Renewals \union Tokens
    /\ revoked \subseteq Tokens

\* A handler is a rest of itself, and the rest of a rest is one.
LEMMA RestsClosed ==
    /\ <<>> \in Rests
    /\ \A h \in Handlers : h \in Rests
    /\ \A x \in Rests : x # <<>> => Tail(x) \in Rests
<1>1. <<>> \in Rests
  BY DEF Rests, Suffixes
<1>2. ASSUME NEW h \in Handlers PROVE h \in Rests
  <2>1. h \in Seq(Deeds) /\ h # <<>>
    BY HandlersOrderly
  <2>2. SubSeq(h, 1, Len(h)) = h /\ 1 \in 1 .. Len(h)
    BY <2>1, SubSeqFull
  <2>3. h \in Suffixes(h)
    BY <2>2 DEF Suffixes
  <2> QED
    BY <2>3 DEF Rests
<1>3. ASSUME NEW x \in Rests, x # <<>> PROVE Tail(x) \in Rests
  <2>1. PICK h \in Handlers \union {<<>>} : x \in Suffixes(h)
    BY DEF Rests
  <2>2. h \in Seq(Deeds)
    <3>1. <<>> \in Seq(Deeds)
      OBVIOUS
    <3> QED
      BY <3>1, HandlersOrderly
  <2>3. PICK l \in 1 .. Len(h) : x = SubSeq(h, l, Len(h))
    BY <1>3, <2>1 DEF Suffixes
  <2>4. Len(h) \in Nat /\ Len(h) \in l .. Len(h)
    BY <2>2, <2>3
  <2>5. Tail(x) = SubSeq(h, l + 1, Len(h))
    BY <2>2, <2>3, <2>4, HeadTailOfSubSeq
  <2>6. Tail(x) \in Suffixes(h)
    <3>1. CASE l = Len(h)
      <4>1. SubSeq(h, l + 1, Len(h)) = <<>>
        BY <2>4, <3>1, SubSeqEmpty
      <4> QED
        BY <2>5, <4>1 DEF Suffixes
    <3>2. CASE l # Len(h)
      <4>1. l + 1 \in 1 .. Len(h)
        BY <2>4, <3>2
      <4> QED
        BY <2>5, <4>1 DEF Suffixes
    <3> QED
      BY <3>1, <3>2
  <2> QED
    BY <2>1, <2>6 DEF Rests
<1> QED
  BY <1>1, <1>2, <1>3

LEMMA AccessTypesInit == AccessInit => AccessTypes
  BY RestsClosed DEF AccessInit, AccessTypes

LEMMA AccessTypesNext == AuditInv /\ AccessTypes /\ [AccessNext]_accessVars => AccessTypes'
<1> SUFFICES ASSUME AuditInv, AccessTypes, [AccessNext]_accessVars PROVE AccessTypes'
  OBVIOUS
<1>1. \A r \in Requests : request[r] \in RequestShape
  BY DEF AuditInv
<1>2. ASSUME NEW r \in Requests, NEW q, q.handler \in Handlers \union {<<>>}, q.left \in Rests,
             request' = [request EXCEPT ![r] = q], UNCHANGED tables
      PROVE  AccessTypes'
  BY <1>2 DEF AccessTypes, AuditInv, tables
<1>3. ASSUME NEW r \in Requests, NEW t \in Tokens, NEW h \in Handlers, LetIn(r, t, h)
      PROVE  AccessTypes'
  <2> DEFINE q == [request[r] EXCEPT !.handler = h, !.left = h]
  <2>1. q.handler = h /\ q.left = h
    BY <1>1 DEF RequestShape
  <2>2. request' = [request EXCEPT ![r] = q] /\ UNCHANGED tables
    BY <1>3 DEF LetIn
  <2> HIDE DEF q
  <2> QED
    BY <1>2, <2>1, <2>2, RestsClosed
<1>4. ASSUME NEW r \in Requests, Step(r) PROVE AccessTypes'
  <2>1. request[r].left # <<>> /\ request' = [request EXCEPT ![r] = Made(request[r])] /\ UNCHANGED tables
    BY <1>4 DEF Step, AuditInv
  <2>2. Made(request[r]).handler = request[r].handler /\ Made(request[r]).left = Tail(request[r].left)
    BY <1>1, <2>1, MadeShape
  <2>3. request[r].handler \in Handlers \union {<<>>} /\ request[r].left \in Rests
    BY DEF AccessTypes
  <2>4. Tail(request[r].left) \in Rests
    BY <2>1, <2>3, RestsClosed
  <2> QED
    BY <1>2, <2>1, <2>2, <2>3, <2>4
<1>5. ASSUME NEW r \in Requests, Raise(r) PROVE AccessTypes'
  <2> DEFINE q == [request[r] EXCEPT !.left = <<>>, !.answer = "error"]
  <2>1. q.handler = request[r].handler /\ q.left = <<>>
    BY <1>1 DEF RequestShape
  <2>2. request' = [request EXCEPT ![r] = q] /\ UNCHANGED tables
    BY <1>5 DEF Raise
  <2>3. request[r].handler \in Handlers \union {<<>>}
    BY DEF AccessTypes
  <2> HIDE DEF q
  <2> QED
    BY <1>2, <2>1, <2>2, <2>3, RestsClosed
<1>6. ASSUME NEW r \in Requests, CallTimesOut(r) PROVE AccessTypes'
  <2> DEFINE q == [request[r] EXCEPT !.left = <<>>, !.changed = TRUE, !.answer = "error"]
  <2>1. q.handler = request[r].handler /\ q.left = <<>>
    BY <1>1 DEF RequestShape
  <2>2. request' = [request EXCEPT ![r] = q] /\ UNCHANGED tables
    BY <1>6 DEF CallTimesOut
  <2>3. request[r].handler \in Handlers \union {<<>>}
    BY DEF AccessTypes
  <2> HIDE DEF q
  <2> QED
    BY <1>2, <2>1, <2>2, <2>3, RestsClosed
<1>7. ASSUME NEW u \in Users, SeedRole(u) PROVE AccessTypes'
  BY <1>7 DEF SeedRole, AccessTypes
<1>8. ASSUME NEW u \in Users, NEW t \in Renewals, IssueToken(u, t) PROVE AccessTypes'
  BY <1>8 DEF IssueToken, AccessTypes
<1>9. ASSUME NEW t \in Renewals, Refresh(t) PROVE AccessTypes'
  BY <1>9 DEF Refresh, AccessTypes, accessVars
<1>10. ASSUME NEW t \in Tokens, Revoke(t) PROVE AccessTypes'
  BY <1>10 DEF Revoke, RevokeToken, AccessTypes
<1>11. ASSUME NEW t \in Renewals \union Tokens, Expire(t) PROVE AccessTypes'
  BY <1>11 DEF Expire, AccessTypes
<1>12. CASE UNCHANGED accessVars
  BY <1>12 DEF AccessTypes, accessVars
<1> QED
  BY <1>3, <1>4, <1>5, <1>6, <1>7, <1>8, <1>9, <1>10, <1>11, <1>12 DEF AccessNext

LEMMA AccessTyped == AuditInv /\ AccessTypes => AccessTypeOK
<1> SUFFICES ASSUME AuditInv, AccessTypes PROVE AccessTypeOK
  OBVIOUS
<1> DEFINE shape == [handler : Handlers \union {<<>>}, left : Rests, changed : BOOLEAN,
                     audited : BOOLEAN, answer : {"none", "ok", "error"}]
<1>1. ASSUME NEW r \in Requests PROVE request[r] \in shape
  <2>1. request[r] \in RequestShape /\ request[r].handler \in Handlers \union {<<>>}
        /\ request[r].left \in Rests
    BY DEF AuditInv, AccessTypes
  <2> QED
    BY <2>1 DEF RequestShape
<1>2. request \in [Requests -> shape]
  BY <1>1 DEF AuditInv
<1> QED
  BY <1>2 DEF AccessTypeOK, AccessTypes, Rests

\* The audit log names no change that was not made, and lacks one only if the
\* administrator was told of an error, for any number of requests of any handlers.
THEOREM AuditAccountedHolds == AccessSpec => []AuditAccounted
<1>1. AccessSpec => []AuditInv
  BY AccessInitOK, AccessNextOK, PTL DEF AccessSpec
<1>2. AuditInv => AuditAccounted
  BY ChangesIsIn DEF AuditInv, AuditAccounted, Sound, Recorded, RequestShape
<1> QED
  BY <1>1, <1>2, PTL

-----------------------------------------------------------------------------
(***************************************************************************)
(* The cache of the gateway.                                               *)
(***************************************************************************)

AsksTrending(g) == get[g].at = "ask" /\ get[g].route = "trending"
FoundOld(h) == get[h].at = "relist" /\ get[h].age > get[h].ticks

\* How old what a get has in hand can be, at each of its points.
GetAges ==
    \A g \in Gets :
      /\ get[g].at = "listing" => get[g].age <= get[g].ticks
      /\ get[g].at = "relist" => get[g].age <= GetTime + get[g].ticks
      /\ get[g].at = "respond" => get[g].age <= ListTtl + 2 * GetTime + get[g].ticks

\* A list that is there while a get asks was stored since that get looked for one, and
\* was at most the time of a call old by then.
ListYoung ==
    \A g \in Gets : AsksTrending(g) /\ list.left > 0 =>
        list.age <= GetTime + get[g].ticks /\ list.left + get[g].ticks >= ListTtl

\* So was the list that a get found at the service if it is older than the get; and the
\* get will not store it again as an older one for those that still ask.
FoundYoung ==
    \A h \in Gets : FoundOld(h) =>
        /\ list.left + get[h].ticks >= ListTtl
        /\ \A g \in Gets : AsksTrending(g) => get[h].age <= GetTime + get[g].ticks

CacheInv == GatewayCacheTypeOK /\ AnswersCurrent /\ GetAges /\ ListYoung /\ FoundYoung

GetShape == [at : {"idle", "look", "ask", "listing", "relist", "respond"},
             route : Routes, age : 0 .. Oldest + 1, ticks : 0 .. GetTime]

CacheAges == 0 .. Oldest + 1
GetPoints == {"idle", "look", "ask", "listing", "relist", "respond"}

LEMMA OldestNat == Oldest \in Nat
<1>1. RouteTtl \in Nat /\ ListTtl \in Nat /\ GetTime \in Nat
  BY GatewayCacheAssumption
<1> QED
  BY <1>1 DEF Oldest

LEMMA NoGetShape == /\ NoGet \in GetShape /\ 0 \in 0 .. Oldest + 1 /\ 0 \in 0 .. GetTime
                    /\ NoGet.at = "idle"
<1>1. 0 \in 0 .. Oldest + 1 /\ 0 \in 0 .. GetTime
  BY OldestNat, GatewayCacheAssumption
<1> QED
  BY <1>1 DEF NoGet, GetShape, Routes

LEMMA CacheInvInit == GatewayCacheInit => CacheInv
<1> SUFFICES ASSUME GatewayCacheInit PROVE CacheInv
  OBVIOUS
<1>1. \A g \in Gets : get[g] = NoGet /\ get[g].at = "idle"
  BY NoGetShape DEF GatewayCacheInit
<1>2. GatewayCacheTypeOK
  <2>1. NoAnswer \in [age : 0 .. Oldest + 1, left : 0 .. ListTtl]
        /\ NoAnswer \in [age : 0 .. Oldest + 1, left : 0 .. RouteTtl]
    <3>1. 0 \in 0 .. RouteTtl /\ 0 \in 0 .. ListTtl
      BY GatewayCacheAssumption
    <3> QED
      BY <3>1, NoGetShape DEF NoAnswer
  <2> QED
    BY <1>1, <2>1, NoGetShape DEF GatewayCacheInit, GatewayCacheTypeOK, GetShape
<1>3. AnswersCurrent
  BY DEF AnswersCurrent, GatewayCacheInit, NoAnswer
<1> QED
  BY <1>1, <1>2, <1>3 DEF CacheInv, GetAges, ListYoung, FoundYoung, AsksTrending, FoundOld

LEMMA PointsNamed == /\ "look" \in GetPoints /\ "ask" \in GetPoints /\ "listing" \in GetPoints
                     /\ "relist" \in GetPoints /\ "respond" \in GetPoints
  BY DEF GetPoints

LEMMA MoveEffect ==
    ASSUME get \in [Gets -> GetShape], NEW g \in Gets, NEW from,
           NEW to \in GetPoints, NEW age \in CacheAges,
           MoveOn(g, from, to, age)
    PROVE  /\ get' \in [Gets -> GetShape]
           /\ get[g].at = from /\ get'[g].at = to /\ get'[g].age = age
           /\ get'[g].route = get[g].route /\ get'[g].ticks = get[g].ticks
           /\ \A h \in Gets \ {g} : get'[h] = get[h]
<1>1. get' = [get EXCEPT ![g] = [get[g] EXCEPT !.at = to, !.age = age]] /\ get[g].at = from
  BY DEF MoveOn, GetShape
<1>2. [get[g] EXCEPT !.at = to, !.age = age] \in GetShape
  BY DEF GetShape, CacheAges, GetPoints
<1> QED
  BY <1>1, <1>2 DEF GetShape

LEMMA ShapeFacts ==
    ASSUME get \in [Gets -> GetShape], NEW g \in Gets
    PROVE  /\ get[g].age \in 0 .. Oldest + 1 /\ get[g].age \in Nat
           /\ get[g].ticks \in Nat /\ get[g].ticks <= GetTime /\ get[g].route \in Routes
  BY GatewayCacheAssumption, OldestNat DEF GetShape

LEMMA ListFacts ==
    ASSUME GatewayCacheTypeOK
    PROVE  /\ list.age \in 0 .. Oldest + 1 /\ list.age \in Nat
           /\ list.left \in Nat /\ list.left <= ListTtl
  BY GatewayCacheAssumption, OldestNat DEF GatewayCacheTypeOK

LEMMA CacheInvNext == CacheInv /\ [GatewayCacheNext]_gatewayCacheVars => CacheInv'
<1> SUFFICES ASSUME CacheInv, [GatewayCacheNext]_gatewayCacheVars
             PROVE  CacheInv'
  OBVIOUS
<1> USE GatewayCacheAssumption, OldestNat
<1>t. GatewayCacheTypeOK /\ get \in [Gets -> GetShape]
  BY DEF CacheInv, GatewayCacheTypeOK, GetShape
<1>s. \A g \in Gets : /\ get[g].age \in 0 .. Oldest + 1 /\ get[g].age \in Nat
                      /\ get[g].ticks \in Nat /\ get[g].ticks <= GetTime /\ get[g].route \in Routes
  BY <1>t, ShapeFacts
<1>l. /\ list.age \in 0 .. Oldest + 1 /\ list.age \in Nat
      /\ list.left \in Nat /\ list.left <= ListTtl
  BY <1>t, ListFacts
<1>i. AnswersCurrent /\ GetAges /\ ListYoung /\ FoundYoung
  BY DEF CacheInv
<1>1. ASSUME NEW g \in Gets, NEW u \in Routes, Arrive(g, u)
      PROVE  CacheInv'
  <2>1. /\ get' \in [Gets -> GetShape] /\ \A h \in Gets \ {g} : get'[h] = get[h]
        /\ get'[g].at \in {"look", "ask"} /\ ~(get'[g].at = "ask" /\ get'[g].route = "trending")
        /\ list' = list /\ response' = response
    <3>1. get' = [get EXCEPT ![g] = [NoGet EXCEPT !.at = IF u = "trending" THEN "look" ELSE "ask",
                                                !.route = u]]
      BY <1>1 DEF Arrive
    <3>2. ASSUME NEW a \in {"look", "ask"}, a = "ask" => u # "trending",
                 get' = [get EXCEPT ![g] = [NoGet EXCEPT !.at = a, !.route = u]]
          PROVE  /\ get' \in [Gets -> GetShape] /\ \A h \in Gets \ {g} : get'[h] = get[h]
                 /\ get'[g].at \in {"look", "ask"}
                 /\ ~(get'[g].at = "ask" /\ get'[g].route = "trending")
      <4> DEFINE q == [NoGet EXCEPT !.at = a, !.route = u]
      <4>1. q \in GetShape /\ q.at = a /\ q.route = u
        BY NoGetShape DEF GetShape, NoGet
      <4>2. get' = [get EXCEPT ![g] = q]
        BY <3>2
      <4> HIDE DEF q
      <4>3. get'[g] = q /\ get' \in [Gets -> GetShape] /\ \A h \in Gets \ {g} : get'[h] = get[h]
        BY <4>1, <4>2, <1>t
      <4> QED
        BY <3>2, <4>1, <4>3
    <3>3. UNCHANGED <<response, list>>
      BY <1>1 DEF Arrive
    <3>4. CASE u = "trending"
      BY <3>1, <3>2, <3>3, <3>4
    <3>5. CASE u # "trending"
      BY <3>1, <3>2, <3>3, <3>5
    <3> QED
      BY <3>4, <3>5
  <2>2. GatewayCacheTypeOK'
    BY <2>1, <1>t, <1>s, <1>l, <1>i DEF GatewayCacheTypeOK, GetShape
  <2>3. AnswersCurrent'
    BY <2>1, <1>t, <1>s, <1>l, <1>i DEF AnswersCurrent, GetAges
  <2>4. GetAges'
    BY <2>1, <1>t, <1>s, <1>l, <1>i DEF GetAges, ListYoung, AsksTrending, FoundOld
  <2>5. ListYoung'
    BY <2>1, <1>t, <1>s, <1>l, <1>i DEF ListYoung, FoundYoung, GetAges, AsksTrending, FoundOld
  <2>6. FoundYoung'
    BY <2>1, <1>t, <1>s, <1>l, <1>i DEF FoundYoung, ListYoung, GetAges, AsksTrending, FoundOld
  <2> QED
    BY <2>2, <2>3, <2>4, <2>5, <2>6 DEF CacheInv
<1>2. ASSUME NEW g \in Gets, ServiceFinds(g)
      PROVE  CacheInv'
  <2>1. /\ get' \in [Gets -> GetShape] /\ \A h \in Gets \ {g} : get'[h] = get[h]
        /\ get[g].at = "ask" /\ get'[g].at = "relist" /\ get'[g].age = list.age
        /\ get'[g].route = get[g].route /\ get'[g].ticks = get[g].ticks
        /\ list' = list /\ response' = response
        /\ get[g].route = "trending" /\ list.left > 0
    <3>1. MoveOn(g, "ask", "relist", list.age) /\ list.age \in CacheAges
      BY <1>2, <1>s, <1>l, NoGetShape DEF ServiceFinds, CacheAges
    <3>2. /\ get' \in [Gets -> GetShape] /\ \A h \in Gets \ {g} : get'[h] = get[h]
          /\ get[g].at = "ask" /\ get'[g].at = "relist" /\ get'[g].age = list.age
          /\ get'[g].route = get[g].route /\ get'[g].ticks = get[g].ticks
      BY <3>1, <1>t, MoveEffect, PointsNamed
    <3> QED
      BY <3>2, <1>2 DEF ServiceFinds
  <2>2. GatewayCacheTypeOK'
    BY <2>1, <1>t, <1>s, <1>l, <1>i DEF GatewayCacheTypeOK, GetShape
  <2>3. AnswersCurrent'
    BY <2>1, <1>t, <1>s, <1>l, <1>i DEF AnswersCurrent, GetAges
  <2>4. GetAges'
    BY <2>1, <1>t, <1>s, <1>l, <1>i DEF GetAges, ListYoung, AsksTrending, FoundOld
  <2>5. ListYoung'
    BY <2>1, <1>t, <1>s, <1>l, <1>i DEF ListYoung, FoundYoung, GetAges, AsksTrending, FoundOld
  <2>6. FoundYoung'
    BY <2>1, <1>t, <1>s, <1>l, <1>i DEF FoundYoung, ListYoung, GetAges, AsksTrending, FoundOld
  <2> QED
    BY <2>2, <2>3, <2>4, <2>5, <2>6 DEF CacheInv
<1>3. ASSUME NEW g \in Gets, ServiceComputes(g)
      PROVE  CacheInv'
  <2>1. /\ get' \in [Gets -> GetShape] /\ \A h \in Gets \ {g} : get'[h] = get[h]
        /\ get[g].at = "ask" /\ get'[g].at = "listing" /\ get'[g].age = 0
        /\ get'[g].route = get[g].route /\ get'[g].ticks = get[g].ticks
        /\ list' = list /\ response' = response
    <3>1. MoveOn(g, "ask", "listing", 0) /\ 0 \in CacheAges
      BY <1>3, <1>s, <1>l, NoGetShape DEF ServiceComputes, CacheAges
    <3>2. /\ get' \in [Gets -> GetShape] /\ \A h \in Gets \ {g} : get'[h] = get[h]
          /\ get[g].at = "ask" /\ get'[g].at = "listing" /\ get'[g].age = 0
          /\ get'[g].route = get[g].route /\ get'[g].ticks = get[g].ticks
      BY <3>1, <1>t, MoveEffect, PointsNamed
    <3> QED
      BY <3>2, <1>3 DEF ServiceComputes
  <2>2. GatewayCacheTypeOK'
    BY <2>1, <1>t, <1>s, <1>l, <1>i DEF GatewayCacheTypeOK, GetShape
  <2>3. AnswersCurrent'
    BY <2>1, <1>t, <1>s, <1>l, <1>i DEF AnswersCurrent, GetAges
  <2>4. GetAges'
    BY <2>1, <1>t, <1>s, <1>l, <1>i DEF GetAges, ListYoung, AsksTrending, FoundOld
  <2>5. ListYoung'
    BY <2>1, <1>t, <1>s, <1>l, <1>i DEF ListYoung, FoundYoung, GetAges, AsksTrending, FoundOld
  <2>6. FoundYoung'
    BY <2>1, <1>t, <1>s, <1>l, <1>i DEF FoundYoung, ListYoung, GetAges, AsksTrending, FoundOld
  <2> QED
    BY <2>2, <2>3, <2>4, <2>5, <2>6 DEF CacheInv
<1>4. ASSUME NEW g \in Gets, ServiceStores(g)
      PROVE  CacheInv'
  <2>1. /\ get' \in [Gets -> GetShape] /\ \A h \in Gets \ {g} : get'[h] = get[h]
        /\ get[g].at = "listing" /\ get'[g].at = "relist" /\ get'[g].age = get[g].age
        /\ get'[g].route = get[g].route /\ get'[g].ticks = get[g].ticks
        /\ list' = [age |-> get[g].age, left |-> ListTtl] /\ response' = response
    <3>1. MoveOn(g, "listing", "relist", get[g].age) /\ get[g].age \in CacheAges
      BY <1>4, <1>s, <1>l, NoGetShape DEF ServiceStores, CacheAges
    <3>2. /\ get' \in [Gets -> GetShape] /\ \A h \in Gets \ {g} : get'[h] = get[h]
          /\ get[g].at = "listing" /\ get'[g].at = "relist" /\ get'[g].age = get[g].age
          /\ get'[g].route = get[g].route /\ get'[g].ticks = get[g].ticks
      BY <3>1, <1>t, MoveEffect, PointsNamed
    <3> QED
      BY <3>2, <1>4 DEF ServiceStores, CopyOf
  <2>2. GatewayCacheTypeOK'
    BY <2>1, <1>t, <1>s, <1>l, <1>i DEF GatewayCacheTypeOK, GetShape
  <2>3. AnswersCurrent'
    BY <2>1, <1>t, <1>s, <1>l, <1>i DEF AnswersCurrent, GetAges
  <2>4. GetAges'
    BY <2>1, <1>t, <1>s, <1>l, <1>i DEF GetAges, ListYoung, AsksTrending, FoundOld
  <2>5. ListYoung'
    BY <2>1, <1>t, <1>s, <1>l, <1>i DEF ListYoung, FoundYoung, GetAges, AsksTrending, FoundOld
  <2>6. FoundYoung'
    BY <2>1, <1>t, <1>s, <1>l, <1>i DEF FoundYoung, ListYoung, GetAges, AsksTrending, FoundOld
  <2> QED
    BY <2>2, <2>3, <2>4, <2>5, <2>6 DEF CacheInv
<1>5. ASSUME NEW g \in Gets, Relist(g)
      PROVE  CacheInv'
  <2>1. /\ get' \in [Gets -> GetShape] /\ \A h \in Gets \ {g} : get'[h] = get[h]
        /\ get[g].at = "relist" /\ get'[g].at = "respond" /\ get'[g].age = get[g].age
        /\ get'[g].route = get[g].route /\ get'[g].ticks = get[g].ticks
        /\ list' = [age |-> get[g].age, left |-> ListTtl] /\ response' = response
    <3>1. MoveOn(g, "relist", "respond", get[g].age) /\ get[g].age \in CacheAges
      BY <1>5, <1>s, <1>l, NoGetShape DEF Relist, CacheAges
    <3>2. /\ get' \in [Gets -> GetShape] /\ \A h \in Gets \ {g} : get'[h] = get[h]
          /\ get[g].at = "relist" /\ get'[g].at = "respond" /\ get'[g].age = get[g].age
          /\ get'[g].route = get[g].route /\ get'[g].ticks = get[g].ticks
      BY <3>1, <1>t, MoveEffect, PointsNamed
    <3> QED
      BY <3>2, <1>5 DEF Relist, CopyOf
  <2>2. GatewayCacheTypeOK'
    BY <2>1, <1>t, <1>s, <1>l, <1>i DEF GatewayCacheTypeOK, GetShape
  <2>3. AnswersCurrent'
    BY <2>1, <1>t, <1>s, <1>l, <1>i DEF AnswersCurrent, GetAges
  <2>4. GetAges'
    BY <2>1, <1>t, <1>s, <1>l, <1>i DEF GetAges, ListYoung, AsksTrending, FoundOld
  <2>5. ListYoung'
    BY <2>1, <1>t, <1>s, <1>l, <1>i DEF ListYoung, FoundYoung, GetAges, AsksTrending, FoundOld
  <2>6. FoundYoung'
    BY <2>1, <1>t, <1>s, <1>l, <1>i DEF FoundYoung, ListYoung, GetAges, AsksTrending, FoundOld
  <2> QED
    BY <2>2, <2>3, <2>4, <2>5, <2>6 DEF CacheInv
<1>6. ASSUME NEW g \in Gets, Proxy(g)
      PROVE  CacheInv'
  <2>1. /\ get' \in [Gets -> GetShape] /\ \A h \in Gets \ {g} : get'[h] = get[h]
        /\ get[g].at = "ask" /\ get'[g].at = "respond" /\ get'[g].age = 0
        /\ get'[g].route = get[g].route /\ get'[g].ticks = get[g].ticks
        /\ list' = list /\ response' = response
    <3>1. MoveOn(g, "ask", "respond", 0) /\ 0 \in CacheAges
      BY <1>6, <1>s, <1>l, NoGetShape DEF Proxy, CacheAges
    <3>2. /\ get' \in [Gets -> GetShape] /\ \A h \in Gets \ {g} : get'[h] = get[h]
          /\ get[g].at = "ask" /\ get'[g].at = "respond" /\ get'[g].age = 0
          /\ get'[g].route = get[g].route /\ get'[g].ticks = get[g].ticks
      BY <3>1, <1>t, MoveEffect, PointsNamed
    <3> QED
      BY <3>2, <1>6 DEF Proxy
  <2>2. GatewayCacheTypeOK'
    BY <2>1, <1>t, <1>s, <1>l, <1>i DEF GatewayCacheTypeOK, GetShape
  <2>3. AnswersCurrent'
    BY <2>1, <1>t, <1>s, <1>l, <1>i DEF AnswersCurrent, GetAges
  <2>4. GetAges'
    BY <2>1, <1>t, <1>s, <1>l, <1>i DEF GetAges, ListYoung, AsksTrending, FoundOld
  <2>5. ListYoung'
    BY <2>1, <1>t, <1>s, <1>l, <1>i DEF ListYoung, FoundYoung, GetAges, AsksTrending, FoundOld
  <2>6. FoundYoung'
    BY <2>1, <1>t, <1>s, <1>l, <1>i DEF FoundYoung, ListYoung, GetAges, AsksTrending, FoundOld
  <2> QED
    BY <2>2, <2>3, <2>4, <2>5, <2>6 DEF CacheInv

<1>7. ASSUME NEW g \in Gets, Look(g)
      PROVE  CacheInv'
  <2> DEFINE hit == list.left > 0
  <2>1. /\ get' \in [Gets -> GetShape] /\ \A h \in Gets \ {g} : get'[h] = get[h]
        /\ get'[g].route = get[g].route /\ get'[g].ticks = get[g].ticks
        /\ list' = list /\ response' = response
        /\ \/ hit /\ get'[g].at = "respond" /\ get'[g].age = list.age
           \/ ~hit /\ get'[g].at = "ask" /\ get'[g].age = 0
    <3>0. UNCHANGED <<response, list>>
      BY <1>7 DEF Look
    <3>1. CASE hit
      <4>1. list.age \in CacheAges
        BY <1>l DEF CacheAges
      <4>2. MoveOn(g, "look", "respond", list.age)
        BY <3>1, <1>7 DEF Look
      <4>3. /\ get' \in [Gets -> GetShape] /\ \A h \in Gets \ {g} : get'[h] = get[h]
            /\ get'[g].at = "respond" /\ get'[g].age = list.age
            /\ get'[g].route = get[g].route /\ get'[g].ticks = get[g].ticks
        BY <4>1, <4>2, <1>t, MoveEffect, PointsNamed
      <4> QED
        BY <4>3, <3>0, <3>1
    <3>2. CASE ~hit
      <4>1. 0 \in CacheAges
        BY NoGetShape DEF CacheAges
      <4>2. MoveOn(g, "look", "ask", 0)
        BY <3>2, <1>7 DEF Look
      <4>3. /\ get' \in [Gets -> GetShape] /\ \A h \in Gets \ {g} : get'[h] = get[h]
            /\ get'[g].at = "ask" /\ get'[g].age = 0
            /\ get'[g].route = get[g].route /\ get'[g].ticks = get[g].ticks
        BY <4>1, <4>2, <1>t, MoveEffect, PointsNamed
      <4> QED
        BY <4>3, <3>0, <3>2
    <3> QED
      BY <3>1, <3>2
  <2>2. GatewayCacheTypeOK'
    BY <2>1, <1>t, <1>s, <1>l, <1>i DEF GatewayCacheTypeOK, GetShape
  <2>3. AnswersCurrent'
    BY <2>1, <1>t, <1>s, <1>l, <1>i DEF AnswersCurrent, Oldest
  <2>4. GetAges'
    BY <2>1, <1>t, <1>s, <1>l, <1>i DEF GetAges, AnswersCurrent, AsksTrending, FoundOld
  <2>5. ListYoung'
    BY <2>1, <1>t, <1>s, <1>l, <1>i DEF ListYoung, FoundYoung, GetAges, AsksTrending, FoundOld
  <2>6. FoundYoung'
    BY <2>1, <1>t, <1>s, <1>l, <1>i DEF FoundYoung, ListYoung, GetAges, AsksTrending, FoundOld
  <2> QED
    BY <2>2, <2>3, <2>4, <2>5, <2>6 DEF CacheInv
<1>8. ASSUME NEW g \in Gets, AskFails(g)
      PROVE  CacheInv'
  <2>1. /\ get' \in [Gets -> GetShape] /\ \A h \in Gets \ {g} : get'[h] = get[h]
        /\ get'[g].at = "idle" /\ list' = list /\ response' = response
    BY <1>8, <1>t DEF AskFails, NoGet, GetShape, Routes
  <2> QED
    BY <2>1, <1>t, <1>s, <1>l, <1>i DEF CacheInv, GatewayCacheTypeOK, GetShape, AnswersCurrent,
       GetAges, ListYoung, FoundYoung, AsksTrending, FoundOld
<1>9. ASSUME NEW g \in Gets, Respond(g)
      PROVE  CacheInv'
  <2>1. /\ get' \in [Gets -> GetShape] /\ \A h \in Gets \ {g} : get'[h] = get[h]
        /\ get'[g].at = "idle" /\ list' = list
    BY <1>9, <1>t DEF Respond, NoGet, GetShape, Routes
  <2>2. /\ get[g].age <= ListTtl + 2 * GetTime + get[g].ticks
        /\ response' = [response EXCEPT ![get[g].route] = [age |-> get[g].age, left |-> RouteTtl]]
    BY <1>9, <1>i DEF Respond, GetAges, CopyOf
  <2>3. GatewayCacheTypeOK'
    BY <2>1, <2>2, <1>t, <1>s DEF GatewayCacheTypeOK, GetShape
  <2>4. AnswersCurrent'
    <3>1. get[g].age + RouteTtl <= Oldest
      BY <2>2, <1>s DEF Oldest
    <3> QED
      BY <3>1, <2>1, <2>2, <1>t, <1>i, <1>s DEF AnswersCurrent, GatewayCacheTypeOK
  <2>5. GetAges' /\ ListYoung' /\ FoundYoung'
    BY <2>1, <1>i DEF GetAges, ListYoung, FoundYoung, AsksTrending, FoundOld
  <2> QED
    BY <2>3, <2>4, <2>5 DEF CacheInv
<1>10. CASE GatewayCacheTick
  <2>g. ASSUME NEW g \in Gets
        PROVE  /\ get'[g] \in GetShape /\ get'[g].at = get[g].at /\ get'[g].route \in Routes
               /\ get[g].at # "idle" => get'[g].ticks = get[g].ticks + 1 /\ get'[g].route = get[g].route
               /\ get[g].at \in {"listing", "relist", "respond"} => 
                      get'[g].age = IF get[g].age <= Oldest THEN get[g].age + 1 ELSE get[g].age
    <3>1. CASE get[g].at = "idle"
      <4>1. get'[g] = NoGet
        BY <3>1, <1>10 DEF GatewayCacheTick
      <4>2. NoGet.route \in Routes
        BY DEF NoGet, Routes
      <4> QED
        BY <3>1, <4>1, <4>2, NoGetShape
    <3>2. CASE get[g].at # "idle"
      <4>1. get'[g] = [get[g] EXCEPT !.ticks = @ + 1,
                        !.age = IF get[g].at \in {"look", "ask"} THEN 0 ELSE Grown(@)]
            /\ get[g].ticks < GetTime
        BY <3>2, <1>10 DEF GatewayCacheTick
      <4>2. Grown(get[g].age) \in 0 .. Oldest + 1
        BY <1>s DEF Grown
      <4>3. get[g].ticks + 1 \in 0 .. GetTime
        BY <4>1, <1>s
      <4>4. get[g] \in GetShape
        BY <1>t
      <4>5. (IF get[g].at \in {"look", "ask"} THEN 0 ELSE Grown(get[g].age)) \in 0 .. Oldest + 1
        BY <4>2, NoGetShape
      <4>6. /\ get'[g].at = get[g].at /\ get'[g].route = get[g].route /\ get'[g].ticks = get[g].ticks + 1
            /\ get'[g].age = IF get[g].at \in {"look", "ask"} THEN 0 ELSE Grown(get[g].age)
            /\ get'[g] \in GetShape
        BY <4>1, <4>3, <4>4, <4>5 DEF GetShape
      <4>7. get[g].at \in {"listing", "relist", "respond"} => get'[g].age = Grown(get[g].age)
        BY <4>6
      <4> QED
        BY <4>6, <4>7, <3>2, <1>s DEF Grown
    <3> QED
      BY <3>1, <3>2
  <2>l. /\ list.left > 1 => list' = [age |-> Grown(list.age), left |-> list.left - 1]
        /\ ~(list.left > 1) => list' = [age |-> 0, left |-> 0]
    BY <1>10 DEF GatewayCacheTick, Aged, CopyOf, NoAnswer
  <2>n. list'.left \in Nat /\ list'.age \in Nat /\ (list'.left > 0 => list'.left = list.left - 1
          /\ list'.age <= list.age + 1)
    BY <2>l, <1>l DEF Grown
  <2>m. list'.left >= list.left - 1
    BY <2>l, <1>l
  <2>2. GatewayCacheTypeOK'
    <3>1. get' \in [Gets -> GetShape]
      BY <2>g, <1>10 DEF GatewayCacheTick
    <3>2. list' \in [age : 0 .. Oldest + 1, left : 0 .. ListTtl]
      BY <2>l, <1>l DEF Grown
    <3>3. response' \in [Routes -> [age : 0 .. Oldest + 1, left : 0 .. RouteTtl]]
      <4>1. ASSUME NEW u \in Routes PROVE Aged(response[u]) \in [age : 0 .. Oldest + 1, left : 0 .. RouteTtl]
        <5>1. response[u].age \in 0 .. Oldest + 1 /\ response[u].left \in 0 .. RouteTtl
          BY <1>t DEF GatewayCacheTypeOK
        <5> QED
          BY <5>1 DEF Aged, CopyOf, NoAnswer, Grown
      <4> QED
        BY <4>1, <1>10 DEF GatewayCacheTick
    <3> QED
      BY <3>1, <3>2, <3>3 DEF GatewayCacheTypeOK, GetShape
  <2>3. AnswersCurrent'
    <3>1. list'.left > 0 => list'.age + list'.left <= ListTtl + 2 * GetTime
      BY <2>n, <1>l, <1>i DEF AnswersCurrent
    <3>2. ASSUME NEW u \in Routes, response'[u].left > 0
          PROVE  response'[u].age + response'[u].left <= Oldest
      <4>1. response[u].age \in Nat /\ response[u].left \in Nat
        BY <1>t DEF GatewayCacheTypeOK
      <4>2. response'[u] = Aged(response[u])
        BY <1>10 DEF GatewayCacheTick
      <4>3. response[u].left > 1 /\ response'[u] = [age |-> Grown(response[u].age), left |-> response[u].left - 1]
        BY <4>1, <4>2, <3>2 DEF Aged, CopyOf, NoAnswer
      <4>4. response[u].age + response[u].left <= Oldest
        BY <4>3, <4>1, <1>i DEF AnswersCurrent
      <4>5. Grown(response[u].age) <= response[u].age + 1
        BY <4>1 DEF Grown
      <4>6. response'[u].age = Grown(response[u].age) /\ response'[u].left = response[u].left - 1
            /\ Grown(response[u].age) \in Nat
        BY <4>3, <4>1 DEF Grown
      <4> QED
        BY <4>1, <4>4, <4>5, <4>6
    <3> QED
      BY <3>1, <3>2 DEF AnswersCurrent
  <2>a. ASSUME NEW g \in Gets, get[g].at \in {"listing", "relist", "respond"}
        PROVE  get'[g].age \in Nat /\ get'[g].age <= get[g].age + 1 /\ get'[g].ticks = get[g].ticks + 1
    BY <2>g, <2>a, <1>s
  <2>4. GetAges'
    <3> SUFFICES ASSUME NEW g \in Gets, get'[g].at \in {"listing", "relist", "respond"}
                 PROVE  /\ get'[g].at = "listing" => get'[g].age <= get'[g].ticks
                        /\ get'[g].at = "relist" => get'[g].age <= GetTime + get'[g].ticks
                        /\ get'[g].at = "respond" => get'[g].age <= ListTtl + 2 * GetTime + get'[g].ticks
      BY DEF GetAges
    <3> QED
      BY <2>g, <2>a, <1>s, <1>i DEF GetAges
  <2>5. ListYoung'
    BY <2>n, <2>m, <2>g, <1>s, <1>l, <1>i DEF ListYoung, AsksTrending
  <2>6. FoundYoung'
    <3> SUFFICES ASSUME NEW h \in Gets, FoundOld(h)'
                 PROVE  /\ list'.left + get'[h].ticks >= ListTtl
                        /\ \A g \in Gets : AsksTrending(g)' => get'[h].age <= GetTime + get'[g].ticks
      BY DEF FoundYoung
    <3>1. get[h].at = "relist" /\ get'[h].age > get'[h].ticks
      BY <2>g DEF FoundOld
    <3>2. FoundOld(h) /\ get'[h].ticks = get[h].ticks + 1 /\ get'[h].age <= get[h].age + 1 /\ get'[h].age \in Nat
      BY <3>1, <2>a, <1>s DEF FoundOld
    <3>3. list'.left + get'[h].ticks >= ListTtl
      BY <3>2, <2>m, <2>n, <1>l, <1>s, <1>i DEF FoundYoung
    <3>4. ASSUME NEW g \in Gets, AsksTrending(g)' PROVE get'[h].age <= GetTime + get'[g].ticks
      <4>1. AsksTrending(g) /\ get'[g].ticks = get[g].ticks + 1
        BY <3>4, <2>g DEF AsksTrending
      <4> QED
        BY <4>1, <3>2, <1>s, <1>i DEF FoundYoung
    <3> QED
      BY <3>3, <3>4
  <2> QED
    BY <2>2, <2>3, <2>4, <2>5, <2>6 DEF CacheInv
<1>11. CASE UNCHANGED gatewayCacheVars
  BY <1>11 DEF gatewayCacheVars, CacheInv, GatewayCacheTypeOK, AnswersCurrent, GetAges, ListYoung, FoundYoung,
     AsksTrending, FoundOld
<1> QED
  BY <1>1, <1>2, <1>3, <1>4, <1>5, <1>6, <1>7, <1>8, <1>9, <1>10, <1>11 DEF GatewayCacheNext

-----------------------------------------------------------------------------
(***************************************************************************)
(* The feature flags.                                                      *)
(***************************************************************************)

FlagValues == Written \union {Unset}
AskEnds == {"probe", "evaluate", "fill", "set"}
FlagCopies == [value : FlagValues, left : 0 .. CacheTtl]
FlagAsks == [at : {"idle", "probe", "evaluate", "fill", "set"},
          value : FlagValues, ticks : 0 .. Flight]

\* What is in force, or was not yet made, is not out of date.
ForceInv ==
    \A v \in Written : v \in InForce \/ v \in sets + 1 .. MaxSets => stale[v] = 0

CallsFresh ==
    \A p \in Instances : ask[p].at \in {"fill", "set"} =>
        ask[p].value \in Written /\ stale[ask[p].value] <= ask[p].ticks

CopiesFresh ==
    /\ shared.left > 0 =>
         shared.value \in Written /\ stale[shared.value] + shared.left <= CacheTtl + Flight
    /\ \A p \in Instances : memory[p].left > 0 =>
         memory[p].value \in Written /\ stale[memory[p].value] + memory[p].left <= Bound

FlagInv == FlagTypeOK /\ ForceInv /\ CallsFresh /\ CopiesFresh

LEMMA FlagTypes ==
    FlagTypeOK <=>
      /\ env \in [Instances -> {Unset, Fixed}] /\ provided \in BOOLEAN
      /\ flagKey \in FlagValues /\ sets \in 0 .. MaxSets
      /\ shared \in FlagCopies /\ memory \in [Instances -> FlagCopies]
      /\ override \in [Instances -> FlagValues]
      /\ ask \in [Instances -> FlagAsks]
      /\ stale \in [Written -> 0 .. Bound + 1]
  BY DEF FlagTypeOK, FlagValues, FlagCopies, FlagAsks

LEMMA FlagNats ==
    /\ CacheTtl \in Nat /\ CacheTtl > 0 /\ Flight \in Nat /\ Bound \in Nat /\ MaxSets \in Nat
    /\ Bound = 2 * CacheTtl + Flight
    /\ 0 \in Written /\ 0 \in 0 .. Flight /\ 0 \in 0 .. Bound + 1 /\ 0 \in 0 .. CacheTtl
    /\ CacheTtl \in 0 .. CacheTtl
    /\ Unset \notin Written /\ Fixed \in Written /\ 0 .. MaxSets \subseteq Written
    /\ Unset \in FlagValues /\ Written \subseteq FlagValues
    /\ "probe" \in AskEnds /\ "evaluate" \in AskEnds /\ "fill" \in AskEnds /\ "set" \in AskEnds
    /\ Gone \in FlagCopies /\ Gone.left = 0
    /\ Asleep \in FlagAsks /\ Asleep.at = "idle"
<1>1. CacheTtl \in Nat /\ CacheTtl > 0 /\ Flight \in Nat /\ MaxSets \in Nat /\ Unset \notin Nat
      /\ Unset # Fixed
  BY FlagAssumption
<1>2. Bound = 2 * CacheTtl + Flight /\ Bound \in Nat
  BY <1>1 DEF Bound
<1>3. /\ 0 \in Written /\ 0 \in 0 .. Flight /\ 0 \in 0 .. Bound + 1 /\ 0 \in 0 .. CacheTtl
      /\ CacheTtl \in 0 .. CacheTtl /\ Unset \notin Written /\ Fixed \in Written
      /\ 0 .. MaxSets \subseteq Written
      /\ Unset \in FlagValues /\ Written \subseteq FlagValues
  BY <1>1, <1>2 DEF Written, FlagValues
<1>4. Gone \in FlagCopies /\ Gone.left = 0 /\ Asleep \in FlagAsks /\ Asleep.at = "idle"
  BY <1>3 DEF Gone, Asleep, FlagValues, FlagCopies, FlagAsks
<1> QED
  BY <1>1, <1>2, <1>3, <1>4 DEF AskEnds

LEMMA FlagInvInit == FlagInit => FlagInv
<1> SUFFICES ASSUME FlagInit PROVE FlagInv
  OBVIOUS
<1>1. FlagTypeOK
  <2>1. env \in [Instances -> FlagValues] /\ 0 \in 0 .. MaxSets
    BY FlagNats DEF FlagInit
  <2> QED
    BY <2>1, FlagTypes, FlagNats DEF FlagInit
<1>2. ForceInv
  BY FlagNats DEF ForceInv, FlagInit
<1>3. CallsFresh /\ CopiesFresh
  BY FlagNats DEF CallsFresh, CopiesFresh, FlagInit
<1> QED
  BY <1>1, <1>2, <1>3 DEF FlagInv

LEMMA GoEffect ==
    ASSUME ask \in [Instances -> FlagAsks], NEW p \in Instances, NEW from,
           NEW to \in AskEnds,
           NEW v \in FlagValues, Go(p, from, to, v)
    PROVE  /\ ask' \in [Instances -> FlagAsks]
           /\ ask'[p].at = to /\ ask'[p].value = v /\ ask'[p].ticks = ask[p].ticks
           /\ \A q \in Instances : q # p => ask'[q] = ask[q]
<1>1. ask' = [ask EXCEPT ![p] = [ask[p] EXCEPT !.at = to, !.value = v]]
  BY DEF Go, FlagAsks
<1>2. [ask[p] EXCEPT !.at = to, !.value = v] \in FlagAsks
  BY DEF FlagAsks, AskEnds
<1> QED
  BY <1>1, <1>2 DEF FlagAsks

LEMMA CopyForEffect ==
    ASSUME NEW v \in FlagValues, NEW left \in Int, left <= CacheTtl
    PROVE  /\ CopyFor(v, left) \in FlagCopies
           /\ left > 0 => CopyFor(v, left).left = left /\ CopyFor(v, left).value = v
           /\ ~(left > 0) => CopyFor(v, left).left = 0
<1>1. CASE left > 0
  <2>1. left \in 0 .. CacheTtl
    BY <1>1, FlagNats
  <2> QED
    BY <1>1, <2>1 DEF CopyFor, FlagCopies
<1>2. CASE ~(left > 0)
  BY <1>2, FlagNats DEF CopyFor
<1> QED
  BY <1>1, <1>2

LEMMA FlagElements ==
    ASSUME FlagTypeOK
    PROVE  /\ \A n \in Written : stale[n] \in Nat /\ stale[n] <= Bound + 1
           /\ \A p \in Instances :
                /\ memory[p] \in FlagCopies /\ memory[p].left \in Nat /\ memory[p].value \in FlagValues
                /\ ask[p] \in FlagAsks /\ ask[p].ticks \in Nat /\ ask[p].ticks <= Flight
                /\ ask[p].value \in FlagValues /\ override[p] \in FlagValues
           /\ shared \in FlagCopies /\ shared.left \in Nat /\ shared.value \in FlagValues
           /\ shared.left <= CacheTtl
<1>1. \A n \in Written : stale[n] \in 0 .. Bound + 1
  BY FlagTypes
<1>2. \A n \in Written : stale[n] \in Nat /\ stale[n] <= Bound + 1
  BY <1>1, FlagNats
<1>3. \A p \in Instances : ask[p] \in FlagAsks /\ memory[p] \in FlagCopies /\ override[p] \in FlagValues
  BY FlagTypes
<1>4. \A c \in FlagCopies : c.left \in Nat /\ c.left <= CacheTtl /\ c.value \in FlagValues
  BY FlagNats DEF FlagCopies
<1>5. \A c \in FlagAsks : c.ticks \in Nat /\ c.ticks <= Flight /\ c.value \in FlagValues
  BY FlagNats DEF FlagAsks
<1> QED
  BY <1>2, <1>3, <1>4, <1>5, FlagTypes

LEMMA OlderEffect ==
    ASSUME NEW c \in FlagCopies
    PROVE  /\ Older(c) \in FlagCopies
           /\ Older(c).left > 0 => Older(c).value = c.value /\ Older(c).left = c.left - 1 /\ c.left > 0
<1>0. c.left \in Nat /\ c.left <= CacheTtl /\ c.value \in FlagValues
  BY FlagNats DEF FlagCopies
<1>1. CASE c.left > 1
  <2>1. c.left - 1 \in 0 .. CacheTtl
    BY <1>0, <1>1, FlagNats
  <2> QED
    BY <1>0, <1>1, <2>1 DEF Older, FlagCopies
<1>2. CASE ~(c.left > 1)
  BY <1>2, FlagNats DEF Older
<1> QED
  BY <1>1, <1>2

\* What a call leaves behind.
LEMMA RememberEffect ==
    ASSUME FlagTypeOK, NEW p \in Instances, NEW v \in FlagValues, Remember(p, v)
    PROVE  /\ memory' \in [Instances -> FlagCopies]
           /\ memory'[p].left > 0 => memory'[p].value = v /\ memory'[p].left = CacheTtl - ask[p].ticks
           /\ \A q \in Instances : q # p => memory'[q] = memory[q]
<1>1. CacheTtl - ask[p].ticks \in Int /\ CacheTtl - ask[p].ticks <= CacheTtl
  BY FlagElements, FlagNats
<1>2. memory' = [memory EXCEPT ![p] = CopyFor(v, CacheTtl - ask[p].ticks)]
  BY DEF Remember
<1>3. memory \in [Instances -> FlagCopies]
  BY FlagTypes
<1> DEFINE c == CopyFor(v, CacheTtl - ask[p].ticks)
<1>4. c \in FlagCopies /\ (c.left > 0 => c.value = v /\ c.left = CacheTtl - ask[p].ticks)
  BY <1>1, CopyForEffect
<1> HIDE DEF c
<1> QED
  BY <1>2, <1>3, <1>4 DEF c

\* What a call of initialize makes of an override, and of what was out of date.
LEMMA AgainEffect ==
    ASSUME FlagTypeOK, NEW v
    PROVE  /\ Again(v) \in [Written -> 0 .. Bound + 1]
           /\ \A w \in Written : Again(v)[w] \in {0, stale[w]} /\ Again(v)[w] <= stale[w]
           /\ v \in Written => Again(v)[v] = 0
<1>1. \A w \in Written : stale[w] \in 0 .. Bound + 1 /\ stale[w] \in Nat
  BY FlagTypes, FlagElements
<1> QED
  BY <1>1, FlagNats DEF Again

LEMMA InitializedEffect ==
    ASSUME FlagTypeOK, NEW p \in Instances,
           override' = [override EXCEPT ![p] = Initialized(p)], stale' = Again(Initialized(p)),
           NEW n, flagKey' = flagKey \/ (flagKey' = n /\ n # Unset)
    PROVE  /\ override' \in [Instances -> FlagValues]
           /\ \A v \in Written : v \in InForce' => v \in InForce \/ v = n \/ stale'[v] = 0
<1>1. Initialized(p) \in FlagValues
  BY FlagTypes, FlagNats DEF Initialized
<1>2. override \in [Instances -> FlagValues]
  BY FlagTypes
<1>3. \A q \in Instances : override'[q] = IF q = p THEN Initialized(p) ELSE override[q]
  BY <1>2
<1>4. ASSUME NEW v \in Written, v \in InForce' PROVE v \in InForce \/ v = n \/ stale'[v] = 0
  <2>1. CASE v = flagKey'
    BY <2>1 DEF InForce
  <2>2. CASE flagKey' = Unset /\ v = 0
    BY <2>2 DEF InForce
  <2>3. ASSUME NEW q \in Instances, v = override'[q] PROVE v \in InForce \/ stale'[v] = 0
    <3>1. CASE q = p
      <4>1. v = Initialized(p)
        BY <1>3, <2>3, <3>1
      <4> QED
        BY <4>1, AgainEffect
    <3>2. CASE q # p
      BY <1>3, <2>3, <3>2 DEF InForce
    <3> QED
      BY <3>1, <3>2
  <2> QED
    BY <1>4, <2>1, <2>2, <2>3 DEF InForce
<1> QED
  BY <1>1, <1>2, <1>4

LEMMA RangeShrinks ==
    ASSUME NEW a \in Int, NEW b \in Int, NEW c \in Int, a <= b, NEW v \in b + 1 .. c
    PROVE  v \in a + 1 .. c
  OBVIOUS

LEMMA FlagInvNext == FlagInv /\ [FlagNext]_flagVars => FlagInv'
<1> SUFFICES ASSUME FlagInv, [FlagNext]_flagVars
             PROVE  FlagInv'
  OBVIOUS
<1>t. FlagTypeOK
  BY DEF FlagInv
<1>c. UNCHANGED <<env, provided>>
  BY DEF FlagNext, flagVars, configVars
<1>f. /\ env \in [Instances -> {Unset, Fixed}] /\ provided \in BOOLEAN
      /\ flagKey \in FlagValues /\ sets \in 0 .. MaxSets
      /\ shared \in FlagCopies /\ memory \in [Instances -> FlagCopies]
      /\ override \in [Instances -> FlagValues]
      /\ ask \in [Instances -> FlagAsks]
      /\ stale \in [Written -> 0 .. Bound + 1]
  BY <1>t, FlagTypes
<1>e. /\ \A n \in Written : stale[n] \in Nat /\ stale[n] <= Bound + 1
      /\ \A p \in Instances :
           /\ memory[p] \in FlagCopies /\ memory[p].left \in Nat /\ memory[p].value \in FlagValues
           /\ ask[p] \in FlagAsks /\ ask[p].ticks \in Nat /\ ask[p].ticks <= Flight
           /\ ask[p].value \in FlagValues /\ override[p] \in FlagValues
      /\ shared \in FlagCopies /\ shared.left \in Nat /\ shared.value \in FlagValues
      /\ shared.left <= CacheTtl
  BY <1>t, FlagElements
<1>k. ForceInv /\ CallsFresh /\ CopiesFresh
  BY DEF FlagInv
\* A step that leaves the copies alone, and lets nothing grow out of date.
<1>m. ASSUME ask' \in [Instances -> FlagAsks],
             \A q \in Instances :
               \/ ask'[q] = ask[q]
               \/ ask'[q].at \in {"fill", "set"} =>
                    ask'[q].value \in Written /\ stale'[ask'[q].value] <= ask'[q].ticks,
             UNCHANGED <<shared, memory>>, flagKey' \in FlagValues, sets' \in 0 .. MaxSets,
             override' \in [Instances -> FlagValues], stale' \in [Written -> 0 .. Bound + 1],
             \A v \in Written : stale'[v] \in {0, stale[v]} /\ stale'[v] <= stale[v],
             sets <= sets',
             \A v \in Written : v \in InForce' => v \in InForce \/ stale'[v] = 0
      PROVE  FlagInv'
  <2>1. FlagTypeOK'
    BY <1>m, <1>f, <1>c, FlagTypes DEF FlagTypeOK, FlagValues, FlagCopies, FlagAsks
  <2>n. \A v \in Written : stale[v] \in Nat /\ stale'[v] \in Nat
    BY <1>m, <1>e
  <2>2. ForceInv'
    <3>1. ASSUME NEW v \in Written, v \in sets' + 1 .. MaxSets PROVE v \in sets + 1 .. MaxSets
      <4>1. sets \in Int /\ sets' \in Int /\ MaxSets \in Int /\ sets <= sets'
        BY <1>m, <1>f, FlagNats
      <4> QED
        BY <3>1, <4>1, RangeShrinks
    <3> QED
      BY <3>1, <1>k, <1>m DEF ForceInv
  <2>3. ASSUME NEW q \in Instances, ask'[q].at \in {"fill", "set"}
        PROVE  ask'[q].value \in Written /\ stale'[ask'[q].value] <= ask'[q].ticks
    <3>1. CASE ask'[q] = ask[q]
      <4>1. ask[q].value \in Written /\ stale[ask[q].value] <= ask[q].ticks
        BY <1>k, <2>3, <3>1 DEF CallsFresh
      <4>2. stale'[ask[q].value] <= stale[ask[q].value] /\ ask[q].ticks \in Nat
            /\ stale[ask[q].value] \in Nat /\ stale'[ask[q].value] \in Nat
        BY <4>1, <2>n, <1>m, <1>e
      <4> QED
        BY <3>1, <4>1, <4>2
    <3>2. CASE ask'[q] # ask[q]
      BY <1>m, <2>3, <3>2
    <3> QED
      BY <3>1, <3>2
  <2>4. CallsFresh'
    BY <2>3 DEF CallsFresh
  <2>5. shared.left > 0 =>
          shared.value \in Written /\ stale'[shared.value] + shared.left <= CacheTtl + Flight
    <3>1. SUFFICES ASSUME shared.left > 0
                   PROVE  shared.value \in Written
                          /\ stale'[shared.value] + shared.left <= CacheTtl + Flight
      OBVIOUS
    <3>2. shared.value \in Written /\ stale[shared.value] + shared.left <= CacheTtl + Flight
      BY <1>k, <3>1 DEF CopiesFresh
    <3>3. stale'[shared.value] <= stale[shared.value] /\ shared.left \in Nat
          /\ stale[shared.value] \in Nat /\ stale'[shared.value] \in Nat
      BY <3>2, <2>n, <1>m, <1>e
    <3> QED
      BY <3>2, <3>3, FlagNats
  <2>6. ASSUME NEW q \in Instances, memory[q].left > 0
        PROVE  memory[q].value \in Written /\ stale'[memory[q].value] + memory[q].left <= Bound
    <3>2. memory[q].value \in Written /\ stale[memory[q].value] + memory[q].left <= Bound
      BY <1>k, <2>6 DEF CopiesFresh
    <3>3. stale'[memory[q].value] <= stale[memory[q].value] /\ memory[q].left \in Nat
          /\ stale[memory[q].value] \in Nat /\ stale'[memory[q].value] \in Nat
      BY <3>2, <2>n, <1>m, <1>e
    <3> QED
      BY <3>2, <3>3, FlagNats
  <2>7. CopiesFresh'
    BY <2>5, <2>6, <1>m DEF CopiesFresh, Bound
  <2> QED
    BY <2>1, <2>2, <2>4, <2>7 DEF FlagInv
\* One that changes what a call does, and nothing else.
<1>g. ASSUME NEW p \in Instances, NEW from, NEW to \in AskEnds, NEW v \in FlagValues,
             Go(p, from, to, v), UNCHANGED <<flagKey, shared, memory, override, sets, stale>>,
             to = "fill" => v \in Written /\ stale[v] = 0, to # "set"
      PROVE  FlagInv'
  <2>1. /\ ask' \in [Instances -> FlagAsks]
        /\ ask'[p].at = to /\ ask'[p].value = v /\ ask'[p].ticks = ask[p].ticks
        /\ \A q \in Instances : q # p => ask'[q] = ask[q]
    BY <1>g, <1>f, GoEffect
  <2>2. InForce' = InForce
    BY <1>g DEF InForce
  <2>3. ask[p].ticks \in Nat /\ \A w \in Written : stale[w] \in Nat
    BY <1>e
  <2>4. \A w \in Written : stale'[w] \in {0, stale[w]} /\ stale'[w] <= stale[w]
    BY <1>g, <2>3
  <2>5. sets <= sets'
    BY <1>g, <1>f
  <2>6. ASSUME NEW q \in Instances, ask'[q] # ask[q], ask'[q].at \in {"fill", "set"}
        PROVE  ask'[q].value \in Written /\ stale'[ask'[q].value] <= ask'[q].ticks
    BY <1>g, <2>1, <2>3, <2>6
  <2> QED
    BY <1>g, <1>f, <2>1, <2>2, <2>4, <2>5, <2>6, <1>m
<1>1. ASSUME NEW p \in Instances, IsEnabled(p) PROVE FlagInv'
  BY <1>1, <1>g, FlagNats DEF IsEnabled
<1>2. ASSUME NEW p \in Instances, ProbeMiss(p) PROVE FlagInv'
  BY <1>2, <1>g, FlagNats DEF ProbeMiss
<1>3. ASSUME NEW p \in Instances, Evaluate(p) PROVE FlagInv'
  <2>1. PICK v \in FlagValues : Go(p, "evaluate", "fill", v) /\ v # Unset /\ v \in InForce
    BY <1>3, <1>f, <1>e, FlagNats DEF Evaluate, InForce
  <2>2. v \in Written /\ stale[v] = 0
    BY <2>1, <1>k DEF ForceInv, FlagValues
  <2> QED
    BY <1>3, <2>1, <2>2, <1>g, FlagNats DEF Evaluate
<1>4. ASSUME NEW p \in Instances, EvaluateAway(p) PROVE FlagInv'
  <2>1. /\ Go(p, "evaluate", "fill", 0) /\ stale' = Again(0)
        /\ UNCHANGED <<flagKey, shared, memory, override, sets>>
    BY <1>4 DEF EvaluateAway
  <2>2. /\ ask' \in [Instances -> FlagAsks]
        /\ ask'[p].at = "fill" /\ ask'[p].value = 0 /\ ask'[p].ticks = ask[p].ticks
        /\ \A q \in Instances : q # p => ask'[q] = ask[q]
    BY <2>1, <1>f, FlagNats, GoEffect
  <2>3. /\ stale' \in [Written -> 0 .. Bound + 1] /\ stale'[0] = 0
        /\ \A w \in Written : stale'[w] \in {0, stale[w]} /\ stale'[w] <= stale[w]
    BY <2>1, <1>t, AgainEffect, FlagNats
  <2>4. InForce' = InForce /\ sets <= sets'
    BY <2>1, <1>f DEF InForce
  <2>5. ASSUME NEW q \in Instances, ask'[q] # ask[q], ask'[q].at \in {"fill", "set"}
        PROVE  ask'[q].value \in Written /\ stale'[ask'[q].value] <= ask'[q].ticks
    BY <2>2, <2>3, <2>5, <1>e, FlagNats
  <2> QED
    BY <2>1, <2>2, <2>3, <2>4, <2>5, <1>f, <1>m

\* A call that ends.
<1>r. ASSUME NEW p \in Instances, ask' = [ask EXCEPT ![p] = Asleep]
      PROVE  /\ ask' \in [Instances -> FlagAsks] /\ ask'[p].at = "idle"
             /\ \A q \in Instances : q # p => ask'[q] = ask[q]
  BY <1>r, <1>f, FlagNats
<1>5. ASSUME NEW p \in Instances, ProbeHit(p) PROVE FlagInv'
  <2>1. /\ ask' \in [Instances -> FlagAsks] /\ ask'[p].at = "idle"
        /\ \A q \in Instances : q # p => ask'[q] = ask[q]
    BY <1>5, <1>r DEF ProbeHit
  <2>2. /\ memory' \in [Instances -> FlagCopies]
        /\ memory'[p].left > 0 =>
             memory'[p].value = shared.value /\ memory'[p].left = CacheTtl - ask[p].ticks
        /\ \A q \in Instances : q # p => memory'[q] = memory[q]
    BY <1>5, <1>t, <1>e, RememberEffect DEF ProbeHit
  <2>3. UNCHANGED <<flagKey, shared, override, sets, stale>> /\ shared.left > 0
    BY <1>5 DEF ProbeHit
  <2>4. FlagTypeOK'
    BY <2>1, <2>2, <2>3, <1>f, <1>c, FlagTypes DEF FlagTypeOK, FlagValues, FlagCopies, FlagAsks
  <2>5. ForceInv' /\ CallsFresh' /\ CopiesFresh'
    <3>1. CallsFresh /\ CopiesFresh
      BY <1>k
    <3>2. ForceInv' /\ CallsFresh'
      BY <1>k, <2>1, <2>3 DEF ForceInv, InForce, CallsFresh
    <3>3. ASSUME NEW q \in Instances, memory'[q].left > 0
          PROVE  memory'[q].value \in Written /\ stale[memory'[q].value] + memory'[q].left <= Bound
      <4>1. CASE q = p
        <5>1. shared.value \in Written /\ stale[shared.value] + shared.left <= CacheTtl + Flight
          BY <3>1, <2>3 DEF CopiesFresh
        <5>2. stale[shared.value] \in Nat /\ shared.left \in Nat /\ ask[p].ticks \in Nat
          BY <5>1, <1>e
        <5>3. stale[shared.value] + (CacheTtl - ask[p].ticks) <= Bound
          BY <5>1, <5>2, <2>3, FlagNats
        <5> QED
          BY <5>1, <5>3, <4>1, <3>3, <2>2
      <4>2. CASE q # p
        BY <4>2, <3>1, <3>3, <2>2 DEF CopiesFresh
      <4> QED
        BY <4>1, <4>2
    <3>4. CopiesFresh'
      BY <3>1, <3>3, <2>3 DEF CopiesFresh
    <3> QED
      BY <3>2, <3>4
  <2> QED
    BY <2>4, <2>5 DEF FlagInv
<1>6. ASSUME NEW p \in Instances, Fill(p) PROVE FlagInv'
  <2>1. /\ ask' \in [Instances -> FlagAsks] /\ ask'[p].at = "idle"
        /\ \A q \in Instances : q # p => ask'[q] = ask[q]
    BY <1>6, <1>r DEF Fill
  <2>2. /\ memory' \in [Instances -> FlagCopies]
        /\ memory'[p].left > 0 =>
             memory'[p].value = ask[p].value /\ memory'[p].left = CacheTtl - ask[p].ticks
        /\ \A q \in Instances : q # p => memory'[q] = memory[q]
    BY <1>6, <1>t, <1>e, RememberEffect DEF Fill
  <2>3. /\ UNCHANGED <<flagKey, override, sets, stale>> /\ ask[p].at = "fill"
        /\ shared' = [value |-> ask[p].value, left |-> CacheTtl] \/ shared' = shared
    BY <1>6 DEF Fill
  <2>s. shared' \in FlagCopies
    BY <2>3, <1>f, <1>e, FlagNats DEF FlagCopies
  <2>4. FlagTypeOK'
    BY <2>1, <2>2, <2>3, <2>s, <1>f, <1>c, FlagTypes DEF FlagTypeOK, FlagValues, FlagCopies, FlagAsks
  <2>5. ForceInv' /\ CallsFresh' /\ CopiesFresh'
    <3>1. CallsFresh /\ CopiesFresh
      BY <1>k
    <3>2. ForceInv' /\ CallsFresh'
      BY <1>k, <2>1, <2>3 DEF ForceInv, InForce, CallsFresh
    <3>v. ask[p].value \in Written /\ stale[ask[p].value] <= ask[p].ticks
      BY <3>1, <2>3 DEF CallsFresh
    <3>n. stale[ask[p].value] \in Nat /\ ask[p].ticks \in Nat /\ ask[p].ticks <= Flight
      BY <3>v, <1>e
    <3>3. ASSUME NEW q \in Instances, memory'[q].left > 0
          PROVE  memory'[q].value \in Written /\ stale[memory'[q].value] + memory'[q].left <= Bound
      <4>1. CASE q = p
        <5>3. stale[ask[p].value] + (CacheTtl - ask[p].ticks) <= Bound
          BY <3>v, <3>n, FlagNats
        <5> QED
          BY <3>v, <5>3, <4>1, <3>3, <2>2
      <4>2. CASE q # p
        BY <4>2, <3>1, <3>3, <2>2 DEF CopiesFresh
      <4> QED
        BY <4>1, <4>2
    <3>4. stale[ask[p].value] + CacheTtl <= CacheTtl + Flight
      BY <3>v, <3>n, FlagNats
    <3>5. shared'.left > 0 => shared'.value \in Written
                              /\ stale[shared'.value] + shared'.left <= CacheTtl + Flight
      BY <3>1, <3>v, <3>4, <2>3 DEF CopiesFresh
    <3>6. CopiesFresh'
      BY <3>3, <3>5, <2>3 DEF CopiesFresh
    <3> QED
      BY <3>2, <3>6
  <2> QED
    BY <2>4, <2>5 DEF FlagInv
<1>7. ASSUME NEW p \in Instances, SetMemory(p) PROVE FlagInv'
  <2>1. /\ ask' \in [Instances -> FlagAsks] /\ ask'[p].at = "idle"
        /\ \A q \in Instances : q # p => ask'[q] = ask[q]
    BY <1>7, <1>r DEF SetMemory
  <2>2. /\ memory' = [memory EXCEPT ![p] = [value |-> ask[p].value, left |-> CacheTtl]]
        /\ [value |-> ask[p].value, left |-> CacheTtl] \in FlagCopies
    BY <1>7, <1>e, FlagNats DEF SetMemory, FlagCopies
  <2>3. UNCHANGED <<flagKey, shared, override, sets, stale>> /\ ask[p].at = "set"
    BY <1>7 DEF SetMemory
  <2>4. FlagTypeOK'
    BY <2>1, <2>2, <2>3, <1>f, <1>c, FlagTypes DEF FlagTypeOK, FlagValues, FlagCopies, FlagAsks
  <2>5. ForceInv' /\ CallsFresh' /\ CopiesFresh'
    <3>1. CallsFresh /\ CopiesFresh
      BY <1>k
    <3>2. ForceInv' /\ CallsFresh'
      BY <1>k, <2>1, <2>3 DEF ForceInv, InForce, CallsFresh
    <3>3. ask[p].value \in Written /\ stale[ask[p].value] <= ask[p].ticks
      BY <3>1, <2>3 DEF CallsFresh
    <3>4. stale[ask[p].value] + CacheTtl <= Bound
      BY <3>3, <1>e, FlagNats
    <3>5. CopiesFresh'
      BY <3>1, <3>3, <3>4, <2>2, <2>3, <1>f DEF CopiesFresh
    <3> QED
      BY <3>2, <3>5
  <2> QED
    BY <2>4, <2>5 DEF FlagInv
\* A new value.
<1>s. ASSUME NEW p \in Instances, sets < MaxSets, sets' = sets + 1, Go(p, "idle", "set", sets'),
             UNCHANGED <<shared, memory>>, flagKey' \in {flagKey, sets'},
             override' \in [Instances -> FlagValues], stale' \in [Written -> 0 .. Bound + 1],
             \A v \in Written : stale'[v] \in {0, stale[v]} /\ stale'[v] <= stale[v],
             \A v \in Written : v \in InForce' => v \in InForce \/ v = sets' \/ stale'[v] = 0
      PROVE  FlagInv'
  <2>1. sets' \in 0 .. MaxSets /\ sets <= sets' /\ sets' \in sets + 1 .. MaxSets
    BY <1>s, <1>f, FlagNats
  <2>2. sets' \in Written /\ sets' \in FlagValues /\ flagKey' \in FlagValues
    BY <1>s, <1>f, <2>1, FlagNats
  <2>3. /\ ask' \in [Instances -> FlagAsks]
        /\ ask'[p].at = "set" /\ ask'[p].value = sets' /\ ask'[p].ticks = ask[p].ticks
        /\ \A q \in Instances : q # p => ask'[q] = ask[q]
    BY <1>s, <2>2, <1>f, FlagNats, GoEffect
  <2>4. stale'[sets'] = 0
    <3>1. stale[sets'] = 0
      BY <2>1, <2>2, <1>k DEF ForceInv
    <3> QED
      BY <3>1, <2>2, <1>s
  <2>5. ASSUME NEW q \in Instances, ask'[q] # ask[q], ask'[q].at \in {"fill", "set"}
        PROVE  ask'[q].value \in Written /\ stale'[ask'[q].value] <= ask'[q].ticks
    BY <2>2, <2>3, <2>4, <2>5, <1>e
  <2>6. \A v \in Written : v \in InForce' => v \in InForce \/ stale'[v] = 0
    BY <1>s, <2>4
  <2> QED
    BY <1>s, <2>1, <2>2, <2>3, <2>5, <2>6, <1>m
<1>8. ASSUME NEW p \in Instances, SetKey(p) PROVE FlagInv'
  <2>1. /\ Go(p, "idle", "set", sets') /\ sets < MaxSets /\ sets' = sets + 1 /\ flagKey' = sets'
        /\ override' = [override EXCEPT ![p] = Initialized(p)] /\ stale' = Again(Initialized(p))
        /\ UNCHANGED <<shared, memory>>
    BY <1>8 DEF SetKey
  <2>2. sets' # Unset
    <3>1. sets' \in Nat
      BY <2>1, <1>f, FlagNats
    <3> QED
      BY <3>1, FlagAssumption
  <2>3. /\ override' \in [Instances -> FlagValues]
        /\ \A v \in Written : v \in InForce' => v \in InForce \/ v = sets' \/ stale'[v] = 0
    BY <2>1, <2>2, <1>t, InitializedEffect
  <2>4. /\ stale' \in [Written -> 0 .. Bound + 1]
        /\ \A w \in Written : stale'[w] \in {0, stale[w]} /\ stale'[w] <= stale[w]
    BY <2>1, <1>t, AgainEffect
  <2> QED
    BY <2>1, <2>3, <2>4, <1>s
<1>9. ASSUME NEW p \in Instances, SetOverride(p) PROVE FlagInv'
  <2>1. /\ Go(p, "idle", "set", sets') /\ sets < MaxSets /\ sets' = sets + 1
        /\ override' = [override EXCEPT ![p] = sets'] /\ flagKey' \in {flagKey, sets'}
        /\ UNCHANGED <<shared, memory, stale>>
    BY <1>9 DEF SetOverride
  <2>2. sets' # Unset /\ sets' \in FlagValues
    <3>1. sets' \in 0 .. MaxSets
      BY <2>1, <1>f, FlagNats
    <3> QED
      BY <3>1, FlagNats, FlagAssumption
  <2>3. override' \in [Instances -> FlagValues]
    BY <2>1, <2>2, <1>f
  <2>4. \A v \in Written : v \in InForce' => v \in InForce \/ v = sets' \/ stale'[v] = 0
    <3>1. \A q \in Instances : override'[q] \in {override[q], sets'}
      BY <2>1, <1>f
    <3> QED
      BY <2>1, <2>2, <3>1 DEF InForce
  <2>5. \A w \in Written : stale'[w] \in {0, stale[w]} /\ stale'[w] <= stale[w]
    BY <2>1, <1>e
  <2> QED
    BY <2>1, <2>3, <2>4, <2>5, <1>f, <1>s
<1>12. ASSUME NEW p \in Instances, ListKnownFlags(p) PROVE FlagInv'
  <2>1. /\ override' = [override EXCEPT ![p] = Initialized(p)] /\ stale' = Again(Initialized(p))
        /\ UNCHANGED <<flagKey, shared, memory, sets>>
        /\ Go(p, "idle", "probe", Unset) \/ UNCHANGED ask
    BY <1>12 DEF ListKnownFlags
  <2>2. /\ override' \in [Instances -> FlagValues]
        /\ \A v \in Written : v \in InForce' => v \in InForce \/ v = flagKey \/ stale'[v] = 0
    BY <2>1, <1>t, InitializedEffect
  <2>3. /\ stale' \in [Written -> 0 .. Bound + 1]
        /\ \A w \in Written : stale'[w] \in {0, stale[w]} /\ stale'[w] <= stale[w]
    BY <2>1, <1>t, AgainEffect
  <2>4. /\ ask' \in [Instances -> FlagAsks]
        /\ \A q \in Instances : ask'[q] = ask[q] \/ ask'[q].at \notin {"fill", "set"}
    <3>1. CASE UNCHANGED ask
      BY <3>1, <1>f
    <3>2. CASE Go(p, "idle", "probe", Unset)
      <4>1. /\ ask' \in [Instances -> FlagAsks] /\ ask'[p].at = "probe"
            /\ \A q \in Instances : q # p => ask'[q] = ask[q]
        BY <3>2, <1>f, FlagNats, GoEffect
      <4> QED
        BY <4>1
    <3> QED
      BY <2>1, <3>1, <3>2
  <2>5. sets <= sets' /\ flagKey' \in FlagValues /\ sets' \in 0 .. MaxSets
    BY <2>1, <1>f
  <2>6. \A v \in Written : v \in InForce' => v \in InForce \/ stale'[v] = 0
    BY <2>2 DEF InForce
  <2> QED
    BY <2>1, <2>2, <2>3, <2>4, <2>5, <2>6, <1>m
<1>10. CASE FlagTick
  <2>0. UNCHANGED <<flagKey, override, sets>>
    BY <1>10 DEF FlagTick
  <2>1. ASSUME NEW p \in Instances
        PROVE  /\ ask'[p] \in FlagAsks /\ ask'[p].at = ask[p].at
               /\ ask[p].at # "idle" => ask'[p].value = ask[p].value /\ ask'[p].ticks = ask[p].ticks + 1
    <3>1. CASE ask[p].at = "idle"
      BY <3>1, <1>10, FlagNats DEF FlagTick
    <3>2. CASE ask[p].at # "idle"
      <4>1. ask'[p] = [ask[p] EXCEPT !.ticks = @ + 1] /\ ask[p].ticks < Flight
        BY <3>2, <1>10 DEF FlagTick
      <4>2. ask[p].ticks + 1 \in 0 .. Flight
        BY <4>1, <1>e, FlagNats
      <4>3. ask[p] \in FlagAsks
        BY <1>e
      <4> QED
        BY <4>1, <4>2, <4>3 DEF FlagAsks
    <3> QED
      BY <3>1, <3>2
  <2>2. ask' \in [Instances -> FlagAsks]
    BY <2>1, <1>10 DEF FlagTick
  <2>3. /\ memory' \in [Instances -> FlagCopies]
        /\ \A p \in Instances : memory'[p] = Older(memory[p])
    BY <1>10, <1>e, OlderEffect DEF FlagTick
  <2>4. shared' = Older(shared) /\ shared' \in FlagCopies
    BY <1>10, <1>e, OlderEffect DEF FlagTick
  <2>5. ASSUME NEW n \in Written
        PROVE  /\ stale'[n] \in 0 .. Bound + 1 /\ stale'[n] \in Nat /\ stale'[n] <= stale[n] + 1
               /\ n \in InForce \/ n \in sets + 1 .. MaxSets => stale'[n] = 0
    <3>1. stale'[n] = IF n \in InForce \/ n \in sets + 1 .. MaxSets THEN 0
                      ELSE IF stale[n] <= Bound THEN stale[n] + 1 ELSE stale[n]
      BY <1>10 DEF FlagTick
    <3>2. stale[n] \in Nat /\ stale[n] <= Bound + 1
      BY <1>e
    <3> QED
      BY <3>1, <3>2, FlagNats
  <2>6. stale' \in [Written -> 0 .. Bound + 1]
    BY <2>5, <1>10 DEF FlagTick
  <2>7. FlagTypeOK'
    BY <2>0, <2>2, <2>3, <2>4, <2>6, <1>f, <1>c, FlagTypes DEF FlagTypeOK, FlagValues, FlagCopies, FlagAsks
  <2>8. ForceInv' /\ CallsFresh' /\ CopiesFresh'
    <3>1. CallsFresh /\ CopiesFresh
      BY <1>k
    <3>2. ForceInv'
      BY <2>0, <2>5 DEF ForceInv, InForce
    <3>3. ASSUME NEW p \in Instances, ask'[p].at \in {"fill", "set"}
          PROVE  ask'[p].value \in Written /\ stale'[ask'[p].value] <= ask'[p].ticks
      <4>1. /\ ask[p].value \in Written /\ stale[ask[p].value] <= ask[p].ticks
            /\ ask'[p].value = ask[p].value /\ ask'[p].ticks = ask[p].ticks + 1
        BY <3>1, <3>3, <2>1 DEF CallsFresh
      <4>2. stale'[ask[p].value] <= stale[ask[p].value] + 1 /\ stale[ask[p].value] \in Nat
            /\ stale'[ask[p].value] \in Nat /\ ask[p].ticks \in Nat
        BY <4>1, <2>5, <1>e
      <4> QED
        BY <4>1, <4>2
    <3>4. ASSUME shared'.left > 0
          PROVE  shared'.value \in Written
                 /\ stale'[shared'.value] + shared'.left <= CacheTtl + Flight
      <4>1. shared.left > 0 /\ shared'.value = shared.value /\ shared'.left = shared.left - 1
        BY <3>4, <2>4, <1>e, OlderEffect
      <4>2. shared.value \in Written /\ stale[shared.value] + shared.left <= CacheTtl + Flight
        BY <3>1, <4>1 DEF CopiesFresh
      <4>3. stale'[shared.value] <= stale[shared.value] + 1 /\ stale[shared.value] \in Nat
            /\ stale'[shared.value] \in Nat /\ shared.left \in Nat
        BY <4>2, <2>5, <1>e
      <4> QED
        BY <4>1, <4>2, <4>3, FlagNats
    <3>5. ASSUME NEW p \in Instances, memory'[p].left > 0
          PROVE  memory'[p].value \in Written
                 /\ stale'[memory'[p].value] + memory'[p].left <= Bound
      <4>1. memory[p].left > 0 /\ memory'[p].value = memory[p].value
            /\ memory'[p].left = memory[p].left - 1
        BY <3>5, <2>3, <1>e, OlderEffect
      <4>2. memory[p].value \in Written /\ stale[memory[p].value] + memory[p].left <= Bound
        BY <3>1, <4>1 DEF CopiesFresh
      <4>3. stale'[memory[p].value] <= stale[memory[p].value] + 1 /\ stale[memory[p].value] \in Nat
            /\ stale'[memory[p].value] \in Nat /\ memory[p].left \in Nat
        BY <4>2, <2>5, <1>e
      <4> QED
        BY <4>1, <4>2, <4>3, FlagNats
    <3> QED
      BY <3>2, <3>3, <3>4, <3>5 DEF CallsFresh, CopiesFresh, Bound
  <2> QED
    BY <2>7, <2>8 DEF FlagInv
<1>11. CASE UNCHANGED flagVars
  <2>1. UNCHANGED <<env, provided, flagKey, shared, memory, override, ask, sets, stale>>
    BY <1>11 DEF flagVars
  <2>2. FlagTypeOK'
    BY <1>t, <2>1 DEF FlagTypeOK
  <2> QED
    BY <1>k, <2>1, <2>2 DEF FlagInv, ForceInv, InForce, CallsFresh, CopiesFresh
<1> QED
  BY <1>1, <1>2, <1>3, <1>4, <1>5, <1>6, <1>7, <1>8, <1>9, <1>10, <1>11, <1>12 DEF FlagNext

LEMMA FlagInvSettles == FlagInv => FlagsSettle
  BY DEF FlagInv, CopiesFresh, FlagsSettle

-----------------------------------------------------------------------------
(***************************************************************************)
(* The figures of the monitoring service.                                  *)
(***************************************************************************)

RowCounts == 0 .. MaxRows
FigureCopies == [rows : RowCounts \union {Unknown}, left : 0 .. FigureTtl]
ReaderShape == [at : {"idle", "record", "fill"}, figure : Figures, rows : RowCounts,
                ticks : 0 .. ReadTime]
RowTicks == [1 .. MaxRows -> 0 .. Longest + 1]

\* A row that is not stored yet has not been waiting.
RowsNew == \A f \in Figures : \A n \in 1 .. MaxRows : n > rows[f] => unseen[f][n] = 0

\* What a reader has missed came after it had looked.
ReadersFresh ==
    \A r \in Readers : reader[r].at # "idle" =>
        \A n \in 1 .. MaxRows : n > reader[r].rows => unseen[reader[r].figure][n] <= reader[r].ticks

CopiesCounted == \A f \in Figures : copy[f].left > 0 =>
    /\ copy[f].rows \in RowCounts
    /\ \A n \in 1 .. MaxRows : n > copy[f].rows => unseen[f][n] + copy[f].left <= Longest

MetricsInv == MetricsTypeOK /\ RowsNew /\ ReadersFresh /\ CopiesCounted

LEMMA MetricsTypes ==
    MetricsTypeOK <=>
      /\ rows \in [Figures -> RowCounts] /\ recorded \in RowCounts
      /\ copy \in [Figures -> FigureCopies] /\ undeleted \subseteq Figures
      /\ reader \in [Readers -> ReaderShape] /\ unseen \in [Figures -> RowTicks]
  BY DEF MetricsTypeOK, RowCounts, FigureCopies, ReaderShape, RowTicks

LEMMA MetricsNats ==
    /\ FigureTtl \in Nat /\ FigureTtl > 0 /\ ReadTime \in Nat /\ MaxRows \in Nat
    /\ Longest \in Nat /\ Longest = FigureTtl + ReadTime
    /\ \A n \in RowCounts : n \in Nat /\ n <= MaxRows
    /\ \A n \in 1 .. MaxRows : n \in Nat /\ n > 0 /\ n <= MaxRows
    /\ 0 \in RowCounts /\ 0 \in 0 .. ReadTime /\ 0 \in 0 .. Longest + 1 /\ 0 \in 0 .. FigureTtl
    /\ MaxRows \in RowCounts
    /\ FigureTtl \in 0 .. FigureTtl
    /\ NoCopy \in FigureCopies /\ NoCopy.left = 0
    /\ Idle \in ReaderShape /\ Idle.at = "idle"
<1>1. /\ FigureTtl \in Nat /\ FigureTtl > 0 /\ ReadTime \in Nat /\ MaxRows \in Nat
      /\ Longest \in Nat /\ Longest = FigureTtl + ReadTime
  BY MetricsAssumption DEF Longest
<1>2. /\ \A n \in RowCounts : n \in Nat /\ n <= MaxRows
      /\ \A n \in 1 .. MaxRows : n \in Nat /\ n > 0 /\ n <= MaxRows
      /\ 0 \in RowCounts /\ 0 \in 0 .. ReadTime /\ 0 \in 0 .. Longest + 1 /\ 0 \in 0 .. FigureTtl
      /\ FigureTtl \in 0 .. FigureTtl /\ MaxRows \in RowCounts
  BY <1>1 DEF RowCounts
<1>3. NoCopy \in FigureCopies /\ NoCopy.left = 0 /\ Idle \in ReaderShape /\ Idle.at = "idle"
  BY <1>2 DEF NoCopy, FigureCopies, Idle, ReaderShape, Figures
<1> QED
  BY <1>1, <1>2, <1>3

LEMMA MetricsInvInit == MetricsInit => MetricsInv
<1> SUFFICES ASSUME MetricsInit PROVE MetricsInv
  OBVIOUS
<1>1. MetricsTypeOK
  BY MetricsTypes, MetricsNats DEF MetricsInit, RowTicks
<1> QED
  BY <1>1, MetricsNats DEF MetricsInit, MetricsInv, RowsNew, ReadersFresh, CopiesCounted

LEMMA MetricsElements ==
    ASSUME MetricsTypeOK
    PROVE  /\ \A f \in Figures : /\ rows[f] \in RowCounts /\ rows[f] \in Nat
                                 /\ copy[f] \in FigureCopies /\ copy[f].left \in Nat
                                 /\ copy[f].left <= FigureTtl
                                 /\ unseen[f] \in RowTicks
                                 /\ \A n \in 1 .. MaxRows :
                                      unseen[f][n] \in Nat /\ unseen[f][n] <= Longest + 1
           /\ \A r \in Readers : /\ reader[r] \in ReaderShape /\ reader[r].ticks \in Nat
                                 /\ reader[r].ticks <= ReadTime /\ reader[r].figure \in Figures
                                 /\ reader[r].rows \in RowCounts
<1>1. \A t \in RowTicks : \A n \in 1 .. MaxRows : t[n] \in Nat /\ t[n] <= Longest + 1
  BY MetricsNats DEF RowTicks
<1>2. \A c \in FigureCopies : c.left \in Nat /\ c.left <= FigureTtl
  BY MetricsNats DEF FigureCopies
<1>3. \A r \in ReaderShape : r.ticks \in Nat /\ r.ticks <= ReadTime /\ r.figure \in Figures
                             /\ r.rows \in RowCounts
  BY MetricsNats DEF ReaderShape
<1>4. MetricsTypeOK
  OBVIOUS
<1> QED
  BY <1>1, <1>2, <1>3, <1>4, MetricsTypes, MetricsNats

\* Copies that are only deleted stay as good as they were.
LEMMA Deleted ==
    ASSUME MetricsInv, NEW gone, copy' \in {copy, Without(gone)}
    PROVE  /\ copy' \in [Figures -> FigureCopies]
           /\ \A f \in Figures : copy'[f] = copy[f] \/ copy'[f] = NoCopy
  BY MetricsTypes, MetricsNats DEF MetricsInv, Without

LEMMA MetricsInvNext == MetricsInv /\ [MetricsNext]_metricsVars => MetricsInv'
<1> SUFFICES ASSUME MetricsInv, [MetricsNext]_metricsVars
             PROVE  MetricsInv'
  OBVIOUS
<1>t. MetricsTypeOK /\ RowsNew /\ ReadersFresh /\ CopiesCounted
  BY DEF MetricsInv
<1>f. /\ rows \in [Figures -> RowCounts] /\ recorded \in RowCounts
      /\ copy \in [Figures -> FigureCopies] /\ undeleted \subseteq Figures
      /\ reader \in [Readers -> ReaderShape] /\ unseen \in [Figures -> RowTicks]
  BY <1>t, MetricsTypes
<1>e. /\ \A f \in Figures : /\ rows[f] \in RowCounts /\ rows[f] \in Nat
                            /\ copy[f] \in FigureCopies /\ copy[f].left \in Nat
                            /\ copy[f].left <= FigureTtl
                            /\ unseen[f] \in RowTicks
                            /\ \A n \in 1 .. MaxRows :
                                 unseen[f][n] \in Nat /\ unseen[f][n] <= Longest + 1
      /\ \A r \in Readers : /\ reader[r] \in ReaderShape /\ reader[r].ticks \in Nat
                            /\ reader[r].ticks <= ReadTime /\ reader[r].figure \in Figures
                            /\ reader[r].rows \in RowCounts
  BY <1>t, MetricsElements
\* A row is stored, and nothing else that matters here.
<1>s. ASSUME NEW f \in Figures, Store(f), UNCHANGED <<copy, reader, recorded, unseen>>,
             undeleted' \subseteq Figures
      PROVE  MetricsInv'
  <2>1. rows' = [rows EXCEPT ![f] = rows[f] + 1] /\ rows[f] < MaxRows
    BY <1>s DEF Store
  <2>2. rows[f] + 1 \in RowCounts
    BY <2>1, <1>e, MetricsNats DEF RowCounts
  <2>3. rows' \in [Figures -> RowCounts] /\ \A h \in Figures : rows'[h] \in Nat /\ rows'[h] >= rows[h]
    BY <2>1, <2>2, <1>f, <1>e, MetricsNats
  <2>4. MetricsTypeOK'
    BY <2>3, <1>s, <1>f, MetricsTypes DEF MetricsTypeOK, RowCounts, FigureCopies, ReaderShape, RowTicks
  <2>5. RowsNew'
    BY <2>3, <1>s, <1>t, <1>e, MetricsNats DEF RowsNew
  <2>6. ReadersFresh' /\ CopiesCounted'
    BY <1>s, <1>t DEF ReadersFresh, CopiesCounted
  <2> QED
    BY <2>4, <2>5, <2>6 DEF MetricsInv
\* Copies are only deleted.
<1>d. ASSUME \A f \in Figures : copy'[f] = copy[f] \/ copy'[f] = NoCopy,
             copy' \in [Figures -> FigureCopies], undeleted' \subseteq Figures,
             UNCHANGED <<rows, unseen>>, recorded' \in RowCounts
      PROVE  RowsNew' /\ CopiesCounted' /\ (reader' \in [Readers -> ReaderShape] => MetricsTypeOK')
  <2>1. CopiesCounted'
    BY <1>d, <1>t, MetricsNats DEF CopiesCounted
  <2>2. RowsNew'
    BY <1>d, <1>t DEF RowsNew
  <2>3. ASSUME reader' \in [Readers -> ReaderShape] PROVE MetricsTypeOK'
    BY <2>3, <1>d, <1>f, MetricsTypes DEF MetricsTypeOK, RowCounts, FigureCopies, ReaderShape, RowTicks
  <2> QED
    BY <2>1, <2>2, <2>3
<1>1. CASE AddScore
  BY <1>1, <1>s DEF AddScore, Figures
<1>2. CASE AddListing
  BY <1>2, <1>s, <1>f DEF AddListing, Figures
<1>3. CASE AddLatency
  <2>1. recorded' \in RowCounts
    <3>1. recorded \in Nat
      BY <1>f, MetricsNats
    <3> QED
      BY <3>1, <1>3, <1>f, MetricsNats DEF AddLatency, RowCounts
  <2>2. UNCHANGED <<rows, copy, reader, unseen>> /\ undeleted' = Figures
    BY <1>3 DEF AddLatency
  <2>3. RowsNew' /\ CopiesCounted' /\ MetricsTypeOK'
    BY <2>1, <2>2, <1>f, <1>d
  <2>4. ReadersFresh'
    BY <2>2, <1>t DEF ReadersFresh
  <2> QED
    BY <2>3, <2>4 DEF MetricsInv
<1>4. ASSUME NEW f \in Figures, DeleteCopy(f) PROVE MetricsInv'
  <2>1. /\ copy' \in [Figures -> FigureCopies]
        /\ \A h \in Figures : copy'[h] = copy[h] \/ copy'[h] = NoCopy
    BY <1>4, Deleted DEF DeleteCopy
  <2>2. UNCHANGED <<rows, reader, recorded, unseen>> /\ undeleted' \subseteq Figures
    BY <1>4, <1>f DEF DeleteCopy
  <2>3. RowsNew' /\ CopiesCounted' /\ MetricsTypeOK'
    BY <2>1, <2>2, <1>f, <1>d
  <2>4. ReadersFresh'
    BY <2>2, <1>t DEF ReadersFresh
  <2> QED
    BY <2>3, <2>4 DEF MetricsInv
<1>5. ASSUME NEW r \in Readers, NEW f \in Figures, Compute(r, f) PROVE MetricsInv'
  <2> DEFINE now == [at |-> IF f = "latency" THEN "record" ELSE "fill", figure |-> f,
                     rows |-> rows[f], ticks |-> 0]
  <2>1. now \in ReaderShape /\ now.figure = f /\ now.rows = rows[f] /\ now.ticks = 0
    BY <1>e, MetricsNats DEF ReaderShape
  <2>2. reader' = [reader EXCEPT ![r] = now] /\ UNCHANGED <<rows, copy, undeleted, recorded, unseen>>
    BY <1>5 DEF Compute
  <2> HIDE DEF now
  <2>3. reader' \in [Readers -> ReaderShape]
    BY <2>1, <2>2, <1>f
  <2>4. RowsNew' /\ CopiesCounted' /\ MetricsTypeOK'
    BY <2>2, <2>3, <1>f, <1>d
  <2>5. \A n \in 1 .. MaxRows : n > rows[f] => unseen[f][n] <= 0
    BY <1>t, MetricsNats DEF RowsNew
  <2>6. ReadersFresh'
    BY <2>1, <2>2, <2>5, <1>f, <1>t DEF ReadersFresh
  <2> QED
    BY <2>4, <2>6 DEF MetricsInv
<1>6. ASSUME NEW r \in Readers, RecordLatencies(r) PROVE MetricsInv'
  <2>1. /\ copy' \in [Figures -> FigureCopies]
        /\ \A h \in Figures : copy'[h] = copy[h] \/ copy'[h] = NoCopy
    BY <1>6, <1>f, MetricsNats DEF RecordLatencies, AddLatencies, Without
  <2>2. recorded' \in RowCounts
    <3>1. recorded \in Nat /\ reader[r].rows \in Nat
      BY <1>f, <1>e, MetricsNats
    <3> QED
      BY <3>1, <1>6, <1>f, MetricsNats DEF RecordLatencies, AddLatencies, RowCounts
  <2>3. /\ UNCHANGED <<rows, undeleted, unseen>> /\ reader[r].at = "record"
        /\ reader' = [reader EXCEPT ![r] = [reader[r] EXCEPT !.at = "fill"]]
    BY <1>6, <1>e DEF RecordLatencies, ReaderShape
  <2>4. [reader[r] EXCEPT !.at = "fill"] \in ReaderShape
    BY <1>e DEF ReaderShape
  <2>5. RowsNew' /\ CopiesCounted' /\ MetricsTypeOK'
    BY <2>1, <2>2, <2>3, <2>4, <1>f, <1>d
  <2>6. ReadersFresh'
    BY <2>3, <1>f, <1>e, <1>t DEF ReadersFresh, ReaderShape
  <2> QED
    BY <2>5, <2>6 DEF MetricsInv
<1>7. ASSUME NEW r \in Readers, FillCopy(r) PROVE MetricsInv'
  <2> DEFINE g == reader[r].figure
             new == [rows |-> reader[r].rows, left |-> FigureTtl]
  <2>1. /\ reader' = [reader EXCEPT ![r] = Idle] /\ reader[r].at = "fill"
        /\ UNCHANGED <<rows, undeleted, recorded, unseen>>
        /\ copy' = copy \/ copy' = [copy EXCEPT ![g] = new]
    BY <1>7 DEF FillCopy, Renewed
  <2>2. /\ new \in FigureCopies /\ new.left = FigureTtl /\ new.rows = reader[r].rows
        /\ g \in Figures /\ new.rows \in RowCounts
    BY <1>e, MetricsNats DEF FigureCopies
  <2>3. \A n \in 1 .. MaxRows : n > new.rows => unseen[g][n] + new.left <= Longest
    <3>1. ASSUME NEW n \in 1 .. MaxRows, n > new.rows
          PROVE  unseen[g][n] + new.left <= Longest
      <4>1. unseen[g][n] <= reader[r].ticks
        BY <3>1, <2>1, <2>2, <1>t DEF ReadersFresh
      <4>2. unseen[g][n] \in Nat /\ reader[r].ticks \in Nat /\ reader[r].ticks <= ReadTime
        BY <2>2, <1>e
      <4> QED
        BY <4>1, <4>2, <2>2, MetricsNats
    <3> QED
      BY <3>1
  <2> HIDE DEF g, new
  <2>4. MetricsTypeOK'
    <3>1. reader' \in [Readers -> ReaderShape] /\ copy' \in [Figures -> FigureCopies]
      BY <2>1, <2>2, <1>f, MetricsNats
    <3> QED
      BY <3>1, <2>1, <1>f, MetricsTypes DEF MetricsTypeOK, RowCounts, FigureCopies, ReaderShape, RowTicks
  <2>5. RowsNew'
    BY <2>1, <1>t DEF RowsNew
  <2>6. ReadersFresh'
    BY <2>1, <1>f, <1>t, MetricsNats DEF ReadersFresh
  <2>7. CopiesCounted'
    BY <2>1, <2>2, <2>3, <1>f, <1>t DEF CopiesCounted
  <2> QED
    BY <2>4, <2>5, <2>6, <2>7 DEF MetricsInv
<1>8. CASE MetricsTick
  <2>0. UNCHANGED <<rows, undeleted, recorded>>
    BY <1>8 DEF MetricsTick
  <2>1. ASSUME NEW r \in Readers
        PROVE  /\ reader'[r] \in ReaderShape /\ reader'[r].at = reader[r].at
               /\ reader[r].at # "idle" =>
                    /\ reader'[r].figure = reader[r].figure /\ reader'[r].rows = reader[r].rows
                    /\ reader'[r].ticks = reader[r].ticks + 1
    <3>1. CASE reader[r].at = "idle"
      BY <3>1, <1>8, MetricsNats DEF MetricsTick
    <3>2. CASE reader[r].at # "idle"
      <4>1. reader'[r] = [reader[r] EXCEPT !.ticks = @ + 1] /\ reader[r].ticks < ReadTime
        BY <3>2, <1>8 DEF MetricsTick
      <4>2. reader[r].ticks + 1 \in 0 .. ReadTime
        BY <4>1, <1>e, MetricsNats
      <4>3. reader[r] \in ReaderShape
        BY <1>e
      <4> QED
        BY <4>1, <4>2, <4>3 DEF ReaderShape
    <3> QED
      BY <3>1, <3>2
  <2>2. ASSUME NEW f \in Figures
        PROVE  /\ copy'[f] \in FigureCopies
               /\ copy'[f].left > 0 => /\ copy[f].left > 0 /\ copy'[f].left = copy[f].left - 1
                                       /\ copy'[f].rows = copy[f].rows
    <3>1. copy'[f] = Less(copy[f])
      BY <1>8 DEF MetricsTick
    <3>2. CASE copy[f].left > 1
      <4>1. copy[f].left - 1 \in 0 .. FigureTtl
        BY <3>2, <1>e, MetricsNats
      <4>2. copy[f] \in FigureCopies /\ copy'[f] = [copy[f] EXCEPT !.left = @ - 1]
        BY <3>1, <3>2, <1>e DEF Less
      <4> QED
        BY <4>1, <4>2, <3>2, <1>e DEF FigureCopies
    <3>3. CASE ~(copy[f].left > 1)
      BY <3>1, <3>3, MetricsNats DEF Less
    <3> QED
      BY <3>2, <3>3
  <2>3. ASSUME NEW f \in Figures
        PROVE  /\ unseen'[f] \in RowTicks
               /\ \A n \in 1 .. MaxRows :
                    /\ unseen'[f][n] \in Nat /\ unseen'[f][n] <= unseen[f][n] + 1
                    /\ n > rows[f] => unseen'[f][n] = unseen[f][n]
    <3>1. unseen'[f] = [n \in 1 .. MaxRows |->
                          IF n <= rows[f] /\ unseen[f][n] <= Longest THEN unseen[f][n] + 1
                          ELSE unseen[f][n]]
      BY <1>8 DEF MetricsTick
    <3>2. ASSUME NEW n \in 1 .. MaxRows
          PROVE  /\ unseen'[f][n] \in 0 .. Longest + 1 /\ unseen'[f][n] <= unseen[f][n] + 1
                 /\ unseen'[f][n] \in Nat
                 /\ n > rows[f] => unseen'[f][n] = unseen[f][n]
      <4>1. unseen'[f][n] = IF n <= rows[f] /\ unseen[f][n] <= Longest THEN unseen[f][n] + 1
                            ELSE unseen[f][n]
        BY <3>1
      <4>2. unseen[f][n] \in Nat /\ unseen[f][n] <= Longest + 1 /\ rows[f] \in Nat /\ n \in Nat
        BY <1>e, MetricsNats
      <4> QED
        BY <4>1, <4>2, MetricsNats
    <3>3. unseen'[f] \in RowTicks
      BY <3>1, <3>2 DEF RowTicks
    <3> QED
      BY <3>2, <3>3
  <2>4. reader' \in [Readers -> ReaderShape] /\ copy' \in [Figures -> FigureCopies]
        /\ unseen' \in [Figures -> RowTicks]
    BY <2>1, <2>2, <2>3, <1>8 DEF MetricsTick
  <2>5. MetricsTypeOK'
    BY <2>0, <2>4, <1>f, MetricsTypes DEF MetricsTypeOK, RowCounts, FigureCopies, ReaderShape, RowTicks
  <2>6. RowsNew'
    BY <2>0, <2>3, <1>t DEF RowsNew
  <2>7. ReadersFresh'
    <3> SUFFICES ASSUME NEW r \in Readers, reader'[r].at # "idle", NEW n \in 1 .. MaxRows,
                        n > reader'[r].rows
                 PROVE  unseen'[reader'[r].figure][n] <= reader'[r].ticks
      BY DEF ReadersFresh
    <3>1. /\ reader[r].at # "idle" /\ reader'[r].figure = reader[r].figure
          /\ reader'[r].rows = reader[r].rows /\ reader'[r].ticks = reader[r].ticks + 1
      BY <2>1
    <3>2. unseen[reader[r].figure][n] <= reader[r].ticks
      BY <3>1, <1>t DEF ReadersFresh
    <3>3. /\ unseen'[reader[r].figure][n] <= unseen[reader[r].figure][n] + 1
          /\ unseen'[reader[r].figure][n] \in Nat /\ unseen[reader[r].figure][n] \in Nat
          /\ reader[r].ticks \in Nat
      BY <2>3, <1>e
    <3> QED
      BY <3>1, <3>2, <3>3
  <2>8. CopiesCounted'
    <3> SUFFICES ASSUME NEW f \in Figures, copy'[f].left > 0
                 PROVE  /\ copy'[f].rows \in RowCounts
                        /\ \A n \in 1 .. MaxRows : n > copy'[f].rows =>
                             unseen'[f][n] + copy'[f].left <= Longest
      BY DEF CopiesCounted, Longest
    <3>1. copy[f].left > 0 /\ copy'[f].left = copy[f].left - 1 /\ copy'[f].rows = copy[f].rows
      BY <2>2
    <3>2. ASSUME NEW n \in 1 .. MaxRows, n > copy'[f].rows
          PROVE  unseen'[f][n] + copy'[f].left <= Longest
      <4>1. unseen[f][n] + copy[f].left <= Longest
        BY <3>1, <3>2, <1>t DEF CopiesCounted
      <4>2. unseen'[f][n] <= unseen[f][n] + 1 /\ unseen'[f][n] \in Nat /\ unseen[f][n] \in Nat
            /\ copy[f].left \in Nat
        BY <2>3, <1>e
      <4> QED
        BY <4>1, <4>2, <3>1, MetricsNats
    <3> QED
      BY <3>1, <3>2, <1>t DEF CopiesCounted
  <2> QED
    BY <2>5, <2>6, <2>7, <2>8 DEF MetricsInv
<1>9. CASE UNCHANGED metricsVars
  <2>1. UNCHANGED <<rows, copy, undeleted, reader, recorded, unseen>>
    BY <1>9 DEF metricsVars
  <2>2. MetricsTypeOK'
    BY <1>t, <2>1 DEF MetricsTypeOK
  <2> QED
    BY <1>t, <2>1, <2>2 DEF MetricsInv, RowsNew, ReadersFresh, CopiesCounted
<1> QED
  BY <1>1, <1>2, <1>3, <1>4, <1>5, <1>6, <1>7, <1>8, <1>9 DEF MetricsNext

LEMMA FiguresFollow == MetricsInv => FiguresCurrent
<1> SUFFICES ASSUME MetricsInv, NEW f \in Figures, copy[f].left > 0, NEW n \in 1 .. rows[f],
                    n > copy[f].rows
             PROVE  unseen[f][n] + copy[f].left <= Longest
  BY DEF FiguresCurrent
<1>1. rows[f] \in Nat /\ rows[f] <= MaxRows
  BY MetricsElements, MetricsNats DEF MetricsInv
<1>2. n \in 1 .. MaxRows
  BY <1>1, MetricsNats
<1> QED
  BY <1>2 DEF MetricsInv, CopiesCounted

-----------------------------------------------------------------------------
(***************************************************************************)
(* The metrics on the dashboard.                                           *)
(***************************************************************************)

LiveMessages == [age : 0 .. AskTime + Transit, ticks : 0 .. Transit]
PageViews == [mounted : BOOLEAN, retries : 0 .. MaxRetries, timer : BOOLEAN]
Showing == [age : 0 .. Stalest, since : 0 .. Stalest]
StreamShape == [at : {"closed", "connecting", "ask", "sleep"}, asked : SUBSET Services,
                ticks : 0 .. Interval + AskTime]

LoopRuns == stream.at \in {"ask", "sleep"}

\* The ticks since the loop sent its last message, if it has sent one.
SinceSend == IF stream.at = "ask" THEN Interval + stream.ticks ELSE stream.ticks

LoopInv ==
    /\ stream.at = "ask" => stream.ticks <= AskTime
    /\ stream.at = "sleep" => stream.ticks <= Interval
    /\ stream.at = "connecting" => ~fed

\* What is on its way, of which the last message is the last that was sent.
WireInv ==
    /\ wire \in Seq(LiveMessages) /\ Len(wire) <= 2
    /\ \A i \in 1 .. Len(wire) : wire[i].age <= AskTime + wire[i].ticks
    /\ Len(wire) > 0 => LoopRuns /\ wire[Len(wire)].ticks = SinceSend
    /\ Len(wire) = 2 => wire[1].ticks >= Interval + SinceSend

TimerInv ==
    /\ view.timer => stream.at = "closed"
    /\ ~view.mounted /\ (view.timer \/ stream.at # "closed") => orphaned

ShowsWithin(age, since) == shown.age <= age /\ since <= shown.since + Transit

\* The message that is shown was the last one, or one or two were sent after it.
ShowsLatest == Len(wire) = 0 /\ ShowsWithin(AskTime + SinceSend, SinceSend)
OnePassed ==
    /\ Len(wire) = 0 /\ Transit > 0
    /\ ShowsWithin(Interval + 2 * AskTime + SinceSend, Interval + SinceSend)
OneComing ==
    /\ Len(wire) = 1
    /\ ShowsWithin(Interval + 2 * AskTime + SinceSend, Interval + SinceSend)
PassedAndComing ==
    /\ Len(wire) = 1 /\ Transit > 0
    /\ ShowsWithin(2 * Interval + 3 * AskTime + SinceSend, 2 * Interval + SinceSend)
TwoComing ==
    /\ Len(wire) = 2
    /\ ShowsWithin(2 * Interval + 3 * AskTime + wire[1].ticks, 2 * Interval + SinceSend)

ShownInv ==
    fed /\ LoopRuns => ShowsLatest \/ OnePassed \/ OneComing \/ PassedAndComing \/ TwoComing

LiveTypes ==
    /\ view \in PageViews /\ shown \in Showing /\ stream \in StreamShape
    /\ fed \in BOOLEAN /\ orphaned \in BOOLEAN

LiveInv == LiveTypes /\ LoopInv /\ WireInv /\ TimerInv /\ ShownInv

LEMMA LiveNats ==
    /\ Interval \in Nat /\ Interval > 0 /\ AskTime \in Nat /\ MaxRetries \in Nat
    /\ Transit \in Nat /\ Transit <= Interval
    /\ Stalest \in Nat /\ Stalest = 2 * Interval + 3 * AskTime + 2 * Transit
  BY LiveAssumption DEF Stalest

LEMMA LiveInvTypes == LiveInv => LiveTypeOK
<1> SUFFICES ASSUME LiveInv PROVE LiveTypeOK
  OBVIOUS
<1>1. wire \in Seq(LiveMessages) /\ Len(wire) <= 2
  BY DEF LiveInv, WireInv
<1>2. wire \in [1 .. Len(wire) -> LiveMessages] /\ Len(wire) \in 0 .. 2
  <2>1. wire \in [1 .. Len(wire) -> LiveMessages] /\ Len(wire) \in Nat
    BY <1>1, LenProperties
  <2> QED
    BY <2>1, <1>1
<1>3. wire \in BoundedSeq(LiveMessages, 2)
  <2>1. [1 .. Len(wire) -> LiveMessages] \in {[1 .. m -> LiveMessages] : m \in 0 .. 2}
    BY <1>2
  <2> QED
    BY <1>2, <2>1, Zenon DEF BoundedSeq, SeqOf
<1> QED
  BY <1>3 DEF LiveInv, LiveTypes, LiveTypeOK, LiveMessages, PageViews, Showing, StreamShape

LEMMA LiveElements ==
    ASSUME LiveInv
    PROVE  /\ shown.age \in Nat /\ shown.since \in Nat /\ shown.age <= Stalest /\ shown.since <= Stalest
           /\ stream.ticks \in Nat /\ stream.ticks <= Interval + AskTime
           /\ SinceSend \in Nat /\ Len(wire) \in Nat
           /\ \A i \in 1 .. Len(wire) : /\ wire[i] \in LiveMessages /\ wire[i].age \in Nat
                                        /\ wire[i].ticks \in Nat /\ wire[i].ticks <= Transit
<1> USE LiveNats
<1>1. shown \in Showing /\ stream \in StreamShape /\ wire \in Seq(LiveMessages)
  BY DEF LiveInv, LiveTypes, WireInv
<1>2. shown.age \in Nat /\ shown.since \in Nat /\ shown.age <= Stalest /\ shown.since <= Stalest
  BY <1>1 DEF Showing
<1>3. stream.ticks \in Nat /\ stream.ticks <= Interval + AskTime
  BY <1>1 DEF StreamShape
<1>4. SinceSend \in Nat
  BY <1>3 DEF SinceSend
<1>5. \A m \in LiveMessages : m.age \in Nat /\ m.ticks \in Nat /\ m.ticks <= Transit
  BY DEF LiveMessages
<1>6. \A i \in 1 .. Len(wire) : wire[i] \in LiveMessages
  BY <1>1
<1> QED
  BY <1>1, <1>2, <1>3, <1>4, <1>5, <1>6

LEMMA LiveInvShows == LiveInv => PageCurrent
<1> SUFFICES ASSUME LiveInv PROVE PageCurrent
  OBVIOUS
<1>1. ~view.mounted /\ stream.at # "closed" => orphaned
  BY DEF LiveInv, TimerInv
<1>2. ASSUME fed, stream.at # "closed" PROVE shown.age < Stalest
  <2>1. LoopRuns
    BY <1>2 DEF LiveInv, LiveTypes, LoopInv, StreamShape, LoopRuns
  <2>2. SinceSend <= Interval + AskTime
    BY <2>1, LiveElements, LiveNats DEF LiveInv, LoopInv, SinceSend, LoopRuns
  <2>3. Len(wire) > 0 => SinceSend <= Transit
    BY LiveElements, LiveNats DEF LiveInv, WireInv
  <2>4. Len(wire) = 2 => wire[1].ticks \in Nat /\ wire[1].ticks <= Transit /\ Transit > 0
    BY LiveElements, LiveNats DEF LiveInv, WireInv
  <2>5. ShowsLatest \/ OnePassed \/ OneComing \/ PassedAndComing \/ TwoComing
    BY <1>2, <2>1 DEF LiveInv, ShownInv
  <2>6. shown.age \in Nat /\ SinceSend \in Nat
    BY LiveElements
  <2>7. CASE ShowsLatest
    BY <2>7, <2>2, <2>6, LiveNats DEF ShowsLatest, ShowsWithin
  <2>8. CASE OnePassed
    BY <2>8, <2>2, <2>6, LiveNats DEF OnePassed, ShowsWithin
  <2>9. CASE OneComing
    BY <2>9, <2>3, <2>6, LiveNats DEF OneComing, ShowsWithin
  <2>10. CASE PassedAndComing
    BY <2>10, <2>3, <2>6, LiveNats DEF PassedAndComing, ShowsWithin
  <2>11. CASE TwoComing
    BY <2>11, <2>4, <2>6, LiveNats DEF TwoComing, ShowsWithin
  <2> QED
    BY <2>5, <2>7, <2>8, <2>9, <2>10, <2>11
<1> QED
  BY <1>1, <1>2 DEF PageCurrent

LEMMA LiveInvInit == LiveInit => LiveInv
<1> SUFFICES ASSUME LiveInit PROVE LiveInv
  OBVIOUS
<1> USE LiveNats DEF LiveInit, NothingShown, Connecting, Closed
<1>1. 0 \in 0 .. MaxRetries /\ Stalest \in 0 .. Stalest /\ 0 \in 0 .. Interval + AskTime
  OBVIOUS
<1>2. LiveTypes
  BY <1>1 DEF LiveTypes, PageViews, Showing, StreamShape
<1>3. wire \in Seq(LiveMessages) /\ Len(wire) = 0
  OBVIOUS
<1> QED
  BY <1>2, <1>3 DEF LiveInv, LoopInv, WireInv, TimerInv, ShownInv, LoopRuns

LEMMA LiveInvNext == LiveInv /\ [LiveNext]_liveVars => LiveInv'
<1> SUFFICES ASSUME LiveInv, [LiveNext]_liveVars
             PROVE  LiveInv'
  OBVIOUS
<1>t. LiveTypes /\ LoopInv /\ WireInv /\ TimerInv /\ ShownInv
  BY DEF LiveInv
<1>f. /\ view \in PageViews /\ shown \in Showing /\ stream \in StreamShape
      /\ fed \in BOOLEAN /\ orphaned \in BOOLEAN
  BY <1>t DEF LiveTypes
<1>e. /\ shown.age \in Nat /\ shown.since \in Nat /\ shown.age <= Stalest /\ shown.since <= Stalest
      /\ stream.ticks \in Nat /\ stream.ticks <= Interval + AskTime
      /\ SinceSend \in Nat /\ Len(wire) \in Nat
  BY LiveElements
<1>d. \A i \in 1 .. Len(wire) : /\ wire[i] \in LiveMessages /\ wire[i].age \in Nat
                                /\ wire[i].ticks \in Nat /\ wire[i].ticks <= Transit
  BY LiveElements
<1>n. Asking \in StreamShape /\ Closed \in StreamShape /\ Connecting \in StreamShape
      /\ Asking.at = "ask" /\ Closed.at = "closed" /\ Connecting.at = "connecting"
      /\ Asking.ticks = 0
  <2>1. 0 \in 0 .. Interval + AskTime
    BY LiveNats
  <2> QED
    BY <2>1 DEF Asking, Closed, Connecting, StreamShape, Services
<1>v. /\ view.mounted \in BOOLEAN /\ view.timer \in BOOLEAN /\ view.retries \in 0 .. MaxRetries
  BY <1>f DEF PageViews
\* Nothing is on its way outside of the loop.
<1>w. ~LoopRuns => wire = <<>>
  BY <1>t, <1>e DEF WireInv
\* The connection ends.
<1>l. ASSUME Lost, view' \in PageViews, fed' = fed, orphaned' \in BOOLEAN, shown' = shown,
             ~view'.mounted /\ view'.timer => orphaned'
      PROVE  LiveInv'
  <2>1. stream' = Closed /\ wire' = <<>>
    BY <1>l DEF Lost
  <2>2. ~LoopRuns' /\ stream'.at = "closed" /\ Len(wire') = 0 /\ wire' \in Seq(LiveMessages)
    BY <2>1, <1>n DEF LoopRuns
  <2>3. LiveTypes'
    BY <2>1, <1>l, <1>f, <1>n DEF LiveTypes, PageViews, Showing, StreamShape
  <2>4. LoopInv' /\ WireInv' /\ TimerInv' /\ ShownInv'
    BY <2>2, <1>l DEF LoopInv, WireInv, TimerInv, ShownInv
  <2> QED
    BY <2>3, <2>4 DEF LiveInv
<1>1. CASE Accept
  <2>1. stream.at = "connecting" /\ stream' = Asking /\ UNCHANGED <<view, shown, wire, fed, orphaned>>
    BY <1>1 DEF Accept
  <2>2. wire = <<>> /\ ~fed /\ ~view.timer
    BY <2>1, <1>w, <1>t DEF LoopRuns, LoopInv, TimerInv
  <2>3. LiveTypes'
    BY <2>1, <1>f, <1>n DEF LiveTypes, PageViews, Showing, StreamShape
  <2>4. LoopInv'
    BY <2>1, <1>n, LiveNats DEF LoopInv
  <2>5. WireInv' /\ ShownInv'
    BY <2>1, <2>2, <1>t DEF WireInv, ShownInv
  <2>6. TimerInv'
    BY <2>1, <2>2, <1>n, <1>t DEF TimerInv
  <2> QED
    BY <2>3, <2>4, <2>5, <2>6 DEF LiveInv
<1>2. ASSUME NEW s \in Services, Answers(s) PROVE LiveInv'
  <2>1. /\ stream' = [stream EXCEPT !.asked = @ \ {s}]
        /\ UNCHANGED <<view, shown, wire, fed, orphaned>>
    BY <1>2 DEF Answers
  <2>2. stream' \in StreamShape /\ stream'.at = stream.at /\ stream'.ticks = stream.ticks
    BY <2>1, <1>f DEF StreamShape
  <2>3. LiveTypes'
    BY <2>1, <2>2, <1>f DEF LiveTypes, PageViews, Showing, StreamShape
  <2>4. SinceSend' = SinceSend /\ LoopRuns' = LoopRuns
    BY <2>2 DEF SinceSend, LoopRuns
  <2>5. LoopInv' /\ WireInv' /\ TimerInv'
    BY <2>1, <2>2, <2>4, <1>t DEF LoopInv, WireInv, TimerInv
  <2>6. ShownInv'
    BY <2>1, <2>4, <1>t DEF ShownInv, ShowsLatest, OnePassed, OneComing, PassedAndComing, TwoComing, ShowsWithin
  <2> QED
    BY <2>3, <2>5, <2>6 DEF LiveInv
<1>3. CASE AskAnew
  <2>1. /\ stream' = Asking /\ stream.at = "sleep" /\ stream.ticks = Interval
        /\ UNCHANGED <<view, shown, wire, fed, orphaned>>
    BY <1>3 DEF AskAnew
  <2>3. LiveTypes'
    BY <2>1, <1>n, <1>f DEF LiveTypes, PageViews, Showing, StreamShape
  <2>4. SinceSend' = SinceSend /\ LoopRuns' /\ LoopRuns /\ stream'.at = "ask" /\ stream'.ticks = 0
    BY <2>1, <1>n, LiveNats DEF SinceSend, LoopRuns
  <2>5. LoopInv' /\ WireInv' /\ TimerInv'
    BY <2>1, <2>4, <1>t, LiveNats DEF LoopInv, WireInv, TimerInv
  <2>6. ShownInv'
    BY <2>1, <2>4, <1>t DEF ShownInv, ShowsLatest, OnePassed, OneComing, PassedAndComing, TwoComing, ShowsWithin
  <2> QED
    BY <2>3, <2>5, <2>6 DEF LiveInv
<1>4. CASE AskRaises \/ ConnectionLost
  <2>1. OnClose
    BY <1>4 DEF AskRaises, ConnectionLost
  <2>2. view' \in PageViews /\ view'.mounted = view.mounted /\ (view'.timer => view.timer \/ view.mounted)
    <3>1. CASE view.mounted /\ view.retries < MaxRetries
      <4>1. view.retries + 1 \in 0 .. MaxRetries
        BY <3>1, <1>v, LiveNats
      <4>2. view' = [view EXCEPT !.retries = @ + 1, !.timer = TRUE]
        BY <2>1, <3>1 DEF OnClose
      <4> QED
        BY <4>1, <4>2, <3>1, <1>f DEF PageViews
    <3>2. CASE ~(view.mounted /\ view.retries < MaxRetries)
      BY <2>1, <3>2, <1>f DEF OnClose
    <3> QED
      BY <3>1, <3>2
  <2>3. Lost /\ UNCHANGED <<shown, fed, orphaned>>
    BY <2>1 DEF OnClose
  <2> QED
    BY <2>2, <2>3, <1>l, <1>t, <1>f DEF TimerInv
<1>5. CASE Connect
  <2>1. /\ view.timer /\ view' = [view EXCEPT !.timer = FALSE]
        /\ stream' = Connecting /\ fed' = FALSE /\ UNCHANGED <<shown, wire, orphaned>>
    BY <1>5 DEF Connect
  <2>2. stream.at = "closed"
    BY <2>1, <1>t DEF TimerInv
  <2>3. wire = <<>>
    BY <2>2, <1>w DEF LoopRuns
  <2>4. view' \in PageViews /\ view'.mounted = view.mounted /\ ~view'.timer
    BY <2>1, <1>f DEF PageViews
  <2>5. LiveTypes'
    BY <2>1, <2>4, <1>n, <1>f DEF LiveTypes, PageViews, Showing, StreamShape
  <2>6. LoopInv' /\ ShownInv'
    BY <2>1, <1>n DEF LoopInv, ShownInv
  <2>7. WireInv'
    BY <2>1, <2>3 DEF WireInv
  <2>8. TimerInv'
    BY <2>1, <2>4, <1>t DEF TimerInv
  <2> QED
    BY <2>5, <2>6, <2>7, <2>8 DEF LiveInv
<1>6. CASE Unmount
  <2>1. /\ view.mounted /\ view' = [view EXCEPT !.mounted = FALSE] /\ orphaned' = view.timer
        /\ Lost /\ UNCHANGED <<shown, fed>>
    BY <1>6 DEF Unmount
  <2>2. view' \in PageViews /\ view'.timer = view.timer
    BY <2>1, <1>f DEF PageViews
  <2> QED
    BY <2>1, <2>2, <1>l, <1>v
<1>7. CASE Send
  <2> DEFINE m == [age |-> stream.ticks, ticks |-> 0]
  <2>1. /\ stream.at = "ask" /\ stream' = [stream EXCEPT !.at = "sleep", !.ticks = 0]
        /\ wire' = Append(wire, m) /\ UNCHANGED <<view, shown, fed, orphaned>>
    BY <1>7 DEF Send
  <2>2. /\ stream' \in StreamShape /\ stream'.at = "sleep" /\ stream'.ticks = 0
    <3>1. 0 \in 0 .. Interval + AskTime
      BY LiveNats
    <3> QED
      BY <2>1, <3>1, <1>f DEF StreamShape
  <2>3. SinceSend' = 0 /\ LoopRuns' /\ LoopRuns /\ SinceSend = Interval + stream.ticks
        /\ stream.ticks <= AskTime
    BY <2>1, <2>2, <1>t DEF SinceSend, LoopRuns, LoopInv
  <2>n. /\ Interval <= SinceSend /\ SinceSend <= Interval + AskTime /\ SinceSend \in Nat
        /\ shown.age \in Nat /\ shown.since \in Nat
    BY <2>3, <1>e, LiveNats
  <2>4. m \in LiveMessages /\ m.age = stream.ticks /\ m.ticks = 0
    <3>1. stream.ticks \in 0 .. AskTime + Transit /\ 0 \in 0 .. Transit
      BY <2>3, <1>e, LiveNats
    <3> QED
      BY <3>1 DEF LiveMessages
  <2> HIDE DEF m
  <2>5. /\ wire' \in Seq(LiveMessages) /\ Len(wire') = Len(wire) + 1
        /\ \A i \in 1 .. Len(wire) : wire'[i] = wire[i]
        /\ wire'[Len(wire) + 1] = m
    BY <2>1, <2>4, <1>t DEF WireInv
  <2>6. Len(wire) <= 1
    <3>0. Len(wire) \in Nat /\ Len(wire) <= 2
      BY <1>t, <1>e DEF WireInv
    <3> SUFFICES ASSUME Len(wire) = 2 PROVE FALSE
      BY <3>0
    <3>1. wire[1].ticks >= Interval + SinceSend /\ wire[1].ticks <= Transit /\ wire[1].ticks \in Nat
      BY <1>t, <1>d DEF WireInv
    <3> QED
      BY <3>1, <2>3, <1>e, LiveNats
  <2>7. Len(wire) = 1 => wire[1].ticks = SinceSend /\ wire[1].ticks \in Nat /\ wire[1].ticks <= Transit
                         /\ wire[1].age <= AskTime + wire[1].ticks
    BY <1>t, <1>d DEF WireInv
  <2>8. LiveTypes'
    BY <2>1, <2>2, <1>f DEF LiveTypes, PageViews, Showing, StreamShape
  <2>9. LoopInv' /\ TimerInv'
    BY <2>1, <2>2, <1>t, LiveNats DEF LoopInv, TimerInv
  <2>10. WireInv'
    <3>1. \A i \in 1 .. Len(wire') : wire'[i].age <= AskTime + wire'[i].ticks
      <4> SUFFICES ASSUME NEW i \in 1 .. Len(wire') PROVE wire'[i].age <= AskTime + wire'[i].ticks
        OBVIOUS
      <4>1. CASE i = Len(wire) + 1
        <5>1. wire'[i].age = stream.ticks /\ wire'[i].ticks = 0
          BY <4>1, <2>4, <2>5
        <5>2. stream.ticks \in Nat /\ AskTime \in Nat /\ stream.ticks <= AskTime
          BY <2>3, <1>e, LiveNats
        <5>3. stream.ticks <= AskTime + 0
          BY <5>2
        <5> QED
          BY <5>1, <5>3
      <4>2. CASE i # Len(wire) + 1
        <5>1. i \in 1 .. Len(wire)
          BY <4>2, <2>5, <1>e
        <5> QED
          BY <5>1, <2>5, <1>t DEF WireInv
      <4> QED
        BY <4>1, <4>2
    <3>2. wire'[Len(wire')].ticks = SinceSend'
      BY <2>3, <2>4, <2>5
    <3>3. ASSUME Len(wire') = 2 PROVE wire'[1].ticks >= Interval + SinceSend'
      <4>0. \A n \in Nat : n + 1 = 2 => n = 1
        OBVIOUS
      <4>n. Len(wire) \in Nat /\ Len(wire) + 1 = 2
        BY <3>3, <2>5, <1>e
      <4>1. Len(wire) = 1
        BY <4>0, <4>n
      <4>2. wire'[1] = wire[1]
        BY <4>1, <2>5
      <4> QED
        BY <4>1, <4>2, <2>3, <2>7, <2>n, LiveNats
    <3> QED
      BY <3>1, <3>2, <3>3, <2>3, <2>5, <2>6, <1>e DEF WireInv
  <2>11. ShownInv'
    <3> SUFFICES ASSUME fed
                 PROVE  (OneComing \/ PassedAndComing \/ TwoComing)'
      BY <2>1 DEF ShownInv
    <3>0. ShowsLatest \/ OnePassed \/ OneComing \/ PassedAndComing \/ TwoComing
      BY <2>3, <1>t DEF ShownInv
    <3>1. CASE ShowsLatest
      <4>1. Len(wire) = 0 /\ ShowsWithin(AskTime + SinceSend, SinceSend)
        BY <3>1 DEF ShowsLatest
      <4>2. shown.age <= Interval + 2 * AskTime /\ Interval <= shown.since + Transit
        BY <4>1, <2>n, LiveNats DEF ShowsWithin
      <4> QED
        BY <4>1, <4>2, <2>1, <2>3, <2>5, LiveNats DEF OneComing, ShowsWithin
    <3>2. CASE OnePassed
      <4>1. Len(wire) = 0 /\ Transit > 0 /\ ShowsWithin(Interval + 2 * AskTime + SinceSend, Interval + SinceSend)
        BY <3>2 DEF OnePassed
      <4>2. shown.age <= 2 * Interval + 3 * AskTime /\ 2 * Interval <= shown.since + Transit
        BY <4>1, <2>n, LiveNats DEF ShowsWithin
      <4> QED
        BY <4>1, <4>2, <2>1, <2>3, <2>5, LiveNats DEF PassedAndComing, ShowsWithin
    <3>3. CASE OneComing \/ PassedAndComing
      <4>1. Len(wire) = 1 /\ \/ ShowsWithin(Interval + 2 * AskTime + SinceSend, Interval + SinceSend)
                             \/ ShowsWithin(2 * Interval + 3 * AskTime + SinceSend, 2 * Interval + SinceSend)
        BY <3>3 DEF OneComing, PassedAndComing
      <4>2. wire'[1] = wire[1] /\ Len(wire') = 2 /\ wire[1].ticks = SinceSend
        BY <4>1, <2>5, <2>7
      <4>3. shown.age <= 2 * Interval + 3 * AskTime + wire[1].ticks /\ 2 * Interval <= shown.since + Transit
        BY <4>1, <4>2, <2>3, <1>e, LiveNats DEF ShowsWithin
      <4> QED
        BY <4>2, <4>3, <2>1, <2>3, LiveNats DEF TwoComing, ShowsWithin
    <3>4. ~TwoComing
      BY <2>6 DEF TwoComing
    <3> QED
      BY <3>0, <3>1, <3>2, <3>3, <3>4
  <2> QED
    BY <2>8, <2>9, <2>10, <2>11 DEF LiveInv
<1>8. CASE OnMessage
  <2>1. /\ wire # <<>> /\ wire' = Tail(wire) /\ UNCHANGED <<view, stream, orphaned>>
        /\ shown.since < Interval => shown' = shown /\ fed' = fed
        /\ ~(shown.since < Interval) => shown' = [age |-> Head(wire).age, since |-> 0] /\ fed' = TRUE
    BY <1>8 DEF OnMessage
  <2>2. Len(wire) \in 1 .. 2
    <3>1. Len(wire) \in Nat /\ Len(wire) <= 2 /\ wire \in Seq(LiveMessages)
      BY <1>t, <1>e DEF WireInv
    <3>2. Len(wire) # 0
      BY <3>1, <2>1, EmptySeq
    <3>3. \A n \in Nat : n <= 2 /\ n # 0 => n \in 1 .. 2
      OBVIOUS
    <3> QED
      BY <3>1, <3>2, <3>3
  <2>3. /\ wire' \in Seq(LiveMessages) /\ Len(wire') = Len(wire) - 1
        /\ \A i \in 1 .. Len(wire') : wire'[i] = wire[i + 1]
        /\ Head(wire) = wire[1]
    BY <2>1, <2>2, <1>t DEF WireInv
  <2>4. LoopRuns /\ LoopRuns' /\ SinceSend' = SinceSend /\ stream' = stream /\ stream.at # "connecting"
    BY <2>1, <2>2, <1>t DEF WireInv, LoopRuns, SinceSend
  <2>5. /\ wire[1] \in LiveMessages /\ wire[1].age \in Nat /\ wire[1].ticks \in Nat
        /\ wire[1].ticks <= Transit /\ wire[1].age <= AskTime + wire[1].ticks
        /\ Len(wire) = 1 => wire[1].ticks = SinceSend
        /\ Len(wire) = 2 => /\ wire[2].ticks = SinceSend /\ wire[1].ticks >= Interval + SinceSend
                            /\ wire[2].age <= AskTime + wire[2].ticks
    BY <2>2, <1>t, <1>d DEF WireInv
  <2>6. LiveTypes'
    <3>1. shown' \in Showing
      <4>1. wire[1].age \in 0 .. Stalest /\ 0 \in 0 .. Stalest
        BY <2>5, LiveNats
      <4> QED
        BY <4>1, <2>1, <2>3, <1>f DEF Showing
    <3> QED
      BY <3>1, <2>1, <1>f DEF LiveTypes, PageViews, StreamShape, Showing
  <2>7. LoopInv' /\ TimerInv'
    BY <2>1, <2>4, <1>t DEF LoopInv, TimerInv
  <2>8. WireInv'
    <3>1. Len(wire') = 1 => wire'[1] = wire[2]
      <4>1. Len(wire') = 1 => 1 \in 1 .. Len(wire') /\ 1 + 1 = 2
        OBVIOUS
      <4> QED
        BY <4>1, <2>3
    <3>2. Len(wire') \in 0 .. 1 /\ (Len(wire') = 1 => Len(wire) = 2)
      BY <2>2, <2>3
    <3>3. \A i \in 1 .. Len(wire') : i = 1 /\ Len(wire') = 1
      BY <3>2
    <3> QED
      BY <2>3, <2>4, <2>5, <3>1, <3>2, <3>3 DEF WireInv
  <2>9. ShownInv'
    <3>1. CASE ~(shown.since < Interval)
      <4>1. shown' = [age |-> wire[1].age, since |-> 0]
        BY <3>1, <2>1, <2>3
      <4>2. CASE Len(wire) = 1
        <5>1. ShowsWithin(AskTime + SinceSend, SinceSend)'
          BY <4>1, <4>2, <2>4, <2>5, LiveNats DEF ShowsWithin
        <5> QED
          BY <5>1, <4>2, <2>3 DEF ShownInv, ShowsLatest
      <4>3. CASE Len(wire) = 2
        <5>1. ShowsWithin(Interval + 2 * AskTime + SinceSend, Interval + SinceSend)'
          BY <4>1, <4>3, <2>4, <2>5, <1>e, LiveNats DEF ShowsWithin
        <5> QED
          BY <5>1, <4>3, <2>3 DEF ShownInv, OneComing
      <4> QED
        BY <4>2, <4>3, <2>2
    <3>2. CASE shown.since < Interval
      <4> SUFFICES ASSUME fed PROVE OnePassed'
        BY <3>2, <2>1 DEF ShownInv
      <4>1. ShowsLatest \/ OnePassed \/ OneComing \/ PassedAndComing \/ TwoComing
        BY <2>4, <1>t DEF ShownInv
      <4>2. ~ShowsLatest /\ ~OnePassed
        BY <2>2 DEF ShowsLatest, OnePassed
      <4>3. ~PassedAndComing /\ ~TwoComing
        BY <3>2, <1>e, LiveNats DEF PassedAndComing, TwoComing, ShowsWithin
      <4>4. Len(wire) = 1 /\ ShowsWithin(Interval + 2 * AskTime + SinceSend, Interval + SinceSend)
        BY <4>1, <4>2, <4>3 DEF OneComing
      <4>5. Transit > 0
        BY <4>4, <3>2, <1>e, LiveNats DEF ShowsWithin
      <4>6. shown' = shown
        BY <3>2, <2>1
      <4>7. Len(wire') = 0
        BY <4>4, <2>3
      <4> QED
        BY <4>4, <4>5, <4>6, <4>7, <2>4 DEF OnePassed, ShowsWithin
    <3> QED
      BY <3>1, <3>2
  <2> QED
    BY <2>6, <2>7, <2>8, <2>9 DEF LiveInv
<1>9. CASE LiveTick
  <2>1. /\ stream.at # "closed" /\ UNCHANGED <<view, fed, orphaned>>
        /\ stream.at = "ask" => stream.ticks < AskTime
        /\ stream.at = "sleep" => stream.ticks < Interval
        /\ \A i \in DOMAIN wire : wire[i].ticks < Transit
        /\ stream' = [stream EXCEPT !.ticks = IF stream.at = "connecting" THEN 0 ELSE @ + 1]
        /\ shown' = [age |-> AgeAfter(shown.age), since |-> AgeAfter(shown.since)]
        /\ wire' = [i \in DOMAIN wire |-> [age |-> wire[i].age + 1, ticks |-> wire[i].ticks + 1]]
    BY <1>9 DEF LiveTick
  <2>2. /\ stream' \in StreamShape /\ stream'.at = stream.at
        /\ stream.at # "connecting" => stream'.ticks = stream.ticks + 1
    <3>1. stream.at \in {"connecting", "ask", "sleep"}
      BY <2>1, <1>f DEF StreamShape
    <3>2. CASE stream.at = "connecting"
      <4>1. 0 \in 0 .. Interval + AskTime
        BY LiveNats
      <4> QED
        BY <4>1, <3>2, <2>1, <1>f DEF StreamShape
    <3>3. CASE stream.at # "connecting"
      <4>1. stream.ticks + 1 \in 0 .. Interval + AskTime
        <5>1. stream.ticks < AskTime \/ stream.ticks < Interval
          BY <3>1, <3>3, <2>1
        <5>2. stream.ticks \in Nat
          BY <1>e
        <5> QED
          BY <5>1, <5>2, LiveNats
      <4>2. stream' = [stream EXCEPT !.ticks = stream.ticks + 1]
        BY <3>3, <2>1
      <4> QED
        BY <4>1, <4>2, <1>f DEF StreamShape
    <3> QED
      BY <3>2, <3>3
  <2>3. /\ LoopRuns' = LoopRuns /\ (LoopRuns => SinceSend' = SinceSend + 1)
    <3>1. LoopRuns' = LoopRuns
      BY <2>2 DEF LoopRuns
    <3>2. stream.ticks \in Nat /\ Interval \in Nat
      BY <1>e, LiveNats
    <3>3. LoopRuns => SinceSend' = SinceSend + 1
      BY <2>2, <3>2 DEF LoopRuns, SinceSend
    <3> QED
      BY <3>1, <3>3
  <2>4. /\ shown'.age \in Nat /\ shown'.age <= shown.age + 1 /\ shown' \in Showing
        /\ shown'.since \in Nat /\ (shown'.since = shown.since + 1 \/ shown'.since = Stalest)
    <3>1. \A n \in 0 .. Stalest : /\ AgeAfter(n) \in 0 .. Stalest /\ AgeAfter(n) \in Nat
                                  /\ AgeAfter(n) <= n + 1 /\ (AgeAfter(n) = n + 1 \/ AgeAfter(n) = Stalest)
      BY LiveNats DEF AgeAfter
    <3>2. shown.age \in 0 .. Stalest /\ shown.since \in 0 .. Stalest
      BY <1>f DEF Showing
    <3> QED
      BY <3>1, <3>2, <2>1 DEF Showing
  <2>5. DOMAIN wire = 1 .. Len(wire)
    BY <1>t, LenProperties DEF WireInv
  <2>6. ASSUME NEW i \in 1 .. Len(wire)
        PROVE  /\ wire'[i] \in LiveMessages /\ wire'[i].age = wire[i].age + 1
               /\ wire'[i].ticks = wire[i].ticks + 1
    <3>1. wire'[i] = [age |-> wire[i].age + 1, ticks |-> wire[i].ticks + 1] /\ wire[i].ticks < Transit
      BY <2>1, <2>5
    <3>2. wire[i].age <= AskTime + wire[i].ticks
      BY <1>t DEF WireInv
    <3>d. wire[i].age \in Nat /\ wire[i].ticks \in Nat
      BY <1>d
    <3>n. AskTime \in Nat /\ Transit \in Nat
      BY LiveNats
    <3>3. wire[i].age + 1 \in 0 .. AskTime + Transit /\ wire[i].ticks + 1 \in 0 .. Transit
      BY <3>1, <3>2, <3>d, <3>n
    <3> QED
      BY <3>1, <3>3 DEF LiveMessages
  <2>7. wire' \in Seq(LiveMessages) /\ Len(wire') = Len(wire)
    <3>1. wire' \in [1 .. Len(wire) -> LiveMessages]
      BY <2>1, <2>5, <2>6
    <3> QED
      BY <3>1, <1>e
  <2>8. LiveTypes'
    BY <2>1, <2>2, <2>4, <1>f DEF LiveTypes, PageViews, Showing, StreamShape
  <2>9. LoopInv' /\ TimerInv'
    BY <2>1, <2>2, <1>e, <1>t, LiveNats DEF LoopInv, TimerInv
  <2>10. WireInv'
    <3>1. ASSUME NEW i \in 1 .. Len(wire') PROVE wire'[i].age <= AskTime + wire'[i].ticks
      <4>1. /\ wire'[i].age = wire[i].age + 1 /\ wire'[i].ticks = wire[i].ticks + 1
            /\ wire[i].age \in Nat /\ wire[i].ticks \in Nat
            /\ wire[i].age <= AskTime + wire[i].ticks
        BY <2>6, <2>7, <1>d, <1>t DEF WireInv
      <4>2. AskTime \in Nat
        BY LiveNats
      <4>3. \A a, b, c \in Nat : a <= c + b => a + 1 <= c + (b + 1)
        OBVIOUS
      <4>4. wire[i].age + 1 <= AskTime + (wire[i].ticks + 1)
        BY <4>1, <4>2, <4>3
      <4> QED
        BY <4>1, <4>4
    <3>2. Len(wire) > 0 => LoopRuns /\ wire[Len(wire)].ticks = SinceSend /\ Len(wire) \in 1 .. Len(wire)
      BY <1>t, <1>e DEF WireInv
    <3>3. Len(wire') > 0 => LoopRuns' /\ wire'[Len(wire')].ticks = SinceSend'
      BY <3>2, <2>3, <2>6, <2>7
    <3>4. Len(wire) = 2 => wire'[1].ticks = wire[1].ticks + 1 /\ wire[1].ticks \in Nat
                           /\ wire[1].ticks >= Interval + SinceSend /\ LoopRuns
      BY <2>6, <1>t, <1>d DEF WireInv
    <3>5. Len(wire') = 2 => wire'[1].ticks >= Interval + SinceSend'
      BY <3>4, <2>3, <2>7, <1>e, LiveNats
    <3> QED
      BY <3>1, <3>3, <3>5, <2>7, <1>t DEF WireInv
  <2>11. ShownInv'
    <3> SUFFICES ASSUME fed, LoopRuns
                 PROVE  (ShowsLatest \/ OnePassed \/ OneComing \/ PassedAndComing \/ TwoComing)'
      BY <2>1, <2>3 DEF ShownInv
    <3>0. ShowsLatest \/ OnePassed \/ OneComing \/ PassedAndComing \/ TwoComing
      BY <1>t DEF ShownInv
    <3>1. SinceSend < Interval + AskTime /\ (Len(wire) > 0 => SinceSend < Transit)
      <4>1. SinceSend < Interval + AskTime
        <5>1. CASE stream.at = "ask"
          <6>1. SinceSend = Interval + stream.ticks /\ stream.ticks < AskTime
            BY <5>1, <2>1 DEF SinceSend
          <6> QED
            BY <6>1, <1>e, LiveNats
        <5>2. CASE stream.at = "sleep"
          <6>1. SinceSend = stream.ticks /\ stream.ticks < Interval
            BY <5>2, <2>1 DEF SinceSend
          <6> QED
            BY <6>1, <1>e, LiveNats
        <5> QED
          BY <5>1, <5>2 DEF LoopRuns
      <4>2. Len(wire) > 0 => wire[Len(wire)].ticks = SinceSend /\ Len(wire) \in 1 .. Len(wire)
        BY <1>t, <1>e DEF WireInv
      <4> QED
        BY <4>1, <4>2, <2>1, <2>5
    <3>2. ASSUME NEW a \in Nat, NEW b \in Nat, ShowsWithin(a, b), b < Stalest + Transit
          PROVE  shown'.age <= a + 1 /\ b + 1 <= shown'.since + Transit
      <4>1. /\ shown'.age \in Nat /\ shown'.age <= shown.age + 1 /\ shown'.since \in Nat
            /\ (shown'.since = shown.since + 1 \/ shown'.since = Stalest)
            /\ shown.age \in Nat /\ shown.since \in Nat /\ Stalest \in Nat /\ Transit \in Nat
        BY <2>4, <1>e, LiveNats
      <4>2. shown.age <= a /\ b <= shown.since + Transit
        BY <3>2 DEF ShowsWithin
      <4> QED
        BY <4>1, <4>2, <3>2
    <3>3. CASE ShowsLatest
      <4>1. AskTime + SinceSend \in Nat /\ SinceSend < Stalest + Transit
        BY <3>1, <1>e, LiveNats
      <4>2. shown'.age <= AskTime + SinceSend + 1 /\ SinceSend + 1 <= shown'.since + Transit
        BY <4>1, <3>2, <3>3, <1>e DEF ShowsLatest
      <4>3. ShowsWithin(AskTime + SinceSend, SinceSend)'
        BY <4>2, <2>3, <1>e, <2>4, LiveNats DEF ShowsWithin
      <4> QED
        BY <4>3, <3>3, <2>7 DEF ShowsLatest
    <3>4. CASE OnePassed \/ OneComing
      <4>0. ShowsWithin(Interval + 2 * AskTime + SinceSend, Interval + SinceSend)
        BY <3>4 DEF OnePassed, OneComing
      <4>1. /\ Interval + 2 * AskTime + SinceSend \in Nat /\ Interval + SinceSend \in Nat
            /\ Interval + SinceSend < Stalest + Transit
        BY <3>1, <1>e, LiveNats
      <4>2. /\ shown'.age <= Interval + 2 * AskTime + SinceSend + 1
            /\ Interval + SinceSend + 1 <= shown'.since + Transit
        BY <4>0, <4>1, <3>2
      <4>3. ShowsWithin(Interval + 2 * AskTime + SinceSend, Interval + SinceSend)'
        BY <4>2, <2>3, <1>e, <2>4, LiveNats DEF ShowsWithin
      <4> QED
        BY <4>3, <3>4, <2>7 DEF OnePassed, OneComing
    <3>5. CASE PassedAndComing
      <4>1. /\ 2 * Interval + 3 * AskTime + SinceSend \in Nat /\ 2 * Interval + SinceSend \in Nat
            /\ 2 * Interval + SinceSend < Stalest + Transit
        BY <3>1, <3>5, <1>e, LiveNats DEF PassedAndComing
      <4>2. /\ shown'.age <= 2 * Interval + 3 * AskTime + SinceSend + 1
            /\ 2 * Interval + SinceSend + 1 <= shown'.since + Transit
        BY <4>1, <3>2, <3>5 DEF PassedAndComing
      <4>3. ShowsWithin(2 * Interval + 3 * AskTime + SinceSend, 2 * Interval + SinceSend)'
        BY <4>2, <2>3, <1>e, <2>4, LiveNats DEF ShowsWithin
      <4> QED
        BY <4>3, <3>5, <2>7 DEF PassedAndComing
    <3>6. ~TwoComing
      <4> SUFFICES ASSUME Len(wire) = 2 PROVE FALSE
        BY DEF TwoComing
      <4>1. wire[1].ticks < Transit /\ wire[1].ticks \in Nat /\ wire[1].ticks >= Interval + SinceSend
        BY <2>1, <2>5, <1>t, <1>d DEF WireInv
      <4> QED
        BY <4>1, <1>e, LiveNats
    <3> QED
      BY <3>0, <3>3, <3>4, <3>5, <3>6
  <2> QED
    BY <2>8, <2>9, <2>10, <2>11 DEF LiveInv
<1>10. CASE UNCHANGED liveVars
  <2>1. UNCHANGED <<view, shown, stream, wire, fed, orphaned>>
    BY <1>10 DEF liveVars
  <2>2. SinceSend' = SinceSend /\ LoopRuns' = LoopRuns
    BY <2>1 DEF SinceSend, LoopRuns
  <2>3. LiveTypes' /\ LoopInv' /\ WireInv' /\ TimerInv'
    BY <2>1, <2>2, <1>t DEF LiveTypes, LoopInv, WireInv, TimerInv, PageViews, Showing, StreamShape
  <2>4. ShownInv'
    BY <2>1, <2>2, <1>t DEF ShownInv, ShowsLatest, OnePassed, OneComing, PassedAndComing, TwoComing, ShowsWithin
  <2> QED
    BY <2>3, <2>4 DEF LiveInv
<1> QED
  BY <1>1, <1>2, <1>3, <1>4, <1>5, <1>6, <1>7, <1>8, <1>9, <1>10 DEF LiveNext

-----------------------------------------------------------------------------
(***************************************************************************)
(* Alerts.                                                                 *)
(***************************************************************************)

AlertTimes == 0 .. MaxTime
DutyShape == [at : {"idle", "decide", "page", "mark"}, kind : Kinds, now : AlertTimes]

\* The last page that is marked is too late for another decision in the spell from t.
SpellOver(k, t) == lastPage[k] # Never /\ lastPage[k] + PageTime >= t

\* The replicas at a point, with a decision of the spell from t.
OnDuty(at, k, t) ==
    {r \in Replicas : duty[r].at = at /\ duty[r].kind = k /\ duty[r].now \in Spell(t)}

InTime ==
    /\ \A r \in Replicas : Busy(r) => duty[r].now <= clock /\ clock - duty[r].now <= PageTime
    /\ \A k \in Kinds : \A u \in AlertTimes : u > clock => pages[k][u] = 0

SpellInv(k, t) ==
    /\ IsFiniteSet(PagesIn(k, t))
    /\ ~SpellOver(k, t) => Cardinality(PagesIn(k, t)) <= Cardinality(OnDuty("mark", k, t)) + misses
    /\ Cardinality(PagesIn(k, t)) + Cardinality(OnDuty("page", k, t)) <= Cardinality(Replicas) + misses

AlertInv == AlertTypeOK /\ InTime /\ \A k \in Kinds, t \in AlertTimes : SpellInv(k, t)

LEMMA AlertTypes ==
    AlertTypeOK <=>
      /\ lastPage \in [Kinds -> AlertTimes \union {Never}] /\ duty \in [Replicas -> DutyShape]
      /\ clock \in AlertTimes /\ misses \in 0 .. MaxMisses /\ pages \in [Kinds -> [AlertTimes -> Nat]]
  BY DEF AlertTypeOK, AlertTimes, DutyShape

LEMMA AlertNats ==
    /\ Cooldown \in Nat /\ PageTime \in Nat /\ PageTime < Cooldown /\ MaxTime \in Nat
    /\ MaxMisses \in Nat /\ Never \notin AlertTimes
    /\ \A t \in AlertTimes : t \in Nat
    /\ 0 \in AlertTimes /\ 0 \in 0 .. MaxMisses
  BY AlertAssumption DEF AlertTimes

LEMMA SpellIn == \A t \in AlertTimes : \A u \in Spell(t) :
                    u \in AlertTimes /\ u >= t /\ u < t + Cooldown - PageTime
  BY AlertNats DEF Spell, AlertTimes

LEMMA OnFinite ==
    \A at, k, t : IsFiniteSet(OnDuty(at, k, t)) /\ Cardinality(OnDuty(at, k, t)) \in Nat
<1> SUFFICES ASSUME NEW at, NEW k, NEW t
             PROVE  IsFiniteSet(OnDuty(at, k, t)) /\ Cardinality(OnDuty(at, k, t)) \in Nat
  OBVIOUS
<1>1. OnDuty(at, k, t) \in SUBSET Replicas
  BY DEF OnDuty
<1> QED
  BY <1>1, AlertAssumption, FS_Subset, FS_CardinalityType

\* Those who are to page and those who are to mark are different replicas.
LEMMA OnApart ==
    \A k, t : Cardinality(OnDuty("page", k, t)) + Cardinality(OnDuty("mark", k, t)) <= Cardinality(Replicas)
<1> SUFFICES ASSUME NEW k, NEW t
             PROVE  Cardinality(OnDuty("page", k, t)) + Cardinality(OnDuty("mark", k, t)) <= Cardinality(Replicas)
  OBVIOUS
<1> DEFINE A == OnDuty("page", k, t)
           B == OnDuty("mark", k, t)
<1>1. A \cap B = {} /\ A \union B \in SUBSET Replicas
  BY DEF OnDuty
<1>2. IsFiniteSet(A) /\ IsFiniteSet(B) /\ Cardinality(A) \in Nat /\ Cardinality(B) \in Nat
  BY OnFinite
<1> HIDE DEF A, B
<1>3. Cardinality(A \union B) = Cardinality(A) + Cardinality(B) - Cardinality(A \cap B)
  BY <1>2, FS_Union
<1>4. Cardinality(A \cap B) = 0
  BY <1>1, FS_EmptySet
<1>5. Cardinality(A \union B) <= Cardinality(Replicas)
  BY <1>1, AlertAssumption, FS_Subset
<1>6. Cardinality(A) + Cardinality(B) <= Cardinality(Replicas)
  BY <1>2, <1>3, <1>4, <1>5
<1> QED
  BY <1>6 DEF A, B

\* One more at one place is one more pair.
LEMMA PairsGrow ==
    ASSUME NEW S, NEW f, NEW g, NEW u \in S, f[u] \in Nat, g[u] = f[u] + 1,
           \A v \in S \ {u} : g[v] = f[v]
    PROVE  /\ UNION {{v} \X (1 .. g[v]) : v \in S} =
                (UNION {{v} \X (1 .. f[v]) : v \in S}) \union {<<u, f[u] + 1>>}
           /\ <<u, f[u] + 1>> \notin UNION {{v} \X (1 .. f[v]) : v \in S}
<1> DEFINE F == UNION {{v} \X (1 .. f[v]) : v \in S}
           G == UNION {{v} \X (1 .. g[v]) : v \in S}
           new == <<u, f[u] + 1>>
<1>1. 1 .. g[u] = (1 .. f[u]) \union {f[u] + 1} /\ f[u] + 1 \notin 1 .. f[u]
  OBVIOUS
<1>2. ASSUME NEW p \in G PROVE p \in F \union {new}
  <2>1. PICK v \in S : p \in {v} \X (1 .. g[v])
    BY <1>2
  <2>2. CASE v = u
    BY <2>1, <2>2, <1>1
  <2>3. CASE v # u
    BY <2>1, <2>3
  <2> QED
    BY <2>2, <2>3
<1>3. ASSUME NEW p \in F PROVE p \in G
  <2>1. PICK v \in S : p \in {v} \X (1 .. f[v])
    BY <1>3
  <2>2. CASE v = u
    BY <2>1, <2>2, <1>1
  <2>3. CASE v # u
    BY <2>1, <2>3
  <2> QED
    BY <2>2, <2>3
<1>4. new \in G
  BY <1>1
<1>5. new \notin F
  <2> SUFFICES ASSUME new \in F PROVE FALSE
    OBVIOUS
  <2>1. PICK v \in S : new \in {v} \X (1 .. f[v])
    OBVIOUS
  <2> QED
    BY <2>1, <1>1
<1>6. G = F \union {new}
  BY <1>2, <1>3, <1>4
<1> QED
  BY <1>5, <1>6

LEMMA AlertInvSpaced == AlertInv => PagesSpaced
<1> SUFFICES ASSUME AlertInv, NEW k \in Kinds, NEW t \in 0 .. MaxTime
             PROVE  Cardinality(PagesIn(k, t)) <= Cardinality(Replicas) + misses
  BY DEF PagesSpaced
<1>1. SpellInv(k, t) /\ misses \in Nat
  BY AlertTypes, AlertNats DEF AlertInv, AlertTimes
<1>2. Cardinality(PagesIn(k, t)) \in Nat /\ Cardinality(OnDuty("page", k, t)) \in Nat
      /\ Cardinality(Replicas) \in Nat
  BY <1>1, FS_CardinalityType, OnFinite, AlertAssumption DEF SpellInv
<1> QED
  BY <1>1, <1>2 DEF SpellInv

\* Nobody has been paged in a spell that is still to come.
LEMMA NoPages ==
    ASSUME NEW k \in Kinds, NEW t \in AlertTimes, \A u \in Spell(t) : pages[k][u] = 0
    PROVE  PagesIn(k, t) = {} /\ IsFiniteSet(PagesIn(k, t)) /\ Cardinality(PagesIn(k, t)) = 0
<1>1. \A u \in Spell(t) : {u} \X (1 .. pages[k][u]) = {}
  BY SMT
<1>2. PagesIn(k, t) = {}
  BY <1>1 DEF PagesIn
<1> QED
  BY <1>2, FS_EmptySet

LEMMA AlertInvInit == AlertInit => AlertInv
<1> SUFFICES ASSUME AlertInit PROVE AlertInv
  OBVIOUS
<1>1. AlertTypeOK
  BY AlertTypes, AlertNats DEF AlertInit, Off, DutyShape, AlertTimes
<1>2. \A r \in Replicas : duty[r].at = "idle"
  BY DEF AlertInit, Off
<1>3. InTime
  BY <1>2 DEF InTime, Busy, AlertInit, AlertTimes
<1>4. ASSUME NEW k \in Kinds, NEW t \in AlertTimes PROVE SpellInv(k, t)
  <2>1. \A u \in Spell(t) : pages[k][u] = 0
    BY SpellIn DEF AlertInit, AlertTimes
  <2>2. IsFiniteSet(PagesIn(k, t)) /\ Cardinality(PagesIn(k, t)) = 0
    BY <2>1, NoPages
  <2>3. OnDuty("page", k, t) = {} /\ misses = 0
    BY <1>2 DEF OnDuty, AlertInit
  <2>4. Cardinality(OnDuty("page", k, t)) = 0 /\ Cardinality(OnDuty("mark", k, t)) \in Nat
        /\ Cardinality(Replicas) \in Nat
    BY <2>3, FS_EmptySet, OnFinite, AlertAssumption, FS_CardinalityType
  <2> QED
    BY <2>2, <2>3, <2>4 DEF SpellInv
<1> QED
  BY <1>1, <1>3, <1>4 DEF AlertInv

\* One replica's step moves nobody else.
LEMMA OnMoves ==
    ASSUME NEW r \in Replicas, \A q \in Replicas \ {r} : duty'[q] = duty[q], NEW at, NEW k, NEW t
    PROVE  /\ r \in OnDuty(at, k, t)' /\ r \notin OnDuty(at, k, t) =>
                Cardinality(OnDuty(at, k, t)') = Cardinality(OnDuty(at, k, t)) + 1
           /\ r \notin OnDuty(at, k, t)' /\ r \in OnDuty(at, k, t) =>
                Cardinality(OnDuty(at, k, t)') = Cardinality(OnDuty(at, k, t)) - 1
           /\ (r \in OnDuty(at, k, t)' <=> r \in OnDuty(at, k, t)) => OnDuty(at, k, t)' = OnDuty(at, k, t)
<1> DEFINE A == OnDuty(at, k, t)
           B == OnDuty(at, k, t)'
<1>1. IsFiniteSet(A) /\ Cardinality(A) \in Nat
  BY OnFinite
<1>2. \A q \in Replicas \ {r} : q \in A <=> q \in B
  BY DEF OnDuty
<1>3. A \subseteq Replicas /\ B \subseteq Replicas
  BY DEF OnDuty
<1> HIDE DEF A, B
<1>4. ASSUME r \in B, r \notin A PROVE Cardinality(B) = Cardinality(A) + 1
  <2>1. B = A \union {r}
    BY <1>2, <1>3, <1>4
  <2> QED
    BY <2>1, <1>1, <1>4, FS_AddElement
<1>5. ASSUME r \notin B, r \in A PROVE Cardinality(B) = Cardinality(A) - 1
  <2>1. B = A \ {r}
    BY <1>2, <1>3, <1>5
  <2> QED
    BY <2>1, <1>1, <1>5, FS_RemoveElement
<1>6. ASSUME r \in B <=> r \in A PROVE B = A
  BY <1>2, <1>3, <1>6
<1> QED
  BY <1>4, <1>5, <1>6 DEF A, B

LEMMA AlertInvNext == AlertInv /\ [AlertNext]_alertVars => AlertInv'
<1> SUFFICES ASSUME AlertInv, [AlertNext]_alertVars
             PROVE  AlertInv'
  OBVIOUS
<1>f. /\ lastPage \in [Kinds -> AlertTimes \union {Never}] /\ duty \in [Replicas -> DutyShape]
      /\ clock \in AlertTimes /\ misses \in 0 .. MaxMisses /\ pages \in [Kinds -> [AlertTimes -> Nat]]
  BY AlertTypes DEF AlertInv
<1>i. InTime
  BY DEF AlertInv
<1>n. clock \in Nat /\ misses \in Nat
  BY <1>f, AlertNats
<1>s. \A k \in Kinds, t \in AlertTimes : SpellInv(k, t)
  BY DEF AlertInv
<1>c. ASSUME NEW k \in Kinds, NEW t \in AlertTimes
      PROVE  /\ IsFiniteSet(PagesIn(k, t)) /\ Cardinality(PagesIn(k, t)) \in Nat
             /\ Cardinality(OnDuty("page", k, t)) \in Nat /\ Cardinality(OnDuty("mark", k, t)) \in Nat
             /\ Cardinality(Replicas) \in Nat
             /\ Cardinality(OnDuty("page", k, t)) + Cardinality(OnDuty("mark", k, t)) <= Cardinality(Replicas)
             /\ Cardinality(PagesIn(k, t)) + Cardinality(OnDuty("page", k, t)) <= Cardinality(Replicas) + misses
             /\ ~SpellOver(k, t) => Cardinality(PagesIn(k, t)) <= Cardinality(OnDuty("mark", k, t)) + misses
  <2>1. SpellInv(k, t)
    BY <1>s
  <2> QED
    BY <2>1, OnFinite, OnApart, FS_CardinalityType, AlertAssumption DEF SpellInv
<1>d. \A r \in Replicas : /\ duty[r] \in DutyShape /\ duty[r].kind \in Kinds /\ duty[r].now \in AlertTimes
                          /\ duty[r].now \in Nat
  BY <1>f, AlertNats DEF DutyShape
\* Before a spell begins, it has no page and nobody who is about to.
<1>b. ASSUME NEW k \in Kinds, NEW t \in AlertTimes, clock < t
      PROVE  Cardinality(PagesIn(k, t)) = 0
  <2>1. \A u \in Spell(t) : pages[k][u] = 0
    <3> SUFFICES ASSUME NEW u \in Spell(t) PROVE pages[k][u] = 0
      OBVIOUS
    <3>1. u \in AlertTimes /\ u \in Nat /\ u >= t /\ t \in Nat
      BY SpellIn, AlertNats
    <3>2. u > clock
      BY <3>1, <1>b, <1>n
    <3> QED
      BY <3>1, <3>2, <1>i DEF InTime
  <2> QED
    BY <2>1, NoPages
\* A step of one replica that pages nobody.
<1>q. ASSUME NEW r \in Replicas, duty' \in [Replicas -> DutyShape],
             \A q \in Replicas \ {r} : duty'[q] = duty[q],
             UNCHANGED <<clock, pages>>, misses' \in 0 .. MaxMisses,
             lastPage' \in [Kinds -> AlertTimes \union {Never}],
             Busy(r)' => duty'[r].now <= clock /\ clock - duty'[r].now <= PageTime,
             \A k \in Kinds, t \in AlertTimes : SpellInv(k, t)'
      PROVE  AlertInv'
  <2>1. AlertTypeOK'
    BY <1>q, <1>f, AlertTypes DEF AlertTypeOK, AlertTimes, DutyShape
  <2>2. InTime'
    BY <1>q, <1>i DEF InTime, Busy
  <2> QED
    BY <2>1, <2>2, <1>q DEF AlertInv
<1>1. ASSUME NEW r \in Replicas, NEW k \in Kinds, Check(r, k) PROVE AlertInv'
  <2>1. /\ duty[r].at = "idle" /\ duty' = [duty EXCEPT ![r] = [Off(k) EXCEPT !.at = "decide"]]
        /\ UNCHANGED <<lastPage, clock, pages, misses>>
    BY <1>1 DEF Check
  <2>2. [Off(k) EXCEPT !.at = "decide"] \in DutyShape /\ [Off(k) EXCEPT !.at = "decide"].at = "decide"
    BY AlertNats DEF Off, DutyShape
  <2>3. /\ duty' \in [Replicas -> DutyShape] /\ duty'[r].at = "decide"
        /\ \A q \in Replicas \ {r} : duty'[q] = duty[q]
    BY <2>1, <2>2, <1>f
  <2>4. \A h \in Kinds, t \in AlertTimes : OnDuty("page", h, t)' = OnDuty("page", h, t) /\ OnDuty("mark", h, t)' = OnDuty("mark", h, t)
    BY <2>1, <2>3 DEF OnDuty, Spell
  <2>5. \A h \in Kinds, t \in AlertTimes : SpellInv(h, t)'
    BY <2>1, <2>4, <1>s DEF SpellInv, PagesIn, Spell, SpellOver
  <2> QED
    BY <2>1, <2>3, <2>5, <1>q, <1>f DEF Busy
<1>2. ASSUME NEW r \in Replicas, Decide(r) PROVE AlertInv'
  <2> DEFINE last == lastPage[duty[r].kind]
             due == last = Never \/ clock - last >= Cooldown
  <2>1. /\ duty[r].at = "decide" /\ UNCHANGED <<lastPage, clock, pages, misses>>
        /\ due => duty' = [duty EXCEPT ![r] = [duty[r] EXCEPT !.at = "page", !.now = clock]]
        /\ ~due => duty' = [duty EXCEPT ![r] = Off(duty[r].kind)]
    BY <1>2, <1>f DEF Decide, DecideOn
  <2>2. CASE ~due
    <3>1. Off(duty[r].kind) \in DutyShape /\ Off(duty[r].kind).at = "idle"
      BY <1>d, AlertNats DEF Off, DutyShape
    <3>3. /\ duty' \in [Replicas -> DutyShape] /\ duty'[r].at = "idle"
          /\ \A q \in Replicas \ {r} : duty'[q] = duty[q]
      BY <2>1, <2>2, <3>1, <1>f
    <3>4. \A h \in Kinds, t \in AlertTimes : OnDuty("page", h, t)' = OnDuty("page", h, t) /\ OnDuty("mark", h, t)' = OnDuty("mark", h, t)
      BY <2>1, <3>3 DEF OnDuty, Spell
    <3>5. \A h \in Kinds, t \in AlertTimes : SpellInv(h, t)'
      BY <2>1, <3>4, <1>s DEF SpellInv, PagesIn, Spell, SpellOver
    <3> QED
      BY <2>1, <3>3, <3>5, <1>q, <1>f DEF Busy
  <2>3. CASE due
    <3> DEFINE new == [duty[r] EXCEPT !.at = "page", !.now = clock]
    <3>1. new \in DutyShape /\ new.at = "page" /\ new.now = clock /\ new.kind = duty[r].kind
      BY <1>d, <1>f DEF DutyShape
    <3> HIDE DEF new
    <3>2. duty' = [duty EXCEPT ![r] = new]
      BY <2>1, <2>3 DEF new
    <3>3. /\ duty' \in [Replicas -> DutyShape] /\ duty'[r] = new
          /\ \A q \in Replicas \ {r} : duty'[q] = duty[q]
      BY <3>1, <3>2, <1>f
    <3>4. ASSUME NEW h \in Kinds, NEW t \in AlertTimes PROVE SpellInv(h, t)'
      <4>1. OnDuty("mark", h, t)' = OnDuty("mark", h, t)
        BY <2>1, <3>1, <3>3 DEF OnDuty, Spell
      <4>2. PagesIn(h, t)' = PagesIn(h, t) /\ (SpellOver(h, t)' <=> SpellOver(h, t)) /\ misses' = misses
        BY <2>1 DEF PagesIn, SpellOver
      <4>3. CASE r \notin OnDuty("page", h, t)'
        <5>1. r \notin OnDuty("page", h, t)
          BY <2>1 DEF OnDuty
        <5>2. OnDuty("page", h, t)' = OnDuty("page", h, t)
          BY <3>3, <4>3, <5>1, OnMoves
        <5>3. SpellInv(h, t)
          BY <1>s
        <5> QED
          BY <4>1, <4>2, <5>2, <5>3 DEF SpellInv
      <4>4. CASE r \in OnDuty("page", h, t)'
        <5>1. h = duty[r].kind /\ clock \in Spell(t)
          BY <4>4, <3>1, <3>3 DEF OnDuty, Spell
        <5>2. t \in Nat /\ clock >= t /\ clock < t + Cooldown - PageTime
          BY <5>1, SpellIn, AlertNats
        <5>3. ~SpellOver(h, t)
          <6> SUFFICES ASSUME SpellOver(h, t) PROVE FALSE
            OBVIOUS
          <6>1. lastPage[h] # Never /\ lastPage[h] \in Nat
            BY <1>f, AlertNats DEF SpellOver
          <6>2. lastPage[h] + PageTime >= t /\ clock - lastPage[h] >= Cooldown
            BY <6>1, <5>1, <2>3 DEF SpellOver
          <6> QED
            BY <6>1, <6>2, <5>2, <1>n, AlertNats
        <5>4. r \notin OnDuty("page", h, t)
          BY <2>1 DEF OnDuty
        <5>5. Cardinality(OnDuty("page", h, t)') = Cardinality(OnDuty("page", h, t)) + 1
          BY <3>3, <4>4, <5>4, OnMoves
        <5>6. Cardinality(OnDuty("page", h, t)') + Cardinality(OnDuty("mark", h, t)') <= Cardinality(Replicas)
          <6>1. /\ OnDuty("page", h, t)' \cap OnDuty("mark", h, t)' = {}
                /\ OnDuty("page", h, t)' \union OnDuty("mark", h, t)' \in SUBSET Replicas
            BY DEF OnDuty
          <6>2. IsFiniteSet(OnDuty("page", h, t)') /\ IsFiniteSet(OnDuty("mark", h, t)')
            BY <6>1, AlertAssumption, FS_Subset
          <6> HIDE DEF OnDuty
          <6>3. Cardinality(OnDuty("page", h, t)' \union OnDuty("mark", h, t)') <= Cardinality(Replicas)
            BY <6>1, AlertAssumption, FS_Subset
          <6>4. Cardinality(OnDuty("page", h, t)' \cap OnDuty("mark", h, t)') = 0
            BY <6>1, FS_EmptySet
          <6>5. Cardinality(OnDuty("page", h, t)' \union OnDuty("mark", h, t)') =
                  Cardinality(OnDuty("page", h, t)') + Cardinality(OnDuty("mark", h, t)')
                  - Cardinality(OnDuty("page", h, t)' \cap OnDuty("mark", h, t)')
            BY <6>2, FS_Union
          <6>6. Cardinality(OnDuty("page", h, t)') \in Nat /\ Cardinality(OnDuty("mark", h, t)') \in Nat
            BY <6>2, FS_CardinalityType
          <6> QED
            BY <6>3, <6>4, <6>5, <6>6
        <5>7. Cardinality(PagesIn(h, t)) <= Cardinality(OnDuty("mark", h, t)) + misses
          BY <5>3, <1>c
        <5>8. Cardinality(PagesIn(h, t)) + Cardinality(OnDuty("page", h, t)') <= Cardinality(Replicas) + misses
          BY <4>1, <5>5, <5>6, <5>7, <1>c, <1>n
        <5> QED
          BY <4>1, <4>2, <5>7, <5>8, <1>c DEF SpellInv
      <4> QED
        BY <4>3, <4>4
    <3>5. duty'[r].now <= clock /\ clock - duty'[r].now <= PageTime
      BY <3>1, <3>3, <1>n, AlertNats
    <3> QED
      BY <2>1, <3>3, <3>4, <3>5, <1>q, <1>f
  <2> QED
    BY <2>2, <2>3
<1>3. ASSUME NEW r \in Replicas, Page(r) PROVE AlertInv'
  <2> DEFINE k0 == duty[r].kind
             u0 == duty[r].now
  <2>1. /\ duty[r].at = "page" /\ duty' = [duty EXCEPT ![r] = [duty[r] EXCEPT !.at = "mark"]]
        /\ pages' = [pages EXCEPT ![k0] = [pages[k0] EXCEPT ![u0] = pages[k0][u0] + 1]]
        /\ UNCHANGED <<lastPage, misses, clock>>
    BY <1>3, <1>f, <1>d DEF Page
  <2>2. /\ duty' \in [Replicas -> DutyShape] /\ duty'[r].at = "mark"
        /\ duty'[r].kind = k0 /\ duty'[r].now = u0
        /\ \A q \in Replicas \ {r} : duty'[q] = duty[q]
    <3>1. [duty[r] EXCEPT !.at = "mark"] \in DutyShape
      BY <1>d DEF DutyShape
    <3> QED
      BY <2>1, <3>1, <1>f, <1>d DEF DutyShape
  <2>3. k0 \in Kinds /\ u0 \in AlertTimes /\ u0 \in Nat /\ pages[k0][u0] \in Nat
    BY <1>d, <1>f
  <2>4. u0 <= clock /\ clock - u0 <= PageTime
    BY <2>1, <1>i DEF InTime, Busy
  <2> HIDE DEF k0, u0
  <2>5. /\ pages' \in [Kinds -> [AlertTimes -> Nat]] /\ pages'[k0][u0] = pages[k0][u0] + 1
        /\ \A h \in Kinds, u \in AlertTimes : h # k0 \/ u # u0 => pages'[h][u] = pages[h][u]
    BY <2>1, <2>3, <1>f
  <2>6. AlertTypeOK'
    BY <2>1, <2>2, <2>5, <1>f, AlertTypes DEF AlertTypeOK, AlertTimes, DutyShape
  <2>7. InTime'
    <3>1. \A q \in Replicas : Busy(q)' => duty'[q].now <= clock' /\ clock' - duty'[q].now <= PageTime
      BY <2>1, <2>2, <2>4, <1>i DEF InTime, Busy
    <3>2. ASSUME NEW h \in Kinds, NEW u \in AlertTimes, u > clock PROVE pages'[h][u] = 0
      <4>1. u # u0
        BY <3>2, <2>3, <2>4, <1>n, AlertNats
      <4> QED
        BY <4>1, <3>2, <2>5, <1>i DEF InTime
    <3> QED
      BY <3>1, <3>2, <2>1 DEF InTime
  <2>8. ASSUME NEW h \in Kinds, NEW t \in AlertTimes PROVE SpellInv(h, t)'
    <3>0. (SpellOver(h, t)' <=> SpellOver(h, t)) /\ misses' = misses /\ Spell(t)' = Spell(t)
      BY <2>1 DEF SpellOver, Spell
    <3>1. CASE ~(h = k0 /\ u0 \in Spell(t))
      <4>1. \A u \in Spell(t) : pages'[h][u] = pages[h][u]
        BY <3>1, <2>5, SpellIn
      <4>2. PagesIn(h, t)' = PagesIn(h, t)
        BY <4>1, <3>0 DEF PagesIn
      <4>3. r \notin OnDuty("page", h, t) /\ r \notin OnDuty("page", h, t)'
            /\ r \notin OnDuty("mark", h, t) /\ r \notin OnDuty("mark", h, t)'
        BY <3>1, <2>1, <2>2, <3>0 DEF OnDuty, k0, u0
      <4>4. OnDuty("page", h, t)' = OnDuty("page", h, t) /\ OnDuty("mark", h, t)' = OnDuty("mark", h, t)
        BY <4>3, <2>2, OnMoves
      <4> QED
        BY <4>2, <4>4, <3>0, <1>s DEF SpellInv
    <3>2. CASE h = k0 /\ u0 \in Spell(t)
      <4>1. /\ r \in OnDuty("page", h, t) /\ r \notin OnDuty("page", h, t)'
            /\ r \notin OnDuty("mark", h, t) /\ r \in OnDuty("mark", h, t)'
        BY <3>2, <2>1, <2>2, <3>0 DEF OnDuty, k0, u0
      <4>2. /\ Cardinality(OnDuty("page", h, t)') = Cardinality(OnDuty("page", h, t)) - 1
            /\ Cardinality(OnDuty("mark", h, t)') = Cardinality(OnDuty("mark", h, t)) + 1
        BY <4>1, <2>2, OnMoves
      <4>3. \A v \in Spell(t) \ {u0} : pages'[h][v] = pages[h][v]
        BY <2>5, SpellIn
      <4> DEFINE new == <<u0, pages[h][u0] + 1>>
                 old == PagesIn(h, t)
      <4>4. PagesIn(h, t)' = old \union {new} /\ new \notin old
        <5>1. pages'[h][u0] = pages[h][u0] + 1 /\ pages[h][u0] \in Nat
          BY <3>2, <2>3, <2>5
        <5> QED
          BY <5>1, <4>3, <3>0, <3>2, PairsGrow DEF PagesIn
      <4>5. IsFiniteSet(old)
        BY <1>c
      <4> HIDE DEF new, old
      <4>6. IsFiniteSet(PagesIn(h, t)') /\ Cardinality(PagesIn(h, t)') = Cardinality(old) + 1
        BY <4>4, <4>5, FS_AddElement
      <4>7. Cardinality(PagesIn(h, t)') = Cardinality(PagesIn(h, t)) + 1
        BY <4>6 DEF old
      <4>8. /\ Cardinality(PagesIn(h, t)') + Cardinality(OnDuty("page", h, t)') <= Cardinality(Replicas) + misses
            /\ ~SpellOver(h, t) => Cardinality(PagesIn(h, t)') <= Cardinality(OnDuty("mark", h, t)') + misses
        BY <4>2, <4>7, <1>c, <1>n
      <4> QED
        BY <4>6, <4>8, <3>0 DEF SpellInv
    <3> QED
      BY <3>1, <3>2
  <2> QED
    BY <2>6, <2>7, <2>8 DEF AlertInv
\* Whoever is to mark becomes idle, and the mark is made or lost.
<1>4. ASSUME NEW r \in Replicas, Mark(r) \/ MarkFails(r) PROVE AlertInv'
  <2> DEFINE k0 == duty[r].kind
             u0 == duty[r].now
  <2>1. /\ duty[r].at = "mark" /\ duty' = [duty EXCEPT ![r] = Off(duty[r].kind)]
        /\ UNCHANGED <<pages, clock>>
    BY <1>4 DEF Mark, MarkFails
  <2>2. /\ duty' \in [Replicas -> DutyShape] /\ duty'[r].at = "idle"
        /\ \A q \in Replicas \ {r} : duty'[q] = duty[q]
    <3>1. Off(duty[r].kind) \in DutyShape /\ Off(duty[r].kind).at = "idle"
      BY <1>d, AlertNats DEF Off, DutyShape
    <3> QED
      BY <2>1, <3>1, <1>f
  <2>3. k0 \in Kinds /\ u0 \in AlertTimes /\ u0 \in Nat /\ u0 <= clock /\ clock - u0 <= PageTime
    BY <2>1, <1>d, <1>i DEF InTime, Busy
  <2> HIDE DEF k0, u0
  <2>4. ASSUME NEW h \in Kinds, NEW t \in AlertTimes
        PROVE  /\ PagesIn(h, t)' = PagesIn(h, t) /\ OnDuty("page", h, t)' = OnDuty("page", h, t)
               /\ \/ OnDuty("mark", h, t)' = OnDuty("mark", h, t)
                  \/ /\ h = k0 /\ u0 \in Spell(t)
                     /\ Cardinality(OnDuty("mark", h, t)') = Cardinality(OnDuty("mark", h, t)) - 1
    <3>1. PagesIn(h, t)' = PagesIn(h, t)
      BY <2>1 DEF PagesIn, Spell
    <3>2. r \notin OnDuty("page", h, t) /\ r \notin OnDuty("page", h, t)' /\ r \notin OnDuty("mark", h, t)'
          /\ (r \in OnDuty("mark", h, t) => h = k0 /\ u0 \in Spell(t))
      BY <2>1, <2>2 DEF OnDuty, k0, u0
    <3> QED
      BY <3>1, <3>2, <2>2, OnMoves
  <2>5. CASE Mark(r)
    <3>1. lastPage' = [lastPage EXCEPT ![k0] = u0] /\ misses' = misses
      BY <2>5 DEF Mark, k0, u0
    <3>2. lastPage' \in [Kinds -> AlertTimes \union {Never}] /\ lastPage'[k0] = u0
          /\ \A h \in Kinds : h # k0 => lastPage'[h] = lastPage[h]
      BY <3>1, <2>3, <1>f
    <3>3. ASSUME NEW h \in Kinds, NEW t \in AlertTimes PROVE SpellInv(h, t)'
      <4>1. ASSUME ~SpellOver(h, t)'
            PROVE  Cardinality(PagesIn(h, t)) <= Cardinality(OnDuty("mark", h, t)') + misses
        <5>1. CASE h # k0
          <6>1. ~SpellOver(h, t)
            BY <5>1, <4>1, <3>2 DEF SpellOver
          <6> QED
            BY <6>1, <5>1, <2>4, <1>c
        <5>2. CASE h = k0
          <6>0. t \in Nat
            BY AlertNats
          <6>1. ~(u0 + PageTime >= t)
            BY <5>2, <4>1, <3>2, <2>3, AlertNats DEF SpellOver
          <6>2. clock < t
            BY <6>0, <6>1, <2>3, <1>n, AlertNats
          <6>3. Cardinality(PagesIn(h, t)) = 0
            BY <6>2, <1>b
          <6>4. u0 \notin Spell(t)
            BY <6>0, <6>1, <2>3, SpellIn, AlertNats
          <6> QED
            BY <6>3, <6>4, <2>4, <1>c, <1>n
        <5> QED
          BY <5>1, <5>2
      <4> QED
        BY <4>1, <3>1, <2>4, <1>c DEF SpellInv
    <3> QED
      BY <2>1, <2>2, <3>1, <3>2, <3>3, <1>f, <1>q DEF Busy
  <2>6. CASE MarkFails(r)
    <3>1. misses < MaxMisses /\ misses' = misses + 1 /\ lastPage' = lastPage
      BY <2>6 DEF MarkFails
    <3>2. misses' \in 0 .. MaxMisses
      BY <3>1, <1>n, AlertNats
    <3>3. ASSUME NEW h \in Kinds, NEW t \in AlertTimes PROVE SpellInv(h, t)'
      <4>1. SpellOver(h, t)' <=> SpellOver(h, t)
        BY <3>1 DEF SpellOver
      <4>2. /\ Cardinality(OnDuty("mark", h, t)') \in Int
            /\ Cardinality(OnDuty("mark", h, t)') >= Cardinality(OnDuty("mark", h, t)) - 1
        BY <2>4, <1>c
      <4>3. /\ ~SpellOver(h, t) => Cardinality(PagesIn(h, t)) <= Cardinality(OnDuty("mark", h, t)') + misses'
            /\ Cardinality(PagesIn(h, t)) + Cardinality(OnDuty("page", h, t)) <= Cardinality(Replicas) + misses'
        BY <4>2, <3>1, <1>c, <1>n
      <4> QED
        BY <4>1, <4>3, <2>4, <1>c DEF SpellInv
    <3> QED
      BY <2>1, <2>2, <3>1, <3>2, <3>3, <1>f, <1>q DEF Busy
  <2> QED
    BY <1>4, <2>5, <2>6
<1>5. CASE AlertTick
  <2>1. /\ clock < MaxTime /\ clock' = clock + 1 /\ UNCHANGED <<lastPage, duty, pages, misses>>
        /\ \A r \in Replicas : Busy(r) => clock - duty[r].now < PageTime
    BY <1>5 DEF AlertTick
  <2>2. AlertTypeOK'
    <3>1. clock' \in AlertTimes
      BY <2>1, <1>n, AlertNats DEF AlertTimes
    <3> QED
      BY <2>1, <3>1, <1>f, AlertTypes DEF AlertTypeOK, AlertTimes, DutyShape
  <2>3. InTime'
    <3>1. ASSUME NEW r \in Replicas, Busy(r)'
          PROVE  duty'[r].now <= clock' /\ clock' - duty'[r].now <= PageTime
      <4>1. Busy(r)
        BY <3>1, <2>1 DEF Busy
      <4>2. duty[r].now <= clock /\ clock - duty[r].now < PageTime /\ duty[r].now \in Nat
        BY <4>1, <2>1, <1>i, <1>d DEF InTime
      <4> QED
        BY <4>2, <2>1, <1>n, AlertNats
    <3>2. ASSUME NEW h \in Kinds, NEW u \in AlertTimes, u > clock' PROVE pages'[h][u] = 0
      <4>1. u \in Nat /\ u > clock
        BY <3>2, <2>1, <1>n, AlertNats
      <4> QED
        BY <4>1, <2>1, <1>i DEF InTime
    <3> QED
      BY <3>1, <3>2 DEF InTime
  <2>4. ASSUME NEW h \in Kinds, NEW t \in AlertTimes PROVE SpellInv(h, t)'
    <3>1. PagesIn(h, t)' = PagesIn(h, t)
      BY <2>1 DEF PagesIn, Spell
    <3>2. OnDuty("page", h, t)' = OnDuty("page", h, t) /\ OnDuty("mark", h, t)' = OnDuty("mark", h, t)
      BY <2>1 DEF OnDuty, Spell
    <3>3. SpellOver(h, t)' <=> SpellOver(h, t)
      BY <2>1 DEF SpellOver
    <3>4. SpellInv(h, t) /\ misses' = misses
      BY <2>1, <1>s
    <3> QED
      BY <3>1, <3>2, <3>3, <3>4 DEF SpellInv
  <2> QED
    BY <2>2, <2>3, <2>4 DEF AlertInv
<1>6. CASE UNCHANGED alertVars
  <2>1. UNCHANGED <<lastPage, duty, clock, pages, misses>>
    BY <1>6 DEF alertVars
  <2>2. AlertTypeOK' /\ InTime'
    BY <2>1, <1>i DEF AlertInv, AlertTypeOK, InTime, Busy
  <2>4. ASSUME NEW h \in Kinds, NEW t \in AlertTimes PROVE SpellInv(h, t)'
    <3>1. PagesIn(h, t)' = PagesIn(h, t)
      BY <2>1 DEF PagesIn, Spell
    <3>2. OnDuty("page", h, t)' = OnDuty("page", h, t) /\ OnDuty("mark", h, t)' = OnDuty("mark", h, t)
      BY <2>1 DEF OnDuty, Spell
    <3>3. SpellOver(h, t)' <=> SpellOver(h, t)
      BY <2>1 DEF SpellOver
    <3>4. SpellInv(h, t) /\ misses' = misses
      BY <2>1, <1>s
    <3> QED
      BY <3>1, <3>2, <3>3, <3>4 DEF SpellInv
  <2> QED
    BY <2>2, <2>4 DEF AlertInv
<1> QED
  BY <1>1, <1>2, <1>3, <1>4, <1>5, <1>6 DEF AlertNext

-----------------------------------------------------------------------------
(***************************************************************************)
(* All of them together.                                                   *)
(***************************************************************************)

\* What holds of each module, whichever of them a behaviour is about.
ServicesInv ==
    /\ part \in {"signals", "keywords", "access", "flags", "alerts", "metrics", "cache", "live"}
    /\ IngestInv /\ TrimInv /\ AuditInv /\ AccessTypes
    /\ FlagInv /\ AlertInv /\ MetricsInv /\ CacheInv /\ LiveInv

LEMMA ServicesInit == MCInit => ServicesInv
  BY IngestInvInit, TrimInvInit, AccessInitOK, AccessTypesInit, FlagInvInit, AlertInvInit,
     MetricsInvInit, CacheInvInit, LiveInvInit
  DEF MCInit, ServicesInv

\* A step is one of each module, of which it leaves all but one alone.
LEMMA StepOfEach ==
    ASSUME [MCNext]_<<part, signalVars, accessVars, flagVars, monitorVars, otherVars>>
    PROVE  /\ part' = part
           /\ [IngestNext]_ingestVars /\ [TrendNext]_trendVars /\ [AccessNext]_accessVars
           /\ [FlagNext]_flagVars /\ [AlertNext]_alertVars /\ [MetricsNext]_metricsVars
           /\ [GatewayCacheNext]_gatewayCacheVars /\ [LiveNext]_liveVars
  BY DEF MCNext, signalVars, monitorVars, otherVars

LEMMA ServicesNext ==
    ServicesInv /\ [MCNext]_<<part, signalVars, accessVars, flagVars, monitorVars, otherVars>>
        => ServicesInv'
<1> SUFFICES ASSUME ServicesInv,
                    [MCNext]_<<part, signalVars, accessVars, flagVars, monitorVars, otherVars>>
             PROVE  ServicesInv'
  OBVIOUS
<1>1. IngestInv' /\ TrimInv'
  BY StepOfEach, IngestInvNext, TrimInvNext DEF ServicesInv
<1>2. AuditInv' /\ AccessTypes'
  BY StepOfEach, AccessNextOK, AccessTypesNext DEF ServicesInv
<1>3. FlagInv' /\ AlertInv' /\ MetricsInv'
  BY StepOfEach, FlagInvNext, AlertInvNext, MetricsInvNext DEF ServicesInv
<1>4. CacheInv' /\ LiveInv'
  BY StepOfEach, CacheInvNext, LiveInvNext DEF ServicesInv
<1>5. part' = part
  BY StepOfEach
<1> QED
  BY <1>1, <1>2, <1>3, <1>4, <1>5 DEF ServicesInv

LEMMA ServicesKeep == MCSpec => []ServicesInv
  BY ServicesInit, ServicesNext, PTL DEF MCSpec

\* What is answered from a copy is out of date for a bounded time: a flag, a figure of
\* the monitoring service, a response of the gateway, what a page shows, for any number
\* of instances, readers and requests, and any periods, however their calls interleave.
THEOREM CachesSettleHolds == MCSpec => []CachesSettle
<1>1. FlagInv => FlagsSettle
  BY FlagInvSettles
<1>2. MetricsInv => FiguresCurrent
  BY FiguresFollow
<1>3. CacheInv => AnswersCurrent
  BY DEF CacheInv
<1>4. LiveInv => PageCurrent
  BY LiveInvShows
<1>5. ServicesInv => CachesSettle
  BY <1>1, <1>2, <1>3, <1>4 DEF ServicesInv, CachesSettle
<1> QED
  BY <1>5, ServicesKeep, PTL

\* In any stretch of a cooldown, less the time between a decision and its mark, an alert
\* pages no more often than there are replicas, and once more for each mark that was
\* lost, for any number of replicas and any periods.
THEOREM PagesSpacedHolds == AlertSpec => []PagesSpaced
<1>1. AlertSpec => []AlertInv
  BY AlertInvInit, AlertInvNext, PTL DEF AlertSpec
<1>2. AlertInv => PagesSpaced
  BY AlertInvSpaced
<1> QED
  BY <1>1, <1>2, PTL

\* Every variable of the services keeps its type: the fields of what is read from a
\* queue, a cache, a table or another service's answer stay within what the code
\* that reads them expects, in every module.
THEOREM ServicesTypeOKHolds == MCSpec => []ServicesTypeOK
<1>1. ServicesInv => IngestTypeOK /\ TrendTypeOK
  BY DEF ServicesInv, IngestInv, TrimInv
<1>2. ServicesInv => AccessTypeOK /\ FlagTypeOK
  BY AccessTyped DEF ServicesInv, FlagInv
<1>3. ServicesInv => AlertTypeOK /\ MetricsTypeOK /\ GatewayCacheTypeOK /\ LiveTypeOK
  BY LiveInvTypes DEF ServicesInv, AlertInv, MetricsInv, CacheInv
<1>4. ServicesInv => ServicesTypeOK
  <2> SUFFICES ASSUME ServicesInv PROVE ServicesTypeOK
    OBVIOUS
  <2>1. part \in {"signals", "keywords", "access", "flags", "alerts", "metrics", "cache", "live"}
    BY DEF ServicesInv
  <2> QED
    BY <1>1, <1>2, <1>3, <2>1 DEF ServicesTypeOK
<1> QED
  BY <1>4, ServicesKeep, PTL
=============================================================================
