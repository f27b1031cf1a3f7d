---------------------------- MODULE TimersProofs ----------------------------
(***************************************************************************)
(* Proofs about module Timers, for every pool size and every set of        *)
(* delays.  First what the links of a list say of the sequence of timers   *)
(* they stand for, then what walking, inserting and removing do to that    *)
(* sequence, then one lemma per action, then the theorems.                 *)
(***************************************************************************)
EXTENDS Timers, ArithmeticLemmas, SequenceTheorems, FiniteSetTheorems, TLAPS

\* The i-th timer of q, NULL beyond its ends.
At(q, i) == IF i \in 1 .. Len(q) THEN q[i] ELSE NULL

\* No timer is twice in q.
Distinct(q) == \A i, j \in 1 .. Len(q) : q[i] = q[j] => i = j

\* The links f lead from h through the timers of q, each once, to NULL.
Chain(f, h, q) ==
  /\ q \in Seq(Timer)
  /\ Distinct(q)
  /\ h = At(q, 1)
  /\ \A i \in 1 .. Len(q) : f[q[i]] = At(q, i + 1)

\* The links g lead backwards through q.
Back(g, q) == \A i \in 1 .. Len(q) : g[q[i]] = At(q, i - 1)

\* The timeouts do not fall along q.
Sorted(to, q) == \A i, j \in 1 .. Len(q) : i < j => to[q[i]] <= to[q[j]]

\* The doubly linked list of armed timers.
ArmedList(h, nx, pv, to, q) == Chain(nx, h, q) /\ Back(pv, q) /\ Sorted(to, q)

\* The two lists share the pool.
Shared(a, b) ==
  /\ Range(a) \union Range(b) = Timer
  /\ Range(a) \intersect Range(b) = {}

TimersType ==
  /\ now \in Nat
  /\ next \in [Timer -> Int]
  /\ prev \in [Timer -> Int]
  /\ timeout \in [Timer -> Int]

\* The inductive invariant: nb__timers_head leads along next through the armed
\* timers in the order of their timeouts and along prev back, the free list
\* through all the others.
IndInv ==
  /\ TimersType
  /\ ArmedList(timers_head, next, prev, timeout, Armed)
  /\ Chain(next, free_list, Free)
  /\ Shared(Armed, Free)

(***************************************************************************)
(* Sequences of timers.                                                    *)
(***************************************************************************)

\* The range of a sequence of timers in terms of its positions.
LEMMA InRange ==
  ASSUME NEW q \in Seq(Timer)
  PROVE  /\ Len(q) \in Nat
         /\ \A i \in 1 .. Len(q) : q[i] \in Timer /\ q[i] \in Range(q)
         /\ \A x \in Range(q) : \E i \in 1 .. Len(q) : q[i] = x
         /\ Range(q) \subseteq Timer
  <1>1. Len(q) \in Nat /\ DOMAIN q = 1 .. Len(q) /\ \A i \in 1 .. Len(q) : q[i] \in Timer
    BY LenProperties, ElementOfSeq
  <1> QED BY <1>1 DEF Range

\* A list without repetitions has as many timers as places, and no more than
\* the pool.
LEMMA ChainLength ==
  ASSUME NEW f, NEW h, NEW q, Chain(f, h, q)
  PROVE  /\ Len(q) \in 0 .. PoolSize
         /\ IsFiniteSet(Range(q)) /\ Cardinality(Range(q)) = Len(q)
  <1>1. q \in Seq(Timer) /\ Len(q) \in Nat /\ DOMAIN q = 1 .. Len(q)
    BY LenProperties DEF Chain
  <1>2. q \in Bijection(1 .. Len(q), Range(q))
    <2>1. q \in [1 .. Len(q) -> Range(q)]
      BY <1>1, InRange
    <2>2. IsInjective(q)
      BY <1>1 DEF IsInjective, Chain, Distinct
    <2>3. \A x \in Range(q) : \E i \in 1 .. Len(q) : q[i] = x
      BY <1>1, InRange
    <2> QED BY <2>1, <2>2, <2>3 DEF Bijection, Injection, Surjection
  <1>3. /\ IsFiniteSet(1 .. Len(q)) /\ Cardinality(1 .. Len(q)) = Len(q)
        /\ IsFiniteSet(Timer) /\ Cardinality(Timer) = PoolSize
    <2>1. 1 \in Int /\ Len(q) \in Int /\ PoolSize \in Int /\ PoolSize >= 1
      BY <1>1, TimersAssumption
    <2>2. /\ IsFiniteSet(1 .. Len(q))
          /\ Cardinality(1 .. Len(q)) = IF 1 > Len(q) THEN 0 ELSE Len(q) - 1 + 1
      BY <2>1, FS_Interval
    <2>3. /\ IsFiniteSet(1 .. PoolSize)
          /\ Cardinality(1 .. PoolSize) = IF 1 > PoolSize THEN 0 ELSE PoolSize - 1 + 1
      BY <2>1, FS_Interval
    <2> QED BY <1>1, <2>1, <2>2, <2>3 DEF Timer
  <1>4. IsFiniteSet(Range(q)) /\ Cardinality(Range(q)) = Len(q)
    BY <1>2, <1>3, FS_Bijection, Zenon DEF ExistsBijection
  <1>5. Cardinality(Range(q)) <= PoolSize
    <2>1. Range(q) \in SUBSET Timer
      BY <1>1, InRange
    <2> QED BY <1>3, <2>1, FS_Subset
  <1> QED BY <1>1, <1>4, <1>5, TimersAssumption

\* Following the links of a list gives its timers one after the other, then
\* NULL.
LEMMA FollowChain ==
  ASSUME NEW f, NEW h, NEW q, Chain(f, h, q)
  PROVE  \A k \in 0 .. PoolSize : Follow(f, h)[k] = At(q, k + 1)
  <1> DEFINE Nodes(g) == g = [k \in 0 .. PoolSize |->
                                IF k = 0 THEN h
                                ELSE IF g[k - 1] = NULL THEN NULL ELSE f[g[k - 1]]]
             w == [k \in 0 .. PoolSize |-> At(q, k + 1)]
  <1>1. /\ q \in Seq(Timer) /\ Len(q) \in Nat /\ PoolSize \in Nat
        /\ \A i \in 1 .. Len(q) : q[i] \in Nat \ {0}
    BY InRange, TimersAssumption DEF Chain, Timer
  <1>2. ASSUME NEW k \in 0 .. PoolSize, k # 0
        PROVE  At(q, k + 1) = IF At(q, k) = NULL THEN NULL ELSE f[At(q, k)]
    <2>0. k \in Nat /\ k >= 1
      BY <1>2
    <2>1. CASE k <= Len(q)
      <3>1. k \in 1 .. Len(q)
        BY <2>0, <2>1, <1>1
      <3> QED BY <1>1, <3>1 DEF At, Chain, NULL
    <2>2. CASE k > Len(q)
      BY <1>1, <2>0, <2>2 DEF At
    <2> QED BY <1>1, <2>0, <2>1, <2>2
  <1>3. Nodes(w)
    <2>1. ASSUME NEW k \in 0 .. PoolSize
          PROVE  w[k] = IF k = 0 THEN h
                        ELSE IF w[k - 1] = NULL THEN NULL ELSE f[w[k - 1]]
      <3>1. CASE k = 0
        BY <3>1 DEF Chain
      <3>2. CASE k # 0
        <4>1. k - 1 \in 0 .. PoolSize /\ (k - 1) + 1 = k
          BY <1>1, <3>2
        <4>2. w[k - 1] = At(q, k) /\ w[k] = At(q, k + 1)
          BY <4>1
        <4> QED BY <1>2, <3>2, <4>2
      <3> QED BY <3>1, <3>2
    <2> QED BY <2>1
  <1>4. Follow(f, h) = CHOOSE g : Nodes(g)
    BY DEF Follow
  <1>5. Nodes(Follow(f, h))
    <2> HIDE DEF Nodes
    <2> QED BY <1>3, <1>4
  <1>6. PICK g : g = Follow(f, h)
    OBVIOUS
  <1>7. \A k \in 0 .. PoolSize :
           g[k] = IF k = 0 THEN h ELSE IF g[k - 1] = NULL THEN NULL ELSE f[g[k - 1]]
    <2>1. Nodes(g)
      BY <1>5, <1>6
    <2> QED BY <2>1
  <1> DEFINE T == {k \in 0 .. PoolSize : g[k] = At(q, k + 1)}
  <1>8. 0 \in T
    BY <1>1, <1>7 DEF Chain
  <1>9. ASSUME NEW k \in 0 .. PoolSize - 1, k \in T PROVE k + 1 \in T
    <2>1. k + 1 \in 0 .. PoolSize /\ k + 1 # 0 /\ (k + 1) - 1 = k
      BY <1>1
    <2>2. g[k + 1] = IF g[k] = NULL THEN NULL ELSE f[g[k]]
      BY <1>7, <2>1
    <2>3. g[k] = At(q, k + 1)
      BY <1>9
    <2> QED BY <1>2, <2>1, <2>2, <2>3
  <1>10. \A k \in 0 .. PoolSize : k \in T
    <2> HIDE DEF T
    <2> QED BY <1>1, <1>8, <1>9, SetInduction
  <1> QED BY <1>6, <1>10

\* The list read off the links is the sequence they lead through.
LEMMA ListOfChain ==
  ASSUME NEW f, NEW h, NEW q, Chain(f, h, q)
  PROVE  ListOf(f, h) = q
  <1> DEFINE node == Follow(f, h)
             S == {k \in 0 .. PoolSize : node[k] # NULL}
  <1>1. /\ q \in Seq(Timer) /\ Len(q) \in Nat /\ PoolSize \in Nat /\ Len(q) <= PoolSize
        /\ \A i \in 1 .. Len(q) : q[i] \in Nat \ {0}
    <2>1. Len(q) \in 0 .. PoolSize
      BY ChainLength
    <2>2. q \in Seq(Timer)
      BY DEF Chain
    <2>3. \A i \in 1 .. Len(q) : q[i] \in Timer
      BY <2>2, InRange
    <2> QED BY <2>1, <2>2, <2>3, TimersAssumption DEF Timer
  <1>2. \A k \in 0 .. PoolSize : node[k] = At(q, k + 1)
    BY FollowChain
  <1>3. S = 0 .. Len(q) - 1
    <2> HIDE DEF node
    <2>1. \A k \in 0 .. PoolSize : node[k] # NULL <=> k < Len(q)
      BY <1>1, <1>2 DEF At, NULL
    <2> QED BY <1>1, <2>1
  <1>4. Cardinality(S) = Len(q)
    <2>1. 0 \in Int /\ Len(q) - 1 \in Int
      BY <1>1
    <2>2. Cardinality(0 .. Len(q) - 1) = IF 0 > Len(q) - 1 THEN 0 ELSE (Len(q) - 1) - 0 + 1
      BY <2>1, FS_Interval
    <2>3. Cardinality(0 .. Len(q) - 1) = Len(q)
      BY <1>1, <2>2
    <2> HIDE DEF S
    <2> QED BY <1>3, <2>3
  <1>5. ListOf(f, h) = [i \in 1 .. Len(q) |-> node[i - 1]]
    BY <1>4 DEF ListOf
  <1>6. \A i \in 1 .. Len(q) : node[i - 1] = q[i]
    <2>1. ASSUME NEW i \in 1 .. Len(q) PROVE node[i - 1] = q[i]
      <3> HIDE DEF node
      <3>1. i - 1 \in 0 .. PoolSize /\ (i - 1) + 1 = i
        BY <1>1
      <3> QED BY <1>2, <3>1 DEF At
    <2> QED BY <2>1
  <1>7. q = [i \in 1 .. Len(q) |-> q[i]]
    BY <1>1
  <1> HIDE DEF node
  <1> QED BY <1>5, <1>6, <1>7

\* q with t behind its first k timers.
Ins(q, k, t) ==
  [i \in 1 .. Len(q) + 1 |-> IF i <= k THEN q[i] ELSE IF i = k + 1 THEN t ELSE q[i - 1]]

\* q without its p-th timer.
Del(q, p) == [i \in 1 .. Len(q) - 1 |-> IF i < p THEN q[i] ELSE q[i + 1]]

\* p is q with t behind its first k timers, place by place.
Inserted(p, q, n, k, t) ==
  /\ p \in Seq(Timer) /\ Len(p) = n + 1
  /\ \A i \in 1 .. k : p[i] = q[i]
  /\ p[k + 1] = t
  /\ \A i \in k + 1 .. n : p[i + 1] = q[i]
  /\ \A i \in 1 .. n + 1 : i \in 1 .. k \/ i = k + 1 \/ i - 1 \in k + 1 .. n
  /\ Range(p) = Range(q) \union {t}

\* d is q without its p-th timer, place by place.
Deleted(d, q, n, p) ==
  /\ d \in Seq(Timer) /\ Len(d) = n - 1
  /\ \A i \in 1 .. p - 1 : d[i] = q[i]
  /\ \A i \in p .. n - 1 : d[i] = q[i + 1]
  /\ Range(d) = Range(q) \ {q[p]}

\* What an insertion does to the sequence and its places.
LEMMA InsFacts ==
  ASSUME NEW q \in Seq(Timer), NEW n \in Nat, n = Len(q), NEW k \in 0 .. n,
         NEW t \in Timer, NEW p, p = Ins(q, k, t)
  PROVE  Inserted(p, q, n, k, t)
  <1>1. n = Len(q)
    OBVIOUS
  <1>2. p = [i \in 1 .. n + 1 |-> IF i <= k THEN q[i] ELSE IF i = k + 1 THEN t ELSE q[i - 1]]
    BY <1>1 DEF Ins
  <1>3. \A i \in 1 .. n + 1 : p[i] \in Timer
    BY <1>1, <1>2, InRange
  <1>4. p \in Seq(Timer)
    BY <1>2, <1>3
  <1>5. Len(p) = n + 1
    BY <1>2
  <1>6. \A i \in 1 .. k : p[i] = q[i]
    BY <1>1, <1>2
  <1>7. p[k + 1] = t
    BY <1>1, <1>2
  <1>8. \A i \in k + 1 .. n : p[i + 1] = q[i]
    BY <1>1, <1>2
  <1>9. \A i \in 1 .. n + 1 : i \in 1 .. k \/ i = k + 1 \/ i - 1 \in k + 1 .. n
    BY <1>1
  <1>10. Range(p) = Range(q) \union {t}
    <2>1. ASSUME NEW x \in Range(p) PROVE x \in Range(q) \union {t}
      <3>1. PICK i \in 1 .. n + 1 : p[i] = x
        BY <1>4, <1>5, InRange
      <3>2. CASE i \in 1 .. k
        BY <1>1, <1>6, <3>1, <3>2, InRange
      <3>3. CASE i = k + 1
        BY <1>7, <3>1, <3>3
      <3>4. CASE i - 1 \in k + 1 .. n
        <4>1. (i - 1) + 1 = i /\ i - 1 \in 1 .. n
          BY <1>1, <3>4
        <4>2. p[i] = q[i - 1]
          BY <1>8, <3>4, <4>1
        <4> QED BY <1>1, <3>1, <4>1, <4>2, InRange
      <3> QED BY <1>9, <3>2, <3>3, <3>4
    <2>2. ASSUME NEW x \in Range(q) PROVE x \in Range(p)
      <3>1. PICK i \in 1 .. n : q[i] = x
        BY <1>1, InRange
      <3>2. CASE i <= k
        <4>1. i \in 1 .. k /\ i \in 1 .. n + 1
          BY <1>1, <3>2
        <4> QED BY <1>4, <1>5, <1>6, <3>1, <4>1, InRange
      <3>3. CASE i > k
        <4>1. i \in k + 1 .. n /\ i + 1 \in 1 .. n + 1
          BY <1>1, <3>3
        <4> QED BY <1>4, <1>5, <1>8, <3>1, <4>1, InRange
      <3> QED BY <1>1, <3>2, <3>3
    <2>3. t \in Range(p)
      <3>1. k + 1 \in 1 .. n + 1
        BY <1>1
      <3> QED BY <1>4, <1>5, <1>7, <3>1, InRange
    <2> QED BY <2>1, <2>2, <2>3
  <1> QED BY <1>4, <1>5, <1>6, <1>7, <1>8, <1>9, <1>10 DEF Inserted

\* What a removal does to the sequence and its places.
LEMMA DelFacts ==
  ASSUME NEW q \in Seq(Timer), NEW n \in Nat, n = Len(q), NEW p \in 1 .. n,
         Distinct(q), NEW d, d = Del(q, p)
  PROVE  Deleted(d, q, n, p)
  <1>1. n = Len(q) /\ \A i, j \in 1 .. n : q[i] = q[j] => i = j
    BY DEF Distinct
  <1>2. PICK m \in Nat : n = m + 1
    <2>1. n - 1 \in Nat /\ n = (n - 1) + 1
      BY <1>1
    <2> QED BY <2>1
  <1>3. d = [i \in 1 .. m |-> IF i < p THEN q[i] ELSE q[i + 1]]
    BY <1>1, <1>2 DEF Del
  <1>4. \A i \in 1 .. m : d[i] \in Timer
    <2>1. \A i \in 1 .. n : q[i] \in Timer
      BY <1>1, InRange
    <2>2. \A i \in 1 .. m : i \in 1 .. n /\ i + 1 \in 1 .. n
      BY <1>2
    <2> QED BY <1>3, <2>1, <2>2
  <1>5. d \in Seq(Timer)
    BY <1>3, <1>4
  <1>6. Len(d) = m
    BY <1>3
  <1>7. \A i \in 1 .. p - 1 : d[i] = q[i]
    BY <1>1, <1>2, <1>3
  <1>8. \A i \in p .. m : d[i] = q[i + 1]
    BY <1>1, <1>2, <1>3
  <1>9. Range(d) = Range(q) \ {q[p]}
    <2>1. ASSUME NEW x \in Range(d) PROVE x \in Range(q) /\ x # q[p]
      <3>1. PICK i \in 1 .. m : d[i] = x
        BY <1>5, <1>6, InRange
      <3>2. CASE i < p
        <4>1. i \in 1 .. p - 1 /\ i \in 1 .. n /\ i # p
          BY <1>1, <1>2, <3>2
        <4> QED BY <1>1, <1>7, <3>1, <4>1, InRange
      <3>3. CASE i >= p
        <4>1. i \in p .. m /\ i + 1 \in 1 .. n /\ i + 1 # p
          BY <1>1, <1>2, <3>3
        <4> QED BY <1>1, <1>8, <3>1, <4>1, InRange
      <3> QED BY <1>1, <3>2, <3>3
    <2>2. ASSUME NEW x \in Range(q), x # q[p] PROVE x \in Range(d)
      <3>1. PICK i \in 1 .. n : q[i] = x
        BY <1>1, InRange
      <3>2. i # p
        BY <2>2, <3>1
      <3>3. CASE i < p
        <4>1. i \in 1 .. p - 1 /\ i \in 1 .. m
          BY <1>1, <1>2, <3>3
        <4> QED BY <1>5, <1>6, <1>7, <3>1, <4>1, InRange
      <3>4. CASE i > p
        <4>1. i - 1 \in p .. m /\ i - 1 \in 1 .. m /\ (i - 1) + 1 = i
          BY <1>1, <1>2, <3>4
        <4>2. d[i - 1] = x
          BY <1>8, <3>1, <4>1
        <4> QED BY <1>5, <1>6, <4>1, <4>2, InRange
      <3> QED BY <1>1, <3>2, <3>3, <3>4
    <2> QED BY <2>1, <2>2
  <1>10. m = n - 1
    BY <1>1, <1>2
  <1> QED BY <1>5, <1>6, <1>7, <1>8, <1>9, <1>10 DEF Deleted

\* The places of a sequence hold timers, and NULL is none.
LEMMA AtFacts ==
  ASSUME NEW q \in Seq(Timer)
  PROVE  /\ \A i \in 1 .. Len(q) : At(q, i) = q[i] /\ At(q, i) \in Timer /\ At(q, i) # NULL
         /\ At(q, 0) = NULL /\ At(q, Len(q) + 1) = NULL
         /\ \A i \in 0 .. Len(q) + 1 : At(q, i) = NULL \/ At(q, i) \in Timer
         /\ \A i \in 0 .. Len(q) + 1 : At(q, i) \in Int
  <1>1. Len(q) \in Nat /\ \A i \in 1 .. Len(q) : q[i] \in Timer
    BY InRange
  <1> QED BY <1>1 DEF At, NULL, Timer

\* The places after an insertion.
LEMMA InsAt ==
  ASSUME NEW q \in Seq(Timer), NEW n \in Nat, n = Len(q), NEW k \in 0 .. n,
         NEW t \in Timer, NEW p, p = Ins(q, k, t)
  PROVE  /\ \A i \in 0 .. k : At(p, i) = At(q, i)
         /\ At(p, k + 1) = t
         /\ \A i \in k + 1 .. n + 1 : At(p, i + 1) = At(q, i)
  <1>1. n = Len(q)
    OBVIOUS
  <1>2. Inserted(p, q, n, k, t)
    BY InsFacts
  <1>3. /\ Len(p) = n + 1
        /\ \A i \in 1 .. k : p[i] = q[i]
        /\ p[k + 1] = t
        /\ \A i \in k + 1 .. n : p[i + 1] = q[i]
    BY <1>2 DEF Inserted
  <1>4. ASSUME NEW i \in 0 .. k PROVE At(p, i) = At(q, i)
    BY <1>1, <1>3 DEF At
  <1>5. At(p, k + 1) = t
    BY <1>1, <1>3 DEF At
  <1>6. ASSUME NEW i \in k + 1 .. n + 1 PROVE At(p, i + 1) = At(q, i)
    BY <1>1, <1>3 DEF At
  <1> QED BY <1>4, <1>5, <1>6

\* The places after a removal.
LEMMA DelAt ==
  ASSUME NEW q \in Seq(Timer), NEW n \in Nat, n = Len(q), NEW p \in 1 .. n,
         Distinct(q), NEW d, d = Del(q, p)
  PROVE  /\ \A i \in 0 .. p - 1 : At(d, i) = At(q, i)
         /\ \A i \in p .. n : At(d, i) = At(q, i + 1)
  <1>1. n = Len(q)
    OBVIOUS
  <1>2. Deleted(d, q, n, p)
    BY DelFacts
  <1>3. /\ Len(d) = n - 1
        /\ \A i \in 1 .. p - 1 : d[i] = q[i]
        /\ \A i \in p .. n - 1 : d[i] = q[i + 1]
    BY <1>2 DEF Deleted
  <1>4. ASSUME NEW i \in 0 .. p - 1 PROVE At(d, i) = At(q, i)
    BY <1>1, <1>3 DEF At
  <1>5. ASSUME NEW i \in p .. n PROVE At(d, i) = At(q, i + 1)
    BY <1>1, <1>3 DEF At
  <1> QED BY <1>4, <1>5

\* Inserting keeps the timers of a list apart.
LEMMA InsInjective ==
  ASSUME NEW q \in Seq(Timer), NEW n \in Nat, n = Len(q), NEW k \in 0 .. n,
         NEW t \in Timer, NEW p, p = Ins(q, k, t), t \notin Range(q),
         Distinct(q)
  PROVE  Distinct(p)
  <1>1. n = Len(q) /\ \A i, j \in 1 .. n : q[i] = q[j] => i = j
    BY DEF Distinct
  <1>2. Inserted(p, q, n, k, t)
    BY InsFacts
  <1>3. /\ Len(p) = n + 1
        /\ \A i \in 1 .. k : p[i] = q[i]
        /\ p[k + 1] = t
        /\ \A i \in k + 1 .. n : p[i + 1] = q[i]
    BY <1>2 DEF Inserted
  <1> DEFINE s(i) == IF i <= k THEN i ELSE i - 1
  <1>4. \A i \in 1 .. n + 1 : i # k + 1 => p[i] = q[s(i)] /\ s(i) \in 1 .. n
    <2>1. ASSUME NEW i \in 1 .. n + 1, i # k + 1, i > k
          PROVE  p[i] = q[i - 1] /\ i - 1 \in 1 .. n
      <3>1. i - 1 \in k + 1 .. n /\ i - 1 \in 1 .. n /\ (i - 1) + 1 = i
        BY <1>1, <2>1
      <3> QED BY <1>3, <3>1
    <2>2. ASSUME NEW i \in 1 .. n + 1, i <= k
          PROVE  p[i] = q[i] /\ i \in 1 .. n
      BY <1>1, <1>3, <2>2
    <2> QED BY <1>1, <2>1, <2>2
  <1>5. \A i \in 1 .. n : q[i] # t
    BY <1>1, InRange
  <1>6. \A i, j \in 1 .. n + 1 : i # k + 1 /\ j # k + 1 /\ s(i) = s(j) => i = j
    BY <1>1
  <1> HIDE DEF s
  <1>7. \A i, j \in 1 .. n + 1 : p[i] = p[j] => i = j
    BY <1>1, <1>3, <1>4, <1>5, <1>6
  <1> QED BY <1>3, <1>7 DEF Distinct

\* The links of the timers other than t and those of q are the same.
SameElsewhere(f, nx, q, t) == \A u \in Timer : u \notin Range(q) /\ u # t => f[u] = nx[u]

\* nb__insert_timer links t into next behind the first k timers of the list.
LEMMA InsertChain ==
  ASSUME NEW nx \in [Timer -> Int], NEW h, NEW q, Chain(nx, h, q),
         NEW k \in 0 .. Len(q), NEW t \in Timer, t \notin Range(q),
         NEW f, f = Set([nx EXCEPT ![t] = At(q, k + 1)], At(q, k), t)
  PROVE  /\ f \in [Timer -> Int]
         /\ Chain(f, IF At(q, k) = NULL THEN t ELSE h, Ins(q, k, t))
         /\ SameElsewhere(f, nx, q, t)
  <1>1. PICK n \in Nat : n = Len(q)
    BY InRange DEF Chain
  <1>2. /\ q \in Seq(Timer) /\ h = At(q, 1) /\ k \in 0 .. n
        /\ Distinct(q) /\ \A i, j \in 1 .. n : q[i] = q[j] => i = j
        /\ \A i \in 1 .. n : nx[q[i]] = At(q, i + 1)
    BY <1>1 DEF Chain, Distinct
  <1>3. /\ \A i \in 1 .. n : At(q, i) = q[i] /\ At(q, i) # NULL
        /\ At(q, 0) = NULL /\ At(q, k + 1) \in Int
        /\ At(q, k) = NULL \/ At(q, k) \in Timer
    BY <1>1, <1>2, AtFacts
  <1>4. \A i \in 1 .. n : q[i] \in Timer /\ q[i] # t /\ q[i] \in Range(q)
    BY <1>1, <1>2, InRange
  <1>5. PICK e \in [Timer -> Int] : e = [nx EXCEPT ![t] = At(q, k + 1)]
    BY <1>3
  <1>6. e[t] = At(q, k + 1) /\ \A u \in Timer : u # t => e[u] = nx[u]
    BY <1>5
  <1>7. /\ f \in [Timer -> Int]
        /\ At(q, k) # NULL => f[At(q, k)] = t
        /\ \A u \in Timer : u # At(q, k) => f[u] = e[u]
    <2>1. t \in Int
      BY DEF Timer
    <2> QED BY <1>3, <1>5, <2>1 DEF Set
  <1>8. /\ k # 0 => At(q, k) = q[k] /\ f[q[k]] = t
        /\ f[t] = At(q, k + 1)
        /\ \A i \in 1 .. n : i # k => f[q[i]] = At(q, i + 1)
    <2>1. CASE k = 0
      <3>1. At(q, k) = NULL /\ \A u \in Timer : u # NULL
        BY <1>3, <2>1 DEF NULL, Timer
      <3> QED BY <1>2, <1>4, <1>6, <1>7, <2>1, <3>1
    <2>2. CASE k # 0
      <3>1. k \in 1 .. n
        BY <1>2, <2>2
      <3>2. At(q, k) = q[k] /\ At(q, k) # NULL
        BY <1>3, <3>1
      <3>3. f[t] = At(q, k + 1)
        BY <1>4, <1>6, <1>7, <3>1, <3>2
      <3>4. ASSUME NEW i \in 1 .. n, i # k PROVE f[q[i]] = At(q, i + 1)
        <4>1. q[i] # q[k]
          BY <1>2, <3>1, <3>4
        <4> QED BY <1>2, <1>4, <1>6, <1>7, <3>2, <4>1
      <3> QED BY <1>7, <3>2, <3>3, <3>4
    <2> QED BY <2>1, <2>2
  <1>9. PICK p : p = Ins(q, k, t)
    OBVIOUS
  <1>10. /\ p \in Seq(Timer) /\ Len(p) = n + 1
         /\ \A i \in 1 .. k : p[i] = q[i]
         /\ p[k + 1] = t
         /\ \A i \in k + 1 .. n : p[i + 1] = q[i]
         /\ \A i \in 1 .. n + 1 : i \in 1 .. k \/ i = k + 1 \/ i - 1 \in k + 1 .. n
    <2>1. Inserted(p, q, n, k, t)
      BY <1>1, <1>2, <1>9, InsFacts
    <2> QED BY <2>1 DEF Inserted
  <1>11. /\ \A i \in 0 .. k : At(p, i) = At(q, i)
         /\ At(p, k + 1) = t
         /\ \A i \in k + 1 .. n + 1 : At(p, i + 1) = At(q, i)
    BY <1>1, <1>2, <1>9, InsAt
  <1>12. ASSUME NEW i \in 1 .. n + 1 PROVE f[p[i]] = At(p, i + 1)
    <2>1. CASE i \in 1 .. k
      <3>1. CASE i = k
        BY <1>8, <1>10, <1>11, <2>1, <3>1
      <3>2. CASE i # k
        <4>1. i \in 1 .. n /\ i + 1 \in 0 .. k
          BY <1>2, <2>1, <3>2
        <4> QED BY <1>8, <1>10, <1>11, <2>1, <3>2, <4>1
      <3> QED BY <3>1, <3>2
    <2>2. CASE i = k + 1
      <3>1. k + 1 \in k + 1 .. n + 1 /\ i + 1 = (k + 1) + 1
        BY <1>2, <2>2
      <3> QED BY <1>8, <1>10, <1>11, <2>2, <3>1
    <2>3. CASE i - 1 \in k + 1 .. n
      <3>1. /\ (i - 1) + 1 = i /\ i \in k + 1 .. n + 1 /\ i - 1 \in 1 .. n /\ i - 1 # k
        BY <1>2, <2>3
      <3>2. p[i] = q[i - 1]
        BY <1>10, <2>3, <3>1
      <3>3. f[q[i - 1]] = At(q, i)
        BY <1>8, <3>1
      <3> QED BY <1>11, <3>1, <3>2, <3>3
    <2> QED BY <1>10, <2>1, <2>2, <2>3
  <1>13. Distinct(p)
    BY <1>1, <1>2, <1>9, InsInjective
  <1>14. At(p, 1) = IF At(q, k) = NULL THEN t ELSE h
    <2>1. CASE k = 0
      BY <1>3, <1>11, <2>1
    <2>2. CASE k # 0
      <3>1. k \in 1 .. n /\ 1 \in 0 .. k
        BY <1>2, <2>2
      <3> QED BY <1>2, <1>3, <1>11, <3>1
    <2> QED BY <2>1, <2>2
  <1>15. Chain(f, IF At(q, k) = NULL THEN t ELSE h, p)
    BY <1>10, <1>12, <1>13, <1>14 DEF Chain
  <1>16. SameElsewhere(f, nx, q, t)
    <2>1. ASSUME NEW u \in Timer, u \notin Range(q), u # t PROVE u # At(q, k)
      <3>1. CASE k = 0
        BY <1>3, <3>1 DEF Timer, NULL
      <3>2. CASE k # 0
        <4>1. k \in 1 .. n
          BY <1>2, <3>2
        <4> QED BY <1>3, <1>4, <2>1, <4>1
      <3> QED BY <3>1, <3>2
    <2> QED BY <1>6, <1>7, <2>1 DEF SameElsewhere
  <1> QED BY <1>7, <1>9, <1>15, <1>16

\* nb__insert_timer links t into prev behind the first k timers of the list.
LEMMA InsertBack ==
  ASSUME NEW pv \in [Timer -> Int], NEW q \in Seq(Timer), Distinct(q), Back(pv, q),
         NEW k \in 0 .. Len(q), NEW t \in Timer, t \notin Range(q),
         NEW g, g = Set([pv EXCEPT ![t] = At(q, k)], At(q, k + 1), t)
  PROVE  g \in [Timer -> Int] /\ Back(g, Ins(q, k, t))
  <1>1. PICK n \in Nat : n = Len(q)
    BY InRange
  <1>2. /\ k \in 0 .. n
        /\ \A i, j \in 1 .. n : q[i] = q[j] => i = j
        /\ \A i \in 1 .. n : pv[q[i]] = At(q, i - 1)
    BY <1>1 DEF Back, Distinct
  <1>3. /\ \A i \in 1 .. n : At(q, i) = q[i] /\ At(q, i) # NULL
        /\ At(q, n + 1) = NULL /\ At(q, k) \in Int
        /\ At(q, k + 1) = NULL \/ At(q, k + 1) \in Timer
    <2>1. k \in 0 .. n + 1 /\ k + 1 \in 0 .. n + 1
      BY <1>2
    <2> QED BY <1>1, <2>1, AtFacts
  <1>4. \A i \in 1 .. n : q[i] \in Timer /\ q[i] # t
    BY <1>1, InRange
  <1>5. PICK e \in [Timer -> Int] : e = [pv EXCEPT ![t] = At(q, k)]
    BY <1>3
  <1>6. e[t] = At(q, k) /\ \A u \in Timer : u # t => e[u] = pv[u]
    BY <1>5
  <1>7. /\ g \in [Timer -> Int]
        /\ At(q, k + 1) # NULL => g[At(q, k + 1)] = t
        /\ \A u \in Timer : u # At(q, k + 1) => g[u] = e[u]
    <2>1. t \in Int
      BY DEF Timer
    <2> QED BY <1>3, <1>5, <2>1 DEF Set
  <1>8. /\ k # n => g[q[k + 1]] = t
        /\ g[t] = At(q, k)
        /\ \A i \in 1 .. n : i # k + 1 => g[q[i]] = At(q, i - 1)
    <2>1. CASE k = n
      <3>1. At(q, k + 1) = NULL /\ \A u \in Timer : u # NULL
        BY <1>3, <2>1 DEF NULL, Timer
      <3> QED BY <1>2, <1>4, <1>6, <1>7, <2>1, <3>1
    <2>2. CASE k # n
      <3>1. k + 1 \in 1 .. n
        BY <1>2, <2>2
      <3>2. At(q, k + 1) = q[k + 1] /\ At(q, k + 1) # NULL
        BY <1>3, <3>1
      <3>3. g[t] = At(q, k)
        BY <1>4, <1>6, <1>7, <3>1, <3>2
      <3>4. ASSUME NEW i \in 1 .. n, i # k + 1 PROVE g[q[i]] = At(q, i - 1)
        <4>1. q[i] # q[k + 1]
          BY <1>2, <3>1, <3>4
        <4> QED BY <1>2, <1>4, <1>6, <1>7, <3>2, <4>1
      <3> QED BY <1>7, <3>2, <3>3, <3>4
    <2> QED BY <2>1, <2>2
  <1>9. PICK p : p = Ins(q, k, t)
    OBVIOUS
  <1>10. /\ Len(p) = n + 1
         /\ \A i \in 1 .. k : p[i] = q[i]
         /\ p[k + 1] = t
         /\ \A i \in k + 1 .. n : p[i + 1] = q[i]
         /\ \A i \in 1 .. n + 1 : i \in 1 .. k \/ i = k + 1 \/ i - 1 \in k + 1 .. n
    <2>1. Inserted(p, q, n, k, t)
      BY <1>1, <1>2, <1>9, InsFacts
    <2> QED BY <2>1 DEF Inserted
  <1>11. /\ \A i \in 0 .. k : At(p, i) = At(q, i)
         /\ At(p, k + 1) = t
         /\ \A i \in k + 1 .. n + 1 : At(p, i + 1) = At(q, i)
    BY <1>1, <1>2, <1>9, InsAt
  <1>12. ASSUME NEW i \in 1 .. n + 1 PROVE g[p[i]] = At(p, i - 1)
    <2>1. CASE i \in 1 .. k
      <3>1. i \in 1 .. n /\ i # k + 1 /\ i - 1 \in 0 .. k
        BY <1>2, <2>1
      <3> QED BY <1>8, <1>10, <1>11, <2>1, <3>1
    <2>2. CASE i = k + 1
      <3>1. k \in 0 .. k /\ i - 1 = k
        BY <1>2, <2>2
      <3> QED BY <1>8, <1>10, <1>11, <2>2, <3>1
    <2>3. CASE i - 1 \in k + 1 .. n
      <3>1. (i - 1) + 1 = i /\ i - 1 \in 1 .. n /\ k # n
        BY <1>2, <2>3
      <3>2. p[i] = q[i - 1]
        BY <1>10, <2>3, <3>1
      <3>3. CASE i - 1 = k + 1
        BY <1>8, <1>11, <3>1, <3>2, <3>3
      <3>4. CASE i - 1 # k + 1
        <4>1. (i - 1) - 1 \in k + 1 .. n + 1 /\ ((i - 1) - 1) + 1 = i - 1
          BY <1>2, <2>3, <3>4
        <4>2. g[q[i - 1]] = At(q, (i - 1) - 1)
          BY <1>8, <3>1, <3>4
        <4> QED BY <1>11, <3>2, <4>1, <4>2
      <3> QED BY <3>3, <3>4
    <2> QED BY <1>10, <2>1, <2>2, <2>3
  <1>13. Back(g, p)
    BY <1>10, <1>12 DEF Back
  <1> QED BY <1>7, <1>9, <1>13

\* The next links of a list without its p-th timer.
LEMMA RemoveChain ==
  ASSUME NEW nx, NEW h, NEW q, Chain(nx, h, q), NEW p \in 1 .. Len(q),
         NEW f, p > 1 => f[q[p - 1]] = At(q, p + 1),
         \A i \in 1 .. Len(q) : i # p /\ i # p - 1 => f[q[i]] = nx[q[i]]
  PROVE  Chain(f, IF p = 1 THEN At(q, 2) ELSE h, Del(q, p))
  <1>1. PICK n \in Nat : n = Len(q)
    BY InRange DEF Chain
  <1>2. /\ q \in Seq(Timer) /\ h = At(q, 1) /\ p \in 1 .. n /\ Distinct(q)
        /\ \A i, j \in 1 .. n : q[i] = q[j] => i = j
        /\ \A i \in 1 .. n : nx[q[i]] = At(q, i + 1)
    BY <1>1 DEF Chain, Distinct
  <1>3. PICK d : d = Del(q, p)
    OBVIOUS
  <1>4. /\ d \in Seq(Timer) /\ Len(d) = n - 1
        /\ \A i \in 1 .. p - 1 : d[i] = q[i]
        /\ \A i \in p .. n - 1 : d[i] = q[i + 1]
    <2>1. Deleted(d, q, n, p)
      BY <1>1, <1>2, <1>3, DelFacts
    <2> QED BY <2>1 DEF Deleted
  <1>5. /\ \A i \in 0 .. p - 1 : At(d, i) = At(q, i)
        /\ \A i \in p .. n : At(d, i) = At(q, i + 1)
    BY <1>1, <1>2, <1>3, DelAt
  <1>6. \A i \in 1 .. n - 1 : f[d[i]] = At(d, i + 1)
    <2> SUFFICES ASSUME NEW i \in 1 .. n - 1 PROVE f[d[i]] = At(d, i + 1)
      OBVIOUS
    <2>1. CASE i < p - 1
      <3>1. i \in 1 .. p - 1 /\ i + 1 \in 0 .. p - 1 /\ i \in 1 .. n /\ i # p /\ i # p - 1
        BY <1>2, <2>1
      <3> QED BY <1>1, <1>2, <1>4, <1>5, <3>1
    <2>2. CASE i = p - 1
      <3>1. i \in 1 .. p - 1 /\ i + 1 = p /\ p \in p .. n /\ p > 1
        BY <1>2, <2>2
      <3>2. d[i] = q[p - 1] /\ At(d, i + 1) = At(q, p + 1)
        BY <1>4, <1>5, <2>2, <3>1
      <3> QED BY <3>1, <3>2
    <2>3. CASE i >= p
      <3>1. /\ i \in p .. n - 1 /\ i + 1 \in p .. n /\ i + 1 \in 1 .. n
            /\ i + 1 # p /\ i + 1 # p - 1
        BY <1>2, <2>3
      <3>2. d[i] = q[i + 1] /\ At(d, i + 1) = At(q, (i + 1) + 1)
        BY <1>4, <1>5, <3>1
      <3> QED BY <1>1, <1>2, <3>1, <3>2
    <2> QED BY <1>2, <2>1, <2>2, <2>3
  <1>7. At(d, 1) = IF p = 1 THEN At(q, 2) ELSE h
    <2>1. CASE p = 1
      <3>1. 1 \in p .. n /\ 1 + 1 = 2
        BY <1>2, <2>1
      <3> QED BY <1>5, <2>1, <3>1
    <2>2. CASE p # 1
      <3>1. 1 \in 0 .. p - 1
        BY <1>2, <2>2
      <3> QED BY <1>2, <1>5, <2>2, <3>1
    <2> QED BY <2>1, <2>2
  <1>8. Distinct(d)
    <2>1. ASSUME NEW i \in 1 .. n - 1, NEW j \in 1 .. n - 1, d[i] = d[j] PROVE i = j
      <3> DEFINE s(x) == IF x < p THEN x ELSE x + 1
      <3>1. \A x \in 1 .. n - 1 : d[x] = q[s(x)] /\ s(x) \in 1 .. n
        BY <1>2, <1>4
      <3>2. s(i) = s(j) => i = j
        BY <1>2
      <3> HIDE DEF s
      <3>3. d[i] = q[s(i)] /\ s(i) \in 1 .. n
        BY <3>1
      <3>4. d[j] = q[s(j)] /\ s(j) \in 1 .. n
        BY <3>1
      <3>5. q[s(i)] = q[s(j)]
        BY <2>1, <3>3, <3>4
      <3>6. s(i) = s(j)
        BY <1>2, <3>3, <3>4, <3>5
      <3> QED BY <3>2, <3>6
    <2> QED BY <1>4, <2>1 DEF Distinct
  <1> QED BY <1>3, <1>4, <1>6, <1>7, <1>8 DEF Chain

\* The prev links of a list without its p-th timer.
LEMMA RemoveBack ==
  ASSUME NEW pv, NEW q \in Seq(Timer), Distinct(q), Back(pv, q), NEW p \in 1 .. Len(q),
         NEW g, p < Len(q) => g[q[p + 1]] = At(q, p - 1),
         \A i \in 1 .. Len(q) : i # p /\ i # p + 1 => g[q[i]] = pv[q[i]]
  PROVE  Back(g, Del(q, p))
  <1>1. PICK n \in Nat : n = Len(q)
    BY InRange
  <1>2. p \in 1 .. n /\ \A i \in 1 .. n : pv[q[i]] = At(q, i - 1)
    BY <1>1 DEF Back
  <1>3. PICK d : d = Del(q, p)
    OBVIOUS
  <1>4. /\ Len(d) = n - 1
        /\ \A i \in 1 .. p - 1 : d[i] = q[i]
        /\ \A i \in p .. n - 1 : d[i] = q[i + 1]
    <2>1. Deleted(d, q, n, p)
      BY <1>1, <1>2, <1>3, DelFacts
    <2> QED BY <2>1 DEF Deleted
  <1>5. /\ \A i \in 0 .. p - 1 : At(d, i) = At(q, i)
        /\ \A i \in p .. n : At(d, i) = At(q, i + 1)
    BY <1>1, <1>2, <1>3, DelAt
  <1>6. \A i \in 1 .. n - 1 : g[d[i]] = At(d, i - 1)
    <2> SUFFICES ASSUME NEW i \in 1 .. n - 1 PROVE g[d[i]] = At(d, i - 1)
      OBVIOUS
    <2>1. CASE i < p
      <3>1. i \in 1 .. p - 1 /\ i - 1 \in 0 .. p - 1 /\ i \in 1 .. n /\ i # p /\ i # p + 1
        BY <1>2, <2>1
      <3> QED BY <1>1, <1>2, <1>4, <1>5, <3>1
    <2>2. CASE i = p
      <3>1. p \in p .. n - 1 /\ p - 1 \in 0 .. p - 1 /\ p < n
        BY <1>2, <2>2
      <3> QED BY <1>1, <1>4, <1>5, <2>2, <3>1
    <2>3. CASE i > p
      <3>1. /\ i \in p .. n - 1 /\ i - 1 \in p .. n /\ i + 1 \in 1 .. n
            /\ i + 1 # p /\ i + 1 # p + 1 /\ (i - 1) + 1 = i /\ (i + 1) - 1 = i
        BY <1>2, <2>3
      <3>2. d[i] = q[i + 1] /\ At(d, i - 1) = At(q, i)
        BY <1>4, <1>5, <3>1
      <3>3. pv[q[i + 1]] = At(q, i)
        BY <1>2, <3>1
      <3> QED BY <1>1, <3>1, <3>2, <3>3
    <2> QED BY <1>2, <2>1, <2>2, <2>3
  <1> QED BY <1>3, <1>4, <1>6 DEF Back

(***************************************************************************)
(* The operations of nb_timer.c on the sequences.                          *)
(***************************************************************************)

\* The first k timers of q are due at time to or before, the others later.
SplitAt(q, k, to) ==
  /\ \A i \in 1 .. k : timeout[q[i]] <= to
  /\ \A i \in k + 1 .. Len(q) : timeout[q[i]] > to

\* The loop of nb__insert_timer stops where the timeouts go beyond to.
LEMMA WalkStops ==
  ASSUME NEW nx, NEW h, NEW q, Chain(nx, h, q), timeout \in [Timer -> Int],
         Sorted(timeout, q), NEW to \in Int
  PROVE  \E k \in 0 .. Len(q) :
            SplitAt(q, k, to) /\ Walk(h, nx, to) = [curr |-> At(q, k + 1), before |-> At(q, k)]
  <1> DEFINE node == Follow(nx, h)
             stops == {k \in 0 .. PoolSize : node[k] = NULL \/ timeout[node[k]] > to}
  <1>1. PICK n \in Nat : n = Len(q) /\ n <= PoolSize /\ PoolSize \in Nat
    BY ChainLength, TimersAssumption
  <1>2. /\ q \in Seq(Timer)
        /\ \A i \in 1 .. n : At(q, i) = q[i] /\ q[i] # NULL /\ timeout[q[i]] \in Int
        /\ At(q, 0) = NULL /\ At(q, n + 1) = NULL
        /\ \A i, j \in 1 .. n : i < j => timeout[q[i]] <= timeout[q[j]]
    <2>1. q \in Seq(Timer)
      BY DEF Chain
    <2>2. /\ \A i \in 1 .. n : At(q, i) = q[i] /\ At(q, i) \in Timer /\ At(q, i) # NULL
          /\ At(q, 0) = NULL /\ At(q, n + 1) = NULL
      BY <1>1, <2>1, AtFacts
    <2>3. \A i \in 1 .. n : timeout[q[i]] \in Int
      BY <2>2
    <2> QED BY <1>1, <2>1, <2>2, <2>3 DEF Sorted
  <1>3. \A k \in 0 .. PoolSize : node[k] = At(q, k + 1)
    BY FollowChain
  <1>4. Walk(h, nx, to) = [curr |-> node[Min(stops)],
                           before |-> IF Min(stops) = 0 THEN NULL ELSE node[Min(stops) - 1]]
    BY DEF Walk
  <1> HIDE DEF node
  <1>5. stops \in SUBSET Nat /\ n \in stops
    BY <1>1, <1>2, <1>3
  <1>6. PICK k : k = Min(stops)
    OBVIOUS
  <1>7. k \in stops /\ \A y \in stops : k <= y
    BY <1>5, <1>6, MinProperties
  <1>8. k \in 0 .. n /\ k \in 0 .. PoolSize
    BY <1>1, <1>5, <1>7
  <1>9. \A i \in 1 .. k : timeout[q[i]] <= to
    <2>1. ASSUME NEW i \in 1 .. k PROVE timeout[q[i]] <= to
      <3>1. i - 1 \in 0 .. PoolSize /\ (i - 1) + 1 = i /\ ~(k <= i - 1) /\ i \in 1 .. n
        BY <1>1, <1>8
      <3>2. i - 1 \notin stops
        BY <1>7, <3>1
      <3>3. node[i - 1] = q[i] /\ q[i] # NULL /\ timeout[q[i]] \in Int
        BY <1>2, <1>3, <3>1
      <3> QED BY <3>1, <3>2, <3>3
    <2> QED BY <2>1
  <1>10. \A i \in k + 1 .. n : timeout[q[i]] > to
    <2>1. ASSUME NEW i \in k + 1 .. n PROVE timeout[q[i]] > to
      <3>1. k + 1 \in 1 .. n /\ i \in 1 .. n /\ (k + 1 = i \/ k + 1 < i)
        BY <1>8
      <3>2. node[k] = q[k + 1] /\ q[k + 1] # NULL
        BY <1>2, <1>3, <1>8, <3>1
      <3>3. timeout[q[k + 1]] > to
        BY <1>7, <3>2
      <3>4. timeout[q[k + 1]] <= timeout[q[i]]
        BY <1>2, <3>1
      <3>5. timeout[q[k + 1]] \in Int /\ timeout[q[i]] \in Int
        BY <1>2, <3>1
      <3> QED BY <3>3, <3>4, <3>5
    <2> QED BY <2>1
  <1>11. node[k] = At(q, k + 1) /\ (IF k = 0 THEN NULL ELSE node[k - 1]) = At(q, k)
    <2>1. CASE k = 0
      BY <1>2, <1>3, <1>8, <2>1
    <2>2. CASE k # 0
      <3>1. k - 1 \in 0 .. PoolSize /\ (k - 1) + 1 = k
        BY <1>1, <1>8, <2>2
      <3> QED BY <1>3, <1>8, <2>2, <3>1
    <2> QED BY <2>1, <2>2
  <1>12. Walk(h, nx, to) = [curr |-> At(q, k + 1), before |-> At(q, k)]
    <2> HIDE DEF stops
    <2> QED BY <1>4, <1>6, <1>11
  <1>13. SplitAt(q, k, to)
    BY <1>1, <1>9, <1>10 DEF SplitAt
  <1> QED BY <1>1, <1>8, <1>12, <1>13

\* A timer inserted where the timeouts go beyond its own keeps the order.
LEMMA InsertSorted ==
  ASSUME timeout \in [Timer -> Int], NEW q \in Seq(Timer), Sorted(timeout, q),
         NEW t \in Timer, t \notin Range(q), NEW to \in Int,
         NEW k \in 0 .. Len(q), SplitAt(q, k, to),
         NEW e, e = [timeout EXCEPT ![t] = to]
  PROVE  Sorted(e, Ins(q, k, t))
  <1>1. PICK n \in Nat : n = Len(q)
    BY InRange
  <1>2. /\ k \in 0 .. n
        /\ \A i, j \in 1 .. n : i < j => timeout[q[i]] <= timeout[q[j]]
        /\ \A i \in 1 .. k : timeout[q[i]] <= to
        /\ \A i \in k + 1 .. n : timeout[q[i]] > to
    BY <1>1 DEF Sorted, SplitAt
  <1>3. \A i \in 1 .. n : e[q[i]] = timeout[q[i]] /\ timeout[q[i]] \in Int
    BY <1>1, InRange
  <1>4. PICK p : p = Ins(q, k, t)
    OBVIOUS
  <1>5. /\ Len(p) = n + 1
        /\ \A i \in 1 .. k : p[i] = q[i]
        /\ p[k + 1] = t
        /\ \A i \in k + 1 .. n : p[i + 1] = q[i]
        /\ \A i \in 1 .. n + 1 : i \in 1 .. k \/ i = k + 1 \/ i - 1 \in k + 1 .. n
    <2>1. Inserted(p, q, n, k, t)
      BY <1>1, <1>2, <1>4, InsFacts
    <2> QED BY <2>1 DEF Inserted
  <1>6. e[t] = to
    OBVIOUS
  <1>7. \A i \in 1 .. k : e[p[i]] = timeout[q[i]] /\ e[p[i]] <= to /\ e[p[i]] \in Int
    BY <1>2, <1>3, <1>5
  <1>8. \A i \in 1 .. n + 1 : i - 1 \in k + 1 .. n =>
           /\ e[p[i]] = timeout[q[i - 1]] /\ e[p[i]] > to /\ e[p[i]] \in Int
           /\ i - 1 \in 1 .. n
    <2>1. ASSUME NEW i \in 1 .. n + 1, i - 1 \in k + 1 .. n
          PROVE  /\ e[p[i]] = timeout[q[i - 1]] /\ e[p[i]] > to /\ e[p[i]] \in Int
                 /\ i - 1 \in 1 .. n
      <3>1. (i - 1) + 1 = i /\ i - 1 \in 1 .. n
        BY <1>2, <2>1
      <3>2. p[i] = q[i - 1]
        BY <1>5, <2>1, <3>1
      <3> QED BY <1>2, <1>3, <2>1, <3>1, <3>2
    <2> QED BY <2>1
  <1>9. ASSUME NEW i \in 1 .. n + 1, NEW j \in 1 .. n + 1, i < j
        PROVE  e[p[i]] <= e[p[j]]
    <2>1. CASE i \in 1 .. k /\ j \in 1 .. k
      <3>1. e[p[i]] = timeout[q[i]] /\ e[p[j]] = timeout[q[j]]
        BY <1>7, <2>1
      <3>2. i \in 1 .. n /\ j \in 1 .. n
        BY <1>2, <2>1
      <3> QED BY <1>2, <1>9, <3>1, <3>2
    <2>2. CASE i \in 1 .. k /\ j = k + 1
      BY <1>5, <1>6, <1>7, <2>2
    <2>3. CASE i \in 1 .. k /\ j - 1 \in k + 1 .. n
      <3>1. e[p[i]] <= to /\ e[p[i]] \in Int
        BY <1>7, <2>3
      <3>2. e[p[j]] > to /\ e[p[j]] \in Int
        BY <1>8, <2>3
      <3> QED BY <3>1, <3>2
    <2>4. CASE i = k + 1 /\ j - 1 \in k + 1 .. n
      <3>1. e[p[i]] = to
        BY <1>5, <1>6, <2>4
      <3>2. e[p[j]] > to /\ e[p[j]] \in Int
        BY <1>8, <2>4
      <3> QED BY <3>1, <3>2
    <2>5. CASE i - 1 \in k + 1 .. n /\ j - 1 \in k + 1 .. n
      <3>1. e[p[i]] = timeout[q[i - 1]] /\ i - 1 \in 1 .. n
        BY <1>8, <2>5
      <3>2. e[p[j]] = timeout[q[j - 1]] /\ j - 1 \in 1 .. n
        BY <1>8, <2>5
      <3>3. i - 1 < j - 1
        BY <1>9
      <3> QED BY <1>2, <3>1, <3>2, <3>3
    <2>6. /\ i \in 1 .. k \/ i = k + 1 \/ i - 1 \in k + 1 .. n
          /\ j \in 1 .. k \/ j = k + 1 \/ j - 1 \in k + 1 .. n
      BY <1>5
    <2> QED BY <1>2, <1>9, <2>1, <2>2, <2>3, <2>4, <2>5, <2>6
  <1> QED BY <1>4, <1>5, <1>9 DEF Sorted

\* After nb__insert_timer the list has t behind its first k timers, and the
\* links of the timers outside of it are what they were.
InsertsAt(q, k, t, to, nx) ==
  /\ SplitAt(q, k, to)
  /\ ArmedList(timers_head', next', prev', timeout', Ins(q, k, t))
  /\ next' \in [Timer -> Int] /\ prev' \in [Timer -> Int] /\ timeout' \in [Timer -> Int]
  /\ SameElsewhere(next', nx, q, t)

\* nb__insert_timer inserts t behind the timers that are not later.
LEMMA InsertList ==
  ASSUME timeout \in [Timer -> Int], NEW nx \in [Timer -> Int], NEW pv \in [Timer -> Int],
         NEW h, NEW q, ArmedList(h, nx, pv, timeout, q),
         NEW t \in Timer, t \notin Range(q), NEW to \in Int, Insert(t, to, h, nx, pv)
  PROVE  \E k \in 0 .. Len(q) : InsertsAt(q, k, t, to, nx)
  <1>1. Chain(nx, h, q) /\ Back(pv, q) /\ Sorted(timeout, q) /\ q \in Seq(Timer) /\ Distinct(q)
    BY DEF ArmedList, Chain
  <1>2. PICK k \in 0 .. Len(q) :
          SplitAt(q, k, to) /\ Walk(h, nx, to) = [curr |-> At(q, k + 1), before |-> At(q, k)]
    BY <1>1, WalkStops
  <1>3. /\ timers_head' = IF At(q, k) = NULL THEN t ELSE h
        /\ next' = Set([nx EXCEPT ![t] = At(q, k + 1)], At(q, k), t)
        /\ prev' = Set([pv EXCEPT ![t] = At(q, k)], At(q, k + 1), t)
        /\ timeout' = [timeout EXCEPT ![t] = to]
    BY <1>2 DEF Insert
  <1>4. /\ next' \in [Timer -> Int]
        /\ Chain(next', timers_head', Ins(q, k, t))
        /\ SameElsewhere(next', nx, q, t)
    <2>1. PICK f : f = Set([nx EXCEPT ![t] = At(q, k + 1)], At(q, k), t)
      OBVIOUS
    <2>2. f \in [Timer -> Int] /\ Chain(f, IF At(q, k) = NULL THEN t ELSE h, Ins(q, k, t))
      BY <1>1, <2>1, InsertChain
    <2>3. SameElsewhere(f, nx, q, t)
      BY <1>1, <2>1, InsertChain
    <2>4. next' = f /\ timers_head' = IF At(q, k) = NULL THEN t ELSE h
      BY <1>3, <2>1
    <2> QED BY <2>2, <2>3, <2>4
  <1>5. prev' \in [Timer -> Int] /\ Back(prev', Ins(q, k, t))
    BY <1>1, <1>3, InsertBack
  <1>6. timeout' \in [Timer -> Int]
    BY <1>3
  <1>7. Sorted(timeout', Ins(q, k, t))
    BY <1>1, <1>2, <1>3, InsertSorted
  <1>8. InsertsAt(q, k, t, to, nx)
    BY <1>2, <1>4, <1>5, <1>6, <1>7 DEF InsertsAt, ArmedList
  <1> QED BY <1>8

\* Without one timer the order is what it was.
LEMMA RemoveSorted ==
  ASSUME NEW to, NEW q \in Seq(Timer), Distinct(q), Sorted(to, q), NEW p \in 1 .. Len(q)
  PROVE  Sorted(to, Del(q, p))
  <1>1. PICK n \in Nat : n = Len(q)
    BY InRange
  <1>2. PICK d : d = Del(q, p)
    OBVIOUS
  <1>3. /\ Len(d) = n - 1
        /\ \A i \in 1 .. p - 1 : d[i] = q[i]
        /\ \A i \in p .. n - 1 : d[i] = q[i + 1]
    <2>1. Deleted(d, q, n, p)
      BY <1>1, <1>2, DelFacts
    <2> QED BY <2>1 DEF Deleted
  <1> DEFINE s(x) == IF x < p THEN x ELSE x + 1
  <1>4. \A x \in 1 .. n - 1 : d[x] = q[s(x)] /\ s(x) \in 1 .. n
    BY <1>1, <1>3
  <1>5. \A i, j \in 1 .. n - 1 : i < j => s(i) < s(j)
    BY <1>1
  <1> HIDE DEF s
  <1>6. ASSUME NEW i \in 1 .. n - 1, NEW j \in 1 .. n - 1, i < j
        PROVE  to[d[i]] <= to[d[j]]
    <2>1. s(i) \in 1 .. n /\ s(j) \in 1 .. n /\ s(i) < s(j)
      BY <1>4, <1>5, <1>6
    <2>2. to[q[s(i)]] <= to[q[s(j)]]
      BY <1>1, <2>1 DEF Sorted
    <2>3. d[i] = q[s(i)] /\ d[j] = q[s(j)]
      BY <1>4
    <2> QED BY <2>2, <2>3
  <1> QED BY <1>2, <1>3, <1>6 DEF Sorted

\* After nb__remove_timer the list is without its p-th timer, and the links
\* of the timers outside of it are what they were.
RemovesAt(q, p, rm) ==
  /\ ArmedList(rm.head, rm.nx, rm.pv, timeout, Del(q, p))
  /\ rm.nx \in [Timer -> Int] /\ rm.pv \in [Timer -> Int]
  /\ \A u \in Timer : u \notin Range(q) => rm.nx[u] = next[u]

\* nb__remove_timer, which follows the next and the prev of its timer,
\* unlinks exactly that timer.
LEMMA RemoveList ==
  ASSUME TimersType, NEW q, ArmedList(timers_head, next, prev, timeout, q),
         NEW p \in 1 .. Len(q), NEW t, t = q[p]
  PROVE  RemovesAt(q, p, Remove(t))
  <1>1. /\ Chain(next, timers_head, q) /\ Back(prev, q) /\ Sorted(timeout, q)
        /\ q \in Seq(Timer) /\ Distinct(q)
    BY DEF ArmedList, Chain
  <1>2. PICK n \in Nat : n = Len(q)
    BY <1>1, InRange
  <1>3. /\ p \in 1 .. n /\ t \in Timer /\ next[t] = At(q, p + 1) /\ prev[t] = At(q, p - 1)
        /\ \A i, j \in 1 .. n : q[i] = q[j] => i = j
    BY <1>1, <1>2, InRange DEF Chain, Back, Distinct
  <1>4. /\ \A i \in 1 .. n : At(q, i) = q[i] /\ At(q, i) # NULL
        /\ At(q, 0) = NULL /\ At(q, n + 1) = NULL
        /\ At(q, p - 1) = NULL \/ At(q, p - 1) \in Timer
        /\ At(q, p + 1) = NULL \/ At(q, p + 1) \in Timer
        /\ At(q, p - 1) \in Int /\ At(q, p + 1) \in Int
    <2>1. p - 1 \in 0 .. n + 1 /\ p + 1 \in 0 .. n + 1
      BY <1>3
    <2> QED BY <1>1, <1>2, <2>1, AtFacts
  <1>5. \A i \in 1 .. n : q[i] \in Timer /\ q[i] \in Range(q)
    BY <1>1, <1>2, InRange
  <1>6. PICK f : f = [Set(next, At(q, p - 1), At(q, p + 1)) EXCEPT ![t] = NULL]
    OBVIOUS
  <1>7. PICK g : g = [Set(prev, At(q, p + 1), At(q, p - 1)) EXCEPT ![t] = NULL]
    OBVIOUS
  <1>8. PICK hd : hd = IF At(q, p - 1) = NULL THEN At(q, p + 1) ELSE timers_head
    OBVIOUS
  <1>9. Remove(t) = [head |-> hd, nx |-> f, pv |-> g]
    BY <1>3, <1>6, <1>7, <1>8 DEF Remove
  <1>10. /\ f \in [Timer -> Int]
         /\ At(q, p - 1) # NULL /\ At(q, p - 1) # t => f[At(q, p - 1)] = At(q, p + 1)
         /\ \A u \in Timer : u # t /\ u # At(q, p - 1) => f[u] = next[u]
    BY <1>3, <1>4, <1>6 DEF Set, TimersType, NULL
  <1>11. /\ g \in [Timer -> Int]
         /\ At(q, p + 1) # NULL /\ At(q, p + 1) # t => g[At(q, p + 1)] = At(q, p - 1)
         /\ \A u \in Timer : u # t /\ u # At(q, p + 1) => g[u] = prev[u]
    BY <1>3, <1>4, <1>7 DEF Set, TimersType, NULL
  <1>12. Chain(f, hd, Del(q, p))
    <2>1. p > 1 => f[q[p - 1]] = At(q, p + 1)
      <3> SUFFICES ASSUME p > 1 PROVE f[q[p - 1]] = At(q, p + 1)
        OBVIOUS
      <3>1. p - 1 \in 1 .. n /\ p - 1 # p
        BY <1>3
      <3>2. At(q, p - 1) = q[p - 1] /\ q[p - 1] # NULL /\ q[p - 1] # t
        BY <1>3, <1>4, <3>1
      <3> QED BY <1>10, <3>2
    <2>2. ASSUME NEW i \in 1 .. n, i # p, i # p - 1 PROVE f[q[i]] = next[q[i]]
      <3>1. q[i] # t
        BY <1>3, <2>2
      <3>2. q[i] # At(q, p - 1)
        <4>1. CASE p = 1
          BY <1>4, <4>1
        <4>2. CASE p # 1
          <5>1. p - 1 \in 1 .. n
            BY <1>3, <4>2
          <5> QED BY <1>3, <1>4, <2>2, <5>1
        <4> QED BY <4>1, <4>2
      <3> QED BY <1>5, <1>10, <3>1, <3>2
    <2>3. hd = IF p = 1 THEN At(q, 2) ELSE timers_head
      <3>1. CASE p = 1
        BY <1>4, <1>8, <3>1
      <3>2. CASE p # 1
        <4>1. p - 1 \in 1 .. n
          BY <1>3, <3>2
        <4> QED BY <1>4, <1>8, <3>2, <4>1
      <3> QED BY <3>1, <3>2
    <2>4. Chain(f, IF p = 1 THEN At(q, 2) ELSE timers_head, Del(q, p))
      BY <1>1, <1>2, <2>1, <2>2, RemoveChain
    <2> QED BY <2>3, <2>4
  <1>13. Back(g, Del(q, p))
    <2>1. p < n => g[q[p + 1]] = At(q, p - 1)
      <3> SUFFICES ASSUME p < n PROVE g[q[p + 1]] = At(q, p - 1)
        OBVIOUS
      <3>1. p + 1 \in 1 .. n /\ p + 1 # p
        BY <1>3
      <3>2. At(q, p + 1) = q[p + 1] /\ q[p + 1] # NULL /\ q[p + 1] # t
        BY <1>3, <1>4, <3>1
      <3> QED BY <1>11, <3>2
    <2>2. ASSUME NEW i \in 1 .. n, i # p, i # p + 1 PROVE g[q[i]] = prev[q[i]]
      <3>1. q[i] # t
        BY <1>3, <2>2
      <3>2. q[i] # At(q, p + 1)
        <4>1. CASE p = n
          BY <1>4, <4>1
        <4>2. CASE p # n
          <5>1. p + 1 \in 1 .. n
            BY <1>3, <4>2
          <5> QED BY <1>3, <1>4, <2>2, <5>1
        <4> QED BY <4>1, <4>2
      <3> QED BY <1>5, <1>11, <3>1, <3>2
    <2> QED BY <1>1, <1>2, <2>1, <2>2, RemoveBack
  <1>14. Sorted(timeout, Del(q, p))
    BY <1>1, RemoveSorted
  <1>15. ASSUME NEW u \in Timer, u \notin Range(q) PROVE f[u] = next[u]
    <2>1. u # t
      BY <1>3, <1>5, <1>15
    <2>2. u # At(q, p - 1)
      <3>1. CASE p = 1
        BY <1>4, <3>1 DEF Timer, NULL
      <3>2. CASE p # 1
        <4>1. p - 1 \in 1 .. n
          BY <1>3, <3>2
        <4> QED BY <1>4, <1>5, <1>15, <4>1
      <3> QED BY <3>1, <3>2
    <2> QED BY <1>10, <2>1, <2>2
  <1> QED BY <1>9, <1>10, <1>11, <1>12, <1>13, <1>14, <1>15 DEF RemovesAt, ArmedList

\* Links that are the same on the timers of a list lead through the same list.
LEMMA ChainFrame ==
  ASSUME NEW f, NEW h, NEW q, Chain(f, h, q), NEW g,
         \A u \in Range(q) : g[u] = f[u]
  PROVE  Chain(g, h, q)
  <1>1. \A i \in 1 .. Len(q) : q[i] \in Range(q)
    BY InRange DEF Chain
  <1> QED BY <1>1 DEF Chain

\* Inserting adds its timer to the list and no other.
LEMMA InsRange ==
  ASSUME NEW q \in Seq(Timer), NEW k \in 0 .. Len(q), NEW t \in Timer
  PROVE  Range(Ins(q, k, t)) = Range(q) \union {t}
  <1>1. PICK n \in Nat : n = Len(q)
    BY InRange
  <1>2. PICK p : p = Ins(q, k, t)
    OBVIOUS
  <1>3. Inserted(p, q, n, k, t)
    BY <1>1, <1>2, InsFacts
  <1> QED BY <1>2, <1>3 DEF Inserted

\* Removing takes its timer out of the list and no other.
LEMMA DelRange ==
  ASSUME NEW q \in Seq(Timer), NEW p \in 1 .. Len(q), Distinct(q)
  PROVE  Del(q, p) \in Seq(Timer) /\ Range(Del(q, p)) = Range(q) \ {q[p]}
  <1>1. PICK n \in Nat : n = Len(q)
    BY InRange
  <1>2. PICK d : d = Del(q, p)
    OBVIOUS
  <1>3. Deleted(d, q, n, p)
    BY <1>1, <1>2, DelFacts
  <1> QED BY <1>2, <1>3 DEF Deleted

\* The two lists of a state that satisfies the invariant.
LEMMA InvLists ==
  ASSUME IndInv, NEW a, a = Armed, NEW b, b = Free
  PROVE  /\ TimersType
         /\ ArmedList(timers_head, next, prev, timeout, a) /\ Chain(next, free_list, b)
         /\ Chain(next, timers_head, a)
         /\ a \in Seq(Timer) /\ b \in Seq(Timer) /\ Distinct(a) /\ Distinct(b)
         /\ Shared(a, b)
  BY DEF IndInv, ArmedList, Chain

\* A state whose links lead through two lists that share the pool satisfies
\* the invariant, and those are its lists.
LEMMA ListsInv ==
  ASSUME NEW a, NEW b, TimersType',
         ArmedList(timers_head', next', prev', timeout', a), Chain(next', free_list', b),
         Shared(a, b)
  PROVE  IndInv' /\ Armed' = a /\ Free' = b
  <1>1. Armed' = a
    <2>1. ListOf(next', timers_head') = a
      BY ListOfChain DEF ArmedList
    <2>2. Armed' = ListOf(next', timers_head')
      BY DEF Armed, ListOf, Follow
    <2> QED BY <2>1, <2>2
  <1>2. Free' = b
    <2>1. ListOf(next', free_list') = b
      BY ListOfChain
    <2>2. Free' = ListOf(next', free_list')
      BY DEF Free, ListOf, Follow
    <2> QED BY <2>1, <2>2
  <1>3. ArmedList(timers_head, next, prev, timeout, Armed)'
    BY <1>1 DEF ArmedList, Chain, Back, Sorted, At
  <1>4. Chain(next, free_list, Free)' /\ Shared(Armed, Free)'
    BY <1>1, <1>2 DEF Chain, Shared, At
  <1> QED BY <1>1, <1>2, <1>3, <1>4 DEF IndInv

\* nb__init_timers leaves all timers on the free list.
LEMMA TimersInit == Init => IndInv /\ Armed = << >>
  <1> SUFFICES ASSUME Init PROVE IndInv /\ Armed = << >>
    OBVIOUS
  <1>1. TimersType /\ PoolSize \in Nat \ {0}
    BY TimersAssumption DEF Init, TimersType, Timer, NULL
  <1> DEFINE b == [i \in 1 .. PoolSize |-> i]
  <1>2. << >> \in Seq(Timer) /\ Len(<< >>) = 0
    BY EmptySeq
  <1>3. ArmedList(timers_head, next, prev, timeout, << >>)
    <2>1. At(<< >>, 1) = NULL
      BY <1>2 DEF At
    <2>2. Chain(next, timers_head, << >>)
      BY <1>2, <2>1 DEF Chain, Distinct, Init
    <2> QED BY <1>2, <2>2 DEF ArmedList, Back, Sorted
  <1>4. b \in Seq(Timer) /\ Len(b) = PoolSize
    BY <1>1 DEF Timer
  <1>5. /\ \A i \in 1 .. PoolSize : b[i] = i
    OBVIOUS
  <1> HIDE DEF b
  <1>6. \A i \in 1 .. PoolSize : next[b[i]] = At(b, i + 1)
    BY <1>1, <1>4, <1>5 DEF Init, Timer, At, NULL
  <1>7. free_list = At(b, 1)
    BY <1>1, <1>4, <1>5 DEF Init, At
  <1>8. Chain(next, free_list, b)
    BY <1>4, <1>5, <1>6, <1>7 DEF Chain, Distinct
  <1>9. Shared(<< >>, b)
    <2>1. Range(<< >>) = {}
      <3>1. PICK e \in Seq(Timer) : e = << >> /\ Len(e) = 0
        BY <1>2
      <3>2. \A x \in Range(e) : \E i \in 1 .. Len(e) : e[i] = x
        BY InRange
      <3>3. Range(e) = {}
        BY <3>1, <3>2
      <3> QED BY <3>1, <3>3
    <2>2. Range(b) \subseteq Timer
      BY <1>4, InRange
    <2>3. ASSUME NEW i \in Timer PROVE i \in Range(b)
      <3>1. i \in 1 .. Len(b) /\ b[i] = i
        BY <1>4, <1>5 DEF Timer
      <3> QED BY <1>4, <3>1, InRange
    <2> QED BY <2>1, <2>2, <2>3 DEF Shared
  <1>10. Armed = << >> /\ Free = b
    BY <1>3, <1>8, ListOfChain DEF Armed, Free, ArmedList
  <1> QED BY <1>1, <1>3, <1>8, <1>9, <1>10 DEF IndInv

\* reliable.hook_send takes the first free timer and inserts it behind the
\* timers that are not later.
LEMMA AllocInsertStep ==
  ASSUME IndInv, NEW d \in Delays, AllocInsert(d), NEW a, a = Armed, NEW t, t = free_list
  PROVE  /\ IndInv' /\ t \in Timer /\ t \notin Range(a)
         /\ \E k \in 0 .. Len(a) : SplitAt(a, k, now + d) /\ Armed' = Ins(a, k, t)
  <1>1. PICK b : b = Free
    OBVIOUS
  <1>2. /\ TimersType
        /\ ArmedList(timers_head, next, prev, timeout, a) /\ Chain(next, t, b)
        /\ a \in Seq(Timer) /\ b \in Seq(Timer) /\ Distinct(a) /\ Distinct(b)
        /\ Shared(a, b)
    BY <1>1, InvLists
  <1>3. 1 \in 1 .. Len(b) /\ t = b[1] /\ next[t] = At(b, 2)
    <2>1. t = At(b, 1) /\ t # NULL
      BY <1>2 DEF AllocInsert, Chain
    <2>2. 1 \in 1 .. Len(b) /\ t = b[1]
      BY <2>1 DEF At
    <2> QED BY <1>2, <2>2 DEF Chain
  <1>4. t \in Timer /\ t \notin Range(a) /\ t \in Range(b)
    BY <1>2, <1>3, InRange DEF Shared
  <1>5. now + d \in Int /\ timeout \in [Timer -> Int] /\ next \in [Timer -> Int]
        /\ prev \in [Timer -> Int] /\ now \in Nat
    BY <1>2, TimersAssumption DEF TimersType
  <1>6. /\ Insert(t, now + d, timers_head, next, prev)
        /\ free_list' = next[t] /\ now' = now
    BY DEF AllocInsert
  <1>7. PICK k \in 0 .. Len(a) : InsertsAt(a, k, t, now + d, next)
    BY <1>2, <1>4, <1>5, <1>6, InsertList
  <1>8. Chain(next, next[t], Del(b, 1))
    <2>1. Chain(next, IF 1 = 1 THEN At(b, 2) ELSE t, Del(b, 1))
      BY <1>2, <1>3, RemoveChain
    <2> QED BY <1>3, <2>1
  <1>9. Range(Ins(a, k, t)) = Range(a) \union {t} /\ Range(Del(b, 1)) = Range(b) \ {t}
    BY <1>2, <1>3, <1>4, InsRange, DelRange
  <1>10. Chain(next', free_list', Del(b, 1))
    <2>1. ASSUME NEW u \in Range(Del(b, 1)) PROVE next'[u] = next[u]
      <3>1. u \in Timer /\ u \notin Range(a) /\ u # t
        BY <1>2, <1>9 DEF Shared
      <3> QED BY <1>7, <3>1 DEF InsertsAt, SameElsewhere
    <2> QED BY <1>6, <1>8, <2>1, ChainFrame
  <1>11. Shared(Ins(a, k, t), Del(b, 1))
    BY <1>2, <1>4, <1>9 DEF Shared
  <1>12. TimersType'
    BY <1>5, <1>6, <1>7 DEF InsertsAt, TimersType
  <1>13. IndInv' /\ Armed' = Ins(a, k, t)
    BY <1>7, <1>10, <1>11, <1>12, ListsInv DEF InsertsAt
  <1> QED BY <1>4, <1>7, <1>13 DEF InsertsAt

\* reliable.hook_ingress takes the timer of an acknowledged packet out of the
\* list and puts it first on the free list.
LEMMA RemoveReturnStep ==
  ASSUME IndInv, NEW t \in Timer, RemoveReturn(t), NEW a, a = Armed
  PROVE  /\ IndInv'
         /\ \E p \in 1 .. Len(a) : a[p] = t /\ Armed' = Del(a, p)
  <1>1. PICK b : b = Free
    OBVIOUS
  <1>2. /\ TimersType
        /\ ArmedList(timers_head, next, prev, timeout, a) /\ Chain(next, free_list, b)
        /\ a \in Seq(Timer) /\ b \in Seq(Timer) /\ Distinct(a) /\ Distinct(b)
        /\ Shared(a, b)
    BY <1>1, InvLists
  <1>3. PICK p \in 1 .. Len(a) : a[p] = t
    BY <1>2, InRange DEF RemoveReturn
  <1>4. PICK rm : rm = Remove(t)
    OBVIOUS
  <1>5. /\ timers_head' = rm.head
        /\ next' = [rm.nx EXCEPT ![t] = free_list]
        /\ prev' = rm.pv
        /\ timeout' = [timeout EXCEPT ![t] = Never]
        /\ free_list' = t /\ now' = now
    BY <1>4 DEF RemoveReturn
  <1>6. /\ Chain(rm.nx, rm.head, Del(a, p)) /\ Back(rm.pv, Del(a, p))
        /\ Sorted(timeout, Del(a, p))
        /\ rm.nx \in [Timer -> Int] /\ rm.pv \in [Timer -> Int]
        /\ \A u \in Timer : u \notin Range(a) => rm.nx[u] = next[u]
    <2>1. RemovesAt(a, p, rm)
      BY <1>2, <1>3, <1>4, RemoveList
    <2> QED BY <2>1 DEF RemovesAt, ArmedList
  <1>7. Del(a, p) \in Seq(Timer) /\ Range(Del(a, p)) = Range(a) \ {t}
    BY <1>2, <1>3, DelRange
  <1>8. t \notin Range(b) /\ t \in Range(a)
    BY <1>2, <1>3, InRange DEF Shared
  <1>9. Chain(next', t, Ins(b, 0, t)) /\ next' \in [Timer -> Int]
    <2>1. ASSUME NEW u \in Range(b) PROVE rm.nx[u] = next[u]
      BY <1>2, <1>6 DEF Shared
    <2>2. Chain(rm.nx, free_list, b)
      BY <1>2, <2>1, ChainFrame
    <2>3. At(b, 0) = NULL /\ At(b, 0 + 1) = free_list /\ 0 \in 0 .. Len(b)
      <3>1. Len(b) \in Nat
        BY <1>2, InRange
      <3> QED BY <1>2, <3>1 DEF At, Chain
    <2>4. next' = Set([rm.nx EXCEPT ![t] = At(b, 0 + 1)], At(b, 0), t)
      BY <1>5, <2>3 DEF Set
    <2>5. /\ next' \in [Timer -> Int]
          /\ Chain(next', IF At(b, 0) = NULL THEN t ELSE free_list, Ins(b, 0, t))
      BY <1>6, <1>8, <2>2, <2>3, <2>4, InsertChain
    <2> QED BY <2>3, <2>5
  <1>10. ArmedList(timers_head', next', prev', timeout', Del(a, p))
    <2>1. ASSUME NEW u \in Range(Del(a, p)) PROVE next'[u] = rm.nx[u] /\ timeout'[u] = timeout[u]
      <3>1. u # t /\ u \in Timer
        BY <1>7, <1>2, InRange
      <3> QED BY <1>2, <1>5, <1>6, <3>1 DEF TimersType
    <2>2. Chain(next', rm.head, Del(a, p))
      BY <1>6, <2>1, ChainFrame
    <2>3. Sorted(timeout', Del(a, p))
      <3>1. PICK e \in Seq(Timer) : e = Del(a, p)
        BY <1>7
      <3>2. \A i \in 1 .. Len(e) : timeout'[e[i]] = timeout[e[i]]
        BY <2>1, <3>1, InRange
      <3>3. Sorted(timeout', e)
        BY <1>6, <3>1, <3>2 DEF Sorted
      <3> QED BY <3>1, <3>3
    <2> QED BY <1>5, <1>6, <2>2, <2>3 DEF ArmedList
  <1>11. Shared(Del(a, p), Ins(b, 0, t))
    <2>1. 0 \in 0 .. Len(b)
      BY <1>2, InRange
    <2>2. Range(Ins(b, 0, t)) = Range(b) \union {t}
      BY <1>2, <2>1, InsRange
    <2> QED BY <1>2, <1>7, <1>8, <2>2 DEF Shared
  <1>12. TimersType'
    <2>1. timeout' \in [Timer -> Int]
      BY <1>2, <1>5 DEF TimersType, Never
    <2> QED BY <1>2, <1>5, <1>6, <1>9, <2>1 DEF TimersType
  <1>13. IndInv' /\ Armed' = Del(a, p)
    BY <1>5, <1>9, <1>10, <1>11, <1>12, ListsInv
  <1> QED BY <1>3, <1>13

\* One turn of nb__check_timers takes the first timer out of the list and
\* inserts it again behind the timers that are not later.
LEMMA FireStep ==
  ASSUME IndInv, NEW d \in Delays, Fire(d), NEW a, a = Armed, NEW t, t = timers_head
  PROVE  /\ IndInv' /\ 1 \in 1 .. Len(a) /\ a[1] = t
         /\ \E k \in 0 .. Len(Del(a, 1)) :
              SplitAt(Del(a, 1), k, now + d) /\ Armed' = Ins(Del(a, 1), k, t)
  <1>1. PICK b : b = Free
    OBVIOUS
  <1>2. /\ TimersType
        /\ ArmedList(timers_head, next, prev, timeout, a) /\ Chain(next, free_list, b)
        /\ Chain(next, t, a)
        /\ a \in Seq(Timer) /\ b \in Seq(Timer) /\ Distinct(a) /\ Distinct(b)
        /\ Shared(a, b)
    BY <1>1, InvLists
  <1>3. 1 \in 1 .. Len(a) /\ a[1] = t
    <2>1. t = At(a, 1) /\ t # NULL
      BY <1>2 DEF Fire, Chain
    <2> QED BY <2>1 DEF At
  <1>4. t \in Timer /\ t \in Range(a) /\ t \notin Range(b)
    BY <1>2, <1>3, InRange DEF Shared
  <1>5. PICK rm : rm = Remove(t)
    OBVIOUS
  <1>6. PICK c : c = Del(a, 1)
    OBVIOUS
  <1>7. c \in Seq(Timer) /\ Range(c) = Range(a) \ {t}
    BY <1>2, <1>3, <1>6, DelRange
  <1>8. /\ ArmedList(rm.head, rm.nx, rm.pv, timeout, c)
        /\ rm.nx \in [Timer -> Int] /\ rm.pv \in [Timer -> Int]
        /\ \A u \in Timer : u \notin Range(a) => rm.nx[u] = next[u]
    <2>1. RemovesAt(a, 1, rm)
      BY <1>2, <1>3, <1>5, RemoveList
    <2> QED BY <1>6, <2>1 DEF RemovesAt
  <1>9. now + d \in Int /\ timeout \in [Timer -> Int] /\ now \in Nat
    BY <1>2, TimersAssumption DEF TimersType
  <1>10. Insert(t, now + d, rm.head, rm.nx, rm.pv) /\ UNCHANGED <<now, free_list>>
    BY <1>5 DEF Fire
  <1>11. PICK k \in 0 .. Len(c) : InsertsAt(c, k, t, now + d, rm.nx)
    BY <1>4, <1>7, <1>8, <1>9, <1>10, InsertList
  <1>12. Chain(next', free_list', b)
    <2>1. ASSUME NEW u \in Range(b) PROVE next'[u] = next[u]
      <3>1. u \in Timer /\ u \notin Range(a) /\ u # t /\ u \notin Range(c)
        BY <1>2, <1>4, <1>7 DEF Shared
      <3>2. next'[u] = rm.nx[u]
        BY <1>11, <3>1 DEF InsertsAt, SameElsewhere
      <3> QED BY <1>8, <3>1, <3>2
    <2>2. Chain(next', free_list, b)
      BY <1>2, <2>1, ChainFrame
    <2> QED BY <1>10, <2>2
  <1>13. Shared(Ins(c, k, t), b)
    <2>1. Range(Ins(c, k, t)) = Range(c) \union {t}
      BY <1>4, <1>7, InsRange
    <2> QED BY <1>2, <1>4, <1>7, <2>1 DEF Shared
  <1>14. TimersType'
    BY <1>9, <1>10, <1>11 DEF InsertsAt, TimersType
  <1>15. IndInv' /\ Armed' = Ins(c, k, t)
    BY <1>11, <1>12, <1>13, <1>14, ListsInv DEF InsertsAt
  <1> QED BY <1>3, <1>6, <1>11, <1>15 DEF InsertsAt

\* A step that leaves the lists alone.
LEMMA ListsUnchanged ==
  ASSUME IndInv, UNCHANGED lists, now' \in Nat
  PROVE  IndInv' /\ Armed' = Armed
  <1>1. UNCHANGED <<timers_head, free_list, next, prev, timeout>>
    BY DEF lists
  <1>2. PICK a, b : a = Armed /\ b = Free
    OBVIOUS
  <1>3. /\ TimersType
        /\ ArmedList(timers_head, next, prev, timeout, a) /\ Chain(next, free_list, b)
        /\ Shared(a, b)
    BY <1>2, InvLists
  <1>4. /\ TimersType'
        /\ ArmedList(timers_head', next', prev', timeout', a) /\ Chain(next', free_list', b)
    BY <1>1, <1>3 DEF TimersType
  <1>5. IndInv' /\ Armed' = a
    BY <1>3, <1>4, ListsInv
  <1> QED BY <1>2, <1>5

\* Every operation of nb_timer.c preserves the invariant.
LEMMA TimersNext == IndInv /\ [Next]_vars => IndInv'
  <1> SUFFICES ASSUME IndInv, [Next]_vars PROVE IndInv'
    OBVIOUS
  <1>0. now \in Nat
    BY DEF IndInv, TimersType
  <1>1. CASE Tick \/ CheckTimers \/ CheckDone \/ UNCHANGED vars
    <2>1. UNCHANGED lists /\ now' \in Nat
      BY <1>0, <1>1 DEF Tick, CheckTimers, CheckDone, vars
    <2> QED BY <2>1, ListsUnchanged
  <1>2. ASSUME NEW d \in Delays, AllocInsert(d) \/ Fire(d) PROVE IndInv'
    BY <1>2, AllocInsertStep, FireStep
  <1>3. ASSUME NEW t \in Timer, RemoveReturn(t) PROVE IndInv'
    BY <1>3, RemoveReturnStep
  <1> QED BY <1>1, <1>2, <1>3 DEF Next

(***************************************************************************)
(* The theorems.                                                           *)
(***************************************************************************)

\* The links of nb_timer.c always form the sorted list of armed timers and
\* the free list.
THEOREM TimersInvariant == Spec => []IndInv
  BY TimersInit, TimersNext, PTL DEF Spec

\* The list of armed timers and the free list partition the pool.
THEOREM TimersPoolPartitioned == Spec => []PoolPartitioned
  <1>1. IndInv => PoolPartitioned
    <2> SUFFICES ASSUME IndInv PROVE PoolPartitioned
      OBVIOUS
    <2>1. PICK a, b : a = Armed /\ b = Free
      OBVIOUS
    <2>2. Chain(next, timers_head, a) /\ Chain(next, free_list, b) /\ Shared(a, b)
      BY <2>1, InvLists
    <2>3. /\ Len(a) \in Nat /\ IsFiniteSet(Range(a)) /\ Cardinality(Range(a)) = Len(a)
          /\ Len(b) \in Nat /\ IsFiniteSet(Range(b)) /\ Cardinality(Range(b)) = Len(b)
      BY <2>2, ChainLength
    <2>4. Cardinality(Range(a) \union Range(b)) = Len(a) + Len(b) - 0
      <3>1. Cardinality(Range(a) \union Range(b)) =
              Cardinality(Range(a)) + Cardinality(Range(b))
                - Cardinality(Range(a) \intersect Range(b))
        BY <2>3, FS_Union
      <3>2. Cardinality(Range(a) \intersect Range(b)) = 0
        BY <2>2, FS_EmptySet DEF Shared
      <3> QED BY <2>3, <3>1, <3>2
    <2>5. Cardinality(Timer) = PoolSize
      <3>1. 1 \in Int /\ PoolSize \in Int /\ PoolSize >= 1
        BY TimersAssumption
      <3>2. Cardinality(1 .. PoolSize) = IF 1 > PoolSize THEN 0 ELSE PoolSize - 1 + 1
        BY <3>1, FS_Interval
      <3> QED BY <3>1, <3>2 DEF Timer
    <2>6. Len(a) + Len(b) = PoolSize
      <3>1. Cardinality(Range(a) \union Range(b)) = PoolSize
        BY <2>2, <2>5, Zenon DEF Shared
      <3> QED BY <2>3, <2>4, <3>1
    <2> QED BY <2>1, <2>2, <2>6 DEF PoolPartitioned, Shared
  <1> QED BY <1>1, TimersInvariant, PTL

\* Along the armed timers prev is the inverse of next.
THEOREM TimersPrevInverse == Spec => []PrevInverse
  <1>1. IndInv => PrevInverse
    <2> SUFFICES ASSUME IndInv PROVE PrevInverse
      OBVIOUS
    <2>1. PICK q : q = Armed
      OBVIOUS
    <2>2. q \in Seq(Timer) /\ Back(prev, q)
      BY <2>1, InvLists DEF ArmedList
    <2>3. Len(q) \in Nat
      BY <2>2, InRange
    <2>4. ASSUME NEW i \in 1 .. Len(q) PROVE prev[q[i]] = IF i = 1 THEN NULL ELSE q[i - 1]
      BY <2>2, <2>3 DEF Back, At
    <2> QED BY <2>1, <2>4 DEF PrevInverse
  <1> QED BY <1>1, TimersInvariant, PTL

\* nb__check_timers returns only when no armed timer is due: it looks at the
\* head alone, and the order of the list does the rest.
THEOREM TimersNoneDueAfterCheck == Spec => NoneDueAfterCheck
  <1>1. IndInv /\ [Next]_vars =>
          [checking /\ ~checking' => \A t \in Range(Armed) : timeout[t] > now]_vars
    <2> SUFFICES ASSUME IndInv, Next, checking, ~checking'
                 PROVE  \A t \in Range(Armed) : timeout[t] > now
      OBVIOUS
    <2>1. CheckDone
      BY DEF Next, Tick, CheckTimers, AllocInsert, RemoveReturn, Fire
    <2>2. PICK q : q = Armed
      OBVIOUS
    <2>3. /\ TimersType /\ Chain(next, timers_head, q) /\ Sorted(timeout, q) /\ q \in Seq(Timer)
      BY <2>2, InvLists DEF ArmedList
    <2>4. SUFFICES ASSUME NEW i \in 1 .. Len(q) PROVE timeout[q[i]] > now
      BY <2>2, <2>3, InRange
    <2>5. /\ Len(q) \in Nat /\ 1 \in 1 .. Len(q) /\ timers_head = q[1] /\ timers_head \in Timer
          /\ q[i] \in Timer
      BY <2>3, InRange DEF Chain, At
    <2>6. timeout[timers_head] > now
      BY <2>1, <2>5 DEF CheckDone, Timer, NULL
    <2>7. timeout[q[1]] <= timeout[q[i]]
      <3>1. CASE i = 1
        BY <2>3, <2>5, <3>1 DEF TimersType
      <3>2. CASE i # 1
        BY <2>3, <2>5, <3>2 DEF Sorted
      <3> QED BY <3>1, <3>2
    <2>8. timeout[q[1]] \in Int /\ timeout[q[i]] \in Int /\ now \in Nat
      BY <2>3, <2>5 DEF TimersType
    <2> QED BY <2>5, <2>6, <2>7, <2>8
  <1> QED BY <1>1, TimersInvariant, PTL DEF Spec, NoneDueAfterCheck

(***************************************************************************)
(* The refinement of TimerQueue.                                           *)
(***************************************************************************)

\* The timeouts of the armed timers, as TimerQueue sees them.
Due == [t \in Timer |-> IF t \in Range(Armed) THEN timeout[t] ELSE 0]

\* The two ways to write an insertion.
LEMMA InsertAtIsIns ==
  ASSUME NEW q \in Seq(Timer), NEW k \in 0 .. Len(q), NEW t \in Timer
  PROVE  Queue!InsertAt(q, k + 1, t) = Ins(q, k, t)
  <1>1. PICK n \in Nat : n = Len(q)
    BY InRange
  <1>2. PICK x : x = SubSeq(q, 1, (k + 1) - 1)
    OBVIOUS
  <1>3. PICK y : y = SubSeq(q, k + 1, n)
    OBVIOUS
  <1>4. x \in Seq(Timer) /\ Len(x) = k /\ \A i \in 1 .. k : x[i] = q[i]
    <2>1. (k + 1) - 1 = k /\ k \in 0 .. n
      BY <1>1
    <2> QED BY <1>1, <1>2, <2>1
  <1>5. y \in Seq(Timer) /\ Len(y) = n - k /\ \A i \in 1 .. n - k : y[i] = q[k + i]
    BY <1>1, <1>3
  <1>6. PICK z : z = x \o <<t>>
    OBVIOUS
  <1>7. z \in Seq(Timer) /\ Len(z) = k + 1 /\ z[k + 1] = t /\ \A i \in 1 .. k : z[i] = q[i]
    BY <1>1, <1>4, <1>6
  <1>8. PICK w : w = z \o y
    OBVIOUS
  <1>9. /\ w \in Seq(Timer) /\ Len(w) = n + 1
        /\ \A i \in 1 .. k + 1 : w[i] = z[i]
        /\ \A i \in 1 .. n - k : w[k + 1 + i] = q[k + i]
    <2>1. w \in Seq(Timer)
      BY <1>5, <1>7, <1>8
    <2>2. Len(w) = n + 1
      <3>1. Len(w) = Len(z) + Len(y)
        BY <1>5, <1>7, <1>8, ConcatProperties
      <3> QED BY <1>1, <1>5, <1>7, <3>1
    <2>3. \A i \in 1 .. k + 1 : w[i] = z[i]
      BY <1>1, <1>5, <1>7, <1>8
    <2>4. ASSUME NEW i \in 1 .. n - k PROVE w[k + 1 + i] = q[k + i]
      <3>1. PICK j : j = k + 1 + i
        OBVIOUS
      <3>2. /\ j \in 1 .. Len(z) + Len(y) /\ ~(j <= Len(z)) /\ j - Len(z) = i
        BY <1>1, <1>5, <1>7, <3>1
      <3>3. w[j] = y[j - Len(z)]
        BY <1>5, <1>7, <1>8, <3>2, ConcatProperties
      <3> QED BY <1>5, <3>1, <3>2, <3>3
    <2> QED BY <2>1, <2>2, <2>3, <2>4
  <1>10. PICK p : p = Ins(q, k, t)
    OBVIOUS
  <1>11. /\ p \in Seq(Timer) /\ Len(p) = n + 1
         /\ \A i \in 1 .. k : p[i] = q[i]
         /\ p[k + 1] = t
         /\ \A i \in k + 1 .. n : p[i + 1] = q[i]
    <2>1. Inserted(p, q, n, k, t)
      BY <1>1, <1>10, InsFacts
    <2> QED BY <2>1 DEF Inserted
  <1>12. ASSUME NEW i \in 1 .. n + 1 PROVE w[i] = p[i]
    <2>1. CASE i \in 1 .. k + 1
      BY <1>1, <1>7, <1>9, <1>11, <2>1
    <2>2. CASE i \notin 1 .. k + 1
      <3>1. PICK j \in 1 .. n - k : i = k + 1 + j
        <4>1. i - (k + 1) \in 1 .. n - k /\ i = k + 1 + (i - (k + 1))
          BY <1>1, <2>2
        <4> QED BY <4>1
      <3>2. k + j \in k + 1 .. n /\ i = (k + j) + 1
        BY <1>1, <3>1
      <3> QED BY <1>9, <1>11, <3>1, <3>2
    <2> QED BY <2>1, <2>2
  <1>13. w = p
    BY <1>9, <1>11, <1>12, SeqEqual
  <1> QED BY <1>1, <1>2, <1>3, <1>6, <1>8, <1>10, <1>13 DEF Queue!InsertAt

\* The two ways to write a removal.
LEMMA RemoveAtIsDel ==
  ASSUME NEW q \in Seq(Timer), NEW p \in 1 .. Len(q), Distinct(q)
  PROVE  Queue!RemoveAt(q, p) = Del(q, p)
  <1>1. PICK n \in Nat : n = Len(q)
    BY InRange
  <1>2. PICK x : x = SubSeq(q, 1, p - 1)
    OBVIOUS
  <1>3. PICK y : y = SubSeq(q, p + 1, n)
    OBVIOUS
  <1>4. x \in Seq(Timer) /\ Len(x) = p - 1 /\ \A i \in 1 .. p - 1 : x[i] = q[i]
    BY <1>1, <1>2
  <1>5. y \in Seq(Timer) /\ Len(y) = n - p /\ \A i \in 1 .. n - p : y[i] = q[p + i]
    BY <1>1, <1>3
  <1>6. PICK w : w = x \o y
    OBVIOUS
  <1>7. /\ w \in Seq(Timer) /\ Len(w) = n - 1
        /\ \A i \in 1 .. p - 1 : w[i] = q[i]
        /\ \A i \in 1 .. n - p : w[(p - 1) + i] = q[p + i]
    <2>1. w \in Seq(Timer)
      BY <1>4, <1>5, <1>6
    <2>2. Len(w) = n - 1
      <3>1. Len(w) = Len(x) + Len(y)
        BY <1>4, <1>5, <1>6, ConcatProperties
      <3> QED BY <1>1, <1>4, <1>5, <3>1
    <2>3. \A i \in 1 .. p - 1 : w[i] = q[i]
      BY <1>1, <1>4, <1>5, <1>6
    <2>4. ASSUME NEW i \in 1 .. n - p PROVE w[(p - 1) + i] = q[p + i]
      <3>1. PICK j : j = (p - 1) + i
        OBVIOUS
      <3>2. /\ j \in 1 .. Len(x) + Len(y) /\ ~(j <= Len(x)) /\ j - Len(x) = i
        BY <1>1, <1>4, <1>5, <3>1
      <3>3. w[j] = y[j - Len(x)]
        BY <1>4, <1>5, <1>6, <3>2, ConcatProperties
      <3> QED BY <1>5, <3>1, <3>2, <3>3
    <2> QED BY <2>1, <2>2, <2>3, <2>4
  <1>8. PICK d : d = Del(q, p)
    OBVIOUS
  <1>9. /\ d \in Seq(Timer) /\ Len(d) = n - 1
        /\ \A i \in 1 .. p - 1 : d[i] = q[i]
        /\ \A i \in p .. n - 1 : d[i] = q[i + 1]
    <2>1. Deleted(d, q, n, p)
      BY <1>1, <1>8, DelFacts
    <2> QED BY <2>1 DEF Deleted
  <1>10. ASSUME NEW i \in 1 .. n - 1 PROVE w[i] = d[i]
    <2>1. CASE i \in 1 .. p - 1
      BY <1>7, <1>9, <2>1
    <2>2. CASE i \notin 1 .. p - 1
      <3>1. PICK j \in 1 .. n - p : i = (p - 1) + j
        <4>1. i - (p - 1) \in 1 .. n - p /\ i = (p - 1) + (i - (p - 1))
          BY <1>1, <2>2
        <4> QED BY <4>1
      <3>2. i \in p .. n - 1 /\ p + j = i + 1
        BY <1>1, <3>1
      <3> QED BY <1>7, <1>9, <3>1, <3>2
    <2> QED BY <2>1, <2>2
  <1>11. w = d
    BY <1>7, <1>9, <1>10, SeqEqual
  <1> QED BY <1>1, <1>2, <1>3, <1>6, <1>8, <1>11 DEF Queue!RemoveAt

\* What TimerQueue sees of the timers in a list.
LEMMA DueOfArmed ==
  ASSUME NEW a \in Seq(Timer), Range(a) \subseteq Range(Armed), NEW i \in 1 .. Len(a)
  PROVE  Due[a[i]] = timeout[a[i]]
  BY InRange DEF Due

\* Where the list is split by timeouts, so is the queue.
LEMMA SplitIsPlaced ==
  ASSUME NEW q \in Seq(Timer), Range(q) \subseteq Range(Armed), NEW k \in 0 .. Len(q),
         NEW t \in Timer, NEW to, SplitAt(q, k, to), NEW p, p = Ins(q, k, t)
  PROVE  Queue!Placed(q, t, to, p)
  <1>1. Len(q) \in Nat
    BY InRange
  <1>2. \A i \in 1 .. k : Due[q[i]] <= to
    BY <1>1, DueOfArmed DEF SplitAt
  <1>3. \A i \in k + 1 .. Len(q) : Due[q[i]] > to
    BY <1>1, DueOfArmed DEF SplitAt
  <1>4. p = Queue!InsertAt(q, k + 1, t)
    BY InsertAtIsIns
  <1> QED BY <1>2, <1>3, <1>4 DEF Queue!Placed, Due

\* nb__alloc_timer and nb__insert_timer arm a timer of the queue.
LEMMA AllocImplementsArm ==
  ASSUME IndInv, NEW d \in Delays, AllocInsert(d)
  PROVE  Queue!Next
  <1>1. PICK a, t : a = Armed /\ t = free_list
    OBVIOUS
  <1>2. a \in Seq(Timer) /\ TimersType
    BY <1>1, InvLists
  <1>3. t \in Timer /\ t \notin Range(a)
    BY <1>1, AllocInsertStep
  <1>4. PICK k \in 0 .. Len(a) : SplitAt(a, k, now + d) /\ Armed' = Ins(a, k, t)
    BY <1>1, AllocInsertStep
  <1>5. Queue!Placed(Armed, t, now + d, Armed')
    BY <1>1, <1>2, <1>3, <1>4, SplitIsPlaced
  <1>6. Range(Armed') = Range(a) \union {t}
    BY <1>2, <1>3, <1>4, InsRange
  <1>7. timeout' = [timeout EXCEPT ![t] = now + d] /\ now' = now
    BY <1>1 DEF AllocInsert, Insert
  <1>8. Due' = [Due EXCEPT ![t] = now + d]
    <2>1. ASSUME NEW u \in Timer
          PROVE  (IF u \in Range(Armed') THEN timeout'[u] ELSE 0) =
                   IF u = t THEN now + d ELSE IF u \in Range(Armed) THEN timeout[u] ELSE 0
      BY <1>1, <1>2, <1>3, <1>6, <1>7 DEF TimersType
    <2>2. Due' = [u \in Timer |-> IF u \in Range(Armed') THEN timeout'[u] ELSE 0]
      BY DEF Due, Range
    <2> QED BY <1>3, <2>1, <2>2 DEF Due
  <1>9. t \notin Queue!Armed
    BY <1>1, <1>2, <1>3, InRange DEF Queue!Armed
  <1>10. Queue!Arm(t, d)
    BY <1>5, <1>7, <1>8, <1>9 DEF Queue!Arm, Due
  <1> QED BY <1>3, <1>10 DEF Queue!Next

\* nb__remove_timer and nb__return_timer cancel a timer of the queue.
LEMMA RemoveImplementsCancel ==
  ASSUME IndInv, NEW t \in Timer, RemoveReturn(t)
  PROVE  Queue!Next
  <1>1. PICK a : a = Armed
    OBVIOUS
  <1>2. a \in Seq(Timer) /\ Distinct(a) /\ TimersType
    BY <1>1, InvLists
  <1>3. PICK p \in 1 .. Len(a) : a[p] = t /\ Armed' = Del(a, p)
    BY <1>1, RemoveReturnStep
  <1>4. Armed' = Queue!RemoveAt(a, p)
    BY <1>2, <1>3, RemoveAtIsDel
  <1>5. Range(Armed') = Range(a) \ {t}
    BY <1>2, <1>3, DelRange
  <1>6. timeout' = [timeout EXCEPT ![t] = Never] /\ now' = now
    BY DEF RemoveReturn
  <1>7. Due' = [Due EXCEPT ![t] = 0]
    <2>1. ASSUME NEW u \in Timer
          PROVE  (IF u \in Range(Armed') THEN timeout'[u] ELSE 0) =
                   IF u = t THEN 0 ELSE IF u \in Range(Armed) THEN timeout[u] ELSE 0
      BY <1>1, <1>2, <1>5, <1>6 DEF TimersType
    <2>2. Due' = [u \in Timer |-> IF u \in Range(Armed') THEN timeout'[u] ELSE 0]
      BY DEF Due, Range
    <2> QED BY <2>1, <2>2 DEF Due
  <1>8. Queue!Cancel(t)
    BY <1>1, <1>3, <1>4, <1>6, <1>7 DEF Queue!Cancel, Due
  <1> QED BY <1>8 DEF Queue!Next

\* One turn of nb__check_timers fires the first timer of the queue.
LEMMA FireImplementsFire ==
  ASSUME IndInv, NEW d \in Delays, Fire(d)
  PROVE  Queue!Next
  <1>1. PICK a, t, c : a = Armed /\ t = timers_head /\ c = Del(a, 1)
    OBVIOUS
  <1>2. a \in Seq(Timer) /\ Distinct(a) /\ TimersType
    BY <1>1, InvLists
  <1>3. 1 \in 1 .. Len(a) /\ a[1] = t
    BY <1>1, FireStep
  <1>4. PICK k \in 0 .. Len(c) : SplitAt(c, k, now + d) /\ Armed' = Ins(c, k, t)
    BY <1>1, FireStep
  <1>5. c \in Seq(Timer) /\ Range(c) = Range(a) \ {t}
    BY <1>1, <1>2, <1>3, DelRange
  <1>6. t \in Timer /\ t \in Range(a)
    BY <1>2, <1>3, InRange
  <1>7. a # << >> /\ Head(a) = t /\ Tail(a) = c
    <2>1. PICK n \in Nat : n = Len(a) /\ n >= 1
      BY <1>2, <1>3, InRange
    <2>2. a # << >> /\ Head(a) = t
      BY <1>2, <1>3, <2>1
    <2>3. PICK e : e = Tail(a)
      OBVIOUS
    <2>4. e \in Seq(Timer) /\ Len(e) = n - 1 /\ \A i \in 1 .. n - 1 : e[i] = a[i + 1]
      BY <1>2, <2>1, <2>2, <2>3, HeadTailProperties
    <2>5. Len(c) = n - 1 /\ \A i \in 1 .. n - 1 : c[i] = a[i + 1]
      <3>1. Deleted(c, a, n, 1)
        BY <1>1, <1>2, <1>3, <2>1, DelFacts
      <3> QED BY <3>1 DEF Deleted
    <2>6. e = c
      BY <1>5, <2>4, <2>5, SeqEqual
    <2> QED BY <2>2, <2>3, <2>6
  <1>8. Queue!Placed(Tail(Armed), Head(Armed), now + d, Armed')
    <2>1. Queue!Placed(c, t, now + d, Armed')
      BY <1>1, <1>4, <1>5, <1>6, SplitIsPlaced
    <2> QED BY <1>1, <1>7, <2>1
  <1>9. Range(Armed') = Range(a)
    <2>1. Range(Armed') = Range(c) \union {t}
      BY <1>4, <1>5, <1>6, InsRange
    <2> QED BY <1>5, <1>6, <2>1
  <1>10. timeout' = [timeout EXCEPT ![t] = now + d] /\ now' = now /\ timeout[t] <= now
    BY <1>1 DEF Fire, Insert
  <1>11. Due' = [Due EXCEPT ![t] = now + d]
    <2>1. ASSUME NEW u \in Timer
          PROVE  (IF u \in Range(Armed') THEN timeout'[u] ELSE 0) =
                   IF u = t THEN now + d ELSE IF u \in Range(Armed) THEN timeout[u] ELSE 0
      BY <1>1, <1>2, <1>6, <1>9, <1>10 DEF TimersType
    <2>2. Due' = [u \in Timer |-> IF u \in Range(Armed') THEN timeout'[u] ELSE 0]
      BY DEF Due, Range
    <2> QED BY <1>6, <2>1, <2>2 DEF Due
  <1>12. Due[t] <= now
    BY <1>1, <1>6, <1>10 DEF Due
  <1>13. Queue!Fire(d)
    BY <1>1, <1>7, <1>8, <1>10, <1>11, <1>12 DEF Queue!Fire, Due
  <1> QED BY <1>13 DEF Queue!Next

\* The linked lists of nb_timer.c implement the queue of TimerQueue: sorted
\* by timeout, first come first served among equal ones, and only due timers
\* fire, the earliest first.
THEOREM TimersImplementsQueue == Spec => ImplementsQueue
  <1>1. Init => Queue!Init
    <2> SUFFICES ASSUME Init PROVE Queue!Init
      OBVIOUS
    <2>1. Armed = << >> /\ IndInv
      BY TimersInit
    <2>2. PICK a \in Seq(Timer) : a = Armed /\ Len(a) = 0
      BY <2>1, EmptySeq
    <2>3. Range(a) = {}
      <3>1. \A x \in Range(a) : \E i \in 1 .. Len(a) : a[i] = x
        BY InRange
      <3> QED BY <2>2, <3>1
    <2>4. Due = [t \in Timer |-> 0]
      BY <2>2, <2>3 DEF Due
    <2> QED BY <2>1, <2>4 DEF Init, Queue!Init, Due
  <1>2. IndInv /\ [Next]_vars => [Queue!Next]_(Queue!vars)
    <2> SUFFICES ASSUME IndInv, [Next]_vars PROVE [Queue!Next]_(Queue!vars)
      OBVIOUS
    <2>0. now \in Nat
      BY DEF IndInv, TimersType
    <2>1. ASSUME UNCHANGED lists, now' \in Nat PROVE UNCHANGED <<Armed, Due>>
      <3>1. Armed' = Armed /\ timeout' = timeout
        BY <2>1, ListsUnchanged DEF lists
      <3> QED BY <3>1 DEF Due, Range
    <2>2. CASE CheckTimers \/ CheckDone \/ UNCHANGED vars
      <3>1. UNCHANGED lists /\ now' \in Nat /\ now' = now
        BY <2>0, <2>2 DEF CheckTimers, CheckDone, vars
      <3> QED BY <2>1, <3>1 DEF Queue!vars, Due
    <2>3. CASE Tick
      <3>1. UNCHANGED lists /\ now' \in Nat /\ now' = now + 1 /\ now < MaxTime
        BY <2>0, <2>3 DEF Tick
      <3>2. Queue!Tick
        BY <2>1, <3>1 DEF Queue!Tick, Due
      <3> QED BY <3>2 DEF Queue!Next
    <2>4. ASSUME NEW d \in Delays, AllocInsert(d) \/ Fire(d) PROVE Queue!Next
      BY <2>4, AllocImplementsArm, FireImplementsFire
    <2>5. ASSUME NEW t \in Timer, RemoveReturn(t) PROVE Queue!Next
      BY <2>5, RemoveImplementsCancel
    <2> QED BY <2>2, <2>3, <2>4, <2>5 DEF Next
  <1> QED BY <1>1, <1>2, TimersInvariant, PTL DEF Spec, ImplementsQueue, Queue!Spec
=============================================================================
