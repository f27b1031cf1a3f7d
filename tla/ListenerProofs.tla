--------------------------- MODULE ListenerProofs ---------------------------
(***************************************************************************)
(* Proofs about module Listener, for any number of clients and packets and *)
(* any bounds on the queue.  First inorder.hook_ingress on one connection, *)
(* then the loop of nb__accept, by induction over its rounds, then the     *)
(* actions and the theorems.                                               *)
(***************************************************************************)
EXTENDS Listener, ArithmeticLemmas, SequenceTheorems, TLAPS

(***************************************************************************)
(* One connection.                                                         *)
(***************************************************************************)

\* The fields of a connection.
ConnState == [last_recv_sequence : 0 .. MaxPacket, shelf : SUBSET Packet, log : Seq(Packet),
              signaling_state : {"SIGNALED", "SIGNAL_HANDLED"}]

\* The packets of t are consecutive.
Consecutive(t) == \A k \in 1 .. Len(t) : t[k] = t[1] + (k - 1)

\* What was passed up is a run of consecutive packets that ends at
\* last_recv_sequence.
RunOK(st) ==
  /\ st \in ConnState
  /\ st.log = << >> <=> st.last_recv_sequence = 0
  /\ st.log # << >> => st.log[Len(st.log)] = st.last_recv_sequence
  /\ Consecutive(st.log)

\* hook_establish sets up a connection that has passed up nothing.
LEMMA NewConnOK == RunOK(NewConn)
  <1>1. << >> \in Seq(Packet) /\ Len(<< >>) = 0
    BY EmptySeq
  <1>2. 0 \in 0 .. MaxPacket
    BY ListenerAssumption
  <1> QED BY <1>1, <1>2 DEF RunOK, NewConn, ConnState, Consecutive

\* The loop after an in-order packet n ends: there is a last packet of the run
\* that starts at n and goes on on the shelf.
LEMMA TopExists ==
  ASSUME NEW H \in SUBSET Packet, NEW n \in Packet
  PROVE  \E m \in n .. MaxPacket : (n + 1) .. m \subseteq H /\ (m + 1) \notin H
  <1> DEFINE T == {m \in n .. MaxPacket : (m + 1) \notin H}
  <1>1. n \in Nat /\ MaxPacket \in Nat /\ MaxPacket \in n .. MaxPacket
        /\ (MaxPacket + 1) \notin H
    BY ListenerAssumption DEF Packet
  <1>2. T \in SUBSET Nat /\ MaxPacket \in T
    BY <1>1
  <1>3. PICK m : m \in T /\ \A y \in T : m <= y
    BY <1>2, MinProperties
  <1>4. ASSUME NEW k \in (n + 1) .. m PROVE k \in H
    <2>1. k - 1 \in n .. MaxPacket /\ ~(m <= k - 1) /\ (k - 1) + 1 = k
      BY <1>1, <1>3, <1>4
    <2> QED BY <1>3, <2>1
  <1> QED BY <1>3, <1>4

\* The packets n, ..., m, which an in-order packet n passes up, and a log t
\* that they go on.
Burst(n, m)  == [k \in 1 .. m - n + 1 |-> n + k - 1]
Follows(t, n) == t # << >> => n = t[Len(t)] + 1

\* Appending the packets n, ..., m to a run that ends just before n, or to
\* nothing, gives a run that ends at m.
LEMMA RunExtends ==
  ASSUME NEW t \in Seq(Packet), NEW n \in Packet, NEW m \in n .. MaxPacket,
         Follows(t, n), Consecutive(t)
  PROVE  /\ t \o Burst(n, m) \in Seq(Packet) /\ t \o Burst(n, m) # << >>
         /\ (t \o Burst(n, m))[Len(t \o Burst(n, m))] = m
         /\ Consecutive(t \o Burst(n, m))
  <1>0. PICK run : run = Burst(n, m)
    OBVIOUS
  <1>1. n \in Nat /\ m \in Nat /\ n >= 1 /\ n <= m /\ m <= MaxPacket /\ MaxPacket \in Nat
    BY ListenerAssumption DEF Packet
  <1>2. PICK w \in Nat : w = m - n + 1 /\ w >= 1 /\ m = n + (w - 1)
    BY <1>1
  <1>3. \A k \in 1 .. w : n + k - 1 \in Packet /\ n + k - 1 = n + (k - 1)
    BY <1>1, <1>2 DEF Packet
  <1>4. run \in [1 .. w -> Packet] /\ \A k \in 1 .. w : run[k] = n + (k - 1)
    BY <1>0, <1>2, <1>3 DEF Burst
  <1>5. run \in Seq(Packet) /\ Len(run) = w
    <2>1. run = [k \in 1 .. w |-> n + k - 1]
      BY <1>0, <1>2 DEF Burst
    <2>2. [k \in 1 .. w |-> n + k - 1] \in Seq(Packet)
      BY <1>2, <1>3
    <2>3. Len([k \in 1 .. w |-> n + k - 1]) = w
      BY <1>2
    <2> QED BY <2>1, <2>2, <2>3
  <1>6. PICK l \in Nat : l = Len(t)
    BY LenProperties
  <1>7. PICK u : u = t \o run
    OBVIOUS
  <1>8. u \in Seq(Packet) /\ Len(u) = l + w
    BY <1>5, <1>6, <1>7, ConcatProperties
  <1>9. /\ \A k \in 1 .. l + w : k <= l => u[k] = t[k]
        /\ \A k \in 1 .. l + w : ~(k <= l) => u[k] = run[k - l]
    <2>1. \A k \in 1 .. Len(t) + Len(run) :
            (t \o run)[k] = IF k <= Len(t) THEN t[k] ELSE run[k - Len(t)]
      BY <1>5, ConcatProperties, Zenon
    <2> QED BY <1>5, <1>6, <1>7, <2>1
  <1>10. \A k \in 1 .. l + w : ~(k <= l) => u[k] = n + ((k - l) - 1)
    <2> SUFFICES ASSUME NEW k \in 1 .. l + w, ~(k <= l) PROVE u[k] = n + ((k - l) - 1)
      OBVIOUS
    <2>1. k - l \in 1 .. w
      BY <1>2, <1>6
    <2> QED BY <1>4, <1>9, <2>1
  <1>11. u # << >>
    BY <1>2, <1>6, <1>8, EmptySeq
  <1>12. u[l + w] = m
    <2>1. l + w \in 1 .. l + w /\ ~(l + w <= l) /\ n + (((l + w) - l) - 1) = m
      BY <1>1, <1>2, <1>6
    <2> QED BY <1>10, <2>1
  <1>13. ASSUME NEW k \in 1 .. l + w PROVE u[k] = u[1] + (k - 1)
    <2>1. CASE l = 0
      <3>1. 1 \in 1 .. l + w /\ ~(1 <= l) /\ ~(k <= l)
        BY <1>2, <2>1
      <3>2. u[1] = n + ((1 - l) - 1) /\ u[k] = n + ((k - l) - 1)
        BY <1>10, <3>1
      <3> QED BY <1>1, <2>1, <3>2
    <2>2. CASE l # 0
      <3>1. 1 \in 1 .. l + w /\ 1 <= l /\ 1 \in 1 .. l /\ l \in 1 .. l
        BY <1>2, <1>6, <2>2
      <3>2. t # << >> /\ n = t[l] + 1 /\ t[l] = t[1] + (l - 1) /\ t[1] \in Packet
        BY <1>6, <2>2, <3>1, EmptySeq, ElementOfSeq DEF Follows, Consecutive
      <3>3. PICK a \in Nat : a = t[1] /\ n = a + l
        BY <1>6, <3>2 DEF Packet
      <3>4. u[1] = a
        BY <1>9, <3>1, <3>3
      <3>5. CASE k <= l
        <4>1. k \in 1 .. l
          BY <3>5
        <4>2. u[k] = t[k] /\ t[k] = t[1] + (k - 1)
          BY <1>6, <1>9, <3>5, <4>1 DEF Consecutive
        <4> QED BY <3>3, <3>4, <4>2
      <3>6. CASE ~(k <= l)
        <4>1. u[k] = n + ((k - l) - 1)
          BY <1>10, <3>6
        <4>2. n + ((k - l) - 1) = a + (k - 1)
          <5>1. k \in Int /\ l \in Int /\ a \in Int /\ n = a + l
            BY <1>2, <1>6, <3>3
          <5> QED BY <5>1
        <4> QED BY <3>4, <4>1, <4>2
      <3> QED BY <3>5, <3>6
    <2> QED BY <2>1, <2>2
  <1>14. Consecutive(u)
    BY <1>8, <1>13 DEF Consecutive
  <1> QED BY <1>0, <1>7, <1>8, <1>11, <1>12, <1>14

\* inorder.hook_ingress keeps the run consecutive, whatever packet comes.
LEMMA IngressOK ==
  ASSUME NEW st, RunOK(st), NEW n \in Packet
  PROVE  RunOK(Ingress(st, n))
  <1>1. /\ st \in ConnState /\ st.shelf \in SUBSET Packet /\ st.log \in Seq(Packet)
        /\ st.last_recv_sequence \in 0 .. MaxPacket
    BY DEF RunOK, ConnState
  <1>2. CASE ~(st.last_recv_sequence = 0 \/ n = st.last_recv_sequence + 1)
    <2>1. Ingress(st, n) = [st EXCEPT !.shelf = st.shelf \union {n}]
      BY <1>2 DEF Ingress
    <2> QED BY <1>1, <2>1 DEF RunOK, ConnState
  <1>3. CASE st.last_recv_sequence = 0 \/ n = st.last_recv_sequence + 1
    <2>1. PICK top \in n .. MaxPacket :
            top = CHOOSE m \in n .. MaxPacket :
                    /\ (n + 1) .. m \subseteq st.shelf
                    /\ (m + 1) \notin st.shelf
      BY <1>1, TopExists
    <2>2. PICK log : log = st.log \o Burst(n, top)
      OBVIOUS
    <2>4. PICK shelf : shelf = st.shelf \ ((n + 1) .. top)
      OBVIOUS
    <2>5. Ingress(st, n) = [st EXCEPT !.last_recv_sequence = top, !.log = log, !.shelf = shelf]
      BY <1>3, <2>1, <2>2, <2>4 DEF Ingress, Burst
    <2>6. Follows(st.log, n)
      BY <1>3 DEF RunOK, Follows
    <2>7. Consecutive(st.log)
      BY DEF RunOK
    <2>8. log \in Seq(Packet) /\ log # << >> /\ log[Len(log)] = top /\ Consecutive(log)
      BY <1>1, <2>2, <2>6, <2>7, RunExtends
    <2>9. top \in 0 .. MaxPacket /\ top # 0 /\ shelf \in SUBSET Packet
      <3>1. shelf \in SUBSET Packet
        BY <1>1, <2>4
      <3>2. n \in Nat \ {0} /\ MaxPacket \in Nat
        BY ListenerAssumption DEF Packet
      <3> QED BY <3>1, <3>2
    <2>10. Ingress(st, n) \in ConnState
      BY <1>1, <2>5, <2>8, <2>9 DEF ConnState
    <2>11. Ingress(st, n).last_recv_sequence = top /\ Ingress(st, n).log = log
      BY <1>1, <2>5 DEF ConnState
    <2> QED BY <2>8, <2>9, <2>10, <2>11 DEF RunOK
  <1> QED BY <1>2, <1>3

(***************************************************************************)
(* The accept queue.                                                       *)
(***************************************************************************)

\* A queued packet.
Waiting == [src : Client, n : Packet]

\* The queue without its last packet.
LEMMA FrontElements ==
  ASSUME NEW S, NEW q \in Seq(S), Len(q) >= 1
  PROVE  /\ Front(q) \in Seq(S) /\ Len(Front(q)) = Len(q) - 1
         /\ \A j \in 1 .. Len(q) - 1 : Front(q)[j] = q[j]
  <1>1. PICK n : n = Len(q) - 1
    OBVIOUS
  <1>2. n \in Nat /\ n <= Len(q)
    BY <1>1, LenProperties
  <1>3. SubSeq(q, 1, n) \in Seq(S)
    BY <1>2
  <1>4. Len(SubSeq(q, 1, n)) = n /\ \A j \in 1 .. n : SubSeq(q, 1, n)[j] = q[j]
    BY <1>2
  <1> QED BY <1>1, <1>3, <1>4, Zenon DEF Front

\* The queue without packet k, the last one in its place.
Without(q, k) == Front([q EXCEPT ![k] = Last(q)])

\* What the queue holds after nb__accept took packet k out of it.
LEMMA WithoutElements ==
  ASSUME NEW S, NEW q \in Seq(S), NEW k \in 1 .. Len(q)
  PROVE  /\ Without(q, k) \in Seq(S) /\ Len(Without(q, k)) = Len(q) - 1
         /\ \A j \in 1 .. Len(q) - 1 :
              Without(q, k)[j] = IF j = k THEN q[Len(q)] ELSE q[j]
  <1>1. Len(q) \in Nat /\ Len(q) >= 1 /\ Last(q) \in S /\ Last(q) = q[Len(q)]
    BY LenProperties, ElementOfSeq DEF Last
  <1>2. PICK u : u = [q EXCEPT ![k] = Last(q)]
    OBVIOUS
  <1>3. u \in Seq(S) /\ Len(u) = Len(q)
        /\ \A j \in 1 .. Len(q) : u[j] = IF j = k THEN q[Len(q)] ELSE q[j]
    BY <1>1, <1>2, ExceptSeq
  <1>4. /\ Front(u) \in Seq(S) /\ Len(Front(u)) = Len(q) - 1
        /\ \A j \in 1 .. Len(q) - 1 : Front(u)[j] = IF j = k THEN q[Len(q)] ELSE q[j]
    <2>1. /\ Front(u) \in Seq(S) /\ Len(Front(u)) = Len(u) - 1
          /\ \A j \in 1 .. Len(u) - 1 : Front(u)[j] = u[j]
      BY <1>1, <1>3, FrontElements
    <2> QED BY <1>1, <1>3, <2>1
  <1> QED BY <1>2, <1>4, Zenon DEF Without

(***************************************************************************)
(* The loop of nb__accept.                                                 *)
(***************************************************************************)

\* The state of the loop for client c over a queue that held q, after k
\* rounds: what is left came out of q, nothing of c stands before i, and i is
\* past the end of what is left, or at most Len(q) - k rounds away from it.
LoopOK(r, i, q, c, k) ==
  /\ r \in Seq(Waiting) /\ i \in Nat \ {0}
  /\ Len(r) <= Len(q) /\ i <= Len(r) + 1
  /\ i = Len(r) + 1 \/ (Len(r) + 1) - i <= Len(q) - k
  /\ \A j \in 1 .. Len(r) : j < i => r[j].src # c
  /\ \A j \in 1 .. Len(r) : \E l \in 1 .. Len(q) : r[j] = q[l]

LoopStateOK(s, q, c, k) ==
  \E r, i, st : /\ s = [rest |-> r, i |-> i, st |-> st]
                /\ LoopOK(r, i, q, c, k) /\ RunOK(st)

\* A round of the loop keeps its invariant.
LEMMA RoundOK ==
  ASSUME NEW q \in Seq(Waiting), NEW c, NEW k \in Nat, NEW s, LoopStateOK(s, q, c, k)
  PROVE  LoopStateOK(AcceptRound(s, c), q, c, k + 1)
  <1> PICK r, i, st : s = [rest |-> r, i |-> i, st |-> st] /\ LoopOK(r, i, q, c, k) /\ RunOK(st)
    BY DEF LoopStateOK
  <1>1. r \in Seq(Waiting) /\ i \in Nat \ {0} /\ Len(r) \in Nat /\ Len(q) \in Nat
    BY LenProperties DEF LoopOK
  <1>2. /\ Len(r) <= Len(q) /\ i <= Len(r) + 1
        /\ i = Len(r) + 1 \/ (Len(r) + 1) - i <= Len(q) - k
    BY DEF LoopOK
  <1>3. /\ \A j \in 1 .. Len(r) : j < i => r[j].src # c
        /\ \A j \in 1 .. Len(r) : \E l \in 1 .. Len(q) : r[j] = q[l]
    BY DEF LoopOK
  <1>4. CASE i > Len(r)
    <2>1. AcceptRound(s, c) = [rest |-> r, i |-> i, st |-> st]
      BY <1>4 DEF AcceptRound
    <2>2. i = Len(r) + 1
      BY <1>1, <1>2, <1>4
    <2>3. LoopOK(r, i, q, c, k + 1)
      BY <1>1, <1>2, <1>3, <2>2 DEF LoopOK
    <2> QED BY <2>1, <2>3 DEF LoopStateOK
  <1>5. CASE i <= Len(r) /\ r[i].src # c
    <2>1. ~(i > Len(r)) /\ i + 1 \in Nat \ {0}
      BY <1>1, <1>5
    <2>2. AcceptRound(s, c) = [rest |-> r, i |-> i + 1, st |-> st]
      BY <1>5, <2>1 DEF AcceptRound
    <2>3. (Len(r) + 1) - (i + 1) <= Len(q) - (k + 1) /\ i + 1 <= Len(r) + 1
      BY <1>1, <1>2, <1>5
    <2>4. \A j \in 1 .. Len(r) : j < i + 1 => r[j].src # c
      BY <1>1, <1>3, <1>5
    <2>5. LoopOK(r, i + 1, q, c, k + 1)
      BY <1>1, <1>2, <1>3, <2>1, <2>3, <2>4 DEF LoopOK
    <2> QED BY <2>2, <2>5 DEF LoopStateOK
  <1>6. CASE i <= Len(r) /\ r[i].src = c
    <2>1. i \in 1 .. Len(r) /\ ~(i > Len(r))
      BY <1>1, <1>6
    <2>2. r[i] \in Waiting
      BY <1>1, <2>1, ElementOfSeq
    <2>3. r[i].n \in Packet
      BY <2>2 DEF Waiting
    <2>4. PICK v : v = Without(r, i)
      OBVIOUS
    <2>5. PICK st2 : st2 = Ingress(st, r[i].n)
      OBVIOUS
    <2>6. AcceptRound(s, c) = [rest |-> v, i |-> i, st |-> st2]
      BY <1>6, <2>1, <2>4, <2>5 DEF AcceptRound, Without
    <2>7. v \in Seq(Waiting) /\ Len(v) = Len(r) - 1
          /\ \A j \in 1 .. Len(r) - 1 : v[j] = IF j = i THEN r[Len(r)] ELSE r[j]
      BY <1>1, <2>1, <2>4, WithoutElements
    <2>8. RunOK(st2)
      BY <2>3, <2>5, IngressOK
    <2>9. Len(v) <= Len(q) /\ i <= Len(v) + 1 /\ (Len(v) + 1) - i <= Len(q) - (k + 1)
      BY <1>1, <1>2, <2>1, <2>7
    <2>10. ASSUME NEW j \in 1 .. Len(v), j < i PROVE v[j].src # c
      <3>1. j \in 1 .. Len(r) - 1 /\ j \in 1 .. Len(r) /\ j # i
        BY <1>1, <2>7, <2>10
      <3>2. v[j] = r[j]
        BY <2>7, <3>1
      <3> QED BY <1>3, <2>10, <3>1, <3>2
    <2>11. ASSUME NEW j \in 1 .. Len(v) PROVE \E l \in 1 .. Len(q) : v[j] = q[l]
      <3>1. PICK h \in 1 .. Len(r) : v[j] = r[h]
        <4>1. j \in 1 .. Len(r) - 1 /\ j \in 1 .. Len(r) /\ Len(r) \in 1 .. Len(r)
          BY <1>1, <2>1, <2>7
        <4>2. v[j] = r[Len(r)] \/ v[j] = r[j]
          BY <2>7, <4>1
        <4> QED BY <4>1, <4>2
      <3> QED BY <1>3, <3>1
    <2>12. LoopOK(v, i, q, c, k + 1)
      BY <1>1, <2>7, <2>9, <2>10, <2>11 DEF LoopOK
    <2> QED BY <2>6, <2>8, <2>12 DEF LoopStateOK
  <1>7. i > Len(r) \/ i <= Len(r)
    BY <1>1
  <1> QED BY <1>4, <1>5, <1>6, <1>7, Zenon

\* The queue r is what taking the packets of c out of the queue q leaves.
Taken(r, q, c) ==
  /\ r \in Seq(Waiting) /\ Len(r) <= Len(q)
  /\ \A j \in 1 .. Len(r) : r[j].src # c
  /\ \A j \in 1 .. Len(r) : \E l \in 1 .. Len(q) : r[j] = q[l]

\* The loop takes every packet of c out of the queue and runs them into the
\* connection, and what is left came out of the queue.
LEMMA TakeOutOK ==
  ASSUME NEW q \in Seq(Waiting), NEW c, NEW st0, RunOK(st0)
  PROVE  \E r, i, st : /\ TakeOut(q, c, st0) = [rest |-> r, i |-> i, st |-> st]
                       /\ Taken(r, q, c) /\ RunOK(st)
  <1> DEFINE Good(s, k) == LoopStateOK(s, q, c, k)
             all  == [rest : Seq(Waiting), i : Nat \ {0}, st : ConnState]
             S    == {s \in all : \E k \in Nat : Good(s, k)}
             a    == [rest |-> q, i |-> 1, st |-> st0]
             F    == [s \in S |-> AcceptRound(s, c)]
             n    == Len(q)
             Rounds(f) == f = [k \in 0 .. n |->
                                 IF k = 0 THEN a ELSE AcceptRound(f[k - 1], c)]
  <1>1. n \in Nat
    BY LenProperties
  <1>2. ASSUME NEW s, NEW k \in Nat, Good(s, k)
        PROVE  s \in S /\ Good(AcceptRound(s, c), k + 1)
    <2>1. PICK r, i, st : s = [rest |-> r, i |-> i, st |-> st] /\ LoopOK(r, i, q, c, k) /\ RunOK(st)
      BY <1>2 DEF LoopStateOK
    <2>2. r \in Seq(Waiting) /\ i \in Nat \ {0} /\ st \in ConnState
      BY <2>1 DEF LoopOK, RunOK
    <2>3. s \in all
      BY <2>1, <2>2
    <2>4. Good(AcceptRound(s, c), k + 1)
      BY <1>2, RoundOK
    <2> QED BY <1>2, <2>3, <2>4
  <1>3. Good(a, 0)
    <2>1. LoopOK(q, 1, q, c, 0)
      BY <1>1 DEF LoopOK
    <2> QED BY <2>1 DEF LoopStateOK
  <1>4. F \in [S -> S] /\ a \in S
    <2>1. ASSUME NEW s \in S PROVE AcceptRound(s, c) \in S
      <3>1. PICK k \in Nat : Good(s, k)
        OBVIOUS
      <3>2. Good(AcceptRound(s, c), k + 1) /\ k + 1 \in Nat
        BY <1>2, <3>1
      <3> HIDE DEF Good, S
      <3> QED BY <1>2, <3>2
    <2>2. a \in S
      <3> HIDE DEF Good, S, a
      <3> QED BY <1>2, <1>3
    <2> HIDE DEF S, a
    <2> QED BY <2>1, <2>2
  <1>5. PICK f \in [0 .. n -> S] : Iterates(f, F, a, n)
    <2> HIDE DEF S, F, a, n
    <2> QED BY <1>1, <1>4, IterateExists
  <1>6. \A k \in 0 .. n - 1 : f[k + 1] = AcceptRound(f[k], c)
    <2> SUFFICES ASSUME NEW k \in 0 .. n - 1 PROVE f[k + 1] = AcceptRound(f[k], c)
      OBVIOUS
    <2> HIDE DEF S, a, n
    <2>1. k + 1 \in 0 .. n /\ k \in 0 .. n /\ (k + 1) - 1 = k /\ k + 1 # 0
      BY <1>1
    <2> QED BY <1>5, <2>1 DEF Iterates
  <1>7. Rounds(f)
    <2> HIDE DEF S, a, n
    <2> SUFFICES ASSUME NEW k \in 0 .. n, k # 0 PROVE f[k] = AcceptRound(f[k - 1], c)
      BY <1>1, <1>5 DEF Iterates
    <2>1. k - 1 \in 0 .. n - 1 /\ (k - 1) + 1 = k
      BY <1>1
    <2> QED BY <1>6, <2>1
  <1>8. PICK g : g = (CHOOSE h : Rounds(h)) /\ Rounds(g)
    <2> HIDE DEF Rounds
    <2> QED BY <1>7
  <1>9. TakeOut(q, c, st0) = g[n]
    BY <1>8 DEF TakeOut
  <1> DEFINE T == {k \in 0 .. n : Good(g[k], k)}
  <1>10. 0 \in T
    <2>1. g[0] = a
      <3> HIDE DEF a, n
      <3>1. 0 \in 0 .. n
        BY <1>1
      <3> QED BY <1>8, <3>1
    <2> HIDE DEF a, Good
    <2> QED BY <1>1, <1>3, <2>1
  <1>11. ASSUME NEW k \in 0 .. n - 1, k \in T PROVE k + 1 \in T
    <2> HIDE DEF Good, a, n
    <2>1. k + 1 \in 0 .. n /\ (k + 1) - 1 = k /\ k + 1 # 0 /\ k \in Nat
      BY <1>1
    <2>2. g[k + 1] = AcceptRound(g[k], c)
      BY <1>8, <2>1
    <2>3. Good(AcceptRound(g[k], c), k + 1)
      BY <1>2, <1>11, <2>1
    <2> QED BY <2>1, <2>2, <2>3
  <1>12. Good(g[n], n)
    <2> HIDE DEF Good, Rounds, n
    <2>1. \A k \in 0 .. n : k \in T
      <3> HIDE DEF T
      <3> QED BY <1>1, <1>10, <1>11, SetInduction
    <2> QED BY <1>1, <2>1
  <1>13. PICK r, i, st : g[n] = [rest |-> r, i |-> i, st |-> st] /\ LoopOK(r, i, q, c, n) /\ RunOK(st)
    BY <1>12 DEF LoopStateOK
  <1>14. r \in Seq(Waiting) /\ Len(r) <= Len(q) /\ Len(r) \in Nat /\ i = Len(r) + 1
    BY <1>1, <1>13, LenProperties DEF LoopOK
  <1>15. \A j \in 1 .. Len(r) : r[j].src # c
    BY <1>13, <1>14 DEF LoopOK
  <1>16. \A j \in 1 .. Len(r) : \E l \in 1 .. Len(q) : r[j] = q[l]
    BY <1>13 DEF LoopOK
  <1> HIDE DEF n
  <1>17. TakeOut(q, c, st0) = [rest |-> r, i |-> i, st |-> st]
    BY <1>9, <1>13
  <1>18. Taken(r, q, c)
    BY <1>14, <1>15, <1>16 DEF Taken
  <1> QED BY <1>13, <1>17, <1>18, Zenon

(***************************************************************************)
(* The actions.                                                            *)
(***************************************************************************)

\* Types of what the theorems are about, and one packet at least per event.
IndInv ==
  /\ accept_queue \in Seq(Waiting)
  /\ accepted \in Seq(Client)
  /\ fd_accept_counter \in Nat
  /\ DOMAIN conn = Client /\ \A c \in Client : RunOK(conn[c])
  /\ Len(accept_queue) <= fd_accept_counter
  /\ AcceptedOnce

\* The invariant holds before any packet came.
LEMMA InitInv == Init => IndInv
  <1> SUFFICES ASSUME Init PROVE IndInv
    OBVIOUS
  <1>1. << >> \in Seq(Waiting) /\ << >> \in Seq(Client) /\ Len(<< >>) = 0
    BY EmptySeq
  <1>2. DOMAIN conn = Client /\ \A c \in Client : RunOK(conn[c])
    BY NewConnOK DEF Init
  <1> QED BY <1>1, <1>2 DEF Init, IndInv, AcceptedOnce

\* nb__cycle_connections changes nothing but the signalling state.
LEMMA CycledOK ==
  ASSUME NEW f, \A c \in Client : RunOK(f[c])
  PROVE  DOMAIN Cycled(f) = Client /\ \A c \in Client : RunOK(Cycled(f)[c])
  <1> SUFFICES ASSUME NEW c \in Client PROVE RunOK(Cycled(f)[c])
    BY DEF Cycled
  <1>1. RunOK(f[c])
    OBVIOUS
  <1>2. CASE Cycled(f)[c] = f[c]
    BY <1>1, <1>2
  <1>3. CASE Cycled(f)[c] = [f[c] EXCEPT !.signaling_state = "SIGNAL_HANDLED"]
    <2>1. PICK st : st = f[c]
      OBVIOUS
    <2>2. RunOK(st) /\ Cycled(f)[c] = [st EXCEPT !.signaling_state = "SIGNAL_HANDLED"]
      BY <1>1, <1>3, <2>1
    <2> QED BY <2>2 DEF RunOK, ConnState
  <1> QED BY <1>2, <1>3 DEF Cycled

\* The clients with a connection.
LEMMA AcceptedRange ==
  ASSUME accepted \in Seq(Client)
  PROVE  \A c : Connected(c) <=> \E j \in 1 .. Len(accepted) : accepted[j] = c
  <1>1. DOMAIN accepted = 1 .. Len(accepted)
    BY LenProperties
  <1> QED BY <1>1 DEF Connected, Range

\* A packet of a client without a connection is queued.
LEMMA QueueStep ==
  ASSUME IndInv, NEW c \in Client, NEW n \in Packet, StepQueue(c, n)
  PROVE  IndInv'
  <1> USE DEF IndInv
  <1>1. PICK q : q = accept_queue
    OBVIOUS
  <1>2. PICK e : e = [src |-> c, n |-> n]
    OBVIOUS
  <1>3. e \in Waiting /\ q \in Seq(Waiting) /\ e.src = c
    BY <1>1, <1>2 DEF Waiting
  <1>4. accept_queue' = Append(q, e) /\ fd_accept_counter' = fd_accept_counter + 1
        /\ ~Connected(c) /\ accepted' = accepted /\ conn' = Cycled(conn)
    BY <1>1, <1>2 DEF StepQueue, Queued
  <1>5. Append(q, e) \in Seq(Waiting) /\ Len(q) \in Nat /\ Len(Append(q, e)) = Len(q) + 1
        /\ \A j \in 1 .. Len(q) : Append(q, e)[j] = q[j]
        /\ Append(q, e)[Len(q) + 1] = e
    BY <1>3, AppendProperties, LenProperties
  <1>6. DOMAIN conn' = Client /\ \A d \in Client : RunOK(conn'[d])
    BY <1>4, CycledOK
  <1>7. ASSUME NEW j \in 1 .. Len(q) + 1 PROVE ~Connected(Append(q, e)[j].src)
    <2>1. CASE j \in 1 .. Len(q)
      BY <1>1, <1>5, <2>1 DEF AcceptedOnce
    <2>2. CASE j = Len(q) + 1
      BY <1>3, <1>4, <1>5, <2>2
    <2> QED BY <1>5, <2>1, <2>2
  <1>8. AcceptedOnce'
    BY <1>4, <1>5, <1>7 DEF AcceptedOnce, Connected
  <1>9. fd_accept_counter' \in Nat /\ Len(accept_queue') <= fd_accept_counter'
    BY <1>1, <1>4, <1>5
  <1> QED BY <1>4, <1>5, <1>6, <1>8, <1>9

\* A packet of a connected client goes through its connection.
LEMMA DeliverStep ==
  ASSUME IndInv, NEW c \in Client, NEW n \in Packet, StepDeliver(c, n)
  PROVE  IndInv'
  <1> USE DEF IndInv
  <1>1. conn' = Cycled([conn EXCEPT ![c] = Ingress(conn[c], n)])
        /\ UNCHANGED <<accept_queue, fd_accept_counter, accepted>>
    BY DEF StepDeliver
  <1>2. PICK f : f = [conn EXCEPT ![c] = Ingress(conn[c], n)]
    OBVIOUS
  <1>3. RunOK(Ingress(conn[c], n))
    BY IngressOK
  <1>4. \A d \in Client : RunOK(f[d])
    BY <1>2, <1>3
  <1>5. DOMAIN conn' = Client /\ \A d \in Client : RunOK(conn'[d])
    BY <1>1, <1>2, <1>4, CycledOK
  <1> QED BY <1>1, <1>5 DEF AcceptedOnce, Connected

\* A main loop step that polls nothing.
LEMMA IdleStep ==
  ASSUME IndInv, StepIdle
  PROVE  IndInv'
  <1> USE DEF IndInv
  <1>1. conn' = Cycled(conn) /\ UNCHANGED <<accept_queue, fd_accept_counter, accepted>>
    BY DEF StepIdle
  <1>2. DOMAIN conn' = Client /\ \A d \in Client : RunOK(conn'[d])
    BY <1>1, CycledOK
  <1> QED BY <1>1, <1>2 DEF AcceptedOnce, Connected

\* nb__accept makes the client of the last packet a connection, and leaves no
\* packet of it behind.
LEMMA AcceptStep ==
  ASSUME IndInv, nbp_accept
  PROVE  IndInv'
  <1> USE DEF IndInv
  <1>1. PICK q : q = accept_queue
    OBVIOUS
  <1>2. q \in Seq(Waiting) /\ q # << >> /\ Len(q) \in Nat /\ Len(q) >= 1
    <2>1. q \in Seq(Waiting) /\ q # << >>
      BY <1>1 DEF nbp_accept
    <2>2. Len(q) \in Nat \ {0}
      BY <2>1, EmptySeq
    <2> QED BY <2>1, <2>2
  <1>3. PICK p : p = Last(q)
    OBVIOUS
  <1>4. p = q[Len(q)] /\ p \in Waiting
    BY <1>2, <1>3, ElementOfSeq DEF Last
  <1>5. PICK c \in Client : c = p.src
    BY <1>4 DEF Waiting
  <1>6. PICK h : h = Front(q)
    OBVIOUS
  <1>7. h \in Seq(Waiting) /\ Len(h) = Len(q) - 1 /\ \A j \in 1 .. Len(q) - 1 : h[j] = q[j]
    BY <1>2, <1>6, FrontElements
  <1>8. PICK st0 : st0 = Ingress(NewConn, p.n)
    OBVIOUS
  <1>9. RunOK(st0)
    BY <1>4, <1>8, NewConnOK, IngressOK DEF Waiting
  <1>10. PICK r, i, st : TakeOut(h, c, st0) = [rest |-> r, i |-> i, st |-> st]
                         /\ Taken(r, h, c) /\ RunOK(st)
    BY <1>7, <1>9, TakeOutOK
  <1>11. accept_queue' = r /\ accepted' = Append(accepted, c)
         /\ conn' = [conn EXCEPT ![c] = st]
         /\ fd_accept_counter' = fd_accept_counter - 1 /\ fd_accept_counter # 0
    <2>1. /\ accept_queue' = TakeOut(h, c, st0).rest
          /\ accepted' = Append(accepted, c)
          /\ conn' = [conn EXCEPT ![c] = TakeOut(h, c, st0).st]
      BY <1>1, <1>3, <1>5, <1>6, <1>8 DEF nbp_accept, nb__accept
    <2>2. fd_accept_counter' = fd_accept_counter - 1 /\ fd_accept_counter # 0
      BY DEF nbp_accept
    <2> QED BY <1>10, <2>1, <2>2
  <1>12. r \in Seq(Waiting) /\ Len(r) \in Nat /\ Len(r) <= Len(h)
    BY <1>10, LenProperties DEF Taken
  <1>13. accepted' \in Seq(Client) /\ Len(accepted) \in Nat /\ Len(accepted') = Len(accepted) + 1
         /\ (\A j \in 1 .. Len(accepted) : accepted'[j] = accepted[j])
         /\ accepted'[Len(accepted) + 1] = c
    <2>1. PICK a : a = accepted
      OBVIOUS
    <2>2. a \in Seq(Client)
      BY <2>1
    <2>3. Append(a, c) \in Seq(Client) /\ Len(a) \in Nat /\ Len(Append(a, c)) = Len(a) + 1
          /\ (\A j \in 1 .. Len(a) : Append(a, c)[j] = a[j])
          /\ Append(a, c)[Len(a) + 1] = c
      BY <2>2, AppendProperties, LenProperties
    <2> QED BY <1>11, <2>1, <2>3
  <1>14. ~Connected(c)
    <2>1. Len(q) \in 1 .. Len(accept_queue) /\ accept_queue[Len(q)].src = c
      BY <1>1, <1>2, <1>4, <1>5
    <2> QED BY <2>1 DEF AcceptedOnce
  <1>15. \A j, k \in 1 .. Len(accepted') : accepted'[j] = accepted'[k] => j = k
    <2>1. \A j \in 1 .. Len(accepted) : accepted[j] # c
      BY <1>14, AcceptedRange
    <2>2. \A j, k \in 1 .. Len(accepted) : accepted[j] = accepted[k] => j = k
      BY DEF AcceptedOnce
    <2> SUFFICES ASSUME NEW j \in 1 .. Len(accepted) + 1, NEW k \in 1 .. Len(accepted) + 1,
                        accepted'[j] = accepted'[k]
                 PROVE  j = k
      BY <1>13
    <2>3. j \in 1 .. Len(accepted) \/ j = Len(accepted) + 1
      BY <1>13
    <2>4. k \in 1 .. Len(accepted) \/ k = Len(accepted) + 1
      BY <1>13
    <2> QED BY <1>13, <2>1, <2>2, <2>3, <2>4
  <1>16. ASSUME NEW j \in 1 .. Len(r) PROVE ~Connected(r[j].src)'
    <2>1. PICK l \in 1 .. Len(h) : r[j] = h[l]
      BY <1>10 DEF Taken
    <2>2. l \in 1 .. Len(accept_queue) /\ r[j] = accept_queue[l]
      BY <1>1, <1>2, <1>7, <2>1
    <2>3. ~Connected(r[j].src)
      BY <2>2 DEF AcceptedOnce
    <2>4. r[j].src # c
      BY <1>10 DEF Taken
    <2>5. \A k \in 1 .. Len(accepted) : accepted[k] # r[j].src
      BY <2>3, AcceptedRange
    <2>6. \A k \in 1 .. Len(accepted') : accepted'[k] # r[j].src
      BY <1>13, <2>4, <2>5
    <2>7. DOMAIN accepted' = 1 .. Len(accepted')
      BY <1>13, LenProperties
    <2> QED BY <2>6, <2>7 DEF Connected, Range
  <1>17. AcceptedOnce'
    BY <1>11, <1>15, <1>16 DEF AcceptedOnce
  <1>18. fd_accept_counter' \in Nat /\ Len(r) <= fd_accept_counter'
    BY <1>1, <1>2, <1>7, <1>11, <1>12
  <1>19. DOMAIN conn' = Client /\ \A d \in Client : RunOK(conn'[d])
    BY <1>10, <1>11
  <1> QED BY <1>11, <1>12, <1>13, <1>17, <1>18, <1>19

\* Every step keeps the invariant.
LEMMA NextInv == IndInv /\ [Next]_vars => IndInv'
  <1> SUFFICES ASSUME IndInv, [Next]_vars PROVE IndInv'
    OBVIOUS
  <1>1. CASE nbp_accept_null \/ Crashed \/ UNCHANGED vars
    BY <1>1 DEF nbp_accept_null, Crashed, vars, IndInv, AcceptedOnce, Connected
  <1>2. ASSUME NEW c \in Client, nbp_recv(c) PROVE IndInv'
    BY <1>2 DEF nbp_recv, IndInv, AcceptedOnce, Connected
  <1> QED BY <1>1, <1>2, IdleStep, AcceptStep, QueueStep, DeliverStep DEF Next

\* The inductive invariant, with what a connection's log, the accept queue and
\* the counter look like in every reachable state.
THEOREM ListenerInvariant == Spec => []IndInv
  BY InitInv, NextInv, PTL DEF Spec

\* Whatever the clients send, and however often, nb__accept never makes a
\* second connection for a client: its loop (nb_runtime.c) leaves no packet of
\* the accepted client in the queue.
THEOREM ListenerAcceptedOnce == Spec => []AcceptedOnce
  <1>1. IndInv => AcceptedOnce
    BY DEF IndInv
  <1> QED BY <1>1, ListenerInvariant, PTL

\* The counter of the POSIX layer never falls behind the accept queue: a
\* waiting client is always seen by nbp_accept and nbp_select.
THEOREM ListenerWaitingClientsSeen == Spec => []WaitingClientsSeen
  <1>1. IndInv => WaitingClientsSeen
    <2> SUFFICES ASSUME IndInv, accept_queue # << >> PROVE fd_accept_counter > 0
      BY DEF WaitingClientsSeen
    <2>1. Len(accept_queue) \in Nat \ {0}
      BY EmptySeq DEF IndInv
    <2> QED BY <2>1 DEF IndInv
  <1> QED BY <1>1, ListenerInvariant, PTL

\* What a connection passes up is consecutive, although nb__accept feeds the
\* queued packets in an order of its own and clients send theirs in any order.
THEOREM ListenerReadsConsecutive == Spec => []ReadsConsecutive
  <1>1. IndInv => ReadsConsecutive
    <2> SUFFICES ASSUME IndInv, NEW c \in Client, NEW k \in 1 .. Len(conn[c].log)
                 PROVE  conn[c].log[k] = conn[c].log[1] + k - 1
      BY DEF ReadsConsecutive
    <2>1. PICK t : t = conn[c].log
      OBVIOUS
    <2>2. t \in Seq(Packet) /\ Consecutive(t)
      BY <2>1 DEF IndInv, RunOK, ConnState
    <2>3. t[k] = t[1] + (k - 1) /\ 1 \in 1 .. Len(t) /\ k \in Int
      BY <2>1, <2>2, LenProperties DEF Consecutive
    <2>4. t[1] \in Int
      <3>1. t[1] \in Packet
        BY <2>2, <2>3, ElementOfSeq
      <3> QED BY <3>1, ListenerAssumption DEF Packet
    <2> QED BY <2>1, <2>3, <2>4
  <1> QED BY <1>1, ListenerInvariant, PTL
=============================================================================
