----------------------------- MODULE Mlx5Proofs -----------------------------
(***************************************************************************)
(* Proofs about module Mlx5, for every size of the rings that              *)
(* Mlx5Assumption allows: the inductive invariant, one lemma per action,   *)
(* the theorems.                                                           *)
(***************************************************************************)
EXTENDS Mlx5, ArithmeticLemmas, SequenceTheorems, TLAPS

(***************************************************************************)
(* The inductive invariant.  All counters of the card and the host are     *)
(* functions of the number of frames that arrived and that were counted.   *)
(***************************************************************************)
\* The completion of frame f; f = -1 is the one mlx5_try_transport makes up.
Cqe(f) == [wqe_id |-> (f \div Strides) % WqeIds, wqe_counter |-> f % Strides]

\* WQEs posted again so far.
Reposted == counted \div Strides

\* The host's indices.
HostOK ==
  /\ polled \in Nat /\ pending_recv \in 0 .. NumRecv
  /\ recv_index_cycle = (counted - 1) % total_cycles
  /\ recvs_to_post = counted % Strides
  /\ recv_index_to_post = Reposted % NumWqe
  /\ recv_buffer_index = polled % NumRecv
  /\ cqe_idx \in 0 .. NumCqe - 1

\* The receive queue holds the WQEs from the one being filled to the last one
\* posted.
QueueOK ==
  /\ arrived \in 0 .. MaxFrames
  /\ counted <= arrived
  /\ arrived <= (Reposted + NumWqe) * Strides
  /\ recv_wq \in Seq(0 .. NumWqe - 1)
  /\ Len(recv_wq) = Reposted + NumWqe - (arrived \div Strides)
  /\ \A i \in 1 .. Len(recv_wq) : recv_wq[i] = ((arrived \div Strides) + i - 1) % NumWqe

\* Place j of the completion array holds the last completion written there,
\* which is one of the last NumCqe.
PlaceOK(j, f) ==
  /\ f >= arrived - NumCqe
  /\ IF f = -1 THEN j >= arrived ELSE f % NumCqe = j
  /\ recv_cqe_arr[j] = Cqe(f)

ArrayOK ==
  /\ recv_cqe_arr \in [0 .. NumCqe - 1 ->
                         [wqe_id : 0 .. WqeIds - 1, wqe_counter : 0 .. Strides - 1]]
  /\ \A j \in 0 .. NumCqe - 1 : \E f \in -1 .. arrived - 1 : PlaceOK(j, f)

\* The id read belongs to the completion still in its place or to an earlier
\* one there, of the last NumCqe before the next frame to count.
IdOK ==
  \/ id = None
  \/ /\ pending_recv = 0
     /\ \E f \in -1 .. arrived - 1 :
          /\ id = Cqe(f).wqe_id
          /\ f >= counted - NumCqe
          /\ \E g \in f .. arrived - 1 : PlaceOK(cqe_idx, g)

\* The ring holds the last NumRecv frames.
BufferOK ==
  /\ recv_buffer \in [0 .. NumRecv - 1 -> Frame \union {None}]
  /\ \A n \in 0 .. arrived - 1 : n >= arrived - NumRecv => recv_buffer[n % NumRecv] = n

IndInv == HostOK /\ QueueOK /\ ArrayOK /\ IdOK /\ BufferOK

-----------------------------------------------------------------------------
\* The sizes of the ring of frames and of the cycle of completions.
LEMMA Sizes ==
  /\ NumWqe \in Nat \ {0} /\ Strides \in Nat \ {0} /\ NumCqe \in Nat \ {0}
  /\ WqeIds \in Nat \ {0} /\ MaxFrames \in Nat
  /\ NumRecv \in Nat \ {0} /\ total_cycles \in Nat \ {0}
  /\ NumRecv + NumCqe + Strides <= total_cycles
  <1>1. \A x, y \in Nat \ {0} : x * y \in Nat \ {0}
    OBVIOUS
  <1> QED BY <1>1, Mlx5Assumption DEF NumRecv, total_cycles

\* What is counted, and how far the card may be ahead of it.
LEMMA CountedFacts ==
  ASSUME HostOK, QueueOK
  PROVE  /\ counted \in Nat /\ arrived \in Nat /\ polled \in Nat /\ pending_recv \in Nat
         /\ Reposted \in Nat /\ arrived \div Strides \in Nat
         /\ Reposted * Strides \in Nat /\ Reposted * Strides <= counted
         /\ (Reposted + NumWqe) * Strides = Reposted * Strides + NumRecv
         /\ arrived <= counted + NumRecv
         /\ Reposted <= arrived \div Strides
  <1>1. counted \in Nat /\ arrived \in Nat /\ polled \in Nat /\ pending_recv \in Nat
    BY Sizes DEF HostOK, QueueOK, counted
  <1>a. Strides \in Nat \ {0} /\ counted \in Int /\ arrived \in Int /\ counted <= arrived
    BY <1>1, Sizes DEF QueueOK
  <1>2. Reposted \in Nat /\ Strides * Reposted \in Nat /\ arrived \div Strides \in Nat
    BY <1>1, Sizes, DivModFacts DEF Reposted
  <1>3. counted = Strides * Reposted + (counted % Strides) /\ counted % Strides \in 0 .. Strides - 1
    BY <1>a, DivModFacts, Zenon DEF Reposted
  <1>4. Reposted * Strides = Strides * Reposted
    BY <1>2, Sizes
  <1>5. (Reposted + NumWqe) * Strides = Reposted * Strides + NumWqe * Strides
    BY <1>2, Sizes
  <1>6. Reposted <= arrived \div Strides
    BY <1>a, DivMonotone, Zenon DEF Reposted
  <1>7. Reposted * Strides <= counted
    BY <1>1, <1>2, <1>3, <1>4, Sizes
  <1>8. arrived <= counted + NumRecv
    BY <1>1, <1>2, <1>4, <1>5, <1>7, Sizes DEF QueueOK, NumRecv
  <1> QED BY <1>1, <1>2, <1>4, <1>5, <1>6, <1>7, <1>8 DEF NumRecv

\* A function over 1 .. n is a sequence of length n.
LEMMA FunctionIsSeq ==
  ASSUME NEW S, NEW n \in Nat, NEW e \in [1 .. n -> S]
  PROVE  e \in Seq(S) /\ Len(e) = n
  OBVIOUS

\* The completion of a frame has a completion's type.
LEMMA CqeType ==
  ASSUME NEW f \in Int
  PROVE  Cqe(f) \in [wqe_id : 0 .. WqeIds - 1, wqe_counter : 0 .. Strides - 1]
  <1>1. f \div Strides \in Int /\ f % Strides \in 0 .. Strides - 1
    BY Sizes, DivModFacts
  <1>2. (f \div Strides) % WqeIds \in 0 .. WqeIds - 1
    BY <1>1, Sizes, DivModFacts
  <1> QED BY <1>1, <1>2 DEF Cqe

\* mlx5_try_transport sets the invariant up.
LEMMA InitInv == Init => IndInv
  <1> SUFFICES ASSUME Init PROVE IndInv
    OBVIOUS
  <1>1. counted = 0 /\ arrived = 0 /\ polled = 0 /\ pending_recv = 0
    BY DEF Init, counted
  <1>2. 0 \div Strides = 0 /\ 0 % Strides = 0 /\ 0 % NumWqe = 0 /\ 0 % NumRecv = 0
    BY Sizes, DivModUnique
  <1>3. (0 - 1) % total_cycles = total_cycles - 1
    <2>1. 0 - 1 = total_cycles * (-1) + (total_cycles - 1)
          /\ total_cycles - 1 \in 0 .. total_cycles - 1
      BY Sizes
    <2> QED BY <2>1, Sizes, DivModUnique
  <1>4. get_recv_cycle(WqeIds - 1, Strides - 1) = total_cycles - 1
    BY Sizes DEF get_recv_cycle, total_cycles
  <1>5. HostOK
    BY <1>1, <1>2, <1>3, <1>4, Sizes DEF Init, HostOK, Reposted
  <1>6. QueueOK
    <2>1. recv_wq = [i \in 1 .. NumWqe |-> i - 1]
      BY DEF Init
    <2>2. recv_wq \in Seq(0 .. NumWqe - 1) /\ Len(recv_wq) = NumWqe
      BY <2>1, Sizes
    <2>3. \A i \in 1 .. NumWqe : recv_wq[i] = (0 + i - 1) % NumWqe
      BY <2>1, Sizes, ModSmall
    <2>4. 0 <= (0 + NumWqe) * Strides
      BY Sizes
    <2> QED BY <1>1, <1>2, <2>2, <2>3, <2>4, Sizes DEF QueueOK, Reposted
  <1>7. ArrayOK
    <2>1. Cqe(-1) = [wqe_id |-> WqeIds - 1, wqe_counter |-> Strides - 1]
      <3>1. -1 = Strides * (-1) + (Strides - 1) /\ -1 = WqeIds * (-1) + (WqeIds - 1)
            /\ Strides - 1 \in 0 .. Strides - 1 /\ WqeIds - 1 \in 0 .. WqeIds - 1
        BY Sizes
      <3>2. (-1) \div Strides = -1 /\ (-1) % Strides = Strides - 1 /\ (-1) % WqeIds = WqeIds - 1
        BY <3>1, Sizes, DivModUnique
      <3> QED BY <3>2 DEF Cqe
    <2>2. \A j \in 0 .. NumCqe - 1 : PlaceOK(j, -1)
      BY <1>1, <2>1, Sizes DEF Init, PlaceOK
    <2>3. -1 \in -1 .. arrived - 1
      BY <1>1
    <2>4. recv_cqe_arr \in [0 .. NumCqe - 1 ->
                         [wqe_id : 0 .. WqeIds - 1, wqe_counter : 0 .. Strides - 1]]
      BY Sizes DEF Init
    <2> QED BY <2>2, <2>3, <2>4 DEF ArrayOK
  <1>8. IdOK /\ BufferOK
    BY <1>1 DEF Init, IdOK, BufferOK
  <1> QED BY <1>5, <1>6, <1>7, <1>8 DEF IndInv

\* The place of a frame that arrives in the ring, and the WQEs it leaves.
LEMMA ArriveQueue ==
  ASSUME HostOK, QueueOK, Arrive
  PROVE  /\ QueueOK'
         /\ recv_buffer' = [recv_buffer EXCEPT ![arrived % NumRecv] = arrived]
  <1> DEFINE d == arrived \div Strides
             s == arrived % Strides
             n == Len(recv_wq)
  <1>1. /\ counted \in Nat /\ arrived \in Nat /\ Reposted \in Nat /\ d \in Nat
        /\ (Reposted + NumWqe) * Strides = Reposted * Strides + NumRecv
        /\ Reposted * Strides \in Nat
    BY CountedFacts
  <1>2. arrived = Strides * d + s /\ s \in 0 .. Strides - 1 /\ Strides * d \in Int
    BY <1>1, Sizes, DivModFacts
  <1>3. /\ recv_wq \in Seq(0 .. NumWqe - 1) /\ recv_wq # << >>
        /\ n \in Nat /\ n = Reposted + NumWqe - d
        /\ \A i \in 1 .. n : recv_wq[i] = (d + i - 1) % NumWqe
    BY DEF QueueOK, Arrive
  <1>4. n >= 1 /\ Head(recv_wq) = d % NumWqe
    <2>1. n >= 1 /\ Head(recv_wq) = recv_wq[1]
      BY <1>3
    <2>2. recv_wq[1] = (d + 1 - 1) % NumWqe
      BY <1>3, <2>1
    <2> QED BY <1>1, <2>1, <2>2
  <1>5. Head(recv_wq) * Strides + s = arrived % NumRecv
    <2>1. (d % NumWqe) * Strides + s = arrived % (NumWqe * Strides)
      <3>1. NumWqe \in Nat \ {0} /\ Strides \in Nat \ {0} /\ arrived \in Int
        BY <1>1, Sizes
      <3> QED BY <3>1, RingSlot, Zenon
    <2> QED BY <1>4, <2>1 DEF NumRecv
  <1>6. recv_buffer' = [recv_buffer EXCEPT ![arrived % NumRecv] = arrived]
    BY <1>5 DEF Arrive
  <1>7. /\ arrived' = arrived + 1 /\ arrived < MaxFrames
        /\ counted' = counted /\ Reposted' = Reposted
    BY DEF Arrive, host, counted, Reposted
  <1>8. /\ arrived' \in 0 .. MaxFrames /\ counted' <= arrived'
    BY <1>1, <1>7, Sizes DEF QueueOK
  <1>9. arrived' <= (Reposted' + NumWqe) * Strides
    <2>1. Reposted + NumWqe - d - 1 \in Nat
      BY <1>1, <1>3, <1>4, Sizes
    <2>2. Strides * (Reposted + NumWqe - d - 1) \in Nat
      BY <2>1, Sizes
    <2>3. (Reposted + NumWqe) * Strides
            = Strides * d + Strides + Strides * (Reposted + NumWqe - d - 1)
      BY <1>1, Sizes
    <2> QED BY <1>1, <1>2, <1>7, <2>2, <2>3, Sizes
  <1>10. CASE s = Strides - 1
    <2>1. (arrived + 1) \div Strides = d + 1
      <3>1. arrived + 1 = Strides * (d + 1) + 0
        BY <1>1, <1>2, <1>10, Sizes
      <3>2. /\ Strides \in Nat \ {0} /\ arrived + 1 \in Int /\ d + 1 \in Int
            /\ 0 \in 0 .. Strides - 1
        BY <1>1, Sizes
      <3> HIDE DEF d
      <3> QED BY <3>1, <3>2, DivModUnique, Zenon
    <2>2. recv_wq' = Tail(recv_wq)
      BY <1>10 DEF Arrive
    <2>3. /\ recv_wq' \in Seq(0 .. NumWqe - 1) /\ Len(recv_wq') = n - 1
          /\ \A i \in 1 .. n - 1 : recv_wq'[i] = recv_wq[i + 1]
      BY <1>3, <1>4, <2>2
    <2>4. \A i \in 1 .. n - 1 : recv_wq'[i] = (d + 1 + i - 1) % NumWqe
      <3> TAKE i \in 1 .. n - 1
      <3>1. i + 1 \in 1 .. n /\ d + (i + 1) - 1 = d + 1 + i - 1
        BY <1>1, <1>3
      <3> QED BY <1>3, <2>3, <3>1
    <2>5. n - 1 = Reposted + NumWqe - (d + 1)
      BY <1>1, <1>3, Sizes
    <2> HIDE DEF d, n
    <2> QED BY <1>6, <1>7, <1>8, <1>9, <2>1, <2>3, <2>4, <2>5 DEF QueueOK
  <1>11. CASE s # Strides - 1
    <2>1. (arrived + 1) \div Strides = d
      <3>1. arrived + 1 = Strides * d + (s + 1) /\ s + 1 \in 0 .. Strides - 1
        BY <1>1, <1>2, <1>11, Sizes
      <3>2. Strides \in Nat \ {0} /\ arrived + 1 \in Int /\ d \in Int
        BY <1>1, Sizes
      <3> HIDE DEF d, s
      <3> QED BY <3>1, <3>2, DivModUnique, Zenon
    <2>2. recv_wq' = recv_wq
      BY <1>11 DEF Arrive
    <2> HIDE DEF d
    <2> QED BY <1>3, <1>6, <1>7, <1>8, <1>9, <2>1, <2>2 DEF QueueOK
  <1> QED BY <1>10, <1>11

\* A frame that arrives replaces the one NumRecv before it.
LEMMA ArriveBuffer ==
  ASSUME HostOK, QueueOK, BufferOK, arrived < MaxFrames, arrived' = arrived + 1,
         recv_buffer' = [recv_buffer EXCEPT ![arrived % NumRecv] = arrived]
  PROVE  BufferOK'
  <1>1. arrived \in Nat /\ arrived % NumRecv \in 0 .. NumRecv - 1 /\ arrived \in Frame
    <2>1. arrived \in Nat
      BY CountedFacts
    <2>2. arrived \in Frame
      BY <2>1, Sizes DEF Frame
    <2> QED BY <2>1, <2>2, Sizes, ModRange
  <1>2. recv_buffer' \in [0 .. NumRecv - 1 -> Frame \union {None}]
    BY <1>1 DEF BufferOK
  <1>3. ASSUME NEW n \in 0 .. arrived, n >= arrived + 1 - NumRecv
        PROVE  recv_buffer'[n % NumRecv] = n
    <2>1. n % NumRecv \in 0 .. NumRecv - 1 /\ n \in Nat
      BY <1>1, Sizes, DivModFacts
    <2>2. CASE n = arrived
      BY <2>1, <2>2 DEF BufferOK
    <2>3. CASE n # arrived
      <3>1. n \in 0 .. arrived - 1 /\ n >= arrived - NumRecv
        BY <1>1, <1>3, <2>3, Sizes
      <3>2. n - arrived < NumRecv /\ arrived - n < NumRecv
        BY <1>1, <1>3, <2>3, Sizes
      <3>3. n % NumRecv # arrived % NumRecv
        BY <1>1, <2>1, <2>3, <3>2, Sizes, ModInjective
      <3> QED BY <2>1, <3>1, <3>3 DEF BufferOK
    <2> QED BY <2>2, <2>3
  <1>4. 0 .. arrived' - 1 = 0 .. arrived /\ arrived' - NumRecv = arrived + 1 - NumRecv
    BY <1>1, Sizes
  <1> QED BY <1>2, <1>3, <1>4 DEF BufferOK

\* A frame that arrives replaces the completion NumCqe before its own; the
\* other places stay among the last NumCqe.
LEMMA ArrivePlace ==
  ASSUME HostOK, QueueOK, ArrayOK, Arrive,
         NEW j \in 0 .. NumCqe - 1, NEW f \in -1 .. arrived - 1, PlaceOK(j, f)
  PROVE  \E g \in f .. arrived' - 1 : PlaceOK(j, g)'
  <1>1. arrived \in Nat /\ arrived' = arrived + 1
    BY CountedFacts DEF Arrive
  <1>2. recv_cqe_arr' = [recv_cqe_arr EXCEPT ![arrived % NumCqe] = Cqe(arrived)]
    BY DEF Arrive, Cqe
  <1>3. DOMAIN recv_cqe_arr = 0 .. NumCqe - 1
    BY DEF ArrayOK
  <1>4. CASE j = arrived % NumCqe
    <2>1. recv_cqe_arr'[j] = Cqe(arrived)
      BY <1>2, <1>3, <1>4
    <2>2. PICK g \in f .. arrived' - 1 : g = arrived
      BY <1>1
    <2>3. g >= arrived' - NumCqe /\ g # -1
      BY <1>1, <2>2, Sizes
    <2>4. PlaceOK(j, g)'
      BY <1>4, <2>1, <2>2, <2>3 DEF PlaceOK, Cqe
    <2> QED BY <2>4
  <1>5. CASE j # arrived % NumCqe
    <2>1. recv_cqe_arr'[j] = Cqe(f)
      BY <1>2, <1>3, <1>5 DEF PlaceOK
    <2>2. f \in f .. arrived' - 1
      BY <1>1
    <2>3. CASE f = -1
      <3>1. j >= arrived /\ arrived < NumCqe
        BY <1>1, <2>3, Sizes DEF PlaceOK
      <3>2. arrived % NumCqe = arrived
        BY <1>1, <3>1, Sizes, ModSmall
      <3>3. j >= arrived' /\ f >= arrived' - NumCqe
        BY <1>1, <1>5, <2>3, <3>1, <3>2, Sizes
      <3> QED BY <2>1, <2>2, <2>3, <3>3 DEF PlaceOK, Cqe
    <2>4. CASE f # -1
      <3>1. f % NumCqe = j /\ f \in Nat /\ f >= arrived - NumCqe
        BY <1>1, <2>4 DEF PlaceOK
      <3>2. f # arrived - NumCqe
        <4>1. ASSUME f = arrived - NumCqe PROVE FALSE
          <5>1. (f + NumCqe) % NumCqe = f % NumCqe
            BY <3>1, Sizes, ModPlus
          <5>2. f + NumCqe = arrived
            BY <1>1, <3>1, <4>1, Sizes
          <5> QED BY <1>5, <3>1, <5>1, <5>2
        <4> QED BY <4>1
      <3>3. f >= arrived' - NumCqe
        BY <1>1, <3>1, <3>2, Sizes
      <3> QED BY <2>1, <2>2, <2>4, <3>1, <3>3 DEF PlaceOK, Cqe
    <2> QED BY <2>3, <2>4
  <1> QED BY <1>4, <1>5

\* A frame arrives.
LEMMA ArriveStep == IndInv /\ Arrive => IndInv'
  <1> SUFFICES ASSUME IndInv, Arrive PROVE IndInv'
    OBVIOUS
  <1> USE DEF IndInv
  <1>1. arrived \in Nat /\ arrived' = arrived + 1 /\ counted \in Nat
    BY CountedFacts DEF Arrive
  <1>2. HostOK'
    BY DEF Arrive, host, HostOK, counted, Reposted
  <1>3. QueueOK' /\ BufferOK'
    BY ArriveQueue, ArriveBuffer DEF Arrive
  <1>4. ArrayOK'
    <2>1. recv_cqe_arr' \in [0 .. NumCqe - 1 ->
                         [wqe_id : 0 .. WqeIds - 1, wqe_counter : 0 .. Strides - 1]]
      <3>1. recv_cqe_arr' = [recv_cqe_arr EXCEPT ![arrived % NumCqe] = Cqe(arrived)]
        BY DEF Arrive, Cqe
      <3>2. Cqe(arrived) \in [wqe_id : 0 .. WqeIds - 1, wqe_counter : 0 .. Strides - 1]
        BY <1>1, CqeType
      <3> HIDE DEF IndInv
      <3>3. ArrayOK
        BY DEF IndInv
      <3> QED BY <3>1, <3>2, <3>3 DEF ArrayOK
    <2>2. ASSUME NEW j \in 0 .. NumCqe - 1
          PROVE  \E g \in -1 .. arrived' - 1 : PlaceOK(j, g)'
      <3>1. PICK f \in -1 .. arrived - 1 : PlaceOK(j, f)
        BY DEF ArrayOK
      <3>2. PICK g \in f .. arrived' - 1 : PlaceOK(j, g)'
        BY <3>1, ArrivePlace
      <3>3. g \in -1 .. arrived' - 1
        BY <1>1
      <3> QED BY <3>2, <3>3
    <2> QED BY <2>1, <2>2 DEF ArrayOK
  <1>5. IdOK'
    <2>1. CASE id = None
      BY <2>1 DEF Arrive, host, IdOK
    <2>2. CASE id # None
      <3>1. PICK f \in -1 .. arrived - 1 :
               /\ id = Cqe(f).wqe_id /\ f >= counted - NumCqe
               /\ \E g \in f .. arrived - 1 : PlaceOK(cqe_idx, g)
        BY <2>2 DEF IdOK
      <3>2. PICK g \in f .. arrived - 1 : PlaceOK(cqe_idx, g)
        BY <3>1
      <3>3. g \in -1 .. arrived - 1
        BY <1>1
      <3>c. PICK c \in 0 .. NumCqe - 1 : c = cqe_idx
        BY DEF HostOK
      <3>4. PICK h \in g .. arrived' - 1 : PlaceOK(c, h)'
        BY <3>2, <3>3, <3>c, ArrivePlace
      <3>5. h \in f .. arrived' - 1 /\ f \in -1 .. arrived' - 1
        BY <1>1, <3>3
      <3>6. cqe_idx' = cqe_idx /\ id' = id /\ pending_recv' = pending_recv /\ counted' = counted
        BY DEF Arrive, host, counted
      <3>7. pending_recv = 0
        BY <2>2 DEF IdOK
      <3>8. PlaceOK(cqe_idx, h)' /\ (id = Cqe(f).wqe_id)'
        BY <3>1, <3>4, <3>6, <3>c DEF Cqe, PlaceOK
      <3> QED BY <3>1, <3>5, <3>6, <3>7, <3>8 DEF IdOK
    <2> QED BY <2>1, <2>2
  <1> QED BY <1>2, <1>3, <1>4, <1>5

\* get_packet_count reads the first half of a completion.
LEMMA ReadIdStep == IndInv /\ ReadId => IndInv'
  <1> SUFFICES ASSUME IndInv, ReadId PROVE IndInv'
    OBVIOUS
  <1>1. HostOK /\ QueueOK /\ ArrayOK /\ BufferOK
    BY DEF IndInv
  <1>2. /\ arrived' = arrived /\ recv_cqe_arr' = recv_cqe_arr /\ counted' = counted
        /\ cqe_idx' = cqe_idx /\ pending_recv' = 0 /\ id' = recv_cqe_arr[cqe_idx].wqe_id
    BY DEF ReadId, card, counted
  <1>3. PICK f \in -1 .. arrived - 1 : PlaceOK(cqe_idx, f)
    BY <1>1 DEF ArrayOK, HostOK
  <1>4. f >= counted - NumCqe /\ f \in f .. arrived - 1
    <2>1. counted \in Nat /\ arrived \in Nat /\ counted <= arrived /\ NumCqe \in Nat
      BY <1>1, CountedFacts, Sizes DEF QueueOK
    <2> QED BY <1>3, <2>1 DEF PlaceOK
  <1>5. id' = Cqe(f).wqe_id
    BY <1>2, <1>3 DEF PlaceOK
  <1>6. PlaceOK(cqe_idx, f)'
    BY <1>2, <1>3 DEF PlaceOK, Cqe
  <1>7. IdOK'
    BY <1>2, <1>4, <1>5, <1>6 DEF IdOK, Cqe
  <1>8. HostOK' /\ QueueOK' /\ ArrayOK' /\ BufferOK'
    <2> USE DEF ReadId, card, counted
    <2>1. HostOK' /\ QueueOK'
      BY <1>1 DEF HostOK, QueueOK, Reposted
    <2>2. ArrayOK' /\ BufferOK'
      BY <1>1 DEF ArrayOK, BufferOK, PlaceOK, Cqe
    <2> QED BY <2>1, <2>2
  <1> QED BY <1>7, <1>8 DEF IndInv

\* The two halves may belong to two completions, of a frame f and of a later
\* frame g.  They read as the completion of a frame h that has arrived, and
\* get_packet_count counts the frames up to h, or none if h was counted.
LEMMA CountFacts ==
  ASSUME HostOK, QueueOK, pending_recv = 0,
         NEW f \in -1 .. arrived - 1, NEW g \in f .. arrived - 1,
         f >= counted - NumCqe,
         NEW cyc, cyc = get_recv_cycle(Cqe(f).wqe_id, Cqe(g).wqe_counter)
  PROVE  /\ Count(cyc) \in 0 .. arrived - counted
         /\ Count(cyc) # 0 => cyc = (counted + Count(cyc) - 1) % total_cycles
  <1> DEFINE d == f \div Strides
             h == Strides * d + (g % Strides)
             x == h - (counted - 1)
  <1>1. /\ counted \in Nat /\ arrived \in Nat /\ counted <= arrived
        /\ arrived <= counted + NumRecv /\ f \in Int /\ g \in Int
    BY CountedFacts DEF QueueOK
  <1>s. /\ Strides \in Nat \ {0} /\ WqeIds \in Nat \ {0}
        /\ total_cycles \in Nat \ {0} /\ NumRecv \in Nat /\ NumCqe \in Nat
        /\ NumRecv + NumCqe + Strides <= total_cycles
    BY Sizes
  <1>2. /\ d \in Int /\ Strides * d \in Int /\ f % Strides \in 0 .. Strides - 1
        /\ f = Strides * d + (f % Strides)
    BY <1>1, <1>s, DivModFacts, Zenon
  <1>3. /\ g \div Strides \in Int /\ Strides * (g \div Strides) \in Int
        /\ g % Strides \in 0 .. Strides - 1
        /\ g = Strides * (g \div Strides) + (g % Strides)
    BY <1>1, <1>s, DivModFacts, Zenon
  <1>4. d <= g \div Strides
    <2>1. f <= g
      BY <1>1
    <2> QED BY <1>1, <1>s, <2>1, DivMonotone, Zenon
  <1>5. h \in Int /\ h <= g /\ h >= f - Strides + 1
    <2>1. (g \div Strides) - d \in Nat
      BY <1>2, <1>3, <1>4
    <2>2. Strides * ((g \div Strides) - d) \in Nat
      BY <2>1, <1>s
    <2>3. Strides * ((g \div Strides) - d) = Strides * (g \div Strides) - Strides * d
      BY <1>2, <1>3, <1>s
    <2> HIDE DEF d
    <2> QED BY <1>1, <1>2, <1>3, <1>s, <2>2, <2>3
  <1>6. cyc = h % total_cycles
    <2>1. d = h \div Strides /\ g % Strides = h % Strides
      BY <1>2, <1>3, <1>5, <1>s, DivModUnique, Zenon
    <2>2. ((h \div Strides) % WqeIds) * Strides + (h % Strides) = h % (WqeIds * Strides)
      BY <1>5, <1>s, RingSlot, Zenon
    <2>3. cyc = (d % WqeIds) * Strides + (g % Strides)
      BY DEF get_recv_cycle, Cqe
    <2> HIDE DEF h, d
    <2> QED BY <2>1, <2>2, <2>3, Zenon DEF total_cycles
  <1> DEFINE diff == (cyc + total_cycles - recv_index_cycle) % total_cycles
  <1>7. diff = x % total_cycles
    <2>1. recv_index_cycle = (counted - 1) % total_cycles
      BY DEF HostOK
    <2>2. counted - 1 \in Int
      BY <1>1
    <2> HIDE DEF h
    <2> QED BY <1>5, <1>6, <1>s, <2>1, <2>2, ModDistance, Zenon
  <1>8. x \in Int /\ x <= NumRecv /\ x <= arrived - counted /\ x >= 2 - NumCqe - Strides
    <2> HIDE DEF h
    <2> QED BY <1>1, <1>5, <1>s
  <1>9. x % total_cycles = IF x >= 0 THEN x ELSE x + total_cycles
    <2> HIDE DEF x
    <2>1. -total_cycles <= x /\ x < total_cycles
      BY <1>8, <1>s
    <2> QED BY <1>8, <1>s, <2>1, ModNear, Zenon
  <1>10. Count(cyc) = IF diff > NumRecv THEN 0 ELSE diff
    BY DEF Count
  <1>11. Count(cyc) = IF x >= 0 THEN x ELSE 0
    <2> HIDE DEF diff, x
    <2> QED BY <1>7, <1>8, <1>9, <1>10, <1>s
  <1>12. x # 0 => counted + x - 1 = h
    <2> HIDE DEF h
    <2> QED BY <1>1, <1>5
  <1>13. Count(cyc) # 0 => Count(cyc) = x /\ x # 0
    <2> HIDE DEF x
    <2> QED BY <1>11
  <1> HIDE DEF x, h
  <1> QED BY <1>1, <1>6, <1>8, <1>11, <1>12, <1>13

\* The WQEs mlx5_try_recv posts follow the ones in the queue.
LEMMA PostFacts ==
  ASSUME HostOK, QueueOK, NEW ret \in 0 .. arrived - counted, counted' = counted + ret,
         NEW posts, posts = Posts(recvs_to_post + ret), arrived' = arrived,
         recv_wq' = recv_wq \o [i \in 1 .. posts |-> (recv_index_to_post + i - 1) % NumWqe]
  PROVE  /\ QueueOK'
         /\ recvs_to_post + ret - posts * Strides = counted' % Strides
         /\ (recv_index_to_post + posts) % NumWqe = Reposted' % NumWqe
  <1> DEFINE d == arrived \div Strides
             n == Len(recv_wq)
             s == counted % Strides
  <1>1. /\ counted \in Nat /\ arrived \in Nat /\ Reposted \in Nat /\ d \in Nat
        /\ counted <= arrived /\ ret \in Nat /\ counted + ret <= arrived
        /\ Reposted * Strides \in Nat
        /\ (Reposted + NumWqe) * Strides = Reposted * Strides + NumRecv
    BY CountedFacts DEF QueueOK
  <1>s. Strides \in Nat \ {0} /\ NumWqe \in Nat \ {0} /\ NumRecv \in Nat
    BY Sizes
  <1>2. /\ recvs_to_post = s /\ s \in 0 .. Strides - 1
        /\ recv_index_to_post = Reposted % NumWqe
    BY <1>1, <1>s, ModRange DEF HostOK
  <1>3. posts \in Nat /\ s + ret = Strides * posts + ((s + ret) % Strides)
    <2>1. posts = (s + ret) \div Strides
      BY <1>2 DEF Posts
    <2> HIDE DEF s
    <2>2. s + ret \in Int /\ s + ret \in Nat
      BY <1>1, <1>2, <1>s
    <2> QED BY <1>s, <2>1, <2>2, DivModFacts, Zenon
  <1>4. Reposted' = Reposted + posts
    <2>1. (counted + ret) \div Strides = (counted \div Strides) + ((s + ret) \div Strides)
      <3>1. counted \in Int /\ ret \in Int
        BY <1>1
      <3> QED BY <1>s, <3>1, DivAdd, Zenon
    <2>2. posts = (s + ret) \div Strides
      BY <1>2 DEF Posts
    <2> QED BY <2>1, <2>2 DEF Reposted
  <1>5. recvs_to_post + ret - posts * Strides = counted' % Strides
    <2>1. (s + ret) % Strides = (counted + ret) % Strides
      <3>1. counted \in Int /\ ret \in Int
        BY <1>1
      <3> QED BY <1>s, <3>1, ModAdd, Zenon
    <2>2. (s + ret) % Strides \in Int
      BY <1>1, <1>2, <1>s
    <2> HIDE DEF s
    <2> DEFINE t == (s + ret) % Strides
    <2>a. s + ret = Strides * posts + t /\ t \in Int
      BY <1>3, <2>2
    <2> HIDE DEF t
    <2>b. posts \in Nat /\ s \in Int /\ ret \in Int /\ Strides \in Nat
      BY <1>1, <1>2, <1>3, <1>s
    <2>c. posts * Strides = Strides * posts /\ Strides * posts \in Int
      BY <2>b
    <2>d. \A x, y, z \in Int : x + y = z + t => x + y - z = t
      BY <2>a
    <2>3. s + ret - posts * Strides = t
      <3> DEFINE z == Strides * posts
      <3>1. z \in Int /\ s + ret = z + t /\ posts * Strides = z
        BY <2>a, <2>c
      <3> HIDE DEF z
      <3>2. s + ret - z = t
        BY <2>b, <2>d, <3>1
      <3> QED BY <3>1, <3>2
    <2> USE DEF t
    <2> QED BY <1>2, <2>1, <2>3
  <1>6. (recv_index_to_post + posts) % NumWqe = Reposted' % NumWqe
    <2>1. Reposted \in Int /\ posts \in Int
      BY <1>1, <1>3
    <2> HIDE DEF Reposted
    <2> QED BY <1>2, <1>4, <1>s, <2>1, ModAdd, Zenon
  <1>7. /\ recv_wq \in Seq(0 .. NumWqe - 1) /\ n \in Nat /\ n = Reposted + NumWqe - d
        /\ \A i \in 1 .. n : recv_wq[i] = (d + i - 1) % NumWqe
    BY DEF QueueOK
  <1> DEFINE e == [i \in 1 .. posts |-> (recv_index_to_post + i - 1) % NumWqe]
  <1>8. e \in Seq(0 .. NumWqe - 1) /\ Len(e) = posts
    <2>1. Reposted % NumWqe \in Nat
      BY <1>1, <1>s, ModRange
    <2>2. \A i \in 1 .. posts : (recv_index_to_post + i - 1) % NumWqe \in 0 .. NumWqe - 1
      <3> TAKE i \in 1 .. posts
      <3>1. recv_index_to_post + i - 1 \in Nat
        BY <1>2, <1>3, <2>1
      <3> QED BY <1>s, <3>1, ModRange
    <2>3. e \in [1 .. posts -> 0 .. NumWqe - 1]
      BY <2>2, Zenon
    <2> HIDE DEF e
    <2> QED BY <1>3, <2>3, FunctionIsSeq
  <1>9. /\ recv_wq' \in Seq(0 .. NumWqe - 1) /\ Len(recv_wq') = n + posts
        /\ \A i \in 1 .. n + posts : recv_wq'[i] = IF i <= n THEN recv_wq[i] ELSE e[i - n]
    <2> HIDE DEF e
    <2>1. recv_wq' = recv_wq \o e
      BY DEF e
    <2>2. /\ recv_wq \o e \in Seq(0 .. NumWqe - 1) /\ Len(recv_wq \o e) = n + Len(e)
          /\ \A i \in 1 .. n + Len(e) :
               (recv_wq \o e)[i] = IF i <= n THEN recv_wq[i] ELSE e[i - n]
      BY <1>7, <1>8, ConcatProperties, Zenon
    <2> HIDE DEF n
    <2> QED BY <1>8, <2>1, <2>2, Zenon
  <1>10. ASSUME NEW i \in 1 .. n + posts PROVE recv_wq'[i] = (d + i - 1) % NumWqe
    <2>1. CASE i <= n
      BY <1>7, <1>9, <2>1
    <2>2. CASE i > n
      <3> DEFINE j == i - n
      <3>1. j \in 1 .. posts /\ j - 1 \in Int /\ Reposted \in Int
        BY <1>1, <1>3, <1>7, <2>2
      <3>2. recv_wq'[i] = (recv_index_to_post + j - 1) % NumWqe
        <4> HIDE DEF e, n, d
        <4>1. n \in Nat /\ ~(i <= n)
          BY <1>7, <2>2
        <4>2. recv_wq'[i] = e[j]
          BY <1>9, <4>1
        <4> QED BY <3>1, <4>2 DEF e
      <3>3. ((Reposted % NumWqe) + (j - 1)) % NumWqe = (Reposted + (j - 1)) % NumWqe
        BY <1>s, <3>1, ModAdd, Zenon
      <3>4. (Reposted + (j - 1) + NumWqe) % NumWqe = (Reposted + (j - 1)) % NumWqe
        <4>1. Reposted + (j - 1) \in Int
          BY <3>1
        <4> QED BY <1>s, <4>1, ModPlus, Zenon
      <3>5. Reposted + (j - 1) + NumWqe = d + i - 1
        <4> HIDE DEF d, Reposted, n
        <4> QED BY <1>1, <1>3, <1>7, <1>s, <3>1
      <3>6. recv_index_to_post + j - 1 = (Reposted % NumWqe) + (j - 1)
        <4>1. Reposted % NumWqe \in Int
          BY <1>1, <1>s, DivModFacts
        <4> HIDE DEF Reposted
        <4> QED BY <1>2, <3>1, <4>1
      <3> HIDE DEF j, d
      <3> QED BY <3>2, <3>3, <3>4, <3>5, <3>6, Zenon
    <2> HIDE DEF n, d
    <2>3. i <= n \/ i > n
      BY <1>3, <1>7
    <2> QED BY <2>1, <2>2, <2>3
  <1>11. arrived <= (Reposted' + NumWqe) * Strides
    <2>1. posts * Strides \in Nat
      BY <1>3, <1>s
    <2>2. (Reposted + posts + NumWqe) * Strides = (Reposted + NumWqe) * Strides + posts * Strides
      BY <1>1, <1>3, <1>s
    <2>3. arrived <= (Reposted + NumWqe) * Strides
      BY DEF QueueOK
    <2>4. (Reposted + NumWqe) * Strides \in Nat
      BY <1>1, <1>s
    <2>5. arrived <= (Reposted + posts + NumWqe) * Strides
      <3> DEFINE y == (Reposted + NumWqe) * Strides
                 z == posts * Strides
      <3> HIDE DEF y, z
      <3>1. y \in Nat /\ z \in Nat /\ arrived <= y
        BY <2>1, <2>3, <2>4 DEF y, z
      <3>2. arrived <= y + z
        BY <1>1, <3>1
      <3> QED BY <2>2, <3>2 DEF y, z
    <2> QED BY <1>4, <2>5
  <1>12. n + posts = Reposted' + NumWqe - d
    BY <1>1, <1>3, <1>4, <1>7, <1>s
  <1>13. counted' <= arrived' /\ arrived' \in 0 .. MaxFrames
    BY <1>1 DEF QueueOK
  <1> HIDE DEF d, n, s, e
  <1>14. QueueOK'
    BY <1>9, <1>10, <1>11, <1>12, <1>13 DEF QueueOK, d
  <1> QED BY <1>5, <1>6, <1>14

\* get_packet_count reads the second half and mlx5_try_recv posts WQEs.
LEMMA CountFramesStep == IndInv /\ CountFrames => IndInv'
  <1> SUFFICES ASSUME IndInv, CountFrames PROVE IndInv'
    OBVIOUS
  <1>1. HostOK /\ QueueOK /\ ArrayOK /\ IdOK /\ BufferOK
    BY DEF IndInv
  <1> DEFINE new_cycle == get_recv_cycle(id, recv_cqe_arr[cqe_idx].wqe_counter)
             ret       == Count(new_cycle)
             posts     == Posts(recvs_to_post + ret)
  <1>2. /\ IF ret = 0
           THEN UNCHANGED <<cqe_idx, recv_index_cycle>>
           ELSE cqe_idx' = NextCqe /\ recv_index_cycle' = new_cycle
        /\ recvs_to_post' = recvs_to_post + ret - posts * Strides
        /\ recv_index_to_post' = (recv_index_to_post + posts) % NumWqe
        /\ recv_wq' = recv_wq \o [i \in 1 .. posts |-> (recv_index_to_post + i - 1) % NumWqe]
        /\ pending_recv' = ret
        /\ id' = None
        /\ UNCHANGED <<arrived, recv_cqe_arr, recv_buffer, recv_buffer_index, polled>>
    BY DEF CountFrames
  <1>3. /\ ret \in 0 .. arrived - counted
        /\ ret # 0 => new_cycle = (counted + ret - 1) % total_cycles
        /\ pending_recv = 0
    <2>1. id # None
      BY DEF CountFrames
    <2>2. pending_recv = 0
      BY <1>1, <2>1 DEF IdOK
    <2>3. PICK f \in -1 .. arrived - 1 :
             /\ id = Cqe(f).wqe_id /\ f >= counted - NumCqe
             /\ \E g \in f .. arrived - 1 : PlaceOK(cqe_idx, g)
      BY <1>1, <2>1 DEF IdOK
    <2>4. PICK g \in f .. arrived - 1 : PlaceOK(cqe_idx, g)
      BY <2>3
    <2>5. new_cycle = get_recv_cycle(Cqe(f).wqe_id, Cqe(g).wqe_counter)
      BY <2>3, <2>4 DEF PlaceOK
    <2> HIDE DEF new_cycle
    <2> QED BY <1>1, <2>2, <2>3, <2>5, CountFacts
  <1> HIDE DEF new_cycle, ret
  <1>4. counted \in Nat /\ arrived \in Nat /\ polled \in Nat /\ arrived <= counted + NumRecv
        /\ NumRecv \in Nat
    BY <1>1, CountedFacts, Sizes
  <1>5. counted' = counted + ret /\ ret \in Nat /\ ret <= NumRecv
    BY <1>2, <1>3, <1>4 DEF counted
  <1>6. /\ QueueOK'
        /\ recvs_to_post' = counted' % Strides
        /\ recv_index_to_post' = Reposted' % NumWqe
    <2> HIDE DEF posts
    <2>1. posts = Posts(recvs_to_post + ret)
      BY DEF posts
    <2>2. PICK r \in 0 .. arrived - counted : r = ret
      BY <1>3
    <2>3. PICK q : q = posts
      OBVIOUS
    <2>4. /\ QueueOK'
          /\ recvs_to_post + r - q * Strides = counted' % Strides
          /\ (recv_index_to_post + q) % NumWqe = Reposted' % NumWqe
      BY <1>1, <1>2, <1>5, <2>1, <2>2, <2>3, PostFacts
    <2> QED BY <1>2, <2>2, <2>3, <2>4
  <1>7. HostOK'
    <2>1. recv_index_cycle' = (counted' - 1) % total_cycles
      <3>1. CASE ret = 0
        <4>1. counted' = counted
          BY <1>4, <1>5, <3>1
        <4>2. recv_index_cycle' = recv_index_cycle
          BY <1>2, <3>1
        <4>3. recv_index_cycle = (counted - 1) % total_cycles
          BY <1>1 DEF HostOK
        <4> QED BY <4>1, <4>2, <4>3, Zenon
      <3>2. CASE ret # 0
        <4>1. recv_index_cycle' = new_cycle
          BY <1>2, <3>2
        <4>2. new_cycle = (counted + ret - 1) % total_cycles
          BY <1>3, <3>2
        <4>3. counted' - 1 = counted + ret - 1
          BY <1>4, <1>5
        <4> QED BY <4>1, <4>2, <4>3, Zenon
      <3> QED BY <3>1, <3>2
    <2>2. cqe_idx' \in 0 .. NumCqe - 1
      <3>1. NextCqe \in 0 .. NumCqe - 1
        BY <1>1, Sizes DEF HostOK, NextCqe
      <3> QED BY <1>1, <1>2, <3>1 DEF HostOK
    <2> QED BY <1>1, <1>2, <1>4, <1>5, <1>6, <2>1, <2>2 DEF HostOK
  <1>8. ArrayOK' /\ BufferOK'
    BY <1>1, <1>2 DEF ArrayOK, BufferOK, PlaceOK, Cqe
  <1>9. IdOK'
    BY <1>2 DEF IdOK
  <1> QED BY <1>6, <1>7, <1>8, <1>9 DEF IndInv

\* A frame is handed to the ingress path.
LEMMA PollStep == IndInv /\ nb__poll_packet => IndInv'
  <1> SUFFICES ASSUME IndInv, nb__poll_packet PROVE IndInv'
    OBVIOUS
  <1>1. HostOK /\ QueueOK /\ ArrayOK /\ IdOK /\ BufferOK
    BY DEF IndInv
  <1>2. polled \in Nat /\ pending_recv \in 1 .. NumRecv
    BY <1>1, Sizes DEF HostOK, nb__poll_packet
  <1>3. counted' = counted /\ UNCHANGED card
    BY <1>2, Sizes DEF nb__poll_packet, counted
  <1>4. recv_buffer_index' = polled' % NumRecv
    <2>1. ((polled % NumRecv) + 1) % NumRecv = (polled + 1) % NumRecv
      <3>1. polled \in Int /\ 1 \in Int /\ NumRecv \in Nat \ {0}
        BY <1>2, Sizes
      <3> QED BY <3>1, ModAdd, Zenon
    <2> QED BY <1>1, <2>1 DEF HostOK, nb__poll_packet, mlx5_get_next_recv_buffer
  <1>5. HostOK'
    <2>1. polled' \in Nat /\ pending_recv' \in 0 .. NumRecv
      BY <1>2, Sizes DEF nb__poll_packet
    <2> QED BY <1>1, <1>3, <1>4, <2>1 DEF HostOK, nb__poll_packet, Reposted
  <1>6. QueueOK' /\ ArrayOK' /\ BufferOK'
    BY <1>1, <1>3 DEF card, QueueOK, Reposted, ArrayOK, BufferOK, PlaceOK, Cqe
  <1>7. IdOK'
    BY <1>1, <1>2, Sizes DEF IdOK, nb__poll_packet
  <1> QED BY <1>5, <1>6, <1>7 DEF IndInv

\* Every step preserves the invariant.
LEMMA StepInv == IndInv /\ [Next]_vars => IndInv'
  <1>1. IndInv /\ UNCHANGED vars => IndInv'
    <2> SUFFICES ASSUME IndInv, UNCHANGED vars PROVE IndInv'
      OBVIOUS
    <2>1. /\ HostOK' /\ QueueOK'
      BY DEF IndInv, vars, card, host, HostOK, QueueOK, counted, Reposted
    <2>2. ArrayOK' /\ IdOK' /\ BufferOK'
      BY DEF IndInv, vars, card, host, ArrayOK, IdOK, BufferOK, PlaceOK, Cqe, counted
    <2> QED BY <2>1, <2>2 DEF IndInv
  <1> QED BY <1>1, ArriveStep, ReadIdStep, CountFramesStep, PollStep DEF Next

-----------------------------------------------------------------------------
\* The counters of the card and the host stay in step.
THEOREM Mlx5Invariant == Spec => []IndInv
  <1> QED BY InitInv, StepInv, PTL DEF Spec

\* The variables keep their types, and the receive queue never holds more
\* WQEs than ibv_post_wq_recv has room for.
THEOREM Mlx5TypeCorrect == Spec => []TypeOK
  <1>1. IndInv => TypeOK
    <2> SUFFICES ASSUME IndInv PROVE TypeOK
      OBVIOUS
    <2>1. HostOK /\ QueueOK /\ ArrayOK /\ IdOK /\ BufferOK
      BY DEF IndInv
    <2>2. /\ counted \in Nat /\ polled \in Nat /\ Reposted \in Nat
          /\ Reposted <= arrived \div Strides /\ arrived \div Strides \in Nat
      BY <2>1, CountedFacts
    <2>3. Len(recv_wq) <= NumWqe
      BY <2>1, <2>2, Sizes DEF QueueOK
    <2>4. /\ recv_index_cycle \in 0 .. total_cycles - 1
          /\ recvs_to_post \in 0 .. Strides - 1
          /\ recv_index_to_post \in 0 .. NumWqe - 1
          /\ recv_buffer_index \in 0 .. NumRecv - 1
      <3>1. counted - 1 \in Int
        BY <2>2
      <3>2. /\ (counted - 1) % total_cycles \in 0 .. total_cycles - 1
            /\ counted % Strides \in 0 .. Strides - 1
            /\ Reposted % NumWqe \in 0 .. NumWqe - 1
            /\ polled % NumRecv \in 0 .. NumRecv - 1
        BY <2>2, <3>1, Sizes, ModRange, DivModFacts
      <3> QED BY <2>1, <3>2 DEF HostOK
    <2>5. id \in 0 .. WqeIds - 1 \union {None}
      <3>1. CASE id # None
        <4>1. PICK f \in -1 .. arrived - 1 : id = Cqe(f).wqe_id
          BY <2>1, <3>1 DEF IdOK
        <4>2. Cqe(f) \in [wqe_id : 0 .. WqeIds - 1, wqe_counter : 0 .. Strides - 1]
          BY CqeType
        <4> QED BY <4>1, <4>2
      <3> QED BY <3>1
    <2> QED BY <2>1, <2>3, <2>4, <2>5 DEF TypeOK, HostOK, QueueOK, ArrayOK, BufferOK
  <1> QED BY <1>1, Mlx5Invariant, PTL

\* get_packet_count never counts a frame that has not arrived, for any sizes
\* of the rings and however often the 16-bit ids wrap.
THEOREM Mlx5NoPhantom == Spec => []NoPhantomFrame
  <1>1. IndInv => NoPhantomFrame
    BY DEF IndInv, QueueOK, NoPhantomFrame
  <1> QED BY <1>1, Mlx5Invariant, PTL

\* The card never overwrites a frame that is not counted.
THEOREM Mlx5UncountedIntact == Spec => []UncountedIntact
  <1>1. IndInv => UncountedIntact
    <2> SUFFICES ASSUME IndInv, NEW n \in counted .. arrived - 1
                 PROVE  recv_buffer[n % NumRecv] = n
      BY DEF UncountedIntact
    <2>1. HostOK /\ QueueOK /\ BufferOK
      BY DEF IndInv
    <2>2. counted \in Nat /\ arrived \in Nat /\ arrived <= counted + NumRecv /\ NumRecv \in Nat
      BY <2>1, CountedFacts, Sizes
    <2>3. n \in 0 .. arrived - 1 /\ n >= arrived - NumRecv
      BY <2>2
    <2> QED BY <2>1, <2>3 DEF BufferOK
  <1> QED BY <1>1, Mlx5Invariant, PTL

\* nb__poll_packet hands out the frame whose turn it is, or the one a lap
\* later that took its slot since.
THEOREM Mlx5InTurn == Spec => []FrameInTurn
  <1>1. IndInv => FrameInTurn
    <2> SUFFICES ASSUME IndInv, pending_recv # 0
                 PROVE  recv_buffer[recv_buffer_index] \in {polled, polled + NumRecv}
      BY DEF FrameInTurn
    <2>1. HostOK /\ QueueOK /\ BufferOK
      BY DEF IndInv
    <2>2. /\ polled \in Nat /\ pending_recv \in 1 .. NumRecv /\ NumRecv \in Nat \ {0}
          /\ arrived \in Nat /\ counted = polled + pending_recv
          /\ counted <= arrived /\ arrived <= counted + NumRecv
          /\ recv_buffer_index = polled % NumRecv
      <3>1. polled \in Nat /\ pending_recv \in 0 .. NumRecv /\ counted <= arrived
            /\ recv_buffer_index = polled % NumRecv
        BY <2>1 DEF HostOK, QueueOK
      <3> QED BY <2>1, <3>1, CountedFacts, Sizes DEF counted
    <2>3. CASE polled >= arrived - NumRecv
      <3>1. polled \in 0 .. arrived - 1
        BY <2>2
      <3> QED BY <2>1, <2>2, <2>3, <3>1 DEF BufferOK
    <2>4. CASE polled < arrived - NumRecv
      <3>1. polled + NumRecv \in 0 .. arrived - 1 /\ polled + NumRecv >= arrived - NumRecv
        BY <2>2, <2>4
      <3>2. (polled + NumRecv) % NumRecv = polled % NumRecv
        <4>1. polled \in Int
          BY <2>2
        <4> QED BY <2>2, <4>1, ModPlus, Zenon
      <3> QED BY <2>1, <2>2, <3>1, <3>2 DEF BufferOK
    <2> QED BY <2>2, <2>3, <2>4
  <1> QED BY <1>1, Mlx5Invariant, PTL
=============================================================================
