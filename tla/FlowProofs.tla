----------------------------- MODULE FlowProofs -----------------------------
(***************************************************************************)
(* Proofs about module Flow.  First hold_forever within the reach of the   *)
(* slots (FlowWindow): the sequence numbers and slots, one lemma per       *)
(* action that it preserves IndInv, the theorems.  Then the two strategies *)
(* without a shelf of MCStrategies, each with its own invariant.           *)
(***************************************************************************)
EXTENDS FlowWindow, MCStrategies, ArithmeticLemmas, SequenceTheorems, TLAPS

\* The number inorder.hook_send puts into packet n is InitSeq + n: it does not
\* wrap.
LEMMA SeqNoValue ==
  ASSUME NEW n \in 0 .. MaxSends + 1
  PROVE  SeqNo(n) = InitSeq + n /\ SeqNo(n) \in 0 .. SeqMod - 1
  BY ModSmall, ConstantsAssumption DEF SeqNo

\* The slot of a packet is an index of the redelivery and the inorder buffer.
LEMMA SlotType ==
  ASSUME Setting, NEW n \in 0 .. MaxSends + 1
  PROVE  Slot(n) \in SlotId
  <1>1. SeqNo(n) \in Nat
    BY SeqNoValue, ConstantsAssumption
  <1> QED BY <1>1, ModRange, ConstantsAssumption DEF Slot, SlotId

\* Packets that are less than the size of the buffers apart have slots of
\* their own.
LEMMA SlotInjective ==
  ASSUME Setting, NEW m \in Packet, NEW n \in Packet, Slot(m) = Slot(n),
         m < n + BufferSize, n < m + BufferSize
  PROVE  m = n
  <1>1. SeqNo(m) = InitSeq + m /\ SeqNo(n) = InitSeq + n
    BY SeqNoValue, ConstantsAssumption DEF Packet
  <1>2. InitSeq + m = InitSeq + n
    <2>1. (InitSeq + m) - (InitSeq + n) < BufferSize
          /\ (InitSeq + n) - (InitSeq + m) < BufferSize
      BY ConstantsAssumption DEF Packet
    <2>2. InitSeq + m \in Nat /\ InitSeq + n \in Nat /\ BufferSize \in Nat \ {0}
      BY ConstantsAssumption DEF Packet
    <2>3. (InitSeq + m) % BufferSize = (InitSeq + n) % BufferSize
      BY <1>1 DEF Slot
    <2> QED BY <2>1, <2>2, <2>3, ModInjective
  <1> QED BY <1>2, ConstantsAssumption DEF Packet

\* The last packet passed up is a number, 0 before the first.
LEMMA LastType ==
  ASSUME TypeOK
  PROVE  Last \in 0 .. MaxSends
  <1>1. CASE delivered = << >>
    BY <1>1, ConstantsAssumption DEF Last
  <1>2. CASE delivered # << >>
    BY <1>2, ConstantsAssumption DEF Last, TypeOK, Packet
  <1> QED BY <1>1, <1>2

\* Of the packets that fit on the shelf no two belong into the same slot.
LEMMA FitsInjective ==
  ASSUME Setting, TypeOK, NEW m \in Packet, NEW n \in Packet, Fits(m), Fits(n),
         Slot(m) = Slot(n)
  PROVE  m = n
  <1> DEFINE l == Last
  <1>1. l \in Nat /\ m \in 1 .. MaxSends /\ n \in 1 .. MaxSends
        /\ MaxSends \in Nat /\ BufferSize \in Nat
    BY LastType, ConstantsAssumption DEF Packet
  <1>2. /\ m <= l + BufferSize /\ (m > l \/ m + BufferSize > MaxSends)
        /\ n <= l + BufferSize /\ (n > l \/ n + BufferSize > MaxSends)
    BY DEF Fits
  <1> HIDE DEF l
  <1>3. m < n + BufferSize /\ n < m + BufferSize
    BY <1>1, <1>2
  <1> QED BY <1>3, SlotInjective

\* The packets that follow the last one passed up fit, as far as the shelf
\* reaches.
LEMMA NextFits ==
  ASSUME TypeOK, NEW k \in 1 .. BufferSize
  PROVE  Fits(Last + k)
  <1>1. Last \in Nat /\ BufferSize \in Nat
    BY LastType, ConstantsAssumption
  <1> QED BY <1>1 DEF Fits

\* The slots repeat: BufferSize packets later comes the same slot.
LEMMA SlotRepeats ==
  ASSUME Setting, NEW n \in Packet, n + BufferSize \in Packet
  PROVE  Slot(n + BufferSize) = Slot(n)
  <1>1. SeqNo(n) = InitSeq + n /\ SeqNo(n + BufferSize) = InitSeq + n + BufferSize
    BY SeqNoValue, ConstantsAssumption DEF Packet
  <1>2. BufferSize \in Nat \ {0} /\ InitSeq + n \in Int
    BY ConstantsAssumption DEF Packet
  <1>3. (InitSeq + n + BufferSize) % BufferSize = (InitSeq + n) % BufferSize
    BY <1>2, ModPlus
  <1> QED BY <1>1, <1>3 DEF Slot

\* The loop of inorder.hook_ingress after packet n looks, in round k, at the
\* number and the slot of packet n + k.
LEMMA LoopValues ==
  ASSUME Setting, NEW n \in Packet, NEW k \in 0 .. MaxSends + 1 - n
  PROVE  /\ LoopSeq(SeqNo(n), k) = InitSeq + n + k
         /\ LoopSlot(SeqNo(n), k) = Slot(n + k)
  <1>1. n + k \in 0 .. MaxSends + 1 /\ n \in 0 .. MaxSends + 1
    BY ConstantsAssumption DEF Packet
  <1>2. SeqNo(n) = InitSeq + n /\ SeqNo(n + k) = InitSeq + n + k
    BY <1>1, SeqNoValue, ConstantsAssumption
  <1>3. LoopSeq(SeqNo(n), k) = SeqNo(n + k)
    BY <1>1, <1>2, ConstantsAssumption DEF LoopSeq, SeqNo
  <1> QED BY <1>2, <1>3 DEF LoopSlot, Slot

\* The loop of inorder.hook_ingress passes up exactly the packets that
\* follow n on the shelf without a gap, and stops at the first that is missing.
LEMMA LoopFacts ==
  ASSUME Setting, TypeOK, ShelfOK, NothingDueShelved, NEW n \in 1 .. sent,
         delivered # << >> => n = delivered[Len(delivered)] + 1,
         NEW r, r = LoopRounds(SeqNo(n))
  PROVE  /\ r \in 0 .. sent - n
         /\ LoopSeq(SeqNo(n), r) = InitSeq + n + r
         /\ \A k \in 1 .. r : /\ LoopSlot(SeqNo(n), k) = Slot(n + k)
                              /\ inorder_buffer[Slot(n + k)] = n + k
         /\ n + r < sent => inorder_buffer[Slot(n + r + 1)] # n + r + 1
  <1> DEFINE T == LoopStops(SeqNo(n))
             e == sent + 1 - n
  <1>1. n \in Packet /\ sent \in Nat /\ sent <= MaxSends /\ BufferSize \in Nat
        /\ MaxSends \in Nat /\ n \in Nat /\ n >= 1 /\ BufferSize >= 1
    BY ConstantsAssumption DEF Setting, TypeOK, Packet
  <1>2. e \in 1 .. MaxSends /\ e \in 0 .. MaxSends + 1 - n
    BY <1>1
  <1>3. e \in 1 .. BufferSize => e \in T
    <2>1. LoopSeq(SeqNo(n), e) = InitSeq + n + e
      BY <1>1, <1>2, LoopValues
    <2>2. InitSeq + n + e > max_ooo_sequence
      BY <1>1, ConstantsAssumption DEF ShelfOK, TypeOK
    <2> QED BY <1>1, <1>2, <2>1, <2>2 DEF LoopStops
  <1>lap. ASSUME ~(e \in 1 .. BufferSize)
        PROVE  BufferSize \in T
    <2>1. /\ BufferSize \in 0 .. MaxSends + 1 - n /\ BufferSize < e
          /\ n + BufferSize \in Packet
      BY <1>1, <1>2, <1>lap DEF Packet
    <2>2. LoopSlot(SeqNo(n), BufferSize) = Slot(n) /\ Slot(n) \in SlotId
      <3>1. LoopSlot(SeqNo(n), BufferSize) = Slot(n + BufferSize)
        BY <1>1, <2>1, LoopValues
      <3>2. Slot(n + BufferSize) = Slot(n)
        BY <1>1, <2>1, SlotRepeats
      <3>3. n \in 0 .. MaxSends + 1
        BY <1>1
      <3> QED BY <3>1, <3>2, <3>3, SlotType
    <2>3. ASSUME inorder_buffer[Slot(n)] # 0
          PROVE  FALSE
      <3>1. /\ delivered # << >> /\ Fits(inorder_buffer[Slot(n)])
            /\ Slot(inorder_buffer[Slot(n)]) = Slot(n)
            /\ inorder_buffer[Slot(n)] \in Packet
        BY <2>2, <2>3, ConstantsAssumption DEF ShelfOK, TypeOK, Packet
      <3>2. n = Last + 1
        BY <3>1 DEF Last
      <3>3. Fits(n)
        BY <1>1, <3>2, NextFits
      <3>4. inorder_buffer[Slot(n)] = n
        BY <1>1, <3>1, <3>3, FitsInjective
      <3>5. delivered # << >> /\ n = delivered[Len(delivered)] + 1 /\ n <= sent
        BY <1>1, <3>1
      <3> QED BY <3>4, <3>5, Zenon DEF NothingDueShelved
    <2> QED BY <1>1, <2>2, <2>3 DEF LoopStops
  <1>4. T \in SUBSET Nat /\ T \subseteq 1 .. BufferSize + 1
    BY <1>1 DEF LoopStops
  <1>5. Min(T) \in T /\ \A y \in T : Min(T) <= y
    <2>1. T # {}
      BY <1>3, <1>lap
    <2> QED BY <1>4, <2>1, MinProperties
  <1>6. r = Min(T) - 1
    BY DEF LoopRounds
  <1> HIDE DEF T
  <1>7. r \in 0 .. sent - n /\ r + 1 \in T /\ r + 1 <= BufferSize
    <2>1. Min(T) \in Nat /\ Min(T) >= 1
      <3>1. Min(T) \in 1 .. BufferSize + 1
        BY <1>4, <1>5, Zenon
      <3> QED BY <1>1, <3>1
    <2>2. Min(T) <= e /\ Min(T) <= BufferSize
      <3>1. CASE e \in 1 .. BufferSize
        BY <1>1, <1>2, <1>3, <1>5, <2>1, <3>1
      <3>2. CASE ~(e \in 1 .. BufferSize)
        BY <1>1, <1>2, <1>lap, <1>5, <2>1, <3>2
      <3> QED BY <3>1, <3>2
    <2>3. Min(T) - 1 + 1 = Min(T)
      BY <2>1
    <2> QED BY <1>1, <1>5, <1>6, <2>1, <2>2, <2>3
  <1>8. ASSUME NEW k \in 1 .. r
        PROVE  k \in 1 .. BufferSize + 1 /\ k \notin T
    <2>1. k \in 1 .. BufferSize + 1 /\ ~(r + 1 <= k) /\ Min(T) = r + 1
      <3>1. Min(T) \in 1 .. BufferSize + 1
        BY <1>4, <1>5, Zenon
      <3> QED BY <1>1, <1>6, <1>7, <3>1
    <2> QED BY <1>5, <2>1, Zenon
  <1>9. ASSUME NEW k \in 1 .. r
        PROVE  /\ LoopSlot(SeqNo(n), k) = Slot(n + k)
               /\ inorder_buffer[Slot(n + k)] = n + k
    <2>1. k \in 0 .. MaxSends + 1 - n /\ n + k \in Packet
      BY <1>1, <1>7 DEF Packet
    <2>2. LoopSlot(SeqNo(n), k) = Slot(n + k)
      BY <1>1, <2>1, LoopValues
    <2>3. Slot(n + k) \in SlotId
      BY <2>1, SlotType, <1>1 DEF Packet
    <2>4. inorder_buffer[Slot(n + k)] # 0
      BY <1>8, <2>2 DEF LoopStops, T
    <2>5. /\ inorder_buffer[Slot(n + k)] \in Packet
          /\ Slot(inorder_buffer[Slot(n + k)]) = Slot(n + k)
          /\ delivered # << >> /\ Fits(inorder_buffer[Slot(n + k)])
      BY <2>3, <2>4, <1>1 DEF ShelfOK, TypeOK, Packet
    <2>6. Fits(n + k)
      <3>1. n = Last + 1 /\ Last \in Nat
        BY <2>5, LastType, ConstantsAssumption DEF Last
      <3>2. n + k = Last + (k + 1) /\ k + 1 \in 1 .. BufferSize
        BY <1>1, <1>7, <3>1
      <3> QED BY <3>2, NextFits
    <2> QED BY <2>1, <2>2, <2>5, <2>6, FitsInjective
  <1>10. ASSUME n + r < sent, inorder_buffer[Slot(n + r + 1)] = n + r + 1
         PROVE  FALSE
    <2>1. r + 1 \in 0 .. MaxSends + 1 - n /\ n + r + 1 \in 0 .. MaxSends + 1
      BY <1>1, <1>7, <1>10
    <2>2. LoopSeq(SeqNo(n), r + 1) = InitSeq + n + (r + 1)
          /\ LoopSlot(SeqNo(n), r + 1) = Slot(n + (r + 1))
      BY <1>1, <2>1, LoopValues
    <2>3. n + (r + 1) = n + r + 1 /\ r + 1 # BufferSize + 1
      BY <1>1, <1>7, <1>10
    <2>4. Slot(n + r + 1) \in SlotId
      BY <2>1, SlotType
    <2>5. InitSeq + (n + r + 1) <= max_ooo_sequence
      BY <1>10, <2>4, <1>1, <1>7 DEF ShelfOK
    <2>6. ~(LoopSeq(SeqNo(n), r + 1) > max_ooo_sequence)
      BY <2>2, <2>5, <1>1, <1>7, ConstantsAssumption DEF TypeOK
    <2>7. inorder_buffer[LoopSlot(SeqNo(n), r + 1)] # 0
      BY <2>2, <2>3, <1>10, <1>1, <1>7
    <2> QED BY <1>7, <2>3, <2>6, <2>7 DEF LoopStops, T
  <1>11. LoopSeq(SeqNo(n), r) = InitSeq + n + r
    BY <1>1, <1>7, LoopValues
  <1> QED BY <1>7, <1>9, <1>10, <1>11

\* The state hook_establish sets up satisfies the invariant.
LEMMA InitInv ==
  ASSUME Setting
  PROVE  Init => IndInv
  <1> SUFFICES ASSUME Init PROVE IndInv
    OBVIOUS
  <1>1. TypeOK
    BY ConstantsAssumption DEF Setting, Init, TypeOK, SlotId, Packet
  <1>2. SlotsOK /\ ShelfOK
    BY ConstantsAssumption DEF Init, SlotsOK, ShelfOK
  <1>3. TimersOK /\ NoLostPacket
    BY DEF Init, TimersOK, NoLostPacket
  <1>4. WireOK
    BY DEF Init, WireOK
  <1>5. RunOK /\ NothingDueShelved
    BY DEF Init, RunOK, NothingDueShelved
  <1> QED BY <1>1, <1>2, <1>3, <1>4, <1>5 DEF IndInv

\* Handing a packet to the transport adds no other packet to the network.
LEMMA PutType ==
  ASSUME NEW net \in [Packet -> 0 .. MaxCopies], NEW n \in Packet
  PROVE  /\ Put(net, n) \in [Packet -> 0 .. MaxCopies]
         /\ \A m \in Packet : Put(net, n)[m] > 0 => m = n \/ net[m] > 0
  BY ConstantsAssumption DEF Put

\* Taking a packet from the network adds none.
LEMMA TakeType ==
  ASSUME NEW net \in [Packet -> 0 .. MaxCopies], NEW n \in Packet, net[n] > 0
  PROVE  /\ Take(net, n) \in [Packet -> 0 .. MaxCopies]
         /\ \A m \in Packet : Take(net, n)[m] > 0 => net[m] > 0
  BY ConstantsAssumption DEF Take

\* The ends of a log of hook_ingress that is not empty are packets.
LEMMA LogType ==
  ASSUME TypeOK, delivered # << >>
  PROVE  /\ Len(delivered) \in Nat \ {0}
         /\ \A i \in 1 .. Len(delivered) : delivered[i] \in Packet
         /\ delivered[Len(delivered)] \in Packet
         /\ delivered[1] \in Packet
  BY DEF TypeOK

\* The packet after the last one passed up, if it was sent.
LEMMA LogNext ==
  ASSUME TypeOK, delivered # << >>, delivered[Len(delivered)] + 1 <= sent
  PROVE  delivered[Len(delivered)] + 1 \in 1 .. sent
  <1>1. ASSUME NEW k \in 1 .. MaxSends, NEW s \in 0 .. MaxSends, k + 1 <= s
        PROVE  k + 1 \in 1 .. s
    BY <1>1, ConstantsAssumption
  <1>2. delivered[Len(delivered)] \in 1 .. MaxSends
    BY LogType, Zenon DEF Packet
  <1>3. sent \in 0 .. MaxSends
    BY Zenon DEF TypeOK
  <1> QED BY <1>1, <1>2, <1>3, Zenon

\* A packet that was sent is a packet with a slot.
LEMMA PacketFacts ==
  ASSUME Setting, TypeOK, NEW m \in 1 .. sent
  PROVE  m \in Packet /\ m \in Nat /\ Slot(m) \in SlotId
  <1>1. m \in 1 .. MaxSends /\ m \in 0 .. MaxSends + 1
    BY ConstantsAssumption DEF TypeOK
  <1> QED BY <1>1, SlotType DEF Packet

\* inorder.hook_send and reliable.hook_send preserve the invariant: the new
\* packet takes a slot of its own.
LEMMA SendStep ==
  ASSUME Setting, IndInv, Send, sent + 1 - BufferSize \notin armed
  PROVE  IndInv'
  <1> DEFINE p == sent + 1
  <1> USE DEF IndInv
  <1>1. /\ sent \in Nat /\ p \in Packet /\ sent' = p
        /\ p \in 1 .. MaxSends /\ MaxSends \in Nat /\ p \in 0 .. MaxSends + 1
    BY ConstantsAssumption DEF Send, TypeOK, Packet
  <1>2. /\ redelivery_buffer' = [redelivery_buffer EXCEPT ![Slot(p)] = p]
        /\ armed' = armed \union {p}
        /\ data' = Put(data, p)
        /\ UNCHANGED <<acks, last_recv_sequence, inorder_buffer, max_ooo_sequence, delivered>>
    BY DEF Setting, Send, receiver
  <1>3. Slot(p) \in SlotId
    BY <1>1, SlotType
  <1>4. TypeOK'
    <2>1. data' \in [Packet -> 0 .. MaxCopies]
      BY <1>1, <1>2, PutType DEF TypeOK
    <2>2. redelivery_buffer' \in [SlotId -> 0 .. MaxSends]
      BY <1>1, <1>2, <1>3 DEF TypeOK
    <2>3. armed' \subseteq Packet /\ sent' \in 0 .. MaxSends
      BY <1>1, <1>2 DEF TypeOK
    <2> QED BY <1>2, <2>1, <2>2, <2>3 DEF TypeOK
  <1>5. SlotsOK'
    BY <1>1, <1>2, <1>3 DEF SlotsOK, TypeOK
  <1>6. TimersOK'
    <2>1. armed' \subseteq 1 .. sent'
      BY <1>1, <1>2 DEF TimersOK
    <2>2. ASSUME NEW n \in armed'
          PROVE  p < n + BufferSize
      <3>1. CASE n = p
        BY <1>1, <3>1, ConstantsAssumption
      <3>2. CASE n # p
        <4>1. n \in armed /\ n \in 1 .. sent /\ sent < n + BufferSize
          BY <1>2, <3>2 DEF TimersOK
        <4>2. n # sent + 1 - BufferSize
          <5>1. \A x : x \in armed => x # sent + 1 - BufferSize
            OBVIOUS
          <5> QED BY <4>1, <5>1
        <4>3. BufferSize \in Nat
          BY ConstantsAssumption
        <4> QED BY <1>1, <4>1, <4>2, <4>3
      <3> QED BY <3>1, <3>2
    <2>3. ASSUME NEW n \in 1 .. sent'
          PROVE  n \in armed' <=> redelivery_buffer'[Slot(n)] = n
      <3>1. CASE n = p
        BY <1>2, <1>3, <3>1 DEF TypeOK
      <3>2. CASE n # p
        <4>1. n \in 1 .. sent /\ n \in Packet /\ n < p /\ Slot(n) \in SlotId
          BY <1>1, <3>2, PacketFacts DEF Packet
        <4>2. CASE Slot(n) = Slot(p)
          <5>1. n \notin armed'
            <6>1. n < p + BufferSize /\ ~(p < n + BufferSize)
              <7>1. n < p + BufferSize
                BY <1>1, <4>1, ConstantsAssumption
              <7> QED BY <1>1, <3>2, <4>1, <4>2, <7>1, SlotInjective
            <6> QED BY <2>2, <6>1
          <5>2. redelivery_buffer'[Slot(n)] = p
            BY <1>2, <1>3, <4>2 DEF TypeOK
          <5> QED BY <3>2, <5>1, <5>2
        <4>3. CASE Slot(n) # Slot(p)
          <5>1. redelivery_buffer'[Slot(n)] = redelivery_buffer[Slot(n)]
            BY <1>2, <4>1, <4>3 DEF TypeOK
          <5> QED BY <1>2, <3>2, <4>1, <5>1 DEF TimersOK
        <4> QED BY <4>2, <4>3
      <3> QED BY <3>1, <3>2
    <2> QED BY <1>1, <2>1, <2>2, <2>3 DEF TimersOK
  <1>7. WireOK'
    <2>1. \A m \in Packet : data'[m] > 0 => m = p \/ data[m] > 0
      BY <1>1, <1>2, PutType DEF TypeOK
    <2>2. \A m : Received(m)' <=> Received(m)
      BY <1>2 DEF Received
    <2> QED BY <1>1, <1>2, <2>1, <2>2 DEF WireOK, Packet
  <1>8. ShelfOK'
    BY <1>1, <1>2, ConstantsAssumption DEF ShelfOK, TypeOK, Fits, Last
  <1>9. RunOK'
    <2>1. CASE delivered = << >>
      BY <1>2, <2>1 DEF RunOK
    <2>2. CASE delivered # << >>
      BY <1>1, <1>2, <2>2, LogType DEF RunOK, Packet
    <2> QED BY <2>1, <2>2
  <1>10. NoLostPacket'
    BY <1>1, <1>2 DEF NoLostPacket, Received
  <1>11. NothingDueShelved'
    <2> DEFINE next == delivered[Len(delivered)] + 1
    <2>1. inorder_buffer[Slot(p)] # p
      <3>1. p # 0 /\ ~(p <= sent)
        BY <1>1
      <3> HIDE DEF p
      <3> QED BY <1>3, <3>1 DEF ShelfOK
    <2>2. ASSUME delivered # << >>, next <= sent'
          PROVE  inorder_buffer'[Slot(next)] # next
      <3>1. next \in Nat
        BY <2>2, LogType DEF Packet
      <3>2. next = p \/ next <= sent
        BY <1>1, <2>2, <3>1
      <3> QED BY <1>2, <2>1, <2>2, <3>2 DEF NothingDueShelved
    <2> QED BY <1>2, <2>2 DEF NothingDueShelved
  <1> QED BY <1>4, <1>5, <1>6, <1>7, <1>8, <1>9, <1>10, <1>11

\* What the invariant says of the receiver survives a step of the sender's
\* reliable module or of the network.
LEMMA ReceiverUnchanged ==
  ASSUME IndInv, UNCHANGED <<sent, receiver>>
  PROVE  /\ ShelfOK' /\ RunOK' /\ NothingDueShelved'
         /\ \A m : Received(m)' <=> Received(m)
  BY DEF IndInv, receiver, ShelfOK, RunOK, NothingDueShelved, Received, Fits, Last

\* What the invariant says of the redelivery buffer survives a step of the
\* receiver or of the network.
LEMMA SenderUnchanged ==
  ASSUME IndInv, UNCHANGED sender
  PROVE  SlotsOK' /\ TimersOK'
  BY DEF IndInv, sender, SlotsOK, TimersOK

\* Steps of the network alone: fewer copies, or one more copy of a packet
\* that was sent.
LEMMA NetworkStep ==
  ASSUME IndInv, UNCHANGED <<sender, receiver>>,
         data' \in [Packet -> 0 .. MaxCopies],
         acks' \in [Packet -> 0 .. MaxCopies],
         \A m \in Packet : data'[m] > 0 => data[m] > 0 \/ m <= sent,
         \A m \in Packet : acks'[m] > 0 => acks[m] > 0
  PROVE  IndInv'
  <1>1. UNCHANGED <<sent, redelivery_buffer, armed, receiver>>
    BY DEF sender
  <1>2. TypeOK'
    BY <1>1 DEF IndInv, TypeOK, receiver
  <1>3. WireOK'
    BY <1>1, ReceiverUnchanged DEF WireOK, IndInv
  <1>4. NoLostPacket'
    BY <1>1, ReceiverUnchanged DEF NoLostPacket, IndInv
  <1> QED BY <1>1, <1>2, <1>3, <1>4, ReceiverUnchanged, SenderUnchanged DEF IndInv

\* redelivery_cb preserves the invariant.
LEMMA RedeliverStep ==
  ASSUME Setting, IndInv, NEW n \in Packet, Redeliver(n)
  PROVE  IndInv'
  <1>1. n <= sent
    BY DEF Redeliver, IndInv, TimersOK, TypeOK
  <1>2. /\ data' \in [Packet -> 0 .. MaxCopies]
        /\ \A m \in Packet : data'[m] > 0 => m = n \/ data[m] > 0
    BY PutType DEF Redeliver, IndInv, TypeOK
  <1>3. UNCHANGED <<sender, receiver>> /\ acks' = acks
    BY DEF Redeliver
  <1> QED BY <1>1, <1>2, <1>3, NetworkStep DEF IndInv, TypeOK

\* A lost packet or ACK preserves the invariant.
LEMMA LoseStep ==
  ASSUME Setting, IndInv, NEW n \in Packet, LoseData(n) \/ LoseAck(n)
  PROVE  IndInv'
  <1>1. CASE LoseData(n)
    <2>1. /\ data' \in [Packet -> 0 .. MaxCopies]
          /\ \A m \in Packet : data'[m] > 0 => data[m] > 0
      BY <1>1, TakeType DEF LoseData, IndInv, TypeOK
    <2>2. UNCHANGED <<sender, receiver>> /\ acks' = acks
      BY <1>1 DEF LoseData
    <2> QED BY <2>1, <2>2, NetworkStep DEF IndInv, TypeOK
  <1>2. CASE LoseAck(n)
    <2>1. /\ acks' \in [Packet -> 0 .. MaxCopies]
          /\ \A m \in Packet : acks'[m] > 0 => acks[m] > 0
      BY <1>2, TakeType DEF LoseAck, IndInv, TypeOK
    <2>2. UNCHANGED <<sender, receiver>> /\ data' = data
      BY <1>2 DEF LoseAck
    <2> QED BY <2>1, <2>2, NetworkStep DEF IndInv, TypeOK
  <1> QED BY <1>1, <1>2

\* The ACK branch of reliable.hook_ingress preserves the invariant: the packet
\* in the slot of an ACK that is in time is the one that is acknowledged.
LEMMA RecvAckStep ==
  ASSUME Setting, IndInv, NEW n \in Packet, RecvAck(n), sent < n + BufferSize
  PROVE  IndInv'
  <1> USE DEF IndInv
  <1>1. /\ n \in 1 .. sent /\ Received(n) /\ sent \in Nat
        /\ n \in 0 .. MaxSends + 1
    BY ConstantsAssumption DEF RecvAck, WireOK, TypeOK, Packet
  <1>2. Slot(n) \in SlotId
    BY <1>1, SlotType
  <1>3. /\ acks' \in [Packet -> 0 .. MaxCopies]
        /\ \A m \in Packet : acks'[m] > 0 => acks[m] > 0
    BY TakeType DEF RecvAck, TypeOK
  <1>4. UNCHANGED <<sent, data, receiver>>
    BY DEF RecvAck
  <1>5. CASE UNCHANGED <<armed, redelivery_buffer>>
    <2>1. UNCHANGED <<sender, receiver>>
      BY <1>4, <1>5 DEF sender
    <2> QED BY <1>3, <1>4, <2>1, NetworkStep DEF TypeOK
  <1>6. CASE ~ UNCHANGED <<armed, redelivery_buffer>>
    <2>1. /\ redelivery_buffer[Slot(n)] # 0
          /\ armed' = armed \ {redelivery_buffer[Slot(n)]}
          /\ redelivery_buffer' = [redelivery_buffer EXCEPT ![Slot(n)] = 0]
      BY <1>6 DEF RecvAck
    <2>2. redelivery_buffer[Slot(n)] = n
      <3> DEFINE p == redelivery_buffer[Slot(n)]
      <3>1. p \in Packet /\ p \in 1 .. sent /\ Slot(p) = Slot(n)
        BY <1>2, <2>1, ConstantsAssumption DEF SlotsOK, TypeOK, Packet
      <3>2. p \in armed /\ sent < p + BufferSize
        BY <3>1 DEF TimersOK
      <3> HIDE DEF p
      <3>3. p < n + BufferSize /\ n < p + BufferSize
        BY <1>1, <3>1, <3>2, ConstantsAssumption
      <3> QED BY <3>1, <3>3, SlotInjective DEF p
    <2>3. TypeOK'
      <3>1. redelivery_buffer' \in [SlotId -> 0 .. MaxSends]
        <4>1. 0 \in 0 .. MaxSends
          BY ConstantsAssumption
        <4> QED BY <2>1, <4>1 DEF TypeOK
      <3> QED BY <1>3, <1>4, <2>1, <3>1 DEF TypeOK, receiver
    <2>4. SlotsOK'
      BY <1>2, <1>4, <2>1 DEF SlotsOK, TypeOK
    <2>5. TimersOK'
      <3>1. armed' \subseteq 1 .. sent'
        BY <1>4, <2>1 DEF TimersOK
      <3>2. ASSUME NEW m \in 1 .. sent
            PROVE  m \in armed' <=> redelivery_buffer'[Slot(m)] = m
        <4>1. m \in Packet /\ Slot(m) \in SlotId
          BY PacketFacts
        <4>2. CASE m = n
          BY <1>1, <1>2, <2>1, <2>2, <4>2 DEF TypeOK
        <4>3. CASE m # n /\ Slot(m) # Slot(n)
          BY <2>1, <2>2, <4>1, <4>3 DEF TimersOK, TypeOK
        <4>4. CASE m # n /\ Slot(m) = Slot(n)
          <5>1. redelivery_buffer'[Slot(m)] = 0 /\ redelivery_buffer[Slot(m)] # m
            BY <1>2, <2>1, <2>2, <4>4 DEF TypeOK
          <5>2. m \notin armed
            BY <5>1 DEF TimersOK
          <5> QED BY <2>1, <5>1, <5>2
        <4> QED BY <4>2, <4>3, <4>4
      <3>3. \A m \in armed' : sent < m + BufferSize
        BY <2>1 DEF TimersOK
      <3> QED BY <1>4, <3>1, <3>2, <3>3 DEF TimersOK
    <2>6. WireOK'
      BY <1>3, <1>4, ReceiverUnchanged DEF WireOK
    <2>7. NoLostPacket'
      BY <1>1, <1>4, <2>1, <2>2, ReceiverUnchanged DEF NoLostPacket
    <2> QED BY <1>4, <2>3, <2>4, <2>5, <2>6, <2>7, ReceiverUnchanged
  <1> QED BY <1>5, <1>6

ReceiverTypeOK ==
  /\ last_recv_sequence \in 0 .. SeqMod - 1
  /\ inorder_buffer \in [SlotId -> 0 .. MaxSends]
  /\ max_ooo_sequence \in 0 .. SeqMod - 1
  /\ delivered \in Seq(Packet)

\* Shelving in inorder.hook_ingress preserves what the invariant says of the
\* receiver: the slot holds no other packet.
LEMMA ShelveStep ==
  ASSUME Setting, IndInv, NEW n \in 1 .. sent, Shelve(n), UNCHANGED sent,
         delivered # << >>, n # delivered[Len(delivered)] + 1, Fits(n)
  PROVE  /\ ReceiverTypeOK' /\ ShelfOK' /\ RunOK' /\ NothingDueShelved'
         /\ Received(n)'
         /\ \A m \in 1 .. sent : Received(m) => Received(m)'
  <1> USE DEF IndInv
  <1>1. /\ n \in Packet /\ n \in Nat /\ Slot(n) \in SlotId /\ n \in 0 .. MaxSends
        /\ SeqNo(n) = InitSeq + n /\ SeqNo(n) \in 0 .. SeqMod - 1
    <2>1. n \in 1 .. MaxSends /\ n \in 0 .. MaxSends + 1 /\ n \in 0 .. MaxSends
      BY ConstantsAssumption DEF TypeOK
    <2> QED BY <2>1, PacketFacts, SeqNoValue DEF Packet
  <1>2. /\ inorder_buffer' = [inorder_buffer EXCEPT ![Slot(n)] = n]
        /\ UNCHANGED <<last_recv_sequence, delivered>>
    BY DEF Shelve
  <1>3. /\ max_ooo_sequence' \in 0 .. SeqMod - 1
        /\ max_ooo_sequence <= max_ooo_sequence'
        /\ InitSeq + n <= max_ooo_sequence'
        /\ max_ooo_sequence' <= InitSeq + sent
    BY <1>1, ConstantsAssumption DEF Shelve, TypeOK, ShelfOK
  <1>4. ReceiverTypeOK'
    BY <1>1, <1>2, <1>3 DEF ReceiverTypeOK, TypeOK
  <1>5. ShelfOK'
    <2>1. ASSUME NEW x \in SlotId, inorder_buffer'[x] # 0
          PROVE  /\ inorder_buffer'[x] <= sent
                 /\ Slot(inorder_buffer'[x]) = x
                 /\ Fits(inorder_buffer'[x])
                 /\ InitSeq + inorder_buffer'[x] <= max_ooo_sequence'
      <3>1. CASE x = Slot(n)
        BY <1>1, <1>2, <1>3, <3>1 DEF TypeOK
      <3>2. CASE x # Slot(n)
        <4>1. inorder_buffer'[x] = inorder_buffer[x] /\ inorder_buffer[x] \in 0 .. MaxSends
          BY <1>2, <3>2 DEF TypeOK
        <4> QED BY <1>3, <2>1, <4>1, ConstantsAssumption DEF ShelfOK, TypeOK
      <3> QED BY <3>1, <3>2
    <2>2. \A m : Fits(m)' <=> Fits(m)
      BY <1>2 DEF Fits, Last
    <2> QED BY <1>2, <1>3, <2>1, <2>2 DEF ShelfOK
  <1>6. RunOK'
    BY <1>2 DEF RunOK
  <1>7. NothingDueShelved'
    <2> DEFINE next == delivered[Len(delivered)] + 1
    <2>1. ASSUME next <= sent
          PROVE  inorder_buffer'[Slot(next)] # next
      <3>1. next \in 1 .. sent
        BY <2>1, LogNext, Zenon
      <3>2. next \in Packet /\ Slot(next) \in SlotId
        BY <3>1, PacketFacts
      <3>3. Slot(next) # Slot(n)
        <4>1. next = Last + 1 /\ 1 \in 1 .. BufferSize
          BY ConstantsAssumption DEF Last
        <4>2. Fits(next)
          BY <4>1, NextFits
        <4> QED BY <1>1, <3>2, <4>2, FitsInjective
      <3> QED BY <1>2, <2>1, <3>2, <3>3 DEF NothingDueShelved, TypeOK
    <2> QED BY <1>2, <2>1 DEF NothingDueShelved
  <1>8. Received(n)'
    <2>1. inorder_buffer'[Slot(n)] = n /\ Slot(n) \in DOMAIN inorder_buffer'
      BY <1>1, <1>2 DEF TypeOK
    <2> QED BY <2>1 DEF Received, Range
  <1>9. ASSUME NEW m \in 1 .. sent, Received(m)
        PROVE  Received(m)'
    <2>1. CASE m \in Range(inorder_buffer) /\ m # n
      <3>1. PICK x \in SlotId : inorder_buffer[x] = m
        BY <2>1 DEF Range, TypeOK
      <3>2. m # 0 /\ Slot(m) = x /\ Fits(m)
        BY <3>1 DEF ShelfOK
      <3>3. m \in Packet
        BY PacketFacts
      <3>4. x # Slot(n)
        BY <1>1, <2>1, <3>2, <3>3, FitsInjective
      <3>5. inorder_buffer'[x] = m /\ x \in DOMAIN inorder_buffer'
        BY <1>2, <3>1, <3>4 DEF TypeOK
      <3> QED BY <3>5 DEF Received, Range
    <2> QED BY <1>2, <1>8, <1>9, <2>1 DEF Received
  <1> QED BY <1>4, <1>5, <1>6, <1>7, <1>8, <1>9

\* What PassUp appends to the log: the packets n, n + 1, ..., n + r.
LEMMA PassUpLog ==
  ASSUME Setting, TypeOK, ShelfOK, NothingDueShelved, NEW n \in 1 .. sent, PassUp(n),
         delivered # << >> => n = delivered[Len(delivered)] + 1,
         NEW r, r = LoopRounds(SeqNo(n))
  PROVE  /\ delivered' = delivered \o [i \in 1 .. r + 1 |-> n + i - 1]
         /\ delivered' \in Seq(Packet)
         /\ Len(delivered') = Len(delivered) + 1 + r
         /\ \A i \in 1 .. Len(delivered) : delivered'[i] = delivered[i]
         /\ \A i \in 1 .. r + 1 : delivered'[Len(delivered) + i] = n + i - 1
  <1> DEFINE t == [k \in 1 .. r |-> n + k]
             u == [i \in 1 .. r + 1 |-> n + i - 1]
             a == Append(delivered, n)
  <1>1. r \in 0 .. sent - n /\ n \in Packet /\ sent <= MaxSends /\ sent \in Nat
        /\ n \in Nat /\ r \in Nat /\ n + r <= sent /\ n >= 1 /\ MaxSends \in Nat
    <2>1. r \in 0 .. sent - n
      BY LoopFacts
    <2>2. n \in Packet /\ n \in Nat
      BY PacketFacts
    <2> QED BY <2>1, <2>2, ConstantsAssumption DEF TypeOK
  <1>2. delivered' = a \o t
    <2>1. delivered' = a \o [k \in 1 .. r |-> inorder_buffer[LoopSlot(SeqNo(n), k)]]
      BY DEF PassUp
    <2>2. \A k \in 1 .. r : inorder_buffer[LoopSlot(SeqNo(n), k)] = n + k
      BY LoopFacts
    <2>3. t = [k \in 1 .. r |-> inorder_buffer[LoopSlot(SeqNo(n), k)]]
      BY <2>2
    <2> QED BY <2>1, <2>3
  <1>3. t \in Seq(Packet) /\ Len(t) = r /\ \A k \in 1 .. r : t[k] = n + k
    <2>1. \A k \in 1 .. r : n + k \in Packet
      BY <1>1 DEF Packet
    <2> QED BY <1>1, <2>1
  <1>4. u \in Seq(Packet) /\ Len(u) = r + 1 /\ \A i \in 1 .. r + 1 : u[i] = n + i - 1
    <2>1. \A i \in 1 .. r + 1 : n + i - 1 \in Packet
      BY <1>1 DEF Packet
    <2> QED BY <1>1, <2>1
  <1>5. a \in Seq(Packet) /\ Len(a) = Len(delivered) + 1
        /\ a[Len(delivered) + 1] = n
        /\ \A i \in 1 .. Len(delivered) : a[i] = delivered[i]
    BY <1>1 DEF TypeOK
  <1>6. Len(delivered) \in Nat /\ delivered \in Seq(Packet)
    BY DEF TypeOK
  <1>7. /\ a \o t \in Seq(Packet)
        /\ Len(a \o t) = Len(a) + Len(t)
        /\ \A i \in 1 .. Len(a) + Len(t) : (a \o t)[i] =
             IF i <= Len(a) THEN a[i] ELSE t[i - Len(a)]
    BY <1>3, <1>5, ConcatProperties
  <1>8. /\ delivered \o u \in Seq(Packet)
        /\ Len(delivered \o u) = Len(delivered) + Len(u)
        /\ \A i \in 1 .. Len(delivered) + Len(u) : (delivered \o u)[i] =
             IF i <= Len(delivered) THEN delivered[i] ELSE u[i - Len(delivered)]
    BY <1>4, <1>6, ConcatProperties
  <1> HIDE DEF a, t, u
  <1>9. \A i \in 1 .. Len(delivered) : (a \o t)[i] = delivered[i]
    BY <1>1, <1>3, <1>5, <1>6, <1>7
  <1>10. ASSUME NEW i \in 1 .. r + 1
         PROVE  (a \o t)[Len(delivered) + i] = n + i - 1
    <2>1. CASE i = 1
      BY <1>1, <1>3, <1>5, <1>6, <1>7, <2>1
    <2>2. CASE i # 1
      <3>1. i - 1 \in 1 .. r /\ t[i - 1] = n + (i - 1)
        BY <1>1, <1>3, <2>2
      <3>2. /\ Len(delivered) + i \in 1 .. Len(a) + Len(t)
            /\ ~(Len(delivered) + i <= Len(a))
            /\ Len(delivered) + i - Len(a) = i - 1
        BY <1>1, <1>3, <1>5, <1>6, <2>2
      <3>3. (a \o t)[Len(delivered) + i] = t[i - 1]
        BY <1>7, <3>2
      <3> QED BY <1>1, <3>1, <3>3
    <2> QED BY <2>1, <2>2
  <1>11. a \o t = delivered \o u
    <2>1. Len(a \o t) = Len(delivered \o u)
      BY <1>1, <1>3, <1>4, <1>5, <1>6, <1>7, <1>8
    <2>2. ASSUME NEW i \in 1 .. Len(a \o t)
          PROVE  (a \o t)[i] = (delivered \o u)[i]
      <3>1. CASE i <= Len(delivered)
        BY <1>1, <1>3, <1>4, <1>5, <1>6, <1>7, <1>8, <1>9, <3>1
      <3>2. CASE i > Len(delivered)
        <4> DEFINE j == i - Len(delivered)
        <4>1. j \in 1 .. r + 1 /\ i = Len(delivered) + j
              /\ i \in 1 .. Len(delivered) + Len(u)
          <5>1. Len(delivered) \in Nat /\ r \in Nat /\ Len(u) = r + 1
            BY <1>1, <1>4, <1>6
          <5>2. Len(a \o t) = Len(delivered) + (r + 1)
            BY <1>1, <1>3, <1>5, <1>6, <1>7
          <5> QED BY <3>2, <5>1, <5>2
        <4>2. (a \o t)[i] = n + j - 1
          BY <1>10, <4>1
        <4>3. (delivered \o u)[i] = u[j]
          <5>1. ~(i <= Len(delivered))
            BY <1>6, <3>2, <4>1
          <5> QED BY <1>8, <4>1, <5>1
        <4> HIDE DEF j
        <4> QED BY <1>4, <4>1, <4>2, <4>3
      <3>3. i <= Len(delivered) \/ i > Len(delivered)
        BY <1>6, <1>7
      <3> QED BY <3>1, <3>2, <3>3
    <2> QED BY <1>7, <1>8, <2>1, <2>2, SeqEqual
  <1>12. Len(delivered') = Len(delivered) + 1 + r
    BY <1>1, <1>2, <1>3, <1>5, <1>6, <1>7
  <1> QED BY <1>2, <1>7, <1>9, <1>10, <1>11, <1>12 DEF u

\* Passing up in inorder.hook_ingress, the loop over the shelf included,
\* preserves what the invariant says of the receiver.
LEMMA PassUpStep ==
  ASSUME Setting, IndInv, NEW n \in 1 .. sent, PassUp(n), UNCHANGED sent,
         delivered # << >> => n = delivered[Len(delivered)] + 1
  PROVE  /\ ReceiverTypeOK' /\ ShelfOK' /\ RunOK' /\ NothingDueShelved'
         /\ Received(n)'
         /\ \A m \in 1 .. sent : Received(m) => Received(m)'
  <1> USE DEF IndInv
  <1> DEFINE r == LoopRounds(SeqNo(n))
             L == Len(delivered)
  <1>1. /\ r \in 0 .. sent - n /\ r \in Nat /\ n \in Nat /\ n >= 1 /\ n + r <= sent
        /\ sent \in Nat /\ sent <= MaxSends /\ MaxSends \in Nat /\ n \in Packet
        /\ L \in Nat /\ InitSeq \in Nat
    <2>1. r \in 0 .. sent - n /\ n \in Packet /\ n \in Nat
      BY LoopFacts, PacketFacts
    <2> HIDE DEF r
    <2>2. sent \in Nat /\ sent <= MaxSends /\ MaxSends \in Nat /\ L \in Nat /\ InitSeq \in Nat
      BY ConstantsAssumption DEF TypeOK
    <2> QED BY <2>1, <2>2
  <1>2. /\ LoopSeq(SeqNo(n), r) = InitSeq + n + r
        /\ \A k \in 1 .. r : /\ LoopSlot(SeqNo(n), k) = Slot(n + k)
                             /\ inorder_buffer[Slot(n + k)] = n + k
        /\ n + r < sent => inorder_buffer[Slot(n + r + 1)] # n + r + 1
    BY LoopFacts
  <1>3. /\ delivered' \in Seq(Packet)
        /\ Len(delivered') = L + 1 + r
        /\ \A i \in 1 .. L : delivered'[i] = delivered[i]
        /\ \A i \in 1 .. r + 1 : delivered'[L + i] = n + i - 1
    BY PassUpLog
  <1>4. /\ last_recv_sequence' = InitSeq + n + r
        /\ inorder_buffer' = [x \in SlotId |->
                                IF \E k \in 1 .. r : x = LoopSlot(SeqNo(n), k)
                                THEN 0 ELSE inorder_buffer[x]]
        /\ max_ooo_sequence' = max_ooo_sequence
    BY <1>2 DEF PassUp
  <1> HIDE DEF r
  <1>5. \A x \in SlotId : /\ inorder_buffer'[x] = 0 \/ inorder_buffer'[x] = inorder_buffer[x]
                          /\ inorder_buffer'[x] \in 0 .. MaxSends
    BY <1>1, <1>4 DEF TypeOK
  <1>6. ReceiverTypeOK'
    <2>1. InitSeq + n + r \in 0 .. SeqMod - 1
      BY <1>1, ConstantsAssumption DEF Setting
    <2>2. inorder_buffer' \in [SlotId -> 0 .. MaxSends]
      BY <1>4, <1>5
    <2> QED BY <1>3, <1>4, <2>1, <2>2 DEF ReceiverTypeOK, TypeOK
  <1>7. delivered' # << >> /\ L + 1 + r \in 1 .. Len(delivered')
        /\ delivered'[Len(delivered')] = n + r
    <2>1. delivered'[L + (r + 1)] = n + (r + 1) - 1 /\ L + (r + 1) = L + 1 + r
      BY <1>1, <1>3
    <2> QED BY <1>1, <1>3, <2>1
  <1>8. ShelfOK'
    <2>1. ASSUME NEW x \in SlotId, inorder_buffer'[x] # 0
          PROVE  Fits(inorder_buffer[x])'
      <3> DEFINE m == inorder_buffer[x]
      <3>1. /\ inorder_buffer'[x] = m /\ ~ \E k \in 1 .. r : x = LoopSlot(SeqNo(n), k)
            /\ m \in Packet /\ Slot(m) = x /\ delivered # << >> /\ Fits(m)
        BY <1>4, <2>1, ConstantsAssumption DEF ShelfOK, TypeOK, Packet
      <3>2. m \in 1 .. MaxSends /\ BufferSize \in Nat /\ n = Last + 1 /\ Last \in Nat
        BY <3>1, LastType, ConstantsAssumption DEF Packet, Last
      <3>3. m # n
        BY <1>1, <3>1 DEF NothingDueShelved
      <3> HIDE DEF m
      <3>4. ASSUME m > n, m <= n + r PROVE FALSE
        <4>1. m - n \in 1 .. r /\ n + (m - n) = m
          BY <1>1, <3>2, <3>4
        <4> QED BY <1>2, <3>1, <4>1
      <3>5. m <= n + r + BufferSize /\ (m > n + r \/ m + BufferSize > MaxSends)
        BY <1>1, <3>1, <3>2, <3>3, <3>4 DEF Fits
      <3>6. Last' = n + r
        BY <1>7 DEF Last
      <3> QED BY <3>1, <3>5, <3>6 DEF Fits, m
    <2> QED BY <1>4, <1>5, <1>7, <2>1 DEF ShelfOK
  <1>9. RunOK'
    <2>1. ASSUME NEW i \in 1 .. L + 1 + r
          PROVE  delivered'[i] = delivered'[1] + i - 1
      <3>1. CASE delivered = << >>
        <4>1. L = 0
          BY <3>1
        <4>2. delivered'[1] = n /\ delivered'[i] = n + i - 1
          BY <1>1, <1>3, <4>1
        <4> QED BY <1>1, <4>2
      <3>2. CASE delivered # << >>
        <4>1. /\ L \in Nat \ {0} /\ delivered[1] \in Nat
              /\ delivered'[1] = delivered[1]
              /\ delivered[L] = delivered[1] + L - 1
          BY <1>3, <3>2, LogType DEF RunOK, Packet
        <4>2. CASE i <= L
          <5>1. i \in 1 .. L
            BY <4>1, <4>2
          <5> QED BY <1>3, <3>2, <4>1, <5>1 DEF RunOK
        <4>3. CASE i > L
          <5> DEFINE j == i - L
          <5>1. j \in 1 .. r + 1 /\ i = L + j /\ j \in Nat
            BY <1>1, <4>3
          <5> HIDE DEF j
          <5>2. delivered'[i] = n + j - 1
            BY <1>3, <5>1
          <5>3. n = delivered[1] + L
            BY <3>2, <4>1
          <5>4. PICK a \in Nat : a = delivered[1]
            BY <4>1
          <5>5. n + j - 1 = a + i - 1
            BY <4>1, <5>1, <5>3, <5>4
          <5> QED BY <4>1, <5>2, <5>4, <5>5
        <4> QED BY <4>1, <4>2, <4>3
      <3> QED BY <3>1, <3>2
    <2> QED BY <1>1, <1>3, <1>4, <1>7, <2>1 DEF RunOK
  <1>10. NothingDueShelved'
    <2>1. ASSUME n + r + 1 <= sent
          PROVE  inorder_buffer'[Slot(n + r + 1)] # n + r + 1
      <3>1. n + r + 1 \in 1 .. sent /\ n + r < sent
        BY <1>1, <2>1
      <3>2. Slot(n + r + 1) \in SlotId
        BY <3>1, PacketFacts
      <3> QED BY <1>1, <1>2, <1>5, <3>1, <3>2
    <2> QED BY <1>7, <2>1 DEF NothingDueShelved
  <1>11. ASSUME NEW i \in 1 .. r + 1
         PROVE  Received(n + i - 1)'
    <2>1. delivered'[L + i] = n + i - 1
      BY <1>3
    <2>2. L + i \in 1 .. L + 1 + r
      BY <1>1
    <2>3. DOMAIN delivered' = 1 .. L + 1 + r
      BY <1>3, LenProperties
    <2> QED BY <2>1, <2>2, <2>3 DEF Received, Range
  <1>12. Received(n)'
    <2>1. 1 \in 1 .. r + 1 /\ n + 1 - 1 = n
      BY <1>1
    <2> QED BY <1>11, <2>1
  <1>13. ASSUME NEW m \in 1 .. sent, Received(m)
         PROVE  Received(m)'
    <2>1. CASE m \in Range(delivered)
      <3>1. PICK i \in 1 .. L : delivered[i] = m
        BY <2>1 DEF Range, TypeOK
      <3>2. i \in DOMAIN delivered' /\ delivered'[i] = m
        BY <1>1, <1>3, <3>1
      <3> QED BY <3>2 DEF Received, Range
    <2>2. CASE m \in Range(inorder_buffer)
      <3>1. PICK x \in SlotId : inorder_buffer[x] = m
        BY <2>2 DEF Range, TypeOK
      <3>2. CASE \E k \in 1 .. r : x = LoopSlot(SeqNo(n), k)
        <4>1. PICK k \in 1 .. r : x = LoopSlot(SeqNo(n), k)
          BY <3>2
        <4>2. m = n + k /\ k + 1 \in 1 .. r + 1 /\ n + k = n + (k + 1) - 1
          BY <1>1, <1>2, <3>1, <4>1
        <4> QED BY <1>11, <4>2
      <3>3. CASE ~ \E k \in 1 .. r : x = LoopSlot(SeqNo(n), k)
        <4>1. x \in DOMAIN inorder_buffer' /\ inorder_buffer'[x] = m
          BY <1>4, <3>1, <3>3
        <4> QED BY <4>1 DEF Received, Range
      <3> QED BY <3>2, <3>3
    <2>3. CASE delivered # << >> /\ m < delivered[1]
      <3>1. delivered'[1] = delivered[1]
        BY <1>1, <1>3, <2>3, LogType
      <3> QED BY <1>7, <2>3, <3>1 DEF Received
    <2> QED BY <1>13, <2>1, <2>2, <2>3 DEF Received
  <1> QED BY <1>6, <1>8, <1>9, <1>10, <1>12, <1>13

\* The ingress path for a data packet, ACK and inorder.hook_ingress,
\* preserves the invariant.
LEMMA RecvDataStep ==
  ASSUME Setting, IndInv, NEW n \in Packet, RecvData(n), delivered = << >> \/ Fits(n)
  PROVE  IndInv'
  <1> USE DEF IndInv
  <1>1. n \in 1 .. sent
    BY DEF RecvData, WireOK, TypeOK, Packet
  <1>2. HoldForever(n) /\ UNCHANGED sender
    BY DEF Setting, RecvData, Inorder
  <1>3. UNCHANGED <<sent, redelivery_buffer, armed>>
    BY <1>2 DEF sender
  <1>4. /\ ReceiverTypeOK' /\ ShelfOK' /\ RunOK' /\ NothingDueShelved'
        /\ Received(n)'
        /\ \A m \in 1 .. sent : Received(m) => Received(m)'
    <2>1. CASE delivered = << >>
      BY <1>1, <1>2, <1>3, <2>1, PassUpStep DEF HoldForever, RunOK
    <2>2. CASE delivered # << >>
      <3> DEFINE l == delivered[Len(delivered)]
      <3>1. l \in Packet /\ last_recv_sequence = InitSeq + l
        BY <2>2, LogType DEF RunOK
      <3> HIDE DEF l
      <3>2. last_recv_sequence # 0 /\ (last_recv_sequence + 1) % SeqMod = InitSeq + l + 1
        <4>1. l \in Nat \ {0} /\ InitSeq \in Nat /\ InitSeq + l + 1 < SeqMod /\ SeqMod \in Nat
          BY <3>1, ConstantsAssumption DEF Setting, Packet
        <4> QED BY <3>1, <4>1, ModSmall
      <3>3. SeqNo(n) = InitSeq + n
        BY SeqNoValue, ConstantsAssumption DEF Packet
      <3>4. SeqNo(n) = (last_recv_sequence + 1) % SeqMod <=> n = l + 1
        BY <3>1, <3>2, <3>3, ConstantsAssumption DEF Packet
      <3> USE DEF l
      <3>5. CASE n = l + 1
        BY <1>1, <1>2, <1>3, <2>2, <3>4, <3>5, PassUpStep DEF HoldForever
      <3>6. CASE n # l + 1
        BY <1>1, <1>2, <1>3, <2>2, <3>2, <3>4, <3>6, ShelveStep DEF HoldForever
      <3> QED BY <3>5, <3>6
    <2> QED BY <2>1, <2>2
  <1>5. /\ data' \in [Packet -> 0 .. MaxCopies]
        /\ \A m \in Packet : data'[m] > 0 => data[m] > 0
    BY TakeType DEF RecvData, TypeOK
  <1>6. /\ acks' \in [Packet -> 0 .. MaxCopies]
        /\ \A m \in Packet : acks'[m] > 0 => m = n \/ acks[m] > 0
    BY PutType DEF Setting, RecvData, TypeOK
  <1>7. TypeOK'
    BY <1>3, <1>4, <1>5, <1>6 DEF TypeOK, ReceiverTypeOK
  <1>8. WireOK'
    BY <1>1, <1>3, <1>4, <1>5, <1>6 DEF WireOK, Packet
  <1>9. NoLostPacket'
    BY <1>3, <1>4 DEF NoLostPacket
  <1> QED BY <1>2, <1>4, <1>7, <1>8, <1>9, SenderUnchanged

\* Every step of the two endpoints and of the network within the reach of the
\* slots preserves the invariant.
LEMMA StepInv ==
  ASSUME Setting
  PROVE  IndInv /\ [Next]_vars /\ [InReachStep]_vars => IndInv'
  <1> SUFFICES ASSUME IndInv, [Next]_vars, [InReachStep]_vars PROVE IndInv'
    OBVIOUS
  <1>1. CASE UNCHANGED vars
    <2>1. UNCHANGED <<sender, network, receiver>>
      BY <1>1 DEF vars
    <2>2. UNCHANGED <<data, acks>>
      BY <2>1 DEF network
    <2> QED BY <2>1, <2>2, NetworkStep DEF IndInv, TypeOK
  <1>2. CASE InReachStep /\ Send
    BY <1>2, SendStep DEF InReachStep
  <1>3. ASSUME InReachStep, NEW n \in Packet,
               \/ Redeliver(n) \/ RecvAck(n) \/ RecvData(n)
               \/ LoseData(n) \/ LoseAck(n)
        PROVE  IndInv'
    <2>1. CASE Redeliver(n) \/ LoseData(n) \/ LoseAck(n)
      BY <2>1, RedeliverStep, LoseStep
    <2>2. CASE RecvAck(n)
      BY <1>3, <2>2, RecvAckStep DEF InReachStep
    <2>3. CASE RecvData(n)
      BY <1>3, <2>3, RecvDataStep DEF InReachStep
    <2> QED BY <1>3, <2>1, <2>2, <2>3
  <1>4. CASE Quiet
    BY <1>1, <1>4 DEF Quiet
  <1> QED BY <1>1, <1>2, <1>3, <1>4 DEF Next

\* With no more packets than slots every step is within their reach.
LEMMA StepInReach ==
  ASSUME Window
  PROVE  IndInv /\ [Next]_vars => [InReachStep]_vars
  <1> SUFFICES ASSUME IndInv, Next PROVE InReachStep
    OBVIOUS
  <1>1. /\ MaxSends <= BufferSize /\ MaxSends \in Nat /\ BufferSize \in Nat
        /\ sent \in 0 .. MaxSends /\ armed \subseteq 1 .. MaxSends /\ Last \in Nat
    <2>1. TypeOK
      BY DEF IndInv
    <2>2. Last \in 0 .. MaxSends
      BY <2>1, LastType
    <2> QED BY <2>1, <2>2, ConstantsAssumption DEF Window, TypeOK, Packet
  <1>2. ASSUME Send PROVE sent + 1 - BufferSize \notin armed
    <2>1. sent < MaxSends
      BY <1>2 DEF Send
    <2> QED BY <1>1, <2>1
  <1>3. ASSUME NEW n \in Packet PROVE sent < n + BufferSize /\ Fits(n)
    BY <1>1 DEF Packet, Fits
  <1> QED BY <1>2, <1>3 DEF InReachStep

\* A connection with no more packets than slots stays within their reach,
\* whatever the network loses, duplicates and reorders.
THEOREM FlowWindowInReach ==
  ASSUME Window
  PROVE  Spec => InReach
  <1>1. Setting
    BY DEF Window
  <1>2. Init => IndInv
    BY <1>1, InitInv
  <1>3. IndInv /\ [Next]_vars /\ [InReachStep]_vars => IndInv'
    BY <1>1, StepInv
  <1>4. IndInv /\ [Next]_vars => [InReachStep]_vars
    BY StepInReach
  <1> QED BY <1>2, <1>3, <1>4, PTL DEF Spec, InReach

\* The inductive invariant holds for any buffer size, any number of packets
\* and any network that keeps within the reach of the slots.
THEOREM FlowInvariant ==
  ASSUME Setting
  PROVE  Spec /\ InReach => []IndInv
  <1> QED BY InitInv, StepInv, PTL DEF Spec, InReach

\* The fields of the inorder and reliable modules stay within their types.
THEOREM FlowTypeCorrect ==
  ASSUME Setting
  PROVE  Spec /\ InReach => []TypeOK
  BY FlowInvariant, PTL DEF IndInv

\* reliable.hook_ingress retires no packet the receiver does not have: a
\* packet is received or has an armed redelivery timer.
THEOREM FlowLosesNothing ==
  ASSUME Setting
  PROVE  Spec /\ InReach => []NoLostPacket
  BY FlowInvariant, PTL DEF IndInv

\* Every redelivery timer in the list is found by the ACK of its packet
\* through the slot of the redelivery buffer.
THEOREM FlowTimersFindable ==
  ASSUME Setting
  PROVE  Spec /\ InReach => []TimersFindable
  <1>1. IndInv => TimersFindable
    BY DEF IndInv, TimersOK, TimersFindable
  <1> QED BY <1>1, FlowInvariant, PTL

\* inorder.hook_ingress passes up consecutive packets.
THEOREM FlowInOrder ==
  ASSUME Setting
  PROVE  Spec /\ InReach => []ConsecutiveDelivery
  <1>1. IndInv => ConsecutiveDelivery
    BY DEF IndInv, RunOK, ConsecutiveDelivery, TypeOK
  <1> QED BY <1>1, FlowInvariant, PTL

\* The loop of inorder.hook_ingress never leaves a packet on the shelf whose
\* turn has come.
THEOREM FlowNothingDue ==
  ASSUME Setting
  PROVE  Spec /\ InReach => []NothingDueShelved
  <1>1. IndInv => NothingDueShelved
    BY DEF IndInv, RunOK
  <1> QED BY <1>1, FlowInvariant, PTL

\* Passing up a packet and the run behind it on the shelf is a Deliver step of
\* the abstract stream.
LEMMA PassUpImplementsDeliver ==
  ASSUME Setting, IndInv, NEW n \in 1 .. sent, PassUp(n), UNCHANGED sent,
         delivered # << >> => n = delivered[Len(delivered)] + 1
  PROVE  Abs!Deliver
  <1> DEFINE r == LoopRounds(SeqNo(n))
  <1>1. delivered' = delivered \o [i \in 1 .. r + 1 |-> n + i - 1]
    BY PassUpLog DEF IndInv
  <1>2. r \in 0 .. sent - n /\ n \in Packet /\ n \in Nat
    BY LoopFacts, PacketFacts DEF IndInv
  <1> HIDE DEF r
  <1>3. /\ n \in 1 .. MaxSends /\ r + 1 \in 1 .. MaxSends
        /\ n + (r + 1) - 1 <= sent
    BY <1>2, ConstantsAssumption DEF IndInv, TypeOK, Packet
  <1> QED BY <1>1, <1>3 DEF Abs!Deliver

\* Every step of the inorder and reliable modules is a step of the abstract
\* stream or leaves it alone.
LEMMA StepImplementsStream ==
  ASSUME Setting
  PROVE  IndInv /\ [Next]_vars => [Abs!Next]_<<sent, delivered>>
  <1> SUFFICES ASSUME IndInv, [Next]_vars PROVE [Abs!Next]_<<sent, delivered>>
    OBVIOUS
  <1>1. CASE Send
    BY <1>1 DEF Send, receiver, Abs!Next, Abs!Send
  <1>2. ASSUME NEW n \in Packet, RecvData(n) PROVE [Abs!Next]_<<sent, delivered>>
    <2>1. n \in 1 .. sent
      BY <1>2 DEF RecvData, IndInv, WireOK, TypeOK, Packet
    <2>2. HoldForever(n) /\ UNCHANGED sent
      BY <1>2 DEF Setting, RecvData, Inorder, sender
    <2>3. CASE Shelve(n)
      BY <2>2, <2>3 DEF Shelve
    <2>4. CASE PassUp(n) /\ delivered = << >>
      BY <2>1, <2>2, <2>4, PassUpImplementsDeliver DEF Abs!Next
    <2>5. CASE PassUp(n) /\ ~Shelve(n) /\ delivered # << >>
      <3> DEFINE l == delivered[Len(delivered)]
      <3>1. l \in Packet /\ last_recv_sequence = InitSeq + l
        BY <2>5, LogType DEF RunOK, IndInv
      <3> HIDE DEF l
      <3>2. l \in Nat \ {0} /\ InitSeq \in Nat /\ InitSeq + l + 1 < SeqMod /\ SeqMod \in Nat
        BY <3>1, ConstantsAssumption DEF Setting, Packet
      <3>3. last_recv_sequence # 0 /\ (last_recv_sequence + 1) % SeqMod = InitSeq + l + 1
        BY <3>1, <3>2, ModSmall
      <3>4. SeqNo(n) = InitSeq + n
        BY SeqNoValue, ConstantsAssumption DEF Packet
      <3>5. SeqNo(n) = (last_recv_sequence + 1) % SeqMod
        BY <2>2, <2>5, <3>3 DEF HoldForever
      <3>6. n = l + 1
        BY <3>2, <3>3, <3>4, <3>5 DEF Packet
      <3> QED BY <2>1, <2>2, <2>5, <3>6, PassUpImplementsDeliver DEF Abs!Next, l
    <2> QED BY <2>2, <2>3, <2>4, <2>5 DEF HoldForever
  <1>3. ASSUME NEW n \in Packet,
               Redeliver(n) \/ RecvAck(n) \/ LoseData(n) \/ LoseAck(n)
        PROVE  UNCHANGED <<sent, delivered>>
    BY <1>3 DEF Redeliver, RecvAck, LoseData, LoseAck, sender, receiver
  <1>4. CASE UNCHANGED vars \/ Quiet
    BY <1>4 DEF Quiet, vars, sender, receiver
  <1> QED BY <1>1, <1>2, <1>3, <1>4 DEF Next

\* The inorder and reliable modules implement the stream of FlowSpec over a
\* network that loses, duplicates and reorders within the reach of the slots.
THEOREM FlowImplementsStream ==
  ASSUME Setting
  PROVE  Spec /\ InReach => ImplementsStream
  <1>1. Init => Abs!Init
    BY DEF Init, Abs!Init
  <1> QED BY <1>1, FlowInvariant, StepImplementsStream, PTL DEF Spec, ImplementsStream, Abs!Spec

(***************************************************************************)
(* drop_out_of_order.                                                      *)
(***************************************************************************)

\* Nothing was passed up with a number beyond last_recv_sequence, and what was
\* passed up is rising.
RisingOK ==
  /\ delivered \in Seq(Packet)
  /\ last_recv_sequence \in Nat
  /\ \A k \in 1 .. Len(delivered) : InitSeq + delivered[k] <= last_recv_sequence
  /\ \A j, k \in 1 .. Len(delivered) : j < k => delivered[j] < delivered[k]

\* The inductive invariant under drop_out_of_order.
DropInv == strategy = Strategy => RisingOK

\* hook_establish starts with nothing passed up.
LEMMA DropInit == MCInit => DropInv
  <1> SUFFICES ASSUME MCInit, strategy = Strategy PROVE RisingOK
    BY DEF DropInv
  <1>1. delivered = << >> /\ last_recv_sequence = 0
    BY StrategyAssumption DEF MCInit, Init
  <1>2. << >> \in Seq(Packet) /\ Len(<< >>) = 0
    BY EmptySeq
  <1> QED BY <1>1, <1>2 DEF RisingOK

\* inorder.hook_ingress passes a packet up only if its number is greater than
\* all before it.
LEMMA DropStep ==
  ASSUME RisingOK, NEW n \in Packet, DropOutOfOrder(n)
  PROVE  RisingOK'
  <1>1. SeqNo(n) = InitSeq + n /\ n \in Nat /\ InitSeq \in Nat
    BY SeqNoValue, ConstantsAssumption DEF Packet
  <1>2. CASE last_recv_sequence < SeqNo(n)
    <2>1. last_recv_sequence' = InitSeq + n /\ delivered' = Append(delivered, n)
          /\ last_recv_sequence < InitSeq + n
      BY <1>1, <1>2 DEF DropOutOfOrder
    <2>2. Len(delivered) \in Nat /\ \A k \in 1 .. Len(delivered) : delivered[k] \in Packet
      BY ElementOfSeq, LenProperties DEF RisingOK
    <2>3. /\ delivered' \in Seq(Packet) /\ Len(delivered') = Len(delivered) + 1
          /\ \A k \in 1 .. Len(delivered) : delivered'[k] = delivered[k]
          /\ delivered'[Len(delivered) + 1] = n
      BY <2>1, AppendProperties DEF RisingOK
    <2>4. \A k \in 1 .. Len(delivered) :
            InitSeq + delivered[k] <= InitSeq + n /\ delivered[k] < n
      BY <1>1, <2>1, <2>2 DEF RisingOK, Packet
    <2>5. \A k \in 1 .. Len(delivered') : InitSeq + delivered'[k] <= last_recv_sequence'
      BY <1>1, <2>1, <2>2, <2>3, <2>4
    <2>6. \A j, k \in 1 .. Len(delivered') : j < k => delivered'[j] < delivered'[k]
      BY <2>2, <2>3, <2>4 DEF RisingOK
    <2>7. last_recv_sequence' \in Nat
      BY <1>1, <2>1
    <2> QED BY <2>3, <2>5, <2>6, <2>7 DEF RisingOK
  <1>3. CASE ~(last_recv_sequence < SeqNo(n))
    BY <1>3 DEF DropOutOfOrder, RisingOK
  <1> QED BY <1>2, <1>3

\* Every step of the two endpoints and of the network preserves the invariant.
LEMMA DropNext ==
  ASSUME Strategy = "drop_out_of_order"
  PROVE  DropInv /\ [MCNext]_<<vars, strategy>> => DropInv'
  <1> SUFFICES ASSUME DropInv, [MCNext]_<<vars, strategy>>, strategy' = Strategy
               PROVE  RisingOK'
    BY DEF DropInv
  <1>1. strategy = Strategy /\ RisingOK
    BY DEF MCNext, DropInv
  <1>2. CASE UNCHANGED <<vars, strategy>>
    BY <1>1, <1>2 DEF vars, receiver, RisingOK
  <1>3. CASE Next
    <2>1. CASE UNCHANGED receiver
      BY <1>1, <2>1 DEF receiver, RisingOK
    <2>2. CASE \E n \in Packet : RecvData(n)
      <3>1. PICK n \in Packet : DropOutOfOrder(n)
        BY <2>2 DEF RecvData, Inorder
      <3> QED BY <1>1, <3>1, DropStep
    <2> QED BY <1>3, <2>1, <2>2 DEF Next, Send, Redeliver, RecvAck, LoseData, LoseAck,
                                    Quiet, vars
  <1> QED BY <1>1, <1>2, <1>3, StrategyAssumption DEF MCNext

\* Under drop_out_of_order the application never sees a packet after a later
\* one, or twice, whatever the network reorders, duplicates and loses and the
\* reliable module sends again; with or without the reliable module.
THEOREM StrategiesDropRises ==
  ASSUME Strategy = "drop_out_of_order"
  PROVE  MCSpec => []DropRises
  <1>1. DropInv => DropRises
    BY DEF DropInv, DropRises, RisingOK, RisingPayloads, InputQueue
  <1> QED BY <1>1, DropInit, DropNext, PTL DEF MCSpec

(***************************************************************************)
(* no_inorder.                                                             *)
(***************************************************************************)

\* An ACK arrives before the slot of its packet is used again.
TimelyAck ==
  strategy = "no_inorder" =>
    \A n \in Packet : NoOrder!RecvAck(n) => sent < n + BufferSize

\* All ACKs arrive in time.
TimelyAcks == [][TimelyAck]_<<vars, strategy>>

\* Packets less than the number of slots apart have slots of their own.
LEMMA NoOrderSlots ==
  /\ \A n \in Packet : NoOrder!Slot(n) \in SlotId
  /\ \A m, n \in Packet :
       NoOrder!Slot(m) = NoOrder!Slot(n) /\ n <= m /\ m < n + BufferSize => m = n
  <1>1. BufferSize \in Nat \ {0} /\ MaxSends \in Nat /\ InitSeq \in Nat
    BY ConstantsAssumption
  <1>2. ASSUME NEW n \in Packet
        PROVE  InitSeq + n \in Nat /\ NoOrder!Slot(n) = (InitSeq + n) % BufferSize
    BY <1>1, SeqNoValue DEF NoOrder!Slot, NoOrder!SeqNo, SeqNo, Packet
  <1>3. ASSUME NEW n \in Packet PROVE NoOrder!Slot(n) \in SlotId
    BY <1>1, <1>2, ModRange DEF SlotId
  <1>4. ASSUME NEW m \in Packet, NEW n \in Packet, NoOrder!Slot(m) = NoOrder!Slot(n),
               n <= m, m < n + BufferSize
        PROVE  m = n
    <2>1. (InitSeq + m) - (InitSeq + n) < BufferSize /\ (InitSeq + n) - (InitSeq + m) < BufferSize
      BY <1>1, <1>4 DEF Packet
    <2>2. (InitSeq + m) % BufferSize = (InitSeq + n) % BufferSize
      BY <1>2, <1>4
    <2>3. InitSeq + m = InitSeq + n
      BY <1>1, <1>2, <2>1, <2>2, ModInjective
    <2> QED BY <1>1, <2>3 DEF Packet
  <1> QED BY <1>3, <1>4

\* A slot of the redelivery buffer is empty or holds a packet that belongs
\* there, and no older one than was sent last with that slot; only packets
\* that were sent and passed up are acknowledged, and a packet without a timer
\* was passed up.
RetiredOK ==
  /\ sent \in 0 .. MaxSends
  /\ redelivery_buffer \in [SlotId -> 0 .. MaxSends]
  /\ armed \subseteq 1 .. sent
  /\ data \in [Packet -> 0 .. MaxCopies]
  /\ acks \in [Packet -> 0 .. MaxCopies]
  /\ delivered \in Seq(Packet)
  /\ \A x \in SlotId : redelivery_buffer[x] # 0 =>
       /\ redelivery_buffer[x] <= sent
       /\ NoOrder!Slot(redelivery_buffer[x]) = x
       /\ \A n \in 1 .. sent : NoOrder!Slot(n) = x => n <= redelivery_buffer[x]
  /\ \A n \in Packet : data[n] > 0 => n <= sent
  /\ \A n \in Packet : acks[n] > 0 => n <= sent /\ n \in Range(delivered)
  /\ \A n \in 1 .. sent : n \in armed \/ n \in Range(delivered)

\* The inductive invariant under no_inorder.
NoOrderInv == strategy = "no_inorder" => RetiredOK

\* hook_establish sets up empty buffers.
LEMMA NoOrderInit == MCInit => NoOrderInv
  <1> SUFFICES ASSUME MCInit, strategy = "no_inorder" PROVE RetiredOK
    BY DEF NoOrderInv
  <1>1. /\ sent = 0 /\ redelivery_buffer = [x \in SlotId |-> 0] /\ armed = {}
        /\ data = [n \in Packet |-> 0] /\ acks = [n \in Packet |-> 0]
        /\ delivered = << >>
    BY StrategyAssumption DEF MCInit, NoOrder!Init, NoOrder!SlotId, NoOrder!Packet, SlotId, Packet
  <1> QED BY <1>1, EmptySeq, ConstantsAssumption DEF RetiredOK

\* The send path stores the packet in its slot and arms its timer.
LEMMA NoOrderSend ==
  ASSUME Reliable, RetiredOK, NoOrder!Send
  PROVE  RetiredOK'
  <1> DEFINE p == sent + 1
  <1>1. /\ sent < MaxSends /\ sent' = p
        /\ redelivery_buffer' = [redelivery_buffer EXCEPT ![NoOrder!Slot(p)] = p]
        /\ armed' = armed \union {p}
        /\ data' = Put(data, p)
        /\ UNCHANGED <<acks, delivered>>
    BY DEF NoOrder!Send, NoOrder!receiver, NoOrder!Put, Put
  <1>2. sent \in Nat /\ p \in Packet /\ p # 0 /\ sent' \in 0 .. MaxSends /\ p \in 1 .. MaxSends
    BY <1>1, ConstantsAssumption DEF RetiredOK, Packet
  <1>3. NoOrder!Slot(p) \in SlotId
    BY <1>2, NoOrderSlots
  <1>4. redelivery_buffer' \in [SlotId -> 0 .. MaxSends] /\ armed' \subseteq 1 .. sent'
    BY <1>1, <1>2, <1>3 DEF RetiredOK
  <1>5. ASSUME NEW x \in SlotId, redelivery_buffer'[x] # 0
        PROVE  /\ redelivery_buffer'[x] <= p
               /\ NoOrder!Slot(redelivery_buffer'[x]) = x
               /\ \A n \in 1 .. p : NoOrder!Slot(n) = x => n <= redelivery_buffer'[x]
    <2>1. CASE x = NoOrder!Slot(p)
      BY <1>1, <1>2, <1>3, <2>1 DEF RetiredOK
    <2>2. CASE x # NoOrder!Slot(p)
      <3>1. redelivery_buffer'[x] = redelivery_buffer[x] /\ redelivery_buffer[x] \in 0 .. MaxSends
        BY <1>1, <2>2 DEF RetiredOK
      <3>2. \A n \in 1 .. p : NoOrder!Slot(n) = x => n \in 1 .. sent
        BY <1>2, <2>2
      <3>3. /\ redelivery_buffer[x] <= sent /\ NoOrder!Slot(redelivery_buffer[x]) = x
            /\ \A n \in 1 .. sent : NoOrder!Slot(n) = x => n <= redelivery_buffer[x]
        BY <1>5, <3>1 DEF RetiredOK
      <3> QED BY <1>2, <3>1, <3>2, <3>3
    <2> QED BY <2>1, <2>2
  <1>6. \A n \in 1 .. sent' : n \in armed' \/ n \in Range(delivered)
    BY <1>1, <1>2 DEF RetiredOK
  <1>7. /\ data' \in [Packet -> 0 .. MaxCopies]
        /\ \A n \in Packet : data'[n] > 0 => n <= sent'
    <2>1. /\ data' \in [Packet -> 0 .. MaxCopies]
          /\ \A m \in Packet : data'[m] > 0 => m = p \/ data[m] > 0
      BY <1>1, <1>2, PutType DEF RetiredOK
    <2> QED BY <1>1, <1>2, <2>1 DEF RetiredOK, Packet
  <1>8. \A n \in Packet : acks[n] > 0 => n <= sent' /\ n \in Range(delivered)
    BY <1>1, <1>2 DEF RetiredOK, Packet
  <1> QED BY <1>1, <1>2, <1>4, <1>5, <1>6, <1>7, <1>8 DEF RetiredOK

\* Steps of the network alone: fewer copies, or one more copy of a packet
\* that was sent.
LEMMA NoOrderNetwork ==
  ASSUME RetiredOK, UNCHANGED <<sent, redelivery_buffer, armed, delivered>>,
         data' \in [Packet -> 0 .. MaxCopies],
         acks' \in [Packet -> 0 .. MaxCopies],
         \A m \in Packet : data'[m] > 0 => m <= sent,
         \A m \in Packet : acks'[m] > 0 => acks[m] > 0
  PROVE  RetiredOK'
  BY DEF RetiredOK

\* The ACK branch retires the packet that was acknowledged, and no other.
LEMMA NoOrderAck ==
  ASSUME RetiredOK, NEW n \in Packet, NoOrder!RecvAck(n), sent < n + BufferSize
  PROVE  RetiredOK'
  <1> DEFINE p_rem == redelivery_buffer[NoOrder!Slot(n)]
  <1>1. /\ acks[n] > 0 /\ acks' = Take(acks, n)
        /\ UNCHANGED <<sent, data, delivered>>
        /\ \/ /\ p_rem # 0 /\ armed' = armed \ {p_rem}
              /\ redelivery_buffer' = [redelivery_buffer EXCEPT ![NoOrder!Slot(n)] = 0]
           \/ UNCHANGED <<armed, redelivery_buffer>>
    BY DEF NoOrder!RecvAck, NoOrder!Take, Take, NoOrder!receiver
  <1>2. NoOrder!Slot(n) \in SlotId /\ n <= sent /\ n \in Range(delivered)
    BY <1>1, NoOrderSlots DEF RetiredOK
  <1>3. acks' \in [Packet -> 0 .. MaxCopies] /\ \A m \in Packet : acks'[m] > 0 => acks[m] > 0
    BY <1>1, TakeType DEF RetiredOK
  <1>4. CASE UNCHANGED <<armed, redelivery_buffer>>
    BY <1>1, <1>3, <1>4, NoOrderNetwork DEF RetiredOK
  <1>5. CASE /\ p_rem # 0 /\ armed' = armed \ {p_rem}
             /\ redelivery_buffer' = [redelivery_buffer EXCEPT ![NoOrder!Slot(n)] = 0]
    <2>1. p_rem \in Packet /\ NoOrder!Slot(p_rem) = NoOrder!Slot(n) /\ p_rem <= sent
      BY <1>2, <1>5, ConstantsAssumption DEF RetiredOK, Packet
    <2>2. p_rem = n
      <3>1. n \in 1 .. sent
        BY <1>2 DEF Packet, RetiredOK
      <3>2. n <= p_rem
        BY <1>2, <1>5, <3>1 DEF RetiredOK
      <3> HIDE DEF p_rem
      <3>3. p_rem < n + BufferSize
        BY <2>1, <3>1, ConstantsAssumption DEF Packet, RetiredOK
      <3> QED BY <2>1, <3>2, <3>3, NoOrderSlots
    <2>3. /\ redelivery_buffer' \in [SlotId -> 0 .. MaxSends]
          /\ \A x \in SlotId :
               redelivery_buffer'[x] = 0 \/ redelivery_buffer'[x] = redelivery_buffer[x]
      BY <1>2, <1>5, ConstantsAssumption DEF RetiredOK
    <2>4. \A x \in SlotId : redelivery_buffer'[x] # 0 =>
            /\ redelivery_buffer'[x] <= sent
            /\ NoOrder!Slot(redelivery_buffer'[x]) = x
            /\ \A m \in 1 .. sent : NoOrder!Slot(m) = x => m <= redelivery_buffer'[x]
      BY <2>3 DEF RetiredOK
    <2>5. \A m \in 1 .. sent : m \in armed' \/ m \in Range(delivered)
      BY <1>2, <1>5, <2>2 DEF RetiredOK
    <2>6. armed' \subseteq 1 .. sent
      BY <1>5 DEF RetiredOK
    <2> QED BY <1>1, <1>3, <2>3, <2>4, <2>5, <2>6 DEF RetiredOK
  <1> QED BY <1>1, <1>4, <1>5

\* The ingress path acknowledges a packet and passes it up in the same step.
LEMMA NoOrderData ==
  ASSUME Reliable, RetiredOK, NEW n \in Packet, NoOrder!RecvData(n)
  PROVE  RetiredOK'
  <1>1. /\ data[n] > 0 /\ data' = Take(data, n) /\ acks' = Put(acks, n)
        /\ delivered' = Append(delivered, n)
        /\ UNCHANGED <<sent, redelivery_buffer, armed>>
    BY DEF NoOrder!RecvData, NoOrder!Put, NoOrder!Take, NoOrder!Inorder, NoOrder!NoInorder,
           NoOrder!sender, Put, Take
  <1>2. delivered' \in Seq(Packet) /\ Range(delivered') = Range(delivered) \union {n}
    <2>1. /\ delivered \in Seq(Packet) /\ Append(delivered, n) \in Seq(Packet)
          /\ Len(delivered) \in Nat /\ Len(Append(delivered, n)) = Len(delivered) + 1
          /\ \A k \in 1 .. Len(delivered) : Append(delivered, n)[k] = delivered[k]
          /\ Append(delivered, n)[Len(delivered) + 1] = n
      BY AppendProperties, LenProperties DEF RetiredOK
    <2>2. Range(delivered) = {delivered[k] : k \in 1 .. Len(delivered)}
          /\ Range(Append(delivered, n)) =
               {Append(delivered, n)[k] : k \in 1 .. Len(Append(delivered, n))}
      BY <2>1, RangeEquality
    <2> QED BY <1>1, <2>1, <2>2
  <1>3. /\ acks' \in [Packet -> 0 .. MaxCopies]
        /\ \A m \in Packet : acks'[m] > 0 => m = n \/ acks[m] > 0
    BY <1>1, PutType DEF RetiredOK
  <1>4. /\ data' \in [Packet -> 0 .. MaxCopies]
        /\ \A m \in Packet : data'[m] > 0 => data[m] > 0
    BY <1>1, TakeType DEF RetiredOK
  <1>5. \A m \in Packet : acks'[m] > 0 => m <= sent /\ m \in Range(delivered')
    BY <1>1, <1>2, <1>3 DEF RetiredOK
  <1>6. \A m \in Packet : data'[m] > 0 => m <= sent
    BY <1>4 DEF RetiredOK
  <1>7. \A m \in 1 .. sent : m \in armed \/ m \in Range(delivered')
    BY <1>2 DEF RetiredOK
  <1> QED BY <1>1, <1>2, <1>3, <1>4, <1>5, <1>6, <1>7 DEF RetiredOK

\* Every step of the two endpoints and of the network preserves the invariant
\* as long as ACKs are in time.
LEMMA NoOrderNext ==
  ASSUME Reliable
  PROVE  /\ NoOrderInv
         /\ [MCNext]_<<vars, strategy>>
         /\ [TimelyAck]_<<vars, strategy>>
         => NoOrderInv'
  <1> SUFFICES ASSUME NoOrderInv, [MCNext]_<<vars, strategy>>, strategy' = "no_inorder",
                      [TimelyAck]_<<vars, strategy>>
               PROVE  RetiredOK'
    BY DEF NoOrderInv
  <1>1. strategy = "no_inorder" /\ RetiredOK
    BY DEF MCNext, NoOrderInv
  <1>2. ASSUME UNCHANGED <<sent, redelivery_buffer, armed, data, acks, delivered>>
        PROVE  RetiredOK'
    BY <1>1, <1>2 DEF RetiredOK
  <1>3. CASE UNCHANGED <<vars, strategy>>
    BY <1>2, <1>3 DEF vars, sender, network, receiver
  <1>4. CASE TimelyAck /\ NoOrder!Next
    <2>1. CASE NoOrder!Send
      BY <1>1, <2>1, NoOrderSend
    <2>2. ASSUME NEW n \in Packet, NoOrder!Redeliver(n)
          PROVE  RetiredOK'
      <3>1. n \in armed /\ data' = Put(data, n)
            /\ UNCHANGED <<sent, redelivery_buffer, armed, acks, delivered>>
        BY <2>2 DEF NoOrder!Redeliver, NoOrder!Put, Put, NoOrder!sender, NoOrder!receiver
      <3>2. /\ data' \in [Packet -> 0 .. MaxCopies]
            /\ \A m \in Packet : data'[m] > 0 => m = n \/ data[m] > 0
        BY <1>1, <3>1, PutType DEF RetiredOK
      <3>3. \A m \in Packet : data'[m] > 0 => m <= sent
        BY <1>1, <3>1, <3>2 DEF RetiredOK
      <3> QED BY <1>1, <3>1, <3>2, <3>3, NoOrderNetwork DEF RetiredOK
    <2>3. ASSUME NEW n \in Packet, NoOrder!LoseData(n)
          PROVE  RetiredOK'
      <3>1. data[n] > 0 /\ data' = Take(data, n)
            /\ UNCHANGED <<sent, redelivery_buffer, armed, acks, delivered>>
        BY <2>3 DEF NoOrder!LoseData, NoOrder!Take, Take, NoOrder!sender, NoOrder!receiver
      <3>2. /\ data' \in [Packet -> 0 .. MaxCopies]
            /\ \A m \in Packet : data'[m] > 0 => m <= sent
        BY <1>1, <3>1, TakeType DEF RetiredOK
      <3> QED BY <1>1, <3>1, <3>2, NoOrderNetwork DEF RetiredOK
    <2>4. ASSUME NEW n \in Packet, NoOrder!RecvAck(n)
          PROVE  RetiredOK'
      BY <1>1, <1>4, <2>4, NoOrderAck DEF TimelyAck
    <2>5. ASSUME NEW n \in Packet, NoOrder!RecvData(n)
          PROVE  RetiredOK'
      BY <1>1, <2>5, NoOrderData
    <2>6. ASSUME NEW n \in Packet, NoOrder!LoseAck(n)
          PROVE  RetiredOK'
      <3>1. acks[n] > 0 /\ acks' = Take(acks, n)
            /\ UNCHANGED <<sent, redelivery_buffer, armed, data, delivered>>
        BY <2>6 DEF NoOrder!LoseAck, NoOrder!Take, Take, NoOrder!sender, NoOrder!receiver
      <3>2. /\ acks' \in [Packet -> 0 .. MaxCopies]
            /\ \A m \in Packet : acks'[m] > 0 => acks[m] > 0
        BY <1>1, <3>1, TakeType DEF RetiredOK
      <3> QED BY <1>1, <3>1, <3>2, NoOrderNetwork DEF RetiredOK
    <2>7. CASE NoOrder!Quiet
      BY <1>2, <2>7 DEF NoOrder!Quiet, NoOrder!vars, NoOrder!sender, NoOrder!network,
                        NoOrder!receiver
    <2> QED BY <1>4, <2>1, <2>2, <2>3, <2>4, <2>5, <2>6, <2>7
            DEF NoOrder!Next, NoOrder!Packet, Packet
  <1> QED BY <1>1, <1>3, <1>4, StrategyAssumption DEF MCNext

\* Under no_inorder the reliable module loses nothing, for any number of
\* packets short of the wrap of the number: a packet whose redelivery timer an
\* ACK removed was passed up, as long as ACKs are in time.
THEOREM StrategiesNoOrderLosesNothing ==
  ASSUME Reliable
  PROVE  MCSpec /\ TimelyAcks => []NoOrderLosesNothing
  <1>1. NoOrderInv => NoOrderLosesNothing
    BY DEF NoOrderInv, NoOrderLosesNothing, RetiredOK
  <1> QED BY <1>1, NoOrderInit, NoOrderNext, PTL DEF MCSpec, TimelyAcks

\* With no more packets than slots all ACKs are in time.
THEOREM StrategiesAcksTimely ==
  ASSUME Reliable, MaxSends <= BufferSize
  PROVE  MCSpec => TimelyAcks
  <1>1. NoOrderInv /\ [MCNext]_<<vars, strategy>> => [TimelyAck]_<<vars, strategy>>
    BY ConstantsAssumption DEF NoOrderInv, RetiredOK, TimelyAck, Packet
  <1> QED BY <1>1, NoOrderInit, NoOrderNext, PTL DEF MCSpec, TimelyAcks
=============================================================================
