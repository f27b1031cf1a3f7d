-------------------------------- MODULE Flow --------------------------------
(***************************************************************************)
(* One direction of an established net-blocks connection: the inorder and  *)
(* reliable modules of the sending and of the receiving endpoint, with the *)
(* network between them.                                                   *)
(*                                                                         *)
(* Packets are named by their number 1, 2, ... in the order of sending;    *)
(* SeqNo(n) is the sequence number in the header of packet n, and the name   *)
(* also stands for the payload.  The first packet of a connection that     *)
(* signals is the empty packet signaling_after.hook_establish sends.       *)
(*                                                                         *)
(* The number does not wrap: the ACK of a packet with number 0 would be    *)
(* taken for a data packet (reliable_module.cpp:79) and be acknowledged    *)
(* itself.  As long as it does not, the other direction of the connection  *)
(* uses disjoint fields (and runs the same code), so one is modelled.      *)
(*                                                                         *)
(* The network loses, reorders and (through redelivery) duplicates.  A     *)
(* corrupted packet is dropped by the checksum module: a loss.             *)
(***************************************************************************)
EXTENDS Integers, Sequences, FiniteSetsExt

CONSTANTS Strategy,     \* the inorder_strategy the protocol is generated with
          Reliable,     \* reliable_module::is_enabled
          BufferSize,   \* INORDER_BUFFER_SIZE = REDELIVERY_BUFFER_SIZE (32)
          InitSeq,      \* first value of last_sent_sequence (1010)
          SeqMod,       \* sequence numbers are unsigned int (2^32)
          NoPayload,    \* the packets without payload (signalling)
          MaxSends,     \* bound: packets sent, fewer than there are numbers
          MaxCopies,    \* bound: copies of a packet in flight
          MaxDelivered  \* bound: packets passed up under no_inorder

ASSUME ConstantsAssumption ==
  /\ Strategy \in {"hold_forever", "drop_out_of_order", "no_inorder"}
  /\ Reliable \in BOOLEAN
  /\ BufferSize \in Nat \ {0}
  /\ InitSeq \in Nat
  /\ SeqMod \in Nat \ {0}
  /\ MaxSends \in Nat
  /\ InitSeq + MaxSends + 1 < SeqMod
  /\ MaxCopies \in Nat \ {0}
  /\ MaxDelivered \in Nat

VARIABLES
  sent,                 \* packets sent; last_sent_sequence = SeqNo(sent)
  redelivery_buffer,    \* sender: slot -> packet waiting for its ACK, 0 if none
  armed,                \* sender: packets with a redelivery timer in the list
  data,                 \* network: packet -> copies on the way
  acks,                 \* network: packet -> ACKs for its number on the way
  last_recv_sequence,   \* receiver: last number passed up, 0 before the first
  inorder_buffer,       \* receiver: slot -> packet shelved there, 0 if none
  max_ooo_sequence,     \* receiver: greatest number shelved so far
  delivered             \* history: packets passed up by inorder, in order

sender   == <<sent, redelivery_buffer, armed>>
network  == <<data, acks>>
receiver == <<last_recv_sequence, inorder_buffer, max_ooo_sequence, delivered>>
vars     == <<sender, network, receiver>>

Packet == 1 .. MaxSends
SlotId == 0 .. BufferSize - 1

SeqNo(n)  == (InitSeq + n) % SeqMod
Slot(n) == SeqNo(n) % BufferSize

\* A packet handed to the transport; copies beyond the bound are lost.
Put(net, n)  == [net EXCEPT ![n] = IF @ < MaxCopies THEN @ + 1 ELSE @]
Take(net, n) == [net EXCEPT ![n] = @ - 1]

(***************************************************************************)
(* hook_establish of the inorder and reliable modules, on both endpoints.  *)
(***************************************************************************)
Init ==
  /\ sent = 0
  /\ redelivery_buffer = [x \in SlotId |-> 0]
  /\ armed = {}
  /\ data = [n \in Packet |-> 0]
  /\ acks = [n \in Packet |-> 0]
  /\ last_recv_sequence = 0
  /\ inorder_buffer = [x \in SlotId |-> 0]
  /\ max_ooo_sequence = 0
  /\ delivered = << >>

(***************************************************************************)
(* The send path: inorder.hook_send numbers the packet, reliable.hook_send *)
(* stores it in its slot (whatever the slot holds) and arms its timer, and *)
(* the network module sends it.                                            *)
(***************************************************************************)
Send ==
  /\ sent < MaxSends
  /\ sent' = sent + 1
  /\ IF Reliable
     THEN /\ redelivery_buffer' = [redelivery_buffer EXCEPT ![Slot(sent + 1)] = sent + 1]
          /\ armed' = armed \union {sent + 1}
     ELSE UNCHANGED <<redelivery_buffer, armed>>
  /\ data' = Put(data, sent + 1)
  /\ UNCHANGED <<acks, receiver>>

\* Mutant: the callback does not put its timer back into the list.
RedeliverOnce(n) ==
  /\ n \in armed
  /\ armed' = armed \ {n}
  /\ data' = Put(data, n)
  /\ UNCHANGED <<sent, redelivery_buffer, acks, receiver>>

\* redelivery_cb: nb__check_timers fires the timer of packet n, which sends
\* the packet again and goes back into the timer list.
Redeliver(n) ==
  /\ n \in armed
  /\ data' = Put(data, n)
  /\ UNCHANGED <<sender, acks, receiver>>

\* Mutant: the slot is emptied and the timer stays in the list.
RecvAckKeepsTimer(n) ==
  /\ acks[n] > 0
  /\ acks' = Take(acks, n)
  /\ redelivery_buffer' = [redelivery_buffer EXCEPT ![Slot(n)] = 0]
  /\ UNCHANGED <<sent, armed, data, receiver>>

(***************************************************************************)
(* reliable.hook_ingress, ACK branch: whatever packet occupies the slot of *)
(* the acknowledged number is taken as the acknowledged one.  The number   *)
(* is not 0, so ack_sequence_number tells the ACK from data.               *)
(***************************************************************************)
RecvAck(n) ==
  /\ acks[n] > 0
  /\ acks' = Take(acks, n)
  /\ LET p_rem == redelivery_buffer[Slot(n)]
     IN  IF p_rem # 0
         THEN /\ armed' = armed \ {p_rem}
              /\ redelivery_buffer' = [redelivery_buffer EXCEPT ![Slot(n)] = 0]
         ELSE UNCHANGED <<armed, redelivery_buffer>>
  /\ UNCHANGED <<sent, data, receiver>>

(***************************************************************************)
(* inorder.hook_ingress, one operator per strategy.                        *)
(***************************************************************************)
\* Mutants: an out-of-order packet is dropped after its ACK was sent; the
\* greatest number shelved is not kept up to date.
ShelveNothing(n) == UNCHANGED receiver

ShelveKeepsMax(n) ==
  /\ inorder_buffer' = [inorder_buffer EXCEPT ![Slot(n)] = n]
  /\ UNCHANGED <<last_recv_sequence, max_ooo_sequence, delivered>>

Shelve(n) ==
  /\ inorder_buffer' = [inorder_buffer EXCEPT ![Slot(n)] = n]
  /\ max_ooo_sequence' = IF max_ooo_sequence < SeqNo(n) THEN SeqNo(n) ELSE max_ooo_sequence
  /\ UNCHANGED <<last_recv_sequence, delivered>>

\* The loop after an in-order packet with number s looks at s+1, s+2, ...
\* and stops at the first one that is beyond max_ooo_sequence or whose slot
\* is empty.  After BufferSize rounds it meets a slot it emptied itself.
LoopSeq(s, k) == (s + k) % SeqMod
LoopSlot(s, k) == LoopSeq(s, k) % BufferSize
LoopStops(s) ==
  {k \in 1 .. BufferSize + 1 :
     \/ k = BufferSize + 1
     \/ LoopSeq(s, k) > max_ooo_sequence
     \/ inorder_buffer[LoopSlot(s, k)] = 0}

\* Mutants: the loop passes up the slot it stops at; there is no loop.
LoopRoundsOneMore(s) == Min(LoopStops(s))
LoopRoundsNone(s) == 0

LoopRounds(s) == Min(LoopStops(s)) - 1

PassUp(n) ==
  LET s == SeqNo(n)
      r == LoopRounds(s)
  IN  /\ delivered' = Append(delivered, n)
                        \o [k \in 1 .. r |-> inorder_buffer[LoopSlot(s, k)]]
      /\ last_recv_sequence' = LoopSeq(s, r)
      /\ inorder_buffer' = [x \in SlotId |->
                              IF \E k \in 1 .. r : x = LoopSlot(s, k)
                              THEN 0 ELSE inorder_buffer[x]]
      /\ UNCHANGED max_ooo_sequence

\* Mutant: any packet newer than the last one counts as in order.
HoldForeverNewer(n) ==
  IF last_recv_sequence = 0 \/ SeqNo(n) > last_recv_sequence
  THEN PassUp(n)
  ELSE Shelve(n)

HoldForever(n) ==
  IF last_recv_sequence = 0 \/ SeqNo(n) = (last_recv_sequence + 1) % SeqMod
  THEN PassUp(n)
  ELSE Shelve(n)

\* Mutant: the comparison lets the last packet in again.
DropOutOfOrderAgain(n) ==
  /\ IF last_recv_sequence <= SeqNo(n)
     THEN /\ last_recv_sequence' = SeqNo(n)
          /\ delivered' = Append(delivered, n)
     ELSE UNCHANGED <<last_recv_sequence, delivered>>
  /\ UNCHANGED <<inorder_buffer, max_ooo_sequence>>

DropOutOfOrder(n) ==
  /\ IF last_recv_sequence < SeqNo(n)
     THEN /\ last_recv_sequence' = SeqNo(n)
          /\ delivered' = Append(delivered, n)
     ELSE UNCHANGED <<last_recv_sequence, delivered>>
  /\ UNCHANGED <<inorder_buffer, max_ooo_sequence>>

\* Mutant: the packet is dropped after its ACK was sent.
NoInorderDrops(n) == UNCHANGED receiver

NoInorder(n) ==
  /\ Len(delivered) < MaxDelivered
  /\ delivered' = Append(delivered, n)
  /\ UNCHANGED <<last_recv_sequence, inorder_buffer, max_ooo_sequence>>

Inorder(n) ==
  CASE Strategy = "hold_forever"      -> HoldForever(n)
    [] Strategy = "drop_out_of_order" -> DropOutOfOrder(n)
    [] OTHER                          -> NoInorder(n)

\* The ingress path for a data packet: reliable.hook_ingress sends the ACK
\* first, then inorder.hook_ingress runs.
RecvData(n) ==
  /\ data[n] > 0
  /\ data' = Take(data, n)
  /\ acks' = IF Reliable THEN Put(acks, n) ELSE acks
  /\ Inorder(n)
  /\ UNCHANGED sender

LoseData(n) ==
  /\ data[n] > 0
  /\ data' = Take(data, n)
  /\ UNCHANGED <<sender, acks, receiver>>

LoseAck(n) ==
  /\ acks[n] > 0
  /\ acks' = Take(acks, n)
  /\ UNCHANGED <<sender, data, receiver>>

\* Everything was sent and acknowledged, and nothing is on the way.
Quiet ==
  /\ sent = MaxSends
  /\ armed = {}
  /\ \A n \in Packet : data[n] = 0 /\ acks[n] = 0
  /\ UNCHANGED vars

Next ==
  \/ Send
  \/ \E n \in Packet : \/ Redeliver(n) \/ RecvAck(n) \/ RecvData(n)
                       \/ LoseData(n) \/ LoseAck(n)
  \/ Quiet

Spec == Init /\ [][Next]_vars

(***************************************************************************)
(* Fairness: nb__main_loop_step runs nb__check_timers on every turn, so an *)
(* armed timer fires; the network loses some copies of a packet, not all.  *)
(***************************************************************************)
Fairness ==
  \A n \in Packet : /\ WF_vars(Redeliver(n))
                    /\ SF_vars(RecvData(n))
                    /\ SF_vars(RecvAck(n))

FairSpec == Spec /\ Fairness

\* The positions in delivered of what the receiver's input_queue was given:
\* packets without payload do not get there.
InputQueue == {i \in 1 .. Len(delivered) : delivered[i] \notin NoPayload}

-----------------------------------------------------------------------------
(***************************************************************************)
(* Properties.                                                             *)
(***************************************************************************)

\* Type correctness: the state of the inorder and reliable modules of the two
\* endpoints stays within its declared ranges.
TypeOK ==
  /\ sent \in 0 .. MaxSends
  /\ redelivery_buffer \in [SlotId -> 0 .. MaxSends]
  /\ armed \subseteq Packet
  /\ data \in [Packet -> 0 .. MaxCopies]
  /\ acks \in [Packet -> 0 .. MaxCopies]
  /\ last_recv_sequence \in 0 .. SeqMod - 1
  /\ inorder_buffer \in [SlotId -> 0 .. MaxSends]
  /\ max_ooo_sequence \in 0 .. SeqMod - 1
  /\ delivered \in Seq(Packet)

\* The receiver has packet n: inorder.hook_ingress passed it up, holds it on
\* the shelf, or (hold_forever) started the stream after it.
Received(n) ==
  \/ n \in Range(delivered)
  \/ n \in Range(inorder_buffer)
  \/ delivered # << >> /\ n < delivered[1]

\* Reliability, the safety half: a packet that reliable.hook_ingress retired
\* (its timer removed) was received; one that was not received still has an
\* armed redelivery timer.
NoLostPacket == \A n \in 1 .. sent : n \in armed \/ Received(n)

\* A redelivery timer in the list and the slot of the redelivery buffer name
\* each other: no timer is left behind that an ACK could no longer find.
TimersFindable == \A n \in armed : redelivery_buffer[Slot(n)] = n

\* In-order delivery under hold_forever: inorder.hook_ingress passes up a run
\* of consecutive packets, no gap, no repetition, nothing out of a stale slot.
ConsecutiveDelivery ==
  \A i \in 1 .. Len(delivered) : delivered[i] = delivered[1] + i - 1

\* The loop of inorder.hook_ingress never leaves a packet on the shelf whose
\* turn has come.
NothingDueShelved ==
  delivered # << >> =>
    LET next == delivered[Len(delivered)] + 1
    IN  next <= sent => inorder_buffer[Slot(next)] # next

\* Under drop_out_of_order the input queue never goes back: strictly rising
\* packets, whatever the network reorders or duplicates.
RisingPayloads ==
  \A i, j \in InputQueue : i < j => delivered[i] < delivered[j]

\* Reliability, the liveness half: every packet is eventually retired by an
\* ACK for good, so neither is its slot held nor is it redelivered for ever.
EventuallyRetired ==
  \A n \in Packet :
    (sent >= n) ~> [](n \notin armed /\ n \notin Range(redelivery_buffer))

Abs == INSTANCE FlowSpec

\* The two modules together implement the stream FlowSpec describes: a packet
\* passed up continues the stream, whatever the network does.
ImplementsStream == Abs!Spec

\* ... and everything sent after the pick-up is eventually passed up: losses
\* are made good by redelivery, and the shelf is emptied in time.
ImplementsFairStream == Abs!FairSpec
=============================================================================
