----------------------------- MODULE FlowWindow -----------------------------
(***************************************************************************)
(* Module Flow for connections that stay within what the slots and the     *)
(* sequence numbers can tell apart, and the inductive invariant.  The code *)
(* enforces neither condition; Flow is also checked without them.          *)
(***************************************************************************)
EXTENDS Flow

\* hold_forever with the reliable module.
Setting ==
  /\ Strategy = "hold_forever"
  /\ Reliable = TRUE

\* A connection with no more packets than slots.
Window == Setting /\ MaxSends <= BufferSize

(***************************************************************************)
(* Longer connections: what the packets have to keep to, step by step.     *)
(***************************************************************************)

\* The last packet passed up.
Last == IF delivered = << >> THEN 0 ELSE delivered[Len(delivered)]

\* Packet n may go on the shelf: it is one of the BufferSize packets after
\* the last one passed up, or so late that no packet needs its slot again.
Fits(n) ==
  /\ n <= Last + BufferSize
  /\ n > Last \/ n + BufferSize > MaxSends

\* A packet is sent when its predecessor in the slot is acknowledged, an ACK
\* arrives before its slot is used again, and no packet arrives that does not
\* fit on the shelf.
InReachStep ==
  /\ Send => sent + 1 - BufferSize \notin armed
  /\ \A n \in Packet :
       /\ RecvAck(n) => sent < n + BufferSize
       /\ RecvData(n) => delivered = << >> \/ Fits(n)

\* The packets keep to the reach of the slots.
InReach == [][InReachStep]_vars

(***************************************************************************)
(* The inductive invariant.                                                *)
(***************************************************************************)

\* A slot of the redelivery buffer holds a packet that belongs there.
SlotsOK ==
  \A x \in SlotId : redelivery_buffer[x] # 0 =>
    /\ redelivery_buffer[x] <= sent
    /\ Slot(redelivery_buffer[x]) = x

\* The armed timers are those of the packets in the redelivery buffer, among
\* the last ones sent.
TimersOK ==
  /\ armed \subseteq 1 .. sent
  /\ \A n \in armed : sent < n + BufferSize
  /\ \A n \in 1 .. sent : n \in armed <=> redelivery_buffer[Slot(n)] = n

\* Only packets that were sent are on the way, and only packets the receiver
\* has are acknowledged.
WireOK ==
  \A n \in Packet : /\ data[n] > 0 => n <= sent
                    /\ acks[n] > 0 => n <= sent /\ Received(n)

\* A slot of the shelf holds a packet that belongs there, fits and is not
\* beyond the greatest number shelved; before the stream starts it is empty.
ShelfOK ==
  /\ max_ooo_sequence <= InitSeq + sent
  /\ \A x \in SlotId : inorder_buffer[x] # 0 =>
       /\ inorder_buffer[x] <= sent
       /\ Slot(inorder_buffer[x]) = x
       /\ delivered # << >> /\ Fits(inorder_buffer[x])
       /\ InitSeq + inorder_buffer[x] <= max_ooo_sequence

\* What was passed up is a run of consecutive packets that ends at
\* last_recv_sequence.
RunOK ==
  IF delivered = << >>
  THEN last_recv_sequence = 0
  ELSE /\ last_recv_sequence = InitSeq + delivered[Len(delivered)]
       /\ delivered[Len(delivered)] <= sent
       /\ \A i \in 1 .. Len(delivered) : delivered[i] = delivered[1] + i - 1

\* The inductive invariant behind the safety properties of Flow: what the
\* slots, timers, wires, shelf and log of one connection say of each other.
IndInv ==
  /\ TypeOK
  /\ SlotsOK
  /\ TimersOK
  /\ WireOK
  /\ ShelfOK
  /\ RunOK
  /\ NoLostPacket
  /\ NothingDueShelved
=============================================================================
