------------------------------ MODULE FlowSpec ------------------------------
(***************************************************************************)
(* What one direction of a net-blocks connection promises its two users    *)
(* when it is generated with in-order delivery (hold_forever): packets     *)
(* carry consecutive numbers, the receiver picks up the stream at some     *)
(* packet (last_recv_sequence = 0 accepts any first packet) and from there *)
(* on passes every packet up exactly once, without gaps, in runs of one or *)
(* more packets.                                                           *)
(***************************************************************************)
EXTENDS Naturals, Sequences

CONSTANT MaxSends       \* bound on the number of packets sent

VARIABLES sent,         \* number of packets sent so far
          delivered     \* the packets passed up to the receiver, in order

Init == sent = 0 /\ delivered = << >>

Send == /\ sent < MaxSends
        /\ sent' = sent + 1
        /\ UNCHANGED delivered

\* Pick the stream up at a packet m that was sent, or go on after the last
\* packet passed up, and pass up a run of consecutive packets.
Deliver ==
  \E m, k \in 1 .. MaxSends :
    /\ m + k - 1 <= sent
    /\ delivered = << >> \/ m = delivered[Len(delivered)] + 1
    /\ delivered' = delivered \o [i \in 1 .. k |-> m + i - 1]
    /\ UNCHANGED sent

Next == Send \/ Deliver

Spec == Init /\ [][Next]_<<sent, delivered>>

\* Whatever was sent after the point where the stream was picked up is
\* eventually passed up.
FairSpec == Spec /\ WF_<<sent, delivered>>(Deliver)
=============================================================================
