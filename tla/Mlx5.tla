-------------------------------- MODULE Mlx5 --------------------------------
(***************************************************************************)
(* The receive half of the mlx5 transport (mlx5_impl/transport.cc and      *)
(* nb_mlx5_transport.cc).  The network card and the host share a ring of   *)
(* frames, a queue of work requests (a WQE lends the card Strides frames)  *)
(* and an array of completions the card overwrites without asking.  The    *)
(* host never polls the completion queue: it reads one completion and      *)
(* takes the distance to the last one it read for the number of frames     *)
(* that arrived, posts the WQEs those frames used up again, and then hands *)
(* the frames to the ingress path one by one.                              *)
(*                                                                         *)
(* Frames are named 0, 1, 2, ... in the order of arrival, the name stands  *)
(* for the content; a frame fits into one stride.                          *)
(***************************************************************************)
EXTENDS Integers, Sequences, FiniteSetsExt

CONSTANTS NumWqe,       \* WQEs of the receive queue (8)
          Strides,      \* frames of a WQE (512)
          NumCqe,       \* completions in the array (8)
          WqeIds,       \* wqe_id is 16 bits wide (65536)
          MaxFrames     \* bound: frames that arrive

NumRecv      == NumWqe * Strides
total_cycles == WqeIds * Strides

\* The distances between two completions can be told apart, and a completion
\* keeps its place in the array modulo the frames of a WQE.
ASSUME Mlx5Assumption ==
  /\ NumWqe \in Nat \ {0} /\ Strides \in Nat \ {0} /\ NumCqe \in Nat \ {0}
  /\ WqeIds \in Nat \ {0} /\ MaxFrames \in Nat
  /\ Strides % NumCqe = 0
  /\ NumRecv + NumCqe + Strides <= total_cycles

Frame == 0 .. MaxFrames - 1
None  == -1

VARIABLES
  arrived,              \* card: frames written so far
  recv_wq,              \* card: the posted WQEs, by their part of recv_buffer
  recv_cqe_arr,         \* shared: the completions, [wqe_id, wqe_counter]
  recv_buffer,          \* shared: frame in each slot
  cqe_idx, recv_index_cycle, recvs_to_post, recv_index_to_post,
  recv_buffer_index,    \* host: transport_t
  pending_recv,         \* host: frames counted and not handed out
  id,                   \* host: local of get_packet_count, None outside
  polled                \* history: frames handed out

card == <<arrived, recv_wq, recv_cqe_arr, recv_buffer>>
host == <<cqe_idx, recv_index_cycle, recvs_to_post, recv_index_to_post,
          recv_buffer_index, pending_recv, id, polled>>
vars == <<card, host>>

get_recv_cycle(wqe_id, counter) == wqe_id * Strides + counter

\* The end of mlx5_try_transport: the completions look as if the last frame of
\* the last WQE had just arrived, and all WQEs are posted.
Init ==
  /\ arrived = 0
  /\ recv_wq = [i \in 1 .. NumWqe |-> i - 1]
  /\ recv_cqe_arr = [i \in 0 .. NumCqe - 1 |->
                       [wqe_id |-> WqeIds - 1, wqe_counter |-> Strides - 1]]
  /\ recv_buffer = [x \in 0 .. NumRecv - 1 |-> None]
  /\ cqe_idx = 0
  /\ recv_index_cycle = get_recv_cycle(WqeIds - 1, Strides - 1)
  /\ recvs_to_post = 0
  /\ recv_index_to_post = 0
  /\ recv_buffer_index = 0
  /\ pending_recv = 0
  /\ id = None
  /\ polled = 0

(***************************************************************************)
(* The card: a frame goes into the next stride of the first posted WQE and *)
(* its completion into the next place of the array.  Without a WQE the     *)
(* frame is lost.                                                          *)
(***************************************************************************)
Arrive ==
  /\ arrived < MaxFrames
  /\ recv_wq # << >>
  /\ LET stride == arrived % Strides
     IN  /\ recv_buffer' = [recv_buffer EXCEPT ![Head(recv_wq) * Strides + stride] = arrived]
         /\ recv_cqe_arr' = [recv_cqe_arr EXCEPT ![arrived % NumCqe] =
                               [wqe_id      |-> (arrived \div Strides) % WqeIds,
                                wqe_counter |-> stride]]
         /\ recv_wq' = IF stride = Strides - 1 THEN Tail(recv_wq) ELSE recv_wq
  /\ arrived' = arrived + 1
  /\ UNCHANGED host

(***************************************************************************)
(* nb__poll_packet with nothing pending: mlx5_try_recv calls               *)
(* get_packet_count, which reads the two halves of a completion one after  *)
(* the other; the card may overwrite it between the two reads.             *)
(***************************************************************************)
ReadId ==
  /\ pending_recv = 0
  /\ id = None
  /\ id' = recv_cqe_arr[cqe_idx].wqe_id
  /\ UNCHANGED <<card, cqe_idx, recv_index_cycle, recvs_to_post,
                 recv_index_to_post, recv_buffer_index, pending_recv, polled>>

\* Mutant: any distance other than zero is taken for an arrival.
CountAll(new_cycle) == (new_cycle + total_cycles - recv_index_cycle) % total_cycles

\* The frames a completion accounts for; zero for one that was read before or
\* lies behind.
Count(new_cycle) ==
  LET diff == (new_cycle + total_cycles - recv_index_cycle) % total_cycles
  IN  IF diff > NumRecv THEN 0 ELSE diff

\* Mutant: a WQE is posted again with its last frame still to be counted.
PostsEarly(n) == (n + 1) \div Strides

\* The rounds of the loop of mlx5_try_recv.
Posts(n) == n \div Strides

\* Mutant: the host stays at the completion it read.
NextCqeSame == cqe_idx

NextCqe == (cqe_idx + 1) % NumCqe

CountFrames ==
  /\ id # None
  /\ LET new_cycle == get_recv_cycle(id, recv_cqe_arr[cqe_idx].wqe_counter)
         ret       == Count(new_cycle)
         posts     == Posts(recvs_to_post + ret)
     IN  /\ IF ret = 0
            THEN UNCHANGED <<cqe_idx, recv_index_cycle>>
            ELSE cqe_idx' = NextCqe /\ recv_index_cycle' = new_cycle
         /\ recvs_to_post' = recvs_to_post + ret - posts * Strides
         /\ recv_index_to_post' = (recv_index_to_post + posts) % NumWqe
         /\ recv_wq' = recv_wq \o [i \in 1 .. posts |-> (recv_index_to_post + i - 1) % NumWqe]
         /\ pending_recv' = ret
  /\ id' = None
  /\ UNCHANGED <<arrived, recv_cqe_arr, recv_buffer, recv_buffer_index, polled>>

\* Mutant: the index goes back to the first slot one frame too early.
NextRecvBufferShort == (recv_buffer_index + 1) % (NumRecv - 1)

mlx5_get_next_recv_buffer == (recv_buffer_index + 1) % NumRecv

\* nb__poll_packet with frames pending: the next slot goes to the ingress path.
nb__poll_packet ==
  /\ pending_recv # 0
  /\ recv_buffer_index' = mlx5_get_next_recv_buffer
  /\ pending_recv' = pending_recv - 1
  /\ polled' = polled + 1
  /\ UNCHANGED <<card, cqe_idx, recv_index_cycle, recvs_to_post, recv_index_to_post, id>>

Next == Arrive \/ ReadId \/ CountFrames \/ nb__poll_packet

Spec == Init /\ [][Next]_vars

\* Every nb__main_loop_step polls.
FairSpec == Spec /\ WF_vars(ReadId) /\ WF_vars(CountFrames) /\ WF_vars(nb__poll_packet)

-----------------------------------------------------------------------------
(***************************************************************************)
(* Properties.                                                             *)
(***************************************************************************)
counted == polled + pending_recv

\* Type correctness; the receive queue never holds more WQEs than it has room
\* for, so ibv_post_wq_recv does not fail.
TypeOK ==
  /\ arrived \in 0 .. MaxFrames
  /\ recv_wq \in Seq(0 .. NumWqe - 1) /\ Len(recv_wq) <= NumWqe
  /\ recv_cqe_arr \in [0 .. NumCqe - 1 ->
                         [wqe_id : 0 .. WqeIds - 1, wqe_counter : 0 .. Strides - 1]]
  /\ recv_buffer \in [0 .. NumRecv - 1 -> Frame \union {None}]
  /\ cqe_idx \in 0 .. NumCqe - 1
  /\ recv_index_cycle \in 0 .. total_cycles - 1
  /\ recvs_to_post \in 0 .. Strides - 1
  /\ recv_index_to_post \in 0 .. NumWqe - 1
  /\ recv_buffer_index \in 0 .. NumRecv - 1
  /\ pending_recv \in 0 .. NumRecv
  /\ id \in 0 .. WqeIds - 1 \union {None}
  /\ polled \in Nat

\* get_packet_count never counts a frame that has not arrived, although it may
\* read the halves of two different completions and the counters wrap.
NoPhantomFrame == counted <= arrived

\* The card never overwrites a frame the host has not counted: mlx5_try_recv
\* lends it a part of the ring again only when all its frames are counted.
UncountedIntact ==
  \A n \in counted .. arrived - 1 : recv_buffer[n % NumRecv] = n

\* The slot nb__poll_packet hands out holds the frame whose turn it is, or the
\* one a whole lap later that the card put there since mlx5_try_recv posted
\* the WQE again: never a frame of the lap before, never one out of step.
FrameInTurn ==
  pending_recv # 0 =>
    recv_buffer[recv_buffer_index] \in {polled, polled + NumRecv}

\* Every frame that arrives is handed out: reading a single completion per
\* poll never leaves the host behind for good.
EveryFramePolled == \A n \in 1 .. MaxFrames : arrived >= n ~> polled >= n
=============================================================================
