------------------------------ MODULE Listener ------------------------------
(***************************************************************************)
(* The listening side of an endpoint: identifier.hook_ingress queues the   *)
(* packets of clients without a connection, nb__accept (nb_runtime.c)      *)
(* turns a client into a connection and feeds it what was queued, and the  *)
(* POSIX layer (nbp_accept) decides by a counter of ACCEPT_READY events    *)
(* when to call it.                                                        *)
(*                                                                         *)
(* A client numbers its packets 1, 2, ...; packet 1 is the signalling      *)
(* packet, without payload.  Clients send without waiting and redeliver,   *)
(* so any of their packets may arrive at any time, repeatedly, in any      *)
(* order.  No more packets are sent than the inorder buffer has slots, so  *)
(* its slots are a set of packet numbers here (module Flow has the slots). *)
(***************************************************************************)
EXTENDS Integers, Sequences, SequencesExt, FiniteSets

CONSTANTS Client,       \* the clients, by (src_app_id, src_host_id)
          MaxPacket,    \* bound: packets a client sends
          MaxQueue,     \* bound: length of the accept queue (512 in the code)
          MaxReady      \* bound: ACCEPT_READY events not yet consumed

ASSUME ListenerAssumption ==
  /\ IsFiniteSet(Client)
  /\ MaxPacket \in Nat \ {0} /\ MaxQueue \in Nat \ {0} /\ MaxReady \in Nat \ {0}

Packet  == 1 .. MaxPacket
Payload == 2 .. MaxPacket

VARIABLES
  accept_queue,         \* of the listening connection: packets [src, n]
  fd_accept_counter,    \* of the listening socket
  accepted,             \* the clients nb__accept made connections for, in order
  conn,                 \* client -> inorder and signaling state of its connection
  nread,                \* client -> elements nb__read took from its input_queue
  established,          \* clients whose connection fired ESTABLISHED
  stepping,             \* nbp_accept has yet to run its main loop step
  crashed               \* nbp_accept dereferenced the NULL of nb__accept

vars == <<accept_queue, fd_accept_counter, accepted, conn, nread, established,
          stepping, crashed>>

Connected(c) == c \in Range(accepted)

\* The fields hook_establish sets up; nb__accept overwrites signaling_state.
NewConn == [last_recv_sequence |-> 0, shelf |-> {}, log |-> << >>,
            signaling_state |-> "SIGNALED"]

input_queue(c) ==
  LET q == SelectSeq(conn[c].log, LAMBDA n : n \in Payload)
  IN  SubSeq(q, nread[c] + 1, Len(q))

Init ==
  /\ accept_queue = << >>
  /\ fd_accept_counter = 0
  /\ accepted = << >>
  /\ conn = [c \in Client |-> NewConn]
  /\ nread = [c \in Client |-> 0]
  /\ established = {}
  /\ stepping = FALSE
  /\ crashed = FALSE

(***************************************************************************)
(* inorder.hook_ingress (hold_forever) for packet n of a connection in     *)
(* state st.                                                               *)
(***************************************************************************)
\* Mutant: a packet that is not the next one is passed up too.
IngressNewer(st, n) ==
  IF n > st.last_recv_sequence
  THEN [st EXCEPT !.last_recv_sequence = n, !.log = Append(@, n)]
  ELSE st

Ingress(st, n) ==
  IF st.last_recv_sequence = 0 \/ n = st.last_recv_sequence + 1
  THEN LET top == CHOOSE m \in n .. MaxPacket :
                    /\ (n + 1) .. m \subseteq st.shelf
                    /\ (m + 1) \notin st.shelf
       IN  [st EXCEPT !.last_recv_sequence = top,
                      !.log = @ \o [i \in 1 .. top - n + 1 |-> n + i - 1],
                      !.shelf = @ \ ((n + 1) .. top)]
  ELSE [st EXCEPT !.shelf = @ \union {n}]

(***************************************************************************)
(* One nb__main_loop_step: at most one packet is polled and run through    *)
(* the ingress path, then nb__cycle_connections fires ESTABLISHED on the   *)
(* connections that are SIGNALED.                                          *)
(***************************************************************************)
Queued(c, n) ==
  /\ ~Connected(c)
  /\ Len(accept_queue) < MaxQueue
  /\ fd_accept_counter < MaxReady
  /\ accept_queue' = Append(accept_queue, [src |-> c, n |-> n])
  /\ fd_accept_counter' = fd_accept_counter + 1

Cycled(f) ==
  [c \in Client |-> IF Connected(c) /\ f[c].signaling_state = "SIGNALED"
                    THEN [f[c] EXCEPT !.signaling_state = "SIGNAL_HANDLED"]
                    ELSE f[c]]

CycleEvents ==
  established' = established \union
                   {c \in Client : Connected(c) /\ conn[c].signaling_state = "SIGNALED"}

\* Polls a packet of a client without a connection.
StepQueue(c, n) ==
  /\ ~crashed
  /\ Queued(c, n)
  /\ conn' = Cycled(conn)
  /\ CycleEvents
  /\ stepping' = FALSE
  /\ UNCHANGED <<accepted, nread, crashed>>

\* Polls a packet of a connected client.
StepDeliver(c, n) ==
  /\ ~crashed
  /\ Connected(c)
  /\ conn' = Cycled([conn EXCEPT ![c] = Ingress(@, n)])
  /\ CycleEvents
  /\ stepping' = FALSE
  /\ UNCHANGED <<accept_queue, fd_accept_counter, accepted, nread, crashed>>

\* Polls nothing.
StepIdle ==
  /\ ~crashed
  /\ conn' = Cycled(conn)
  /\ CycleEvents
  /\ stepping' = FALSE
  /\ UNCHANGED <<accept_queue, fd_accept_counter, accepted, nread, crashed>>

(***************************************************************************)
(* The loop of nb__accept over what is left of the queue.  Its state s is  *)
(* the queue, the index i, and the connection st of client c that the      *)
(* packets of c are run into as the loop meets them; each one is replaced  *)
(* by the last of the queue, which is then looked at in turn.              *)
(***************************************************************************)
\* Mutant: i is not decremented after the swap.
AcceptRoundSkips(s, c) ==
  IF s.i > Len(s.rest) THEN s
  ELSE IF s.rest[s.i].src = c
       THEN [rest |-> Front([s.rest EXCEPT ![s.i] = Last(s.rest)]),
             i    |-> s.i + 1,
             st   |-> Ingress(s.st, s.rest[s.i].n)]
       ELSE [s EXCEPT !.i = @ + 1]

AcceptRound(s, c) ==
  IF s.i > Len(s.rest) THEN s
  ELSE IF s.rest[s.i].src = c
       THEN [rest |-> Front([s.rest EXCEPT ![s.i] = Last(s.rest)]),
             i    |-> s.i,
             st   |-> Ingress(s.st, s.rest[s.i].n)]
       ELSE [s EXCEPT !.i = @ + 1]

\* Every round takes a packet out of the queue q or moves on.
TakeOut(q, c, st0) ==
  LET round[k \in 0 .. Len(q)] ==
        IF k = 0 THEN [rest |-> q, i |-> 1, st |-> st0] ELSE AcceptRound(round[k - 1], c)
  IN  round[Len(q)]

\* nb__accept: the last packet of the queue names the client and is the first
\* one its connection sees.
nb__accept ==
  LET p == Last(accept_queue)
      t == TakeOut(Front(accept_queue), p.src, Ingress(NewConn, p.n))
  IN  /\ accept_queue' = t.rest
      /\ accepted' = Append(accepted, p.src)
      /\ conn' = [conn EXCEPT ![p.src] = t.st]

\* Mutant: the counter is cleared, not decremented.
AcceptClearsCounter ==
  /\ ~crashed /\ ~stepping
  /\ fd_accept_counter # 0
  /\ accept_queue # << >>
  /\ nb__accept
  /\ fd_accept_counter' = 0
  /\ stepping' = TRUE
  /\ UNCHANGED <<nread, established, crashed>>

\* nbp_accept, once its waiting loop saw fd_accept_counter # 0; its main loop
\* step at the end is the next step of the process.
nbp_accept ==
  /\ ~crashed /\ ~stepping
  /\ fd_accept_counter # 0
  /\ accept_queue # << >>
  /\ nb__accept
  /\ fd_accept_counter' = fd_accept_counter - 1
  /\ stepping' = TRUE
  /\ UNCHANGED <<nread, established, crashed>>

\* nb__accept returns NULL, and nb__set_user_data writes through it.
nbp_accept_null ==
  /\ ~crashed /\ ~stepping
  /\ fd_accept_counter # 0
  /\ accept_queue = << >>
  /\ crashed' = TRUE
  /\ UNCHANGED <<accept_queue, fd_accept_counter, accepted, conn, nread,
                 established, stepping>>

\* nbp_recv: nb__read takes the first element of the input queue.
nbp_recv(c) ==
  /\ ~crashed /\ ~stepping
  /\ Connected(c)
  /\ input_queue(c) # << >>
  /\ nread' = [nread EXCEPT ![c] = @ + 1]
  /\ UNCHANGED <<accept_queue, fd_accept_counter, accepted, conn, established,
                 stepping, crashed>>

Crashed == crashed /\ UNCHANGED vars

Next ==
  \/ StepIdle
  \/ nbp_accept
  \/ nbp_accept_null
  \/ \E c \in Client : \/ nbp_recv(c)
                       \/ \E n \in Packet : StepQueue(c, n) \/ StepDeliver(c, n)
  \/ Crashed

Spec == Init /\ [][Next]_vars

-----------------------------------------------------------------------------
(***************************************************************************)
(* Properties.                                                             *)
(***************************************************************************)

\* A client is accepted once: no packet of it is left in the accept queue, or
\* gets there later, that would make nb__accept set up a second connection.
AcceptedOnce ==
  /\ \A i, j \in 1 .. Len(accepted) : accepted[i] = accepted[j] => i = j
  /\ \A i \in 1 .. Len(accept_queue) : ~Connected(accept_queue[i].src)

\* No lost wakeup: while packets of new clients wait in the accept queue the
\* counter nbp_accept and nbp_select go by is not zero.
WaitingClientsSeen == accept_queue # << >> => fd_accept_counter > 0

\* A connection's user reads consecutive packets even though nb__accept feeds
\* the queued packets in an order of its own: nothing twice, no gap.
ReadsConsecutive ==
  \A c \in Client : \A i \in 1 .. Len(conn[c].log) :
    conn[c].log[i] = conn[c].log[1] + i - 1
=============================================================================
