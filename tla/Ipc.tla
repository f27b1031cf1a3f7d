-------------------------------- MODULE Ipc ---------------------------------
(***************************************************************************)
(* The IPC transport (runtime/nb_ipc_transport.c) of several processes and *)
(* the hub (utils/hub/ipc_hub.c) that relays packets between them.         *)
(*                                                                         *)
(* A station is a process; its transport loses and swaps packets on        *)
(* purpose when told to.  The UNIX sockets keep packets whole and in order *)
(* and are taken not to run full (a full one is one more loss).  The hub   *)
(* is a loop of select, accept and a scan over its array of descriptors,   *)
(* which goes on while stations connect, send and close.                   *)
(***************************************************************************)
EXTENDS Integers, Sequences, SequencesExt

CONSTANTS Station,      \* the processes
          Sender,       \* those that send; the others only listen
          Drop,         \* nb__ipc_simulate_packet_drop
          OutOfOrder,   \* nb__ipc_simulate_out_of_order
          MaxSends      \* bound: packets a station sends

ASSUME IpcAssumption ==
  /\ Sender \subseteq Station
  /\ Drop \in BOOLEAN /\ OutOfOrder \in BOOLEAN
  /\ MaxSends \in Nat

VARIABLES
  socket,               \* station -> "none", "open", "closed"
  out_of_order_store,   \* station -> packet held back, 0 if none
  up, down,             \* station -> packets on the way to and from the hub
  sent,                 \* station -> packets handed to nb__send_packet
  dropped,              \* history: the packets dropped on purpose
  polled,               \* station -> packets nb__poll_packet returned
  backlog,              \* stations the hub has not accepted yet
  fds,                  \* the hub's array, up to fd_count
  set,                  \* the connections select returned as readable
  i,                    \* index of the scan, 0 while the hub waits in select
  relayed,              \* history: the packets the hub read
  missed                \* history: station -> those read before it was accepted

stations == <<socket, out_of_order_store, up, sent, dropped>>
hub  == <<backlog, fds, set, i, relayed, missed>>
vars == <<stations, down, polled, hub>>

Packet == [src : Station, n : 1 .. MaxSends]

Init ==
  /\ socket = [s \in Station |-> "none"]
  /\ out_of_order_store = [s \in Station |-> 0]
  /\ up = [s \in Station |-> << >>]
  /\ down = [s \in Station |-> << >>]
  /\ sent = [s \in Station |-> 0]
  /\ dropped = {}
  /\ polled = [s \in Station |-> << >>]
  /\ fds = << >>
  /\ set = {}
  /\ backlog = {}
  /\ i = 0
  /\ relayed = {}
  /\ missed = [s \in Station |-> {}]

Pkt(s, n) == [src |-> s, n |-> n]
Held(s)   == IF out_of_order_store[s] = 0 THEN << >> ELSE <<Pkt(s, out_of_order_store[s])>>
Open(s)   == socket[s] = "open"

(***************************************************************************)
(* The transport.                                                          *)
(***************************************************************************)

\* nb__ipc_init in connect mode.
nb__ipc_init(s) ==
  /\ socket[s] = "none"
  /\ socket' = [socket EXCEPT ![s] = "open"]
  /\ backlog' = backlog \union {s}
  /\ UNCHANGED <<out_of_order_store, up, sent, dropped, down, polled, fds, set, i, relayed, missed>>

\* nb__send_packet, by what becomes of the packet: dropped, held back (when
\* nothing is held), or written, followed by the one that is held.
SendDropped(s) ==
  /\ Drop
  /\ dropped' = dropped \union {Pkt(s, sent[s] + 1)}
  /\ UNCHANGED <<out_of_order_store, up>>

\* Mutant: a packet is held back though another one is.
SendHeldAgain(s) ==
  /\ OutOfOrder
  /\ out_of_order_store' = [out_of_order_store EXCEPT ![s] = sent[s] + 1]
  /\ UNCHANGED <<up, dropped>>

SendHeld(s) ==
  /\ OutOfOrder /\ out_of_order_store[s] = 0
  /\ out_of_order_store' = [out_of_order_store EXCEPT ![s] = sent[s] + 1]
  /\ UNCHANGED <<up, dropped>>

\* Mutant: the held packet waits for nb__ipc_deinit.
SendWrittenAlone(s) ==
  /\ up' = [up EXCEPT ![s] = Append(@, Pkt(s, sent[s] + 1))]
  /\ UNCHANGED <<out_of_order_store, dropped>>

SendWritten(s) ==
  /\ up' = [up EXCEPT ![s] = Append(@, Pkt(s, sent[s] + 1)) \o Held(s)]
  /\ out_of_order_store' = [out_of_order_store EXCEPT ![s] = 0]
  /\ UNCHANGED dropped

nb__send_packet(s) ==
  /\ s \in Sender /\ Open(s)
  /\ sent[s] < MaxSends
  /\ SendDropped(s) \/ SendHeld(s) \/ SendWritten(s)
  /\ sent' = [sent EXCEPT ![s] = @ + 1]
  /\ UNCHANGED <<socket, down, polled, hub>>

nb__poll_packet(s) ==
  /\ Open(s)
  /\ down[s] # << >>
  /\ polled' = [polled EXCEPT ![s] = Append(@, Head(down[s]))]
  /\ down' = [down EXCEPT ![s] = Tail(@)]
  /\ UNCHANGED <<stations, hub>>

\* nb__ipc_deinit writes the packet that is held, then closes the socket.
nb__ipc_deinit(s) ==
  /\ Open(s)
  /\ up' = [up EXCEPT ![s] = @ \o Held(s)]
  /\ out_of_order_store' = [out_of_order_store EXCEPT ![s] = 0]
  /\ socket' = [socket EXCEPT ![s] = "closed"]
  /\ UNCHANGED <<sent, dropped, down, polled, hub>>

(***************************************************************************)
(* The hub.                                                                *)
(***************************************************************************)
Accepted(s) == s \in Range(fds)

\* A descriptor is readable with a packet, or at the end of a closed one.
Readable(s) == up[s] # << >> \/ socket[s] = "closed"

Ready == {s \in Range(fds) : Readable(s)}

\* select returns; a connection that waits is accepted before the scan and is
\* not in the set the scan goes by.
SelectAccept(s) ==
  /\ i = 0
  /\ s \in backlog
  /\ set' = Ready
  /\ fds' = Append(fds, s)
  /\ backlog' = backlog \ {s}
  /\ i' = 1
  /\ missed' = [missed EXCEPT ![s] = relayed]
  /\ UNCHANGED <<stations, down, polled, relayed>>

SelectData ==
  /\ i = 0
  /\ backlog = {} /\ Ready # {}
  /\ set' = Ready
  /\ i' = 1
  /\ UNCHANGED <<stations, down, polled, backlog, fds, relayed, missed>>

\* The scan comes to a descriptor that is not readable, or to its end.
ScanSkip ==
  /\ i \in 1 .. Len(fds)
  /\ fds[i] \notin set
  /\ i' = i + 1
  /\ UNCHANGED <<stations, down, polled, backlog, fds, set, relayed, missed>>

ScanEnd ==
  /\ i = Len(fds) + 1
  /\ i' = 0
  /\ set' = {}
  /\ UNCHANGED <<stations, down, polled, backlog, fds, relayed, missed>>

\* Mutant: the relay reaches the sender too.
RelayToAll(k) == {fds[j] : j \in 1 .. Len(fds)}

\* The stations a packet read from entry k is sent to; the sending to one that
\* closed its socket fails.
RelayTo(k) == {fds[j] : j \in (1 .. Len(fds)) \ {k}}

\* The hub reads a packet and relays it.  Sockets are assumed to have room and
\* read not to fail: the hub would block in a send to a full one, and relay a
\* length of -1.
ScanRelay ==
  /\ i \in 1 .. Len(fds)
  /\ fds[i] \in set /\ up[fds[i]] # << >>
  /\ LET p == Head(up[fds[i]])
     IN  /\ down' = [s \in Station |->
                       IF s \in RelayTo(i) /\ Open(s) THEN Append(down[s], p) ELSE down[s]]
         /\ relayed' = relayed \union {p}
  /\ up' = [up EXCEPT ![fds[i]] = Tail(@)]
  /\ i' = i + 1
  /\ UNCHANGED <<socket, out_of_order_store, sent, dropped, polled, backlog, fds, set, missed>>

\* Mutants: the last entry is copied and stays counted; it is dropped without
\* being copied.
ScanCloseKeeps ==
  /\ i \in 1 .. Len(fds)
  /\ fds[i] \in set /\ up[fds[i]] = << >>
  /\ fds' = [fds EXCEPT ![i] = Last(fds)]
  /\ set' = set \ {fds[i]}
  /\ UNCHANGED <<stations, down, polled, backlog, i, relayed, missed>>

ScanCloseNoCopy ==
  /\ i \in 1 .. Len(fds)
  /\ fds[i] \in set /\ up[fds[i]] = << >>
  /\ fds' = Front(fds)
  /\ set' = set \ {fds[i]}
  /\ UNCHANGED <<stations, down, polled, backlog, i, relayed, missed>>

\* The end of a closed connection: the last entry takes its place and is
\* looked at next.
ScanClose ==
  /\ i \in 1 .. Len(fds)
  /\ fds[i] \in set /\ up[fds[i]] = << >>
  /\ fds' = Front([fds EXCEPT ![i] = Last(fds)])
  /\ set' = set \ {fds[i]}
  /\ UNCHANGED <<stations, down, polled, backlog, i, relayed, missed>>

Hub == SelectData \/ ScanSkip \/ ScanEnd \/ ScanRelay \/ ScanClose
         \/ \E s \in Station : SelectAccept(s)

Next ==
  \/ \E s \in Station : \/ nb__ipc_init(s) \/ nb__send_packet(s)
                        \/ nb__poll_packet(s) \/ nb__ipc_deinit(s)
  \/ Hub

Spec == Init /\ [][Next]_vars

\* The hub's loop goes on as long as select has something to return.
FairSpec == Spec /\ WF_vars(Hub)


-----------------------------------------------------------------------------
(***************************************************************************)
(* Properties.                                                             *)
(***************************************************************************)

\* Everything that was sent down to station s.
Heard(s) == polled[s] \o down[s]

\* nb__send_packet and the hub swap neighbours at most: a station hears every
\* packet once, after at most one later packet of the same sender (none when
\* nb__ipc_simulate_out_of_order is off).
SwapsNeighbours ==
  \A r \in Station :
    LET q == Heard(r)
        overtakes(j, k) == j < k /\ q[j].src = q[k].src /\ q[j].n > q[k].n
    IN  /\ \A j, k \in 1 .. Len(q) : q[j] = q[k] => j = k
        /\ \A j, l, k \in 1 .. Len(q) :
             overtakes(j, k) /\ overtakes(l, k) => OutOfOrder /\ j = l

\* No packet is lost between nb__send_packet and the hub but the ones dropped
\* on purpose, whatever is held back when a station sends, drops or closes.
NothingLost ==
  \A s \in Station : \A n \in 1 .. sent[s] :
    Pkt(s, n) \in Range(Held(s)) \union Range(up[s]) \union dropped \union relayed

\* The stations the hub relays to: connected, accepted, not closed.
Attached == {s \in Station : Open(s) /\ s \notin backlog}

\* The hub's array loses no station while others come and go: one that was
\* accepted and is open hears every packet of the others the hub read since,
\* and any two hear what both hear in the same order.
StationsAgree ==
  /\ \A s \in Attached : Range(Heard(s)) = {p \in relayed \ missed[s] : p.src # s}
  /\ \A r, s \in Attached :
       \A j, k \in 1 .. Len(Heard(r)) : \A l, m \in 1 .. Len(Heard(s)) :
         (Heard(r)[j] = Heard(s)[l] /\ Heard(r)[k] = Heard(s)[m]) => (j < k <=> l < m)

\* A station that closes is forgotten by the hub, after everything it sent,
\* the packet it was holding back included, was relayed.
ClosedForgotten ==
  \A s \in Station :
    (socket[s] = "closed") ~> (~Accepted(s) /\ s \notin backlog /\ up[s] = << >>)

Medium == INSTANCE IpcMedium WITH heard <- [s \in Station |-> Range(Heard(s))]

\* Transports and hub implement the shared medium IpcMedium describes.
ImplementsMedium == Medium!Spec
=============================================================================
