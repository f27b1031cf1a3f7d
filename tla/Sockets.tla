------------------------------ MODULE Sockets -------------------------------
(***************************************************************************)
(* The POSIX layer, runtime/posix/src/network.c: sockets by file           *)
(* descriptor over the connections of one endpoint.  The process is single *)
(* threaded; packets and events arrive only in nb__main_loop_step, which   *)
(* the calls run while they wait.  An action is a call, the part of a call *)
(* between two main loop steps, or a main loop step.                       *)
(*                                                                         *)
(* Descriptors that are not owned by the layer (nb_fd # 1) are handed to   *)
(* the operating system and do not touch this state.  A connection stands  *)
(* for the object nb__establish allocates; its table entry is in module    *)
(* ConnTable, its accept queue in module Listener: here a set of clients.  *)
(***************************************************************************)
EXTENDS Integers, FiniteSetsExt

CONSTANTS Fd,           \* descriptors the operating system hands out
          Conn,         \* connection objects
          Peer,         \* remote ends (host and application)
          Port,         \* assignable source ports (8080 .. 9999)
          ListenPort,   \* ports applications bind
          MaxReady,     \* bound: ACCEPT_READY events not yet consumed
          MaxInput      \* bound: elements in an input queue

NULL     == 0
PortBase == 8000        \* port_occupied is indexed from this port on
WILDCARD == "wildcard"

ASSUME SocketsAssumption ==
  /\ IsFiniteSet(Fd) /\ Fd \subseteq Nat \ {0}
  /\ Conn \subseteq Nat \ {0}
  /\ WILDCARD \notin Peer
  /\ IsFiniteSet(Port) /\ Port \subseteq Nat /\ PortBase \notin Port
  /\ ListenPort \subseteq Nat
  /\ MaxReady \in Nat \ {0} /\ MaxInput \in Nat \ {0}

VARIABLES
  nb_fd,                \* descriptors owned by the layer
  fd_table,             \* descriptor -> connection or NULL
  fd_accept_counter, fd_establish_status, fd_src_port,
  port_occupied,
  conn,                 \* the allocated connections
  call,                 \* the call the application is in
  ended                 \* a failed assertion or a NULL dereference

fds  == <<nb_fd, fd_table, fd_accept_counter, fd_establish_status, fd_src_port>>
vars == <<fds, port_occupied, conn, call, ended>>

Live   == DOMAIN conn
NoCall == [op |-> "none", fd |-> NULL]
Idle   == call = NoCall /\ ~ended
Alloc(c, r)  == [d \in Live \union {c} |-> IF d = c THEN r ELSE conn[d]]
Release(c)   == [d \in Live \ {c} |-> conn[d]]

Init ==
  /\ nb_fd = {}
  /\ fd_table = [f \in Fd |-> NULL]
  /\ fd_accept_counter = [f \in Fd |-> 0]
  /\ fd_establish_status = [f \in Fd |-> 0]
  /\ fd_src_port = [f \in Fd |-> 0]
  /\ port_occupied = {}
  /\ conn = [c \in {} |-> NULL]
  /\ call = NoCall
  /\ ended = FALSE

(***************************************************************************)
(* nb__main_loop_step: at most one packet is polled, then                  *)
(* nb__cycle_connections fires ESTABLISHED on the connections that are     *)
(* SIGNALED; nb_posix_common_callback notes both in the tables under the   *)
(* descriptor in the connection's user_data.                               *)
(***************************************************************************)
\* Mutant: the state moves on and the callback is not called.
CycleSilent(f) ==
  /\ conn' = [c \in DOMAIN f |->
                IF f[c].signaling_state = "SIGNALED"
                THEN [f[c] EXCEPT !.signaling_state = "SIGNAL_HANDLED"] ELSE f[c]]
  /\ UNCHANGED fd_establish_status

\* The callback for ESTABLISHED on the SIGNALED connections of f.
Cycle(f) ==
  LET due == {c \in DOMAIN f : f[c].signaling_state = "SIGNALED"}
  IN  /\ conn' = [c \in DOMAIN f |->
                    IF c \in due THEN [f[c] EXCEPT !.signaling_state = "SIGNAL_HANDLED"]
                                 ELSE f[c]]
      /\ fd_establish_status' = [fd \in Fd |->
                    IF \E c \in due : f[c].user_data = fd THEN 1 ELSE fd_establish_status[fd]]

\* nbp_bind and nbp_accept return after one step; nbp_select looks at its
\* descriptors after each step.
AfterStep ==
  CASE call.op = "return" -> NoCall
    [] call.op = "select" -> [call EXCEPT !.op = "look"]
    [] OTHER              -> call

InLoop == ~ended /\ call.op \in {"connect", "accept", "recv", "select", "return"}

Connected(port, p) == \E c \in Live : conn[c].local = port /\ conn[c].remote = p

StepIdle ==
  /\ InLoop
  /\ Cycle(conn)
  /\ call' = AfterStep
  /\ UNCHANGED <<nb_fd, fd_table, fd_accept_counter, fd_src_port, port_occupied, ended>>

\* A packet of the peer of connection c: the signalling packet or a payload.
StepPacket(c, payload) ==
  /\ InLoop
  /\ c \in Live /\ conn[c].remote \in Peer
  /\ conn[c].input + payload <= MaxInput
  /\ Cycle([conn EXCEPT
              ![c].signaling_state = IF @ = "WAITING_FOR_SIGNAL" THEN "SIGNALED" ELSE @,
              ![c].input = @ + payload])
  /\ call' = AfterStep
  /\ UNCHANGED <<nb_fd, fd_table, fd_accept_counter, fd_src_port, port_occupied, ended>>

\* A packet of a client that has no connection, for the listening connection c.
StepClient(c, p) ==
  /\ InLoop
  /\ c \in Live /\ conn[c].remote = WILDCARD
  /\ ~Connected(conn[c].local, p)
  /\ fd_accept_counter[conn[c].user_data] < MaxReady
  /\ fd_accept_counter' = [fd_accept_counter EXCEPT ![conn[c].user_data] = @ + 1]
  /\ Cycle([conn EXCEPT ![c].waiting = @ \union {p}])
  /\ call' = AfterStep
  /\ UNCHANGED <<nb_fd, fd_table, fd_src_port, port_occupied, ended>>

(***************************************************************************)
(* nb__establish and nb__set_user_data.                                    *)
(***************************************************************************)
NewConn(fd, port, p, state) ==
  [user_data |-> fd, local |-> port, remote |-> p, signaling_state |-> state,
   waiting |-> {}, input |-> 0]

\* grab_free_fd: the operating system opens a descriptor that is not open;
\* which one depends on the files the application has open besides.
FreeFd == Fd \ nb_fd

(***************************************************************************)
(* Calls.                                                                  *)
(***************************************************************************)
\* Mutant: the status of the descriptor's last owner is kept.
SocketKeepsStatus(fd) ==
  /\ Idle
  /\ fd \in FreeFd
  /\ nb_fd' = nb_fd \union {fd}
  /\ fd_table' = [fd_table EXCEPT ![fd] = NULL]
  /\ fd_accept_counter' = [fd_accept_counter EXCEPT ![fd] = 0]
  /\ fd_src_port' = [fd_src_port EXCEPT ![fd] = 0]
  /\ UNCHANGED <<fd_establish_status, port_occupied, conn, call, ended>>

nbp_socket(fd) ==
  /\ Idle
  /\ fd \in FreeFd
  /\ nb_fd' = nb_fd \union {fd}
  /\ fd_table' = [fd_table EXCEPT ![fd] = NULL]
  /\ fd_accept_counter' = [fd_accept_counter EXCEPT ![fd] = 0]
  /\ fd_establish_status' = [fd_establish_status EXCEPT ![fd] = 0]
  /\ fd_src_port' = [fd_src_port EXCEPT ![fd] = 0]
  /\ UNCHANGED <<port_occupied, conn, call, ended>>

\* The first port whose flag is clear.
find_free_port == Min(Port \ port_occupied)

\* Mutant: find_free_port tests the flag of the port and does not set it.
ConnectUnmarked(fd, p) ==
  /\ Idle
  /\ fd \in nb_fd /\ fd_table[fd] = NULL
  /\ Port \ port_occupied # {}
  /\ UNCHANGED port_occupied
  /\ \E c \in Conn \ Live :
       /\ conn' = Alloc(c, NewConn(fd, find_free_port, p, "WAITING_FOR_SIGNAL"))
       /\ fd_table' = [fd_table EXCEPT ![fd] = c]
  /\ call' = [op |-> "connect", fd |-> fd]
  /\ UNCHANGED <<nb_fd, fd_accept_counter, fd_establish_status, fd_src_port, ended>>

\* nbp_connect up to its waiting loop.
nbp_connect(fd, p) ==
  /\ Idle
  /\ fd \in nb_fd /\ fd_table[fd] = NULL
  /\ Port \ port_occupied # {}
  /\ port_occupied' = port_occupied \union {find_free_port}
  /\ \E c \in Conn \ Live :
       /\ conn' = Alloc(c, NewConn(fd, find_free_port, p, "WAITING_FOR_SIGNAL"))
       /\ fd_table' = [fd_table EXCEPT ![fd] = c]
  /\ call' = [op |-> "connect", fd |-> fd]
  /\ UNCHANGED <<nb_fd, fd_accept_counter, fd_establish_status, fd_src_port, ended>>

\* The assertion at the end of find_free_port fails: every port is occupied.
nbp_connect_no_port(fd) ==
  /\ Idle
  /\ fd \in nb_fd /\ fd_table[fd] = NULL
  /\ Port \ port_occupied = {}
  /\ ended' = TRUE
  /\ UNCHANGED <<fds, port_occupied, conn, call>>

\* The waiting loop of nbp_connect ends.
nbp_connect_return ==
  /\ ~ended /\ call.op = "connect"
  /\ fd_establish_status[call.fd] = 1
  /\ call' = NoCall
  /\ UNCHANGED <<fds, port_occupied, conn, ended>>

\* nbp_bind; an application binds a port once.  A main loop step follows.
nbp_bind(fd, port) ==
  /\ Idle
  /\ fd \in nb_fd /\ fd_table[fd] = NULL
  /\ ~Connected(port, WILDCARD)
  /\ \E c \in Conn \ Live :
       /\ conn' = Alloc(c, NewConn(fd, port, WILDCARD, "SIGNAL_NA"))
       /\ fd_table' = [fd_table EXCEPT ![fd] = c]
  /\ call' = [op |-> "return", fd |-> fd]
  /\ UNCHANGED <<nb_fd, fd_accept_counter, fd_establish_status, fd_src_port,
                 port_occupied, ended>>

\* The application calls accept on a listening socket, recv on a connected one.
nbp_accept(fd) ==
  /\ Idle
  /\ fd \in nb_fd /\ fd_table[fd] # NULL /\ conn[fd_table[fd]].remote = WILDCARD
  /\ call' = [op |-> "accept", fd |-> fd]
  /\ UNCHANGED <<fds, port_occupied, conn, ended>>

\* Mutant: the connection is given the descriptor of the listening socket.
AcceptReadyOwner(fd, p) ==
  LET l == fd_table[call.fd]
  IN  /\ ~ended /\ call.op = "accept"
      /\ fd_accept_counter[call.fd] # 0
      /\ fd \in FreeFd
      /\ p \in conn[l].waiting
      /\ \E c \in Conn \ Live, in \in 0 .. MaxInput :
           /\ conn' = [Alloc(c, [NewConn(call.fd, conn[l].local, p, "SIGNALED") EXCEPT !.input = in])
                         EXCEPT ![l].waiting = @ \ {p}]
           /\ fd_table' = [fd_table EXCEPT ![fd] = c]
      /\ nb_fd' = nb_fd \union {fd}
      /\ fd_accept_counter' = [fd_accept_counter EXCEPT ![call.fd] = @ - 1]
      /\ call' = [op |-> "return", fd |-> fd]
      /\ UNCHANGED <<fd_establish_status, fd_src_port, port_occupied, ended>>

\* The waiting loop of nbp_accept ends: a descriptor is grabbed (its counter
\* and status are not reset) and nb__accept makes the connection of one of the
\* waiting clients, feeding it what the client sent so far.
nbp_accept_ready(fd, p) ==
  LET l == fd_table[call.fd]
  IN  /\ ~ended /\ call.op = "accept"
      /\ fd_accept_counter[call.fd] # 0
      /\ fd \in FreeFd
      /\ p \in conn[l].waiting
      /\ \E c \in Conn \ Live, in \in 0 .. MaxInput :
           /\ conn' = [Alloc(c, [NewConn(fd, conn[l].local, p, "SIGNALED") EXCEPT !.input = in])
                         EXCEPT ![l].waiting = @ \ {p}]
           /\ fd_table' = [fd_table EXCEPT ![fd] = c]
      /\ nb_fd' = nb_fd \union {fd}
      /\ fd_accept_counter' = [fd_accept_counter EXCEPT ![call.fd] = @ - 1]
      /\ call' = [op |-> "return", fd |-> fd]
      /\ UNCHANGED <<fd_establish_status, fd_src_port, port_occupied, ended>>

\* ... or finds the accept queue empty, and nb__set_user_data writes to NULL.
nbp_accept_null ==
  /\ ~ended /\ call.op = "accept"
  /\ fd_accept_counter[call.fd] # 0
  /\ conn[fd_table[call.fd]].waiting = {}
  /\ ended' = TRUE
  /\ UNCHANGED <<fds, port_occupied, conn, call>>

nbp_recv(fd) ==
  /\ Idle
  /\ fd \in nb_fd /\ fd_table[fd] # NULL /\ conn[fd_table[fd]].remote \in Peer
  /\ call' = [op |-> "recv", fd |-> fd]
  /\ UNCHANGED <<fds, port_occupied, conn, ended>>

\* nb__read finds an element; until then nbp_recv runs the main loop.
nbp_recv_return ==
  /\ ~ended /\ call.op = "recv"
  /\ conn[fd_table[call.fd]].input > 0
  /\ conn' = [conn EXCEPT ![fd_table[call.fd]].input = @ - 1]
  /\ call' = NoCall
  /\ UNCHANGED <<fds, port_occupied, ended>>

\* nbp_select on all sockets that have a connection.
nbp_select ==
  /\ Idle
  /\ call' = [op |-> "select", fd |-> NULL]
  /\ UNCHANGED <<fds, port_occupied, conn, ended>>

Readable(fd) ==
  /\ fd \in nb_fd /\ fd_table[fd] # NULL
  /\ fd_accept_counter[fd] # 0 \/ conn[fd_table[fd]].input # 0

\* After a main loop step nbp_select returns when a descriptor is readable;
\* otherwise it goes on, or gives up after 1000 rounds.
nbp_select_look ==
  /\ ~ended /\ call.op = "look"
  /\ \/ call' = NoCall
     \/ /\ \A fd \in Fd : ~Readable(fd)
        /\ call' = [call EXCEPT !.op = "select"]
  /\ UNCHANGED <<fds, port_occupied, conn, ended>>

\* nbp_close of a socket with a connection (without one nb__destablish
\* dereferences NULL).  The flag that is cleared is the one of index
\* fd_src_port, which nothing but nbp_socket ever writes.
nbp_close(fd) ==
  /\ Idle
  /\ fd \in nb_fd /\ fd_table[fd] # NULL
  /\ conn' = Release(fd_table[fd])
  /\ port_occupied' = port_occupied \ {PortBase + fd_src_port[fd]}
  /\ fd_table' = [fd_table EXCEPT ![fd] = NULL]
  /\ nb_fd' = nb_fd \ {fd}
  /\ UNCHANGED <<fd_accept_counter, fd_establish_status, fd_src_port, call, ended>>

Ended == ended /\ UNCHANGED vars

Step ==
  \/ StepIdle
  \/ \E c \in Conn, in \in {0, 1} : StepPacket(c, in)
  \/ \E c \in Conn, p \in Peer : StepClient(c, p)

Next ==
  \/ Step
  \/ nbp_connect_return \/ nbp_accept_null \/ nbp_recv_return
  \/ nbp_select \/ nbp_select_look
  \/ \E fd \in Fd : \/ nbp_socket(fd) \/ nbp_connect_no_port(fd) \/ nbp_accept(fd)
                    \/ nbp_recv(fd) \/ nbp_close(fd)
                    \/ \E p \in Peer : nbp_connect(fd, p) \/ nbp_accept_ready(fd, p)
                    \/ \E port \in ListenPort : nbp_bind(fd, port)
  \/ Ended

Spec == Init /\ [][Next]_vars

(***************************************************************************)
(* Fairness: a call runs its loop on, and the peer of a connection that    *)
(* waits for its signal answers, its packets not being lost for ever (the  *)
(* reliable module redelivers, module Flow).                               *)
(***************************************************************************)
FairSpec == /\ Spec
            /\ WF_vars(nbp_connect_return)
            /\ \A c \in Conn : WF_vars(StepPacket(c, 0))

-----------------------------------------------------------------------------
(***************************************************************************)
(* Properties.                                                             *)
(***************************************************************************)

\* Descriptors and connections name each other: events the callback notes for
\* a connection go to its own socket, and no descriptor keeps a connection
\* that was freed, after any sequence of calls that reuses descriptors.
EventsGoHome ==
  /\ \A fd \in Fd : fd_table[fd] # NULL => /\ fd \in nb_fd /\ fd_table[fd] \in Live
                                           /\ conn[fd_table[fd]].user_data = fd
  /\ \A c \in Live : fd_table[conn[c].user_data] = c

\* nbp_connect does not go by the status an earlier owner of the descriptor
\* left: when its loop ends, the socket's own connection was established.
StatusIsOwn ==
  call.op = "connect" /\ fd_establish_status[call.fd] = 1
    => conn[fd_table[call.fd]].signaling_state = "SIGNAL_HANDLED"

\* The connections of the sockets have different keys, as the lookup of the
\* identifier module needs: source ports are not given out twice, and a client
\* that has a connection is not accepted again.
KeysDistinct ==
  \A c, d \in Live :
    conn[c].local = conn[d].local /\ conn[c].remote = conn[d].remote => c = d

\* nbp_connect returns when the peer answers: no event is lost on the way from
\* hook_ingress over nb__cycle_connections and the callback to the loop.
ConnectReturns == \A fd \in Fd : (call = [op |-> "connect", fd |-> fd]) ~> (call = NoCall)
=============================================================================
