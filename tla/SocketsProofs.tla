---------------------------- MODULE SocketsProofs ----------------------------
(***************************************************************************)
(* Proofs about module Sockets, in two layers: HomeInv ties descriptors,   *)
(* connections and the call in progress to each other, KeyInv adds the     *)
(* ports, under the hypothesis PortsApart.                                 *)
(***************************************************************************)
EXTENDS Sockets, ArithmeticLemmas, TLAPS

\* Applications bind ports outside the range find_free_port gives out.
PortsApart == Port \intersect ListenPort = {}

ConnRec ==
  [user_data : Fd, local : Port \union ListenPort, remote : Peer \union {WILDCARD},
   signaling_state : {"WAITING_FOR_SIGNAL", "SIGNALED", "SIGNAL_HANDLED", "SIGNAL_NA"},
   waiting : SUBSET Peer, input : Nat]

TypeOK ==
  /\ nb_fd \subseteq Fd
  /\ fd_table \in [Fd -> Conn \union {NULL}]
  /\ fd_accept_counter \in [Fd -> Nat]
  /\ fd_establish_status \in [Fd -> {0, 1}]
  /\ fd_src_port = [f \in Fd |-> 0]
  /\ port_occupied \subseteq Port
  /\ Live \subseteq Conn /\ conn \in [Live -> ConnRec]
  /\ call \in [op : {"none", "connect", "accept", "recv", "select", "look", "return"},
               fd : Fd \union {NULL}]

\* The socket a call waits on keeps its connection.
CallOK ==
  /\ call.op \in {"connect", "accept", "recv"} =>
       call.fd \in Fd /\ fd_table[call.fd] # NULL
  /\ call.op = "accept" => conn[fd_table[call.fd]].remote = WILDCARD

\* A socket without a connection has no status of an earlier owner.
StatusOK == \A fd \in nb_fd : fd_table[fd] = NULL => fd_establish_status[fd] = 0

HomeInv == TypeOK /\ EventsGoHome /\ CallOK /\ StatusOK /\ StatusIsOwn

\* A source port in use is marked; listeners and the connections they accept
\* have the port that was bound.
PortsOK ==
  \A c \in Live : \/ conn[c].local \in ListenPort
                  \/ conn[c].local \in port_occupied /\ conn[c].remote \in Peer

\* Only listeners have waiting clients, and none that is connected already.
WaitingOK ==
  \A c \in Live : \A p \in conn[c].waiting :
    /\ conn[c].remote = WILDCARD
    /\ \A d \in Live : ~(conn[d].local = conn[c].local /\ conn[d].remote = p)

KeyInv == KeysDistinct /\ PortsOK /\ WaitingOK

-----------------------------------------------------------------------------
\* No socket, no connection, no call.
LEMMA InitHome == Init => HomeInv
  <1> SUFFICES ASSUME Init PROVE HomeInv
    OBVIOUS
  <1>1. Live = {}
    BY DEF Init, Live
  <1>2. TypeOK
    BY <1>1 DEF Init, TypeOK, NoCall
  <1>3. EventsGoHome
    BY <1>1 DEF Init, EventsGoHome
  <1>4. CallOK /\ StatusOK /\ StatusIsOwn
    BY DEF Init, CallOK, StatusOK, StatusIsOwn, NoCall
  <1> QED BY <1>2, <1>3, <1>4 DEF HomeInv

\* The callback of nb__cycle_connections: signalled connections become handled
\* and their descriptors get the status, nothing else of a connection changes.
LEMMA CycleFacts ==
  ASSUME TypeOK, NEW f \in [Live -> ConnRec], Cycle(f)
  PROVE  /\ Live' = Live /\ conn' \in [Live -> ConnRec]
         /\ fd_establish_status' \in [Fd -> {0, 1}]
         /\ \A c \in Live : /\ conn'[c].user_data = f[c].user_data
                            /\ conn'[c].local = f[c].local
                            /\ conn'[c].remote = f[c].remote
                            /\ conn'[c].waiting = f[c].waiting
                            /\ f[c].signaling_state = "SIGNAL_HANDLED" =>
                                 conn'[c].signaling_state = "SIGNAL_HANDLED"
         /\ \A fd \in Fd :
              \/ fd_establish_status'[fd] = fd_establish_status[fd]
              \/ \E c \in Live : /\ f[c].user_data = fd
                                 /\ conn'[c].signaling_state = "SIGNAL_HANDLED"
  <1> DEFINE due == {c \in DOMAIN f : f[c].signaling_state = "SIGNALED"}
  <1>1. DOMAIN f = Live /\ Live' = DOMAIN conn'
    BY DEF Live
  <1>2. /\ conn' = [c \in Live |->
                      IF c \in due THEN [f[c] EXCEPT !.signaling_state = "SIGNAL_HANDLED"]
                                   ELSE f[c]]
        /\ fd_establish_status' = [fd \in Fd |->
              IF \E c \in due : f[c].user_data = fd THEN 1 ELSE fd_establish_status[fd]]
    BY <1>1 DEF Cycle
  <1>3. Live' = Live
    BY <1>1, <1>2
  <1>4. \A c \in Live : f[c] \in ConnRec
    OBVIOUS
  <1>5. \A c \in Live : conn'[c] \in ConnRec
    BY <1>2, <1>4 DEF ConnRec
  <1>6. conn' \in [Live -> ConnRec]
    BY <1>2, <1>5
  <1>7. fd_establish_status' \in [Fd -> {0, 1}]
    BY <1>2 DEF TypeOK
  <1>8. \A c \in Live : /\ conn'[c].user_data = f[c].user_data
                        /\ conn'[c].local = f[c].local
                        /\ conn'[c].remote = f[c].remote
                        /\ conn'[c].waiting = f[c].waiting
                        /\ f[c].signaling_state = "SIGNAL_HANDLED" =>
                             conn'[c].signaling_state = "SIGNAL_HANDLED"
                        /\ c \in due => conn'[c].signaling_state = "SIGNAL_HANDLED"
    BY <1>2, <1>4 DEF ConnRec
  <1>9. \A fd \in Fd : \/ fd_establish_status'[fd] = fd_establish_status[fd]
                       \/ \E c \in due : f[c].user_data = fd
    BY <1>2
  <1> QED BY <1>1, <1>3, <1>6, <1>7, <1>8, <1>9

\* A main loop step that changes the connections to f before the callback.
LEMMA LoopHome ==
  ASSUME HomeInv, InLoop, NEW f \in [Live -> ConnRec], Cycle(f), call' = AfterStep,
         \A c \in Live : /\ f[c].user_data = conn[c].user_data
                         /\ f[c].remote = conn[c].remote
                         /\ conn[c].signaling_state = "SIGNAL_HANDLED" =>
                              f[c].signaling_state = "SIGNAL_HANDLED",
         UNCHANGED <<nb_fd, fd_table, fd_src_port, port_occupied>>,
         fd_accept_counter' \in [Fd -> Nat]
  PROVE  HomeInv'
  <1>1. TypeOK /\ EventsGoHome /\ CallOK /\ StatusOK /\ StatusIsOwn
    BY DEF HomeInv
  <1>2. /\ Live' = Live /\ conn' \in [Live -> ConnRec]
        /\ fd_establish_status' \in [Fd -> {0, 1}]
        /\ \A c \in Live : /\ conn'[c].user_data = conn[c].user_data
                           /\ conn'[c].remote = conn[c].remote
                           /\ conn[c].signaling_state = "SIGNAL_HANDLED" =>
                                conn'[c].signaling_state = "SIGNAL_HANDLED"
        /\ \A fd \in Fd :
             \/ fd_establish_status'[fd] = fd_establish_status[fd]
             \/ \E c \in Live : /\ conn[c].user_data = fd
                                /\ conn'[c].signaling_state = "SIGNAL_HANDLED"
    BY <1>1, CycleFacts
  <1>3. /\ call' \in [op : {"none", "connect", "accept", "recv", "select", "look", "return"},
                     fd : Fd \union {NULL}]
        /\ call'.op \in {"connect", "accept", "recv"} => call' = call
    BY <1>1 DEF AfterStep, NoCall, TypeOK, InLoop
  <1>4. TypeOK'
    BY <1>1, <1>2, <1>3 DEF TypeOK
  <1>5. EventsGoHome'
    BY <1>1, <1>2 DEF EventsGoHome
  <1>6. CallOK'
    <2>1. \A fd \in Fd : fd_table[fd] # NULL => fd_table[fd] \in Live
      BY <1>1 DEF EventsGoHome
    <2> QED BY <1>1, <1>2, <1>3, <2>1 DEF CallOK
  <1>7. StatusOK'
    <2> SUFFICES ASSUME NEW fd \in nb_fd, fd_table[fd] = NULL
                 PROVE  fd_establish_status'[fd] = 0
      BY DEF StatusOK
    <2>1. fd \in Fd /\ fd_establish_status[fd] = 0
      BY <1>1 DEF TypeOK, StatusOK
    <2>2. \A c \in Live : conn[c].user_data # fd
      BY <1>1, SocketsAssumption DEF EventsGoHome, TypeOK, NULL
    <2> QED BY <1>2, <2>1, <2>2
  <1>8. StatusIsOwn'
    <2> SUFFICES ASSUME call'.op = "connect", fd_establish_status'[call'.fd] = 1
                 PROVE  conn'[fd_table[call'.fd]].signaling_state = "SIGNAL_HANDLED"
      BY DEF StatusIsOwn
    <2>1. call' = call /\ call.op = "connect"
      BY <1>3
    <2>2. call.fd \in Fd /\ fd_table[call.fd] \in Live
      BY <1>1, <2>1 DEF CallOK, EventsGoHome
    <2>3. CASE fd_establish_status'[call.fd] = fd_establish_status[call.fd]
      BY <1>1, <1>2, <2>1, <2>2, <2>3 DEF StatusIsOwn
    <2>4. ASSUME NEW c \in Live, conn[c].user_data = call.fd,
                 conn'[c].signaling_state = "SIGNAL_HANDLED"
          PROVE  conn'[fd_table[call.fd]].signaling_state = "SIGNAL_HANDLED"
      <3>1. fd_table[call.fd] = c
        BY <1>1, <2>4 DEF EventsGoHome
      <3> QED BY <2>4, <3>1
    <2> QED BY <1>2, <2>1, <2>2, <2>3, <2>4
  <1> QED BY <1>4, <1>5, <1>6, <1>7, <1>8 DEF HomeInv

\* The connections after a packet of a connection.
LEMMA PacketFacts ==
  ASSUME TypeOK, NEW c \in Live, NEW in \in {0, 1}, NEW f,
         f = [conn EXCEPT
                ![c].signaling_state = IF @ = "WAITING_FOR_SIGNAL" THEN "SIGNALED" ELSE @,
                ![c].input = @ + in]
  PROVE  /\ f \in [Live -> ConnRec]
         /\ \A d \in Live : /\ f[d].user_data = conn[d].user_data
                            /\ f[d].local = conn[d].local
                            /\ f[d].remote = conn[d].remote
                            /\ f[d].waiting = conn[d].waiting
                            /\ conn[d].signaling_state = "SIGNAL_HANDLED" =>
                                 f[d].signaling_state = "SIGNAL_HANDLED"
  <1>1. conn \in [Live -> ConnRec] /\ conn[c] \in ConnRec
    BY DEF TypeOK
  <1> DEFINE st == IF conn[c].signaling_state = "WAITING_FOR_SIGNAL" THEN "SIGNALED"
                   ELSE conn[c].signaling_state
             r == [conn[c] EXCEPT !.signaling_state = st, !.input = conn[c].input + in]
  <1>2. f = [conn EXCEPT ![c] = r]
    BY <1>1 DEF ConnRec
  <1>a. /\ st \in {"WAITING_FOR_SIGNAL", "SIGNALED", "SIGNAL_HANDLED", "SIGNAL_NA"}
        /\ conn[c].signaling_state = "SIGNAL_HANDLED" => st = "SIGNAL_HANDLED"
        /\ conn[c].input + in \in Nat
    BY <1>1 DEF ConnRec
  <1> HIDE DEF st
  <1>3. /\ r \in ConnRec /\ r.user_data = conn[c].user_data /\ r.local = conn[c].local
        /\ r.remote = conn[c].remote /\ r.waiting = conn[c].waiting
        /\ conn[c].signaling_state = "SIGNAL_HANDLED" => r.signaling_state = "SIGNAL_HANDLED"
    BY <1>1, <1>a DEF ConnRec
  <1> HIDE DEF r
  <1> QED BY <1>1, <1>2, <1>3

\* The connections after a packet of client p for the listening connection c.
WithClient(c, p) == [conn EXCEPT ![c].waiting = @ \union {p}]

\* Only the clients of connection c change.
LEMMA ClientFacts ==
  ASSUME TypeOK, NEW c \in Live, NEW p \in Peer
  PROVE  LET f == WithClient(c, p) IN
         /\ f \in [Live -> ConnRec]
         /\ f[c].waiting = conn[c].waiting \union {p}
         /\ \A d \in Live : /\ f[d].user_data = conn[d].user_data
                            /\ f[d].local = conn[d].local
                            /\ f[d].remote = conn[d].remote
                            /\ d # c => f[d].waiting = conn[d].waiting
                            /\ f[d].signaling_state = conn[d].signaling_state
  <1>1. conn \in [Live -> ConnRec] /\ conn[c] \in ConnRec
    BY DEF TypeOK
  <1> DEFINE f == WithClient(c, p)
             r == [conn[c] EXCEPT !.waiting = @ \union {p}]
  <1>2. f = [conn EXCEPT ![c] = r]
    BY <1>1 DEF WithClient
  <1>3. /\ r \in ConnRec /\ r.user_data = conn[c].user_data /\ r.local = conn[c].local
        /\ r.remote = conn[c].remote /\ r.waiting = conn[c].waiting \union {p}
        /\ r.signaling_state = conn[c].signaling_state
    BY <1>1 DEF ConnRec
  <1> HIDE DEF r, f
  <1> QED BY <1>1, <1>2, <1>3 DEF f

\* The main loop steps.
LEMMA StepHome == HomeInv /\ Step => HomeInv'
  <1> SUFFICES ASSUME HomeInv, Step PROVE HomeInv'
    OBVIOUS
  <1>1. TypeOK
    BY DEF HomeInv
  <1>2. CASE StepIdle
    <2>1. conn \in [Live -> ConnRec] /\ fd_accept_counter' \in [Fd -> Nat]
      BY <1>1, <1>2 DEF TypeOK, StepIdle
    <2> QED BY <1>2, <2>1, LoopHome DEF StepIdle
  <1>3. ASSUME NEW c \in Conn, NEW in \in {0, 1}, StepPacket(c, in) PROVE HomeInv'
    <2> DEFINE f == [conn EXCEPT
              ![c].signaling_state = IF @ = "WAITING_FOR_SIGNAL" THEN "SIGNALED" ELSE @,
              ![c].input = @ + in]
    <2>1. /\ c \in Live /\ Cycle(f) /\ InLoop /\ call' = AfterStep
          /\ UNCHANGED <<nb_fd, fd_table, fd_src_port, port_occupied>>
          /\ fd_accept_counter' \in [Fd -> Nat]
      BY <1>1, <1>3 DEF StepPacket, TypeOK
    <2> HIDE DEF f
    <2>2. /\ f \in [Live -> ConnRec]
          /\ \A d \in Live : /\ f[d].user_data = conn[d].user_data
                             /\ f[d].remote = conn[d].remote
                             /\ conn[d].signaling_state = "SIGNAL_HANDLED" =>
                                  f[d].signaling_state = "SIGNAL_HANDLED"
      BY <1>1, <2>1, PacketFacts DEF f
    <2> QED BY <2>1, <2>2, LoopHome
  <1>4. ASSUME NEW c \in Conn, NEW p \in Peer, StepClient(c, p) PROVE HomeInv'
    <2> DEFINE f == WithClient(c, p)
    <2>1. /\ c \in Live /\ Cycle(f) /\ InLoop /\ call' = AfterStep
          /\ UNCHANGED <<nb_fd, fd_table, fd_src_port, port_occupied>>
          /\ fd_accept_counter' = [fd_accept_counter EXCEPT ![conn[c].user_data] = @ + 1]
      BY <1>4 DEF StepClient, WithClient
    <2> HIDE DEF f
    <2>2. fd_accept_counter' \in [Fd -> Nat]
      <3>1. conn[c].user_data \in Fd
        BY <1>1, <2>1 DEF TypeOK, ConnRec
      <3> QED BY <1>1, <2>1, <3>1 DEF TypeOK
    <2>3. /\ f \in [Live -> ConnRec]
          /\ \A d \in Live : /\ f[d].user_data = conn[d].user_data
                             /\ f[d].remote = conn[d].remote
                             /\ f[d].signaling_state = conn[d].signaling_state
      BY <1>1, <2>1, ClientFacts DEF f
    <2> QED BY <2>1, <2>2, <2>3, LoopHome
  <1> QED BY <1>2, <1>3, <1>4 DEF Step

\* nb__establish and nb__set_user_data: a new connection c and a descriptor
\* without one name each other.
LEMMA EstablishHome ==
  ASSUME HomeInv, NEW fd \in Fd, fd_table[fd] = NULL, NEW c \in Conn \ Live,
         Live' = Live \union {c}, conn' \in [Live' -> ConnRec],
         conn'[c].user_data = fd,
         \A d \in Live : conn'[d].user_data = conn[d].user_data,
         fd_table' = [fd_table EXCEPT ![fd] = c],
         nb_fd' = nb_fd \union {fd}, UNCHANGED <<fd_establish_status, fd_src_port>>,
         fd_accept_counter' \in [Fd -> Nat], port_occupied' \subseteq Port,
         call' \in [op : {"connect", "return"}, fd : {fd}],
         call'.op = "connect" => fd \in nb_fd
  PROVE  HomeInv'
  <1>1. TypeOK /\ EventsGoHome /\ CallOK /\ StatusOK /\ StatusIsOwn
    BY DEF HomeInv
  <1>2. fd_table' \in [Fd -> Conn \union {NULL}] /\ fd_table'[fd] = c /\ c # NULL
    BY <1>1, SocketsAssumption DEF TypeOK, NULL
  <1>3. \A x \in Fd : x # fd => fd_table'[x] = fd_table[x]
    BY <1>1 DEF TypeOK
  <1>4. TypeOK'
    BY <1>1, <1>2 DEF TypeOK
  <1>5. EventsGoHome'
    <2>1. \A x \in Fd : fd_table'[x] # NULL => /\ x \in nb_fd' /\ fd_table'[x] \in Live'
                                               /\ conn'[fd_table'[x]].user_data = x
      BY <1>1, <1>2, <1>3 DEF EventsGoHome
    <2>2. ASSUME NEW d \in Live' PROVE fd_table'[conn'[d].user_data] = d
      <3>1. CASE d = c
        BY <1>2, <3>1
      <3>2. CASE d # c
        <4>1. d \in Live /\ conn[d].user_data \in Fd /\ fd_table[conn[d].user_data] = d
          BY <1>1, <3>2 DEF EventsGoHome, TypeOK, ConnRec
        <4>2. d # NULL
          BY <1>1, <4>1, SocketsAssumption DEF TypeOK, NULL
        <4>3. conn[d].user_data # fd
          BY <4>1, <4>2
        <4> QED BY <1>3, <4>1, <4>3
      <3> QED BY <3>1, <3>2
    <2> QED BY <2>1, <2>2 DEF EventsGoHome
  <1>6. call'.fd = fd /\ call'.op \in {"connect", "return"}
    OBVIOUS
  <1>7. CallOK'
    BY <1>2, <1>6 DEF CallOK
  <1>8. StatusOK'
    BY <1>1, <1>2, <1>3 DEF StatusOK, TypeOK
  <1>9. StatusIsOwn'
    BY <1>1, <1>6 DEF StatusIsOwn, StatusOK
  <1> QED BY <1>4, <1>5, <1>7, <1>8, <1>9 DEF HomeInv

\* What Alloc and NewConn make.
LEMMA AllocFacts ==
  ASSUME TypeOK, NEW fd \in Fd, NEW port \in Port \union ListenPort,
         NEW p \in Peer \union {WILDCARD},
         NEW st \in {"WAITING_FOR_SIGNAL", "SIGNALED", "SIGNAL_HANDLED", "SIGNAL_NA"},
         NEW c \in Conn \ Live, conn' = Alloc(c, NewConn(fd, port, p, st))
  PROVE  /\ Live' = Live \union {c} /\ conn' \in [Live' -> ConnRec]
         /\ conn'[c].user_data = fd /\ conn'[c].local = port /\ conn'[c].remote = p
         /\ conn'[c].waiting = {}
         /\ \A d \in Live : conn'[d] = conn[d]
  <1> DEFINE r == NewConn(fd, port, p, st)
  <1>1. /\ r \in ConnRec /\ r.user_data = fd /\ r.local = port /\ r.remote = p
        /\ r.waiting = {}
    BY DEF NewConn, ConnRec
  <1> HIDE DEF r
  <1>2. conn' = [d \in Live \union {c} |-> IF d = c THEN r ELSE conn[d]]
    BY DEF Alloc, r
  <1>3. Live' = Live \union {c}
    BY <1>2 DEF Live
  <1>4. conn'[c] = r /\ \A d \in Live : conn'[d] = conn[d]
    BY <1>2
  <1>5. \A d \in Live : conn[d] \in ConnRec
    BY DEF TypeOK
  <1>6. conn' \in [Live' -> ConnRec]
    BY <1>1, <1>2, <1>3, <1>5
  <1> QED BY <1>1, <1>3, <1>4, <1>6

\* find_free_port returns a port whose flag is clear.
LEMMA FreePort ==
  ASSUME Port \ port_occupied # {}
  PROVE  find_free_port \in Port \ port_occupied
  <1>1. Port \ port_occupied \in SUBSET Nat
    BY SocketsAssumption
  <1> QED BY <1>1, MinProperties DEF find_free_port

\* What nbp_connect does to the connections.
LEMMA ConnectFacts ==
  ASSUME TypeOK, NEW fd \in Fd, NEW p \in Peer, nbp_connect(fd, p)
  PROVE  \E c \in Conn \ Live, port \in Port \ port_occupied :
           /\ Live' = Live \union {c} /\ conn' \in [Live' -> ConnRec]
           /\ conn'[c].user_data = fd /\ conn'[c].local = port /\ conn'[c].remote = p
           /\ conn'[c].waiting = {}
           /\ \A d \in Live : conn'[d] = conn[d]
           /\ fd_table' = [fd_table EXCEPT ![fd] = c]
           /\ port_occupied' = port_occupied \union {port}
  <1>1. PICK port \in Port \ port_occupied : port = find_free_port
    BY FreePort DEF nbp_connect
  <1>2. PICK c \in Conn \ Live :
          /\ conn' = Alloc(c, NewConn(fd, port, p, "WAITING_FOR_SIGNAL"))
          /\ fd_table' = [fd_table EXCEPT ![fd] = c]
    BY <1>1 DEF nbp_connect
  <1>3. port_occupied' = port_occupied \union {port}
    BY <1>1 DEF nbp_connect
  <1>4. /\ Live' = Live \union {c} /\ conn' \in [Live' -> ConnRec]
        /\ conn'[c].user_data = fd /\ conn'[c].local = port /\ conn'[c].remote = p
        /\ conn'[c].waiting = {}
        /\ \A d \in Live : conn'[d] = conn[d]
    BY <1>2, AllocFacts
  <1> WITNESS c \in Conn \ Live, port \in Port \ port_occupied
  <1> QED BY <1>2, <1>3, <1>4

\* What nbp_bind does to the connections.
LEMMA BindFacts ==
  ASSUME TypeOK, NEW fd \in Fd, NEW port \in ListenPort, nbp_bind(fd, port)
  PROVE  \E c \in Conn \ Live :
           /\ Live' = Live \union {c} /\ conn' \in [Live' -> ConnRec]
           /\ conn'[c].user_data = fd /\ conn'[c].local = port /\ conn'[c].remote = WILDCARD
           /\ conn'[c].waiting = {}
           /\ \A d \in Live : conn'[d] = conn[d]
           /\ fd_table' = [fd_table EXCEPT ![fd] = c]
  <1>1. PICK c \in Conn \ Live :
          /\ conn' = Alloc(c, NewConn(fd, port, WILDCARD, "SIGNAL_NA"))
          /\ fd_table' = [fd_table EXCEPT ![fd] = c]
    BY DEF nbp_bind
  <1>2. /\ Live' = Live \union {c} /\ conn' \in [Live' -> ConnRec]
        /\ conn'[c].user_data = fd /\ conn'[c].local = port /\ conn'[c].remote = WILDCARD
        /\ conn'[c].waiting = {}
        /\ \A d \in Live : conn'[d] = conn[d]
    BY <1>1, AllocFacts
  <1> WITNESS c \in Conn \ Live
  <1> QED BY <1>1, <1>2

\* The connections when client p leaves the accept queue of the listener l and
\* gets the connection c of descriptor fd, with the listener's port.
Accepts(fd, p, c, l) ==
  /\ conn[l].remote = WILDCARD /\ p \in conn[l].waiting
  /\ Live' = Live \union {c} /\ conn' \in [Live' -> ConnRec]
  /\ conn'[c].user_data = fd /\ conn'[c].local = conn[l].local
  /\ conn'[c].remote = p /\ conn'[c].waiting = {}
  /\ conn'[l].waiting = conn[l].waiting \ {p}
  /\ \A d \in Live : /\ conn'[d].user_data = conn[d].user_data
                     /\ conn'[d].local = conn[d].local
                     /\ conn'[d].remote = conn[d].remote
                     /\ d # l => conn'[d].waiting = conn[d].waiting
  /\ fd_table' = [fd_table EXCEPT ![fd] = c]

\* What nbp_accept does to the connections.
LEMMA AcceptFacts ==
  ASSUME HomeInv, NEW fd \in Fd, NEW p \in Peer, nbp_accept_ready(fd, p)
  PROVE  \E c \in Conn \ Live, l \in Live : Accepts(fd, p, c, l)
  <1>1. TypeOK /\ EventsGoHome /\ CallOK /\ call.op = "accept"
    BY DEF HomeInv, nbp_accept_ready
  <1>2. PICK l \in Live : l = fd_table[call.fd] /\ conn[l].remote = WILDCARD
    BY <1>1 DEF CallOK, EventsGoHome
  <1>3. p \in conn[l].waiting
    BY <1>2 DEF nbp_accept_ready
  <1>4. PICK c \in Conn \ Live, in \in 0 .. MaxInput :
          /\ conn' = [Alloc(c, [NewConn(fd, conn[l].local, p, "SIGNALED") EXCEPT !.input = in])
                        EXCEPT ![l].waiting = @ \ {p}]
          /\ fd_table' = [fd_table EXCEPT ![fd] = c]
    BY <1>2 DEF nbp_accept_ready
  <1> DEFINE r == [NewConn(fd, conn[l].local, p, "SIGNALED") EXCEPT !.input = in]
             q == [conn[l] EXCEPT !.waiting = @ \ {p}]
             g == Alloc(c, r)
  <1>5. conn[l] \in ConnRec /\ \A d \in Live : conn[d] \in ConnRec
    BY <1>1 DEF TypeOK
  <1>6. /\ r \in ConnRec /\ r.user_data = fd /\ r.local = conn[l].local /\ r.remote = p
        /\ r.waiting = {}
    BY <1>5, SocketsAssumption DEF NewConn, ConnRec
  <1>7. /\ q \in ConnRec /\ q.user_data = conn[l].user_data /\ q.local = conn[l].local
        /\ q.remote = conn[l].remote /\ q.waiting = conn[l].waiting \ {p}
    BY <1>5 DEF ConnRec
  <1> HIDE DEF r
  <1>8. g = [d \in Live \union {c} |-> IF d = c THEN r ELSE conn[d]]
    BY DEF Alloc
  <1>9. g[l] = conn[l] /\ l # c
    BY <1>8
  <1>10. conn' = [g EXCEPT ![l] = q]
    <2>1. conn' = [g EXCEPT ![l].waiting = @ \ {p}]
      BY <1>4 DEF r
    <2> HIDE DEF g
    <2> QED BY <1>9, <2>1
  <1> HIDE DEF g, q
  <1>11. Live' = Live \union {c}
    BY <1>8, <1>10 DEF Live
  <1>12. conn'[c] = r /\ conn'[l] = q /\ \A d \in Live : d # l => conn'[d] = conn[d]
    BY <1>8, <1>9, <1>10
  <1>13. conn' \in [Live' -> ConnRec]
    <2>1. \A d \in Live' : conn'[d] \in ConnRec
      BY <1>5, <1>6, <1>7, <1>11, <1>12
    <2>2. conn' = [d \in Live' |-> conn'[d]]
      BY <1>8, <1>10, <1>11
    <2> QED BY <2>1, <2>2
  <1>14. \A d \in Live : /\ conn'[d].user_data = conn[d].user_data
                         /\ conn'[d].local = conn[d].local
                         /\ conn'[d].remote = conn[d].remote
                         /\ d # l => conn'[d].waiting = conn[d].waiting
    BY <1>7, <1>12
  <1>15. /\ conn'[c].user_data = fd /\ conn'[c].local = conn[l].local
         /\ conn'[c].remote = p /\ conn'[c].waiting = {}
         /\ conn'[l].waiting = conn[l].waiting \ {p}
    BY <1>6, <1>7, <1>12
  <1> WITNESS c \in Conn \ Live, l \in Live
  <1> QED BY <1>2, <1>3, <1>4, <1>11, <1>13, <1>14, <1>15 DEF Accepts

\* The calls that establish a connection.
LEMMA EstablishCallsHome ==
  ASSUME HomeInv, NEW fd \in Fd,
         \/ \E p \in Peer : nbp_connect(fd, p) \/ nbp_accept_ready(fd, p)
         \/ \E port \in ListenPort : nbp_bind(fd, port)
  PROVE  HomeInv'
  <1>1. TypeOK /\ EventsGoHome
    BY DEF HomeInv
  <1>2. ASSUME NEW p \in Peer, nbp_connect(fd, p) PROVE HomeInv'
    <2>1. PICK c \in Conn \ Live, port \in Port \ port_occupied :
           /\ Live' = Live \union {c} /\ conn' \in [Live' -> ConnRec]
           /\ conn'[c].user_data = fd
           /\ \A d \in Live : conn'[d] = conn[d]
           /\ fd_table' = [fd_table EXCEPT ![fd] = c]
           /\ port_occupied' = port_occupied \union {port}
      BY <1>1, <1>2, ConnectFacts
    <2>2. /\ fd \in nb_fd /\ fd_table[fd] = NULL /\ nb_fd' = nb_fd
          /\ call' = [op |-> "connect", fd |-> fd]
          /\ UNCHANGED <<fd_establish_status, fd_src_port, fd_accept_counter>>
      BY <1>2 DEF nbp_connect
    <2>3. /\ nb_fd' = nb_fd \union {fd} /\ port_occupied' \subseteq Port
          /\ fd_accept_counter' \in [Fd -> Nat]
          /\ call' \in [op : {"connect", "return"}, fd : {fd}]
      BY <1>1, <2>1, <2>2 DEF TypeOK
    <2> QED BY <2>1, <2>2, <2>3, EstablishHome
  <1>3. ASSUME NEW p \in Peer, nbp_accept_ready(fd, p) PROVE HomeInv'
    <2>0. PICK c \in Conn \ Live, l \in Live : Accepts(fd, p, c, l)
      BY <1>3, AcceptFacts
    <2>1. /\ Live' = Live \union {c} /\ conn' \in [Live' -> ConnRec]
          /\ conn'[c].user_data = fd
          /\ \A d \in Live : conn'[d].user_data = conn[d].user_data
          /\ fd_table' = [fd_table EXCEPT ![fd] = c]
      BY <2>0 DEF Accepts
    <2>2. /\ fd \notin nb_fd /\ nb_fd' = nb_fd \union {fd}
          /\ call' = [op |-> "return", fd |-> fd]
          /\ fd_accept_counter[call.fd] # 0
          /\ fd_accept_counter' = [fd_accept_counter EXCEPT ![call.fd] = @ - 1]
          /\ UNCHANGED <<fd_establish_status, fd_src_port, port_occupied>>
      BY <1>3 DEF nbp_accept_ready, FreeFd
    <2>3. fd_table[fd] = NULL
      BY <1>1, <2>2 DEF EventsGoHome
    <2>4. fd_accept_counter' \in [Fd -> Nat]
      <3>1. call.fd \in Fd
        BY <1>3 DEF HomeInv, CallOK, nbp_accept_ready
      <3>2. fd_accept_counter[call.fd] - 1 \in Nat
        BY <1>1, <2>2, <3>1 DEF TypeOK
      <3> QED BY <1>1, <2>2, <3>1, <3>2 DEF TypeOK
    <2>5. /\ port_occupied' \subseteq Port /\ call'.op # "connect"
          /\ call' \in [op : {"connect", "return"}, fd : {fd}]
      BY <1>1, <2>2 DEF TypeOK
    <2> QED BY <2>1, <2>2, <2>3, <2>4, <2>5, EstablishHome
  <1>4. ASSUME NEW port \in ListenPort, nbp_bind(fd, port) PROVE HomeInv'
    <2>1. PICK c \in Conn \ Live :
           /\ Live' = Live \union {c} /\ conn' \in [Live' -> ConnRec]
           /\ conn'[c].user_data = fd
           /\ \A d \in Live : conn'[d] = conn[d]
           /\ fd_table' = [fd_table EXCEPT ![fd] = c]
      BY <1>1, <1>4, BindFacts
    <2>2. /\ fd \in nb_fd /\ fd_table[fd] = NULL /\ nb_fd' = nb_fd
          /\ call' = [op |-> "return", fd |-> fd]
          /\ UNCHANGED <<fd_establish_status, fd_src_port, fd_accept_counter, port_occupied>>
      BY <1>4 DEF nbp_bind
    <2>3. /\ nb_fd' = nb_fd \union {fd} /\ port_occupied' \subseteq Port
          /\ fd_accept_counter' \in [Fd -> Nat] /\ call'.op # "connect"
          /\ call' \in [op : {"connect", "return"}, fd : {fd}]
      BY <1>1, <2>2 DEF TypeOK
    <2> QED BY <2>1, <2>2, <2>3, EstablishHome
  <1> QED BY <1>2, <1>3, <1>4

\* nbp_socket resets what an earlier owner of the descriptor left.
LEMMA SocketHome ==
  ASSUME HomeInv, NEW fd \in Fd, nbp_socket(fd)
  PROVE  HomeInv'
  <1>1. TypeOK /\ EventsGoHome /\ StatusOK
    BY DEF HomeInv
  <1>2. fd_table[fd] = NULL /\ call' = NoCall /\ conn' = conn /\ Live' = Live
    BY <1>1 DEF nbp_socket, FreeFd, EventsGoHome, Idle, Live
  <1>3. fd_table' = fd_table
    BY <1>1, <1>2 DEF nbp_socket, TypeOK
  <1>4. TypeOK'
    <2>1. /\ fd_accept_counter' \in [Fd -> Nat] /\ fd_establish_status' \in [Fd -> {0, 1}]
          /\ fd_src_port' = [f \in Fd |-> 0] /\ nb_fd' \subseteq Fd
          /\ port_occupied' = port_occupied /\ call' = call
      BY <1>1 DEF nbp_socket, TypeOK
    <2> QED BY <1>1, <1>2, <1>3, <2>1 DEF TypeOK
  <1>5. EventsGoHome'
    BY <1>1, <1>2, <1>3 DEF EventsGoHome, nbp_socket
  <1>6. StatusOK'
    BY <1>1, <1>3 DEF StatusOK, nbp_socket, TypeOK
  <1>7. CallOK' /\ StatusIsOwn'
    BY <1>2 DEF CallOK, StatusIsOwn, NoCall
  <1> QED BY <1>4, <1>5, <1>6, <1>7 DEF HomeInv

\* nbp_close takes the connection from the descriptor.
LEMMA CloseFacts ==
  ASSUME TypeOK, EventsGoHome, NEW fd \in Fd, nbp_close(fd)
  PROVE  /\ fd_table[fd] \in Live /\ Live' = Live \ {fd_table[fd]}
         /\ conn' \in [Live' -> ConnRec] /\ \A d \in Live' : conn'[d] = conn[d]
         /\ port_occupied' = port_occupied
  <1>1. fd_table[fd] \in Live /\ conn' = [d \in Live \ {fd_table[fd]} |-> conn[d]]
    BY DEF nbp_close, EventsGoHome, Release
  <1>2. Live' = Live \ {fd_table[fd]}
    BY <1>1 DEF Live
  <1>3. conn' \in [Live' -> ConnRec] /\ \A d \in Live' : conn'[d] = conn[d]
    BY <1>1, <1>2 DEF TypeOK
  <1>4. PortBase + fd_src_port[fd] = PortBase
    BY DEF TypeOK, PortBase
  <1>5. port_occupied' = port_occupied
    BY <1>4, SocketsAssumption DEF nbp_close, TypeOK
  <1> QED BY <1>1, <1>2, <1>3, <1>5

\* After nbp_close no descriptor names the connection that was freed.
LEMMA CloseHome ==
  ASSUME HomeInv, NEW fd \in Fd, nbp_close(fd)
  PROVE  HomeInv'
  <1>1. TypeOK /\ EventsGoHome /\ StatusOK
    BY DEF HomeInv
  <1>2. /\ fd_table[fd] \in Live /\ Live' = Live \ {fd_table[fd]}
        /\ conn' \in [Live' -> ConnRec] /\ \A d \in Live' : conn'[d] = conn[d]
        /\ port_occupied' = port_occupied
    BY <1>1, CloseFacts
  <1>3. /\ fd_table' = [fd_table EXCEPT ![fd] = NULL] /\ nb_fd' = nb_fd \ {fd}
        /\ call' = NoCall /\ call' = call
        /\ UNCHANGED <<fd_accept_counter, fd_establish_status, fd_src_port>>
    BY DEF nbp_close, Idle
  <1>4. /\ fd_table' \in [Fd -> Conn \union {NULL}] /\ fd_table'[fd] = NULL
        /\ \A x \in Fd : x # fd => fd_table'[x] = fd_table[x]
    BY <1>1, <1>3 DEF TypeOK
  <1>5. TypeOK'
    BY <1>1, <1>2, <1>3, <1>4 DEF TypeOK
  <1>6. EventsGoHome'
    <2>1. ASSUME NEW x \in Fd, fd_table'[x] # NULL
          PROVE  /\ x \in nb_fd' /\ fd_table'[x] \in Live'
                 /\ conn'[fd_table'[x]].user_data = x
      <3>1. x # fd /\ fd_table'[x] = fd_table[x]
        BY <1>4, <2>1
      <3>2. x \in nb_fd /\ fd_table[x] \in Live /\ conn[fd_table[x]].user_data = x
        BY <1>1, <2>1, <3>1 DEF EventsGoHome
      <3>3. fd_table[x] # fd_table[fd]
        <4>1. conn[fd_table[fd]].user_data = fd
          BY <1>1 DEF EventsGoHome, nbp_close
        <4> QED BY <3>1, <3>2, <4>1
      <3> QED BY <1>2, <1>3, <3>1, <3>2, <3>3
    <2>2. ASSUME NEW d \in Live' PROVE fd_table'[conn'[d].user_data] = d
      <3>1. d \in Live /\ d # fd_table[fd] /\ conn'[d] = conn[d]
        BY <1>2
      <3>2. conn[d].user_data \in Fd /\ fd_table[conn[d].user_data] = d
        BY <1>1, <3>1 DEF EventsGoHome, TypeOK, ConnRec
      <3> QED BY <1>4, <3>1, <3>2
    <2> QED BY <2>1, <2>2 DEF EventsGoHome
  <1>7. StatusOK'
    BY <1>1, <1>3, <1>4 DEF StatusOK, TypeOK
  <1>8. CallOK' /\ StatusIsOwn'
    BY <1>3 DEF CallOK, StatusIsOwn, NoCall
  <1> QED BY <1>5, <1>6, <1>7, <1>8 DEF HomeInv

\* nbp_recv takes an element from the input queue of its socket.
LEMMA RecvFacts ==
  ASSUME HomeInv, nbp_recv_return
  PROVE  /\ Live' = Live /\ conn' \in [Live -> ConnRec]
         /\ \A d \in Live : /\ conn'[d].user_data = conn[d].user_data
                            /\ conn'[d].local = conn[d].local
                            /\ conn'[d].remote = conn[d].remote
                            /\ conn'[d].waiting = conn[d].waiting
  <1>1. TypeOK /\ fd_table[call.fd] \in Live
    BY DEF HomeInv, CallOK, EventsGoHome, nbp_recv_return
  <1> DEFINE c == fd_table[call.fd]
             r == [conn[c] EXCEPT !.input = @ - 1]
  <1>2. conn[c] \in ConnRec /\ conn[c].input > 0 /\ conn \in [Live -> ConnRec]
    BY <1>1 DEF TypeOK, nbp_recv_return
  <1>3. conn' = [conn EXCEPT ![c] = r]
    BY <1>1, <1>2 DEF nbp_recv_return
  <1>4. /\ r \in ConnRec /\ r.user_data = conn[c].user_data /\ r.local = conn[c].local
        /\ r.remote = conn[c].remote /\ r.waiting = conn[c].waiting
    BY <1>2 DEF ConnRec
  <1> HIDE DEF r, c
  <1>5. Live' = Live
    BY <1>2, <1>3 DEF Live
  <1> QED BY <1>2, <1>3, <1>4, <1>5

\* The calls that neither open nor close.
LEMMA OtherCallsHome ==
  ASSUME HomeInv,
         \/ nbp_connect_return \/ nbp_accept_null \/ nbp_recv_return
         \/ nbp_select \/ nbp_select_look
         \/ \E fd \in Fd : nbp_connect_no_port(fd) \/ nbp_accept(fd) \/ nbp_recv(fd)
         \/ Ended \/ UNCHANGED vars
  PROVE  HomeInv'
  <1>1. TypeOK /\ EventsGoHome /\ CallOK /\ StatusOK /\ StatusIsOwn
    BY DEF HomeInv
  <1>2. UNCHANGED <<fds, port_occupied>>
    BY DEF nbp_connect_return, nbp_accept_null, nbp_recv_return, nbp_select, nbp_select_look,
           nbp_connect_no_port, nbp_accept, nbp_recv, Ended, vars
  <1>3. /\ Live' = Live /\ conn' \in [Live -> ConnRec]
        /\ \A d \in Live : /\ conn'[d].user_data = conn[d].user_data
                           /\ conn'[d].remote = conn[d].remote
    <2>1. CASE nbp_recv_return
      BY <2>1, RecvFacts
    <2>2. CASE ~nbp_recv_return
      <3>1. conn' = conn
        BY <2>2 DEF nbp_connect_return, nbp_accept_null, nbp_select, nbp_select_look,
                    nbp_connect_no_port, nbp_accept, nbp_recv, Ended, vars
      <3> QED BY <1>1, <3>1 DEF Live, TypeOK
    <2> QED BY <2>1, <2>2
  <1>4. EventsGoHome' /\ StatusOK'
    BY <1>1, <1>2, <1>3 DEF EventsGoHome, StatusOK, fds
  <1>5. CASE nbp_connect_return \/ nbp_recv_return \/ nbp_select \/ nbp_select_look
    <2>1. /\ call' \in [op : {"none", "connect", "accept", "recv", "select", "look", "return"},
                        fd : Fd \union {NULL}]
          /\ call'.op \in {"none", "select"}
      BY <1>1, <1>5 DEF nbp_connect_return, nbp_recv_return, nbp_select, nbp_select_look,
                        NoCall, TypeOK
    <2>2. TypeOK'
      BY <1>1, <1>2, <1>3, <2>1 DEF TypeOK, fds
    <2>3. CallOK' /\ StatusIsOwn'
      BY <2>1 DEF CallOK, StatusIsOwn
    <2> QED BY <1>4, <2>2, <2>3 DEF HomeInv
  <1>6. ASSUME NEW fd \in Fd, nbp_accept(fd) \/ nbp_recv(fd) PROVE HomeInv'
    <2>1. /\ call' \in [op : {"accept", "recv"}, fd : {fd}] /\ fd_table[fd] # NULL /\ conn' = conn
          /\ call'.op = "accept" => conn[fd_table[fd]].remote = WILDCARD
      BY <1>6 DEF nbp_accept, nbp_recv
    <2>2. call'.fd = fd /\ call'.op # "connect"
      BY <2>1
    <2>3. TypeOK'
      BY <1>1, <1>2, <1>3, <2>1 DEF TypeOK, fds
    <2>4. CallOK' /\ StatusIsOwn'
      BY <1>2, <2>1, <2>2 DEF CallOK, StatusIsOwn, fds
    <2> QED BY <1>4, <2>3, <2>4 DEF HomeInv
  <1>7. CASE call' = call /\ conn' = conn
    <2>1. TypeOK' /\ CallOK' /\ StatusIsOwn'
      BY <1>1, <1>2, <1>3, <1>7 DEF TypeOK, CallOK, StatusIsOwn, fds
    <2> QED BY <1>4, <2>1 DEF HomeInv
  <1>8. ASSUME nbp_accept_null \/ Ended \/ UNCHANGED vars
               \/ \E fd \in Fd : nbp_connect_no_port(fd)
        PROVE  call' = call /\ conn' = conn
    BY <1>8 DEF nbp_accept_null, Ended, vars, nbp_connect_no_port
  <1> QED BY <1>5, <1>6, <1>7, <1>8

\* Every step keeps descriptors, connections and the call together.
LEMMA NextHome == HomeInv /\ [Next]_vars => HomeInv'
  <1> SUFFICES ASSUME HomeInv, [Next]_vars PROVE HomeInv'
    OBVIOUS
  <1> QED BY StepHome, SocketHome, CloseHome, EstablishCallsHome, OtherCallsHome DEF Next

-----------------------------------------------------------------------------
\* A step that keeps the local and the remote end of every connection, and
\* adds no waiting client who is connected.
LEMMA KeysKept ==
  ASSUME KeyInv, Live' \subseteq Live, port_occupied' = port_occupied,
         \A d \in Live' :
           /\ conn'[d].local = conn[d].local
           /\ conn'[d].remote = conn[d].remote
           /\ \A p \in conn'[d].waiting :
                \/ p \in conn[d].waiting
                \/ conn[d].remote = WILDCARD /\ ~Connected(conn[d].local, p)
  PROVE  KeyInv'
  <1>1. KeysDistinct /\ PortsOK /\ WaitingOK
    BY DEF KeyInv
  <1>2. KeysDistinct'
    BY <1>1 DEF KeysDistinct
  <1>3. PortsOK'
    BY <1>1 DEF PortsOK
  <1>4. WaitingOK'
    <2> SUFFICES ASSUME NEW c \in Live', NEW p \in conn'[c].waiting
                 PROVE  /\ conn'[c].remote = WILDCARD
                        /\ \A d \in Live' : ~(conn'[d].local = conn'[c].local /\ conn'[d].remote = p)
      BY DEF WaitingOK
    <2>1. /\ conn[c].remote = WILDCARD
          /\ \A d \in Live : ~(conn[d].local = conn[c].local /\ conn[d].remote = p)
      BY <1>1 DEF WaitingOK, Connected
    <2> QED BY <2>1
  <1> QED BY <1>2, <1>3, <1>4 DEF KeyInv

\* The main loop steps.
LEMMA StepKeys ==
  ASSUME HomeInv, KeyInv, Step
  PROVE  KeyInv'
  <1>1. TypeOK
    BY DEF HomeInv
  <1>2. CASE StepIdle
    <2>1. conn \in [Live -> ConnRec] /\ Cycle(conn) /\ port_occupied' = port_occupied
      BY <1>1, <1>2 DEF TypeOK, StepIdle
    <2>2. /\ Live' = Live
          /\ \A d \in Live : /\ conn'[d].local = conn[d].local
                             /\ conn'[d].remote = conn[d].remote
                             /\ conn'[d].waiting = conn[d].waiting
      BY <1>1, <2>1, CycleFacts
    <2> QED BY <2>1, <2>2, KeysKept
  <1>3. ASSUME NEW c \in Conn, NEW in \in {0, 1}, StepPacket(c, in) PROVE KeyInv'
    <2> DEFINE f == [conn EXCEPT
              ![c].signaling_state = IF @ = "WAITING_FOR_SIGNAL" THEN "SIGNALED" ELSE @,
              ![c].input = @ + in]
    <2>1. c \in Live /\ Cycle(f) /\ port_occupied' = port_occupied
      BY <1>3 DEF StepPacket
    <2> HIDE DEF f
    <2>2. /\ f \in [Live -> ConnRec]
          /\ \A d \in Live : /\ f[d].local = conn[d].local
                             /\ f[d].remote = conn[d].remote
                             /\ f[d].waiting = conn[d].waiting
      BY <1>1, <2>1, PacketFacts DEF f
    <2>3. /\ Live' = Live
          /\ \A d \in Live : /\ conn'[d].local = f[d].local
                             /\ conn'[d].remote = f[d].remote
                             /\ conn'[d].waiting = f[d].waiting
      BY <1>1, <2>1, <2>2, CycleFacts
    <2> QED BY <2>1, <2>2, <2>3, KeysKept
  <1>4. ASSUME NEW c \in Conn, NEW p \in Peer, StepClient(c, p) PROVE KeyInv'
    <2> DEFINE f == WithClient(c, p)
    <2>1. /\ c \in Live /\ Cycle(f) /\ port_occupied' = port_occupied
          /\ conn[c].remote = WILDCARD /\ ~Connected(conn[c].local, p)
      BY <1>4 DEF StepClient, WithClient
    <2> HIDE DEF f
    <2>2. /\ f \in [Live -> ConnRec]
          /\ f[c].waiting = conn[c].waiting \union {p}
          /\ \A d \in Live : /\ f[d].local = conn[d].local
                             /\ f[d].remote = conn[d].remote
                             /\ d # c => f[d].waiting = conn[d].waiting
      BY <1>1, <2>1, ClientFacts DEF f
    <2>3. /\ Live' = Live
          /\ \A d \in Live : /\ conn'[d].local = f[d].local
                             /\ conn'[d].remote = f[d].remote
                             /\ conn'[d].waiting = f[d].waiting
      BY <1>1, <2>1, <2>2, CycleFacts
    <2>4. \A d \in Live : \A q \in conn'[d].waiting :
                \/ q \in conn[d].waiting
                \/ conn[d].remote = WILDCARD /\ ~Connected(conn[d].local, q)
      BY <2>1, <2>2, <2>3
    <2> QED BY <2>1, <2>2, <2>3, <2>4, KeysKept
  <1> QED BY <1>2, <1>3, <1>4 DEF Step

\* nbp_connect takes a port no connection has.
LEMMA ConnectKeys ==
  ASSUME PortsApart, HomeInv, KeyInv, NEW fd \in Fd, NEW p \in Peer, nbp_connect(fd, p)
  PROVE  KeyInv'
  <1>1. KeysDistinct /\ PortsOK /\ WaitingOK /\ TypeOK
    BY DEF KeyInv, HomeInv
  <1>2. PICK c \in Conn \ Live, port \in Port \ port_occupied :
          /\ Live' = Live \union {c}
          /\ conn'[c].local = port /\ conn'[c].remote = p /\ conn'[c].waiting = {}
          /\ \A d \in Live : conn'[d] = conn[d]
          /\ port_occupied' = port_occupied \union {port}
    BY <1>1, ConnectFacts
  <1>3. \A d \in Live : conn[d].local # port
    BY <1>1 DEF PortsOK, PortsApart
  <1>4. KeysDistinct'
    BY <1>1, <1>2, <1>3 DEF KeysDistinct
  <1>5. PortsOK'
    BY <1>1, <1>2 DEF PortsOK
  <1>6. WaitingOK'
    BY <1>1, <1>2, <1>3 DEF WaitingOK
  <1> QED BY <1>4, <1>5, <1>6 DEF KeyInv

\* nbp_bind takes a port no listener has.
LEMMA BindKeys ==
  ASSUME HomeInv, KeyInv, NEW fd \in Fd, NEW port \in ListenPort, nbp_bind(fd, port)
  PROVE  KeyInv'
  <1>1. KeysDistinct /\ PortsOK /\ WaitingOK /\ TypeOK
    BY DEF KeyInv, HomeInv
  <1>2. PICK c \in Conn \ Live :
          /\ Live' = Live \union {c}
          /\ conn'[c].local = port /\ conn'[c].remote = WILDCARD /\ conn'[c].waiting = {}
          /\ \A d \in Live : conn'[d] = conn[d]
    BY <1>1, BindFacts
  <1>3. /\ \A d \in Live : ~(conn[d].local = port /\ conn[d].remote = WILDCARD)
        /\ port_occupied' = port_occupied
    BY DEF nbp_bind, Connected
  <1>4. \A d \in Live : WILDCARD \notin conn[d].waiting
    BY <1>1, SocketsAssumption DEF TypeOK, ConnRec
  <1>5. KeysDistinct'
    BY <1>1, <1>2, <1>3 DEF KeysDistinct
  <1>6. PortsOK'
    BY <1>1, <1>2, <1>3 DEF PortsOK
  <1>7. WaitingOK'
    BY <1>1, <1>2, <1>4 DEF WaitingOK
  <1> QED BY <1>5, <1>6, <1>7 DEF KeyInv

\* nbp_accept takes a client that has no connection with the listener's port,
\* and no other listener has that client waiting at the same port.
LEMMA AcceptKeys ==
  ASSUME HomeInv, KeyInv, NEW fd \in Fd, NEW p \in Peer, nbp_accept_ready(fd, p)
  PROVE  KeyInv'
  <1>1. KeysDistinct /\ PortsOK /\ WaitingOK /\ TypeOK
    BY DEF KeyInv, HomeInv
  <1>0. PICK c \in Conn \ Live, l \in Live : Accepts(fd, p, c, l)
    BY AcceptFacts
  <1>2. /\ conn[l].remote = WILDCARD /\ p \in conn[l].waiting
        /\ Live' = Live \union {c}
        /\ conn'[c].local = conn[l].local
        /\ conn'[c].remote = p /\ conn'[c].waiting = {}
        /\ conn'[l].waiting = conn[l].waiting \ {p}
        /\ \A d \in Live : /\ conn'[d].local = conn[d].local
                           /\ conn'[d].remote = conn[d].remote
                           /\ d # l => conn'[d].waiting = conn[d].waiting
    BY <1>0 DEF Accepts
  <1>3. port_occupied' = port_occupied
    BY DEF nbp_accept_ready
  <1>4. \A d \in Live : ~(conn[d].local = conn[l].local /\ conn[d].remote = p)
    BY <1>1, <1>2 DEF WaitingOK
  <1>5. KeysDistinct'
    BY <1>1, <1>2, <1>4 DEF KeysDistinct
  <1>6. conn[l].local \in ListenPort
    BY <1>1, <1>2, SocketsAssumption DEF PortsOK
  <1>7. PortsOK'
    BY <1>1, <1>2, <1>3, <1>6 DEF PortsOK
  <1>8. \A d \in Live : /\ conn'[d].waiting \subseteq conn[d].waiting
                        /\ conn[d].local = conn[l].local => p \notin conn'[d].waiting
    BY <1>1, <1>2 DEF WaitingOK, KeysDistinct
  <1>9. WaitingOK'
    <2> SUFFICES ASSUME NEW d \in Live', NEW q \in conn'[d].waiting
                 PROVE  /\ conn'[d].remote = WILDCARD
                        /\ \A e \in Live' : ~(conn'[e].local = conn'[d].local /\ conn'[e].remote = q)
      BY DEF WaitingOK
    <2>1. d \in Live /\ q \in conn[d].waiting
      BY <1>2, <1>8
    <2>2. /\ conn[d].remote = WILDCARD
          /\ \A e \in Live : ~(conn[e].local = conn[d].local /\ conn[e].remote = q)
      BY <1>1, <2>1 DEF WaitingOK
    <2>3. ~(conn'[c].local = conn'[d].local /\ conn'[c].remote = q)
      BY <1>2, <1>8, <2>1
    <2> QED BY <1>2, <2>1, <2>2, <2>3
  <1> QED BY <1>5, <1>7, <1>9 DEF KeyInv

\* Every step keeps the keys of the connections apart.
LEMMA NextKeys ==
  ASSUME PortsApart, HomeInv, KeyInv, [Next]_vars
  PROVE  KeyInv'
  <1>1. TypeOK /\ EventsGoHome
    BY DEF HomeInv
  <1>2. CASE Step
    BY <1>2, StepKeys
  <1>3. ASSUME NEW fd \in Fd, NEW p \in Peer, nbp_connect(fd, p) \/ nbp_accept_ready(fd, p)
        PROVE  KeyInv'
    BY <1>3, ConnectKeys, AcceptKeys
  <1>4. ASSUME NEW fd \in Fd, NEW port \in ListenPort, nbp_bind(fd, port) PROVE KeyInv'
    BY <1>4, BindKeys
  <1>5. ASSUME NEW fd \in Fd, nbp_close(fd) PROVE KeyInv'
    <2>1. /\ Live' \subseteq Live /\ \A d \in Live' : conn'[d] = conn[d]
          /\ port_occupied' = port_occupied
      BY <1>1, <1>5, CloseFacts
    <2> QED BY <2>1, KeysKept
  <1>6. CASE nbp_recv_return
    <2>1. /\ Live' = Live /\ port_occupied' = port_occupied
          /\ \A d \in Live : /\ conn'[d].local = conn[d].local
                             /\ conn'[d].remote = conn[d].remote
                             /\ conn'[d].waiting = conn[d].waiting
      BY <1>6, RecvFacts DEF nbp_recv_return
    <2> QED BY <2>1, KeysKept
  <1>7. CASE conn' = conn /\ port_occupied' = port_occupied
    <2>1. Live' = Live
      BY <1>7 DEF Live
    <2> QED BY <1>7, <2>1, KeysKept
  <1>8. ASSUME \/ nbp_connect_return \/ nbp_accept_null \/ nbp_select \/ nbp_select_look
               \/ \E fd \in Fd : \/ nbp_socket(fd) \/ nbp_connect_no_port(fd)
                                 \/ nbp_accept(fd) \/ nbp_recv(fd)
               \/ Ended \/ UNCHANGED vars
        PROVE  conn' = conn /\ port_occupied' = port_occupied
    BY <1>8 DEF nbp_connect_return, nbp_accept_null, nbp_select, nbp_select_look, nbp_socket,
                nbp_connect_no_port, nbp_accept, nbp_recv, Ended, vars
  <1> QED BY <1>2, <1>3, <1>4, <1>5, <1>6, <1>7, <1>8 DEF Next

-----------------------------------------------------------------------------
\* Descriptors, connections and the call in progress belong together.
THEOREM SocketsInvariant == Spec => []HomeInv
  <1> QED BY InitHome, NextHome, PTL DEF Spec

\* Events go to the socket of their connection, and no descriptor keeps a
\* connection that nbp_close freed.
THEOREM SocketsEventsGoHome == Spec => []EventsGoHome
  <1>1. HomeInv => EventsGoHome
    BY DEF HomeInv
  <1> QED BY <1>1, SocketsInvariant, PTL

\* nbp_connect does not return by the status of an earlier owner of its
\* descriptor.
THEOREM SocketsStatusIsOwn == Spec => []StatusIsOwn
  <1>1. HomeInv => StatusIsOwn
    BY DEF HomeInv
  <1> QED BY <1>1, SocketsInvariant, PTL

\* No two connections have the same key, as long as applications bind ports
\* that find_free_port does not give out.
THEOREM SocketsKeysDistinct ==
  ASSUME PortsApart
  PROVE  Spec => []KeysDistinct
  <1>1. Init => KeyInv
    <2>1. Init => Live = {}
      BY DEF Init, Live
    <2> QED BY <2>1 DEF KeyInv, KeysDistinct, PortsOK, WaitingOK
  <1>2. HomeInv /\ KeyInv /\ [Next]_vars => KeyInv'
    BY NextKeys
  <1>3. KeyInv => KeysDistinct
    BY DEF KeyInv
  <1> QED BY <1>1, <1>2, <1>3, SocketsInvariant, PTL DEF Spec
=============================================================================
