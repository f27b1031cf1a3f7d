----------------------------- MODULE ConnTable ------------------------------
(***************************************************************************)
(* The connection table of the identifier module: parallel arrays in       *)
(* net_state, appended to by hook_establish, searched by hook_ingress, and *)
(* compacted by hook_destablish, which moves the last entry into the gap.  *)
(*                                                                         *)
(* A key is what identifies a flow: the local application, the remote      *)
(* application and the remote host (the routing table is empty after       *)
(* hook_net_init, so host ids are looked up as themselves).  A listening   *)
(* connection has the wildcard 0 for the two remote parts.                 *)
(***************************************************************************)
EXTENDS Integers, FiniteSetsExt, TLC

CONSTANTS FlowIdentifiers,    \* the flow_identifier_t a protocol is generated with
          Conn,               \* connection objects
          LocalApps, RemoteApps, RemoteHosts,   \* application and host ids
          ListenApps,         \* the local applications that listen
          LatePackets         \* packets arrive for connections that are closed

WILDCARD == 0
MaxConn  == Cardinality(Conn)   \* bound: MAX_ACTIVE_CONNECTIONS is not reached
NoConn   == 0

Peer     == [local : LocalApps, app : RemoteApps, host : RemoteHosts]
Listener == [local : ListenApps, app : {WILDCARD}, host : {WILDCARD}]
Key      == Peer \union Listener

ASSUME ConnTableAssumption ==
  /\ FlowIdentifiers \subseteq {"src_dst_identifier", "dst_identifiers_only"}
  /\ IsFiniteSet(Conn) /\ NoConn \notin Conn
  /\ WILDCARD \notin RemoteApps \union RemoteHosts
  /\ ListenApps \subseteq LocalApps
  /\ LatePackets \in BOOLEAN

VARIABLES
  flow_identifier,          \* which one: fixed when the protocol is generated
  num_conn,                 \* entries in use
  active_local_app_ids, active_remote_app_ids, active_remote_host_ids,
  active_connections,       \* the arrays of net_state, indexed from 0
  open,                     \* established connections (memory not freed)
  key,                      \* connection -> the ids stored in the object
  closed,                   \* keys of closed connections their peers still use
  aborted                   \* the process ended in nb__assert

table == <<num_conn, active_local_app_ids, active_remote_app_ids,
           active_remote_host_ids, active_connections>>
vars  == <<flow_identifier, table, open, key, closed, aborted>>

Index == 0 .. MaxConn - 1
Used  == {i \in Index : i < num_conn}

\* hook_net_init; net_state comes from malloc, the entries beyond num_conn
\* are never read.
Init ==
  /\ flow_identifier \in FlowIdentifiers
  /\ num_conn = 0
  /\ active_local_app_ids = [i \in Index |-> 0]
  /\ active_remote_app_ids = [i \in Index |-> 0]
  /\ active_remote_host_ids = [i \in Index |-> 0]
  /\ active_connections = [i \in Index |-> NoConn]
  /\ open = {}
  /\ key = [c \in Conn |-> CHOOSE k \in Key : TRUE]
  /\ closed = {}
  /\ aborted = FALSE

(***************************************************************************)
(* Lookups.                                                                *)
(***************************************************************************)
SrcDst == flow_identifier = "src_dst_identifier"

\* Mutant: the remote application is not compared.
MatchNoRemoteApp(i, k) ==
  /\ active_local_app_ids[i] = k.local
  /\ SrcDst => active_remote_host_ids[i] = k.host

match_connection(i, k) ==
  /\ active_local_app_ids[i] = k.local
  /\ SrcDst => /\ active_remote_app_ids[i] = k.app
               /\ active_remote_host_ids[i] = k.host

First(S) == IF S = {} THEN NoConn ELSE active_connections[Min(S)]

retrieve_connection(k) == First({i \in Used : match_connection(i, k)})

retrieve_wildcard_connection(app) ==
  First({i \in Used : /\ active_local_app_ids[i] = app
                      /\ active_remote_app_ids[i] = WILDCARD
                      /\ active_remote_host_ids[i] = WILDCARD})

(***************************************************************************)
(* hook_establish stores the ids in the connection and appends an entry.   *)
(* The callers do not use a key twice: nbp_connect takes a free local      *)
(* port, nb__accept runs for a source that matched no connection.  Only    *)
(* src_dst_identifier has wildcards, so only there is there a listener.    *)
(***************************************************************************)
Clash(k, l) == IF SrcDst THEN k = l ELSE k.local = l.local

hook_establish(c, k) ==
  /\ ~aborted
  /\ c \notin open
  /\ k \in Peer \/ SrcDst
  /\ \A d \in open : ~Clash(key[d], k)
  /\ num_conn' = num_conn + 1
  /\ active_local_app_ids' = [active_local_app_ids EXCEPT ![num_conn] = k.local]
  /\ active_connections' = [active_connections EXCEPT ![num_conn] = c]
  /\ IF SrcDst
     THEN /\ active_remote_app_ids' = [active_remote_app_ids EXCEPT ![num_conn] = k.app]
          /\ active_remote_host_ids' = [active_remote_host_ids EXCEPT ![num_conn] = k.host]
     ELSE UNCHANGED <<active_remote_app_ids, active_remote_host_ids>>
  /\ open' = open \union {c}
  /\ key' = [key EXCEPT ![c] = k]
  /\ UNCHANGED <<flow_identifier, closed, aborted>>

\* Mutants: the gap is closed before the last entry is copied into it; the
\* remote application ids are copied the wrong way round as well.
DeleteNoMove(k) ==
  LET S == {i \in Used : match_connection(i, k)}
  IN  IF S = {}
      THEN UNCHANGED table
      ELSE /\ num_conn' = num_conn - 1
           /\ UNCHANGED <<active_local_app_ids, active_remote_app_ids,
                          active_remote_host_ids, active_connections>>

Move(f, from, to) == [f EXCEPT ![to] = f[from]]

DeleteAppBack(k) ==
  LET S == {i \in Used : match_connection(i, k)}
      i == Min(S)
      total == num_conn - 1
  IN  IF S = {}
      THEN UNCHANGED table
      ELSE /\ num_conn' = total
           /\ active_local_app_ids' = Move(active_local_app_ids, total, i)
           /\ active_connections' = Move(active_connections, total, i)
           /\ active_remote_app_ids' = Move(active_remote_app_ids, i, total)
           /\ active_remote_host_ids' = Move(active_remote_host_ids, i, total)

\* delete_connection: the last entry moves to the index of the first match,
\* but active_remote_host_ids is copied the other way round.
delete_connection(k) ==
  LET S == {i \in Used : match_connection(i, k)}
      i == Min(S)
      total == num_conn - 1
  IN  IF S = {}
      THEN UNCHANGED table
      ELSE /\ num_conn' = total
           /\ active_local_app_ids' = Move(active_local_app_ids, total, i)
           /\ active_connections' = Move(active_connections, total, i)
           /\ IF SrcDst
              THEN /\ active_remote_app_ids' = Move(active_remote_app_ids, total, i)
                   /\ active_remote_host_ids' = Move(active_remote_host_ids, i, total)
              ELSE UNCHANGED <<active_remote_app_ids, active_remote_host_ids>>

\* nb__destablish: the entry that matches the ids in the connection goes, then
\* the connection is freed.
hook_destablish(c) ==
  /\ ~aborted
  /\ c \in open
  /\ delete_connection(key[c])
  /\ open' = open \ {c}
  /\ closed' = IF LatePackets THEN closed \union {key[c]} ELSE closed
  /\ UNCHANGED <<flow_identifier, key, aborted>>

(***************************************************************************)
(* hook_ingress for a packet that names the flow k: a packet of a peer     *)
(* with an open connection, of a new client of a listening application,    *)
(* or (LatePackets) of a peer that still sends to a closed connection.     *)
(* A match hands the packet to the connection, a wildcard match to the     *)
(* accept queue of the listener; with src_dst_identifier anything else is  *)
(* the failed assertion.                                                   *)
(***************************************************************************)
Expected(k) ==
  \/ \E c \in open : key[c] = k
  \/ SrcDst /\ \E c \in open : key[c] = [k EXCEPT !.app = WILDCARD, !.host = WILDCARD]
  \/ k \in closed

hook_ingress(k) ==
  /\ ~aborted
  /\ k \in Peer /\ Expected(k)
  /\ aborted' = (/\ SrcDst
                 /\ retrieve_connection(k) = NoConn
                 /\ retrieve_wildcard_connection(k.local) = NoConn)
  /\ UNCHANGED <<flow_identifier, table, open, key, closed>>

Aborted == aborted /\ UNCHANGED vars

Next ==
  \/ \E c \in Conn : hook_destablish(c) \/ \E k \in Key : hook_establish(c, k)
  \/ \E k \in Peer : hook_ingress(k)
  \/ Aborted

Spec == Init /\ [][Next]_vars

-----------------------------------------------------------------------------
(***************************************************************************)
(* Properties.                                                             *)
(***************************************************************************)

\* A packet of an open connection is handed to that connection, after any
\* sequence of nb__establish and nb__destablish.
LookupFindsOpen == \A c \in open : retrieve_connection(key[c]) = c

\* The table never holds a connection that was freed: nb__cycle_connections
\* and hook_ingress dereference every pointer they find there.
NoDanglingEntry == {active_connections[i] : i \in Used} = open

\* identifier_module.cpp:245 asserts that the lookup of an incoming packet's
\* connection does not fail.
LookupAssertion == ~aborted

\* What the arrays say of entry i; without src_dst_identifier there are no
\* arrays for the remote parts.
StoredKey(i) ==
  [local |-> active_local_app_ids[i],
   app   |-> IF SrcDst THEN active_remote_app_ids[i] ELSE WILDCARD,
   host  |-> IF SrcDst THEN active_remote_host_ids[i] ELSE WILDCARD]

Map == INSTANCE ConnMap WITH
         Key     <- Key \union [local : LocalApps, app : {WILDCARD}, host : {WILDCARD}],
         entries <- {[conn |-> active_connections[i], key |-> StoredKey(i)] : i \in Used}

\* The parallel arrays, read entry by entry, implement a map from connections
\* to keys of their own: compaction drops and duplicates no entry and does not
\* give a connection the ids of another.
ImplementsMap == Map!Spec
=============================================================================
