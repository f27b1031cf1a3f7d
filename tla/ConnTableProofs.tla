--------------------------- MODULE ConnTableProofs ---------------------------
(***************************************************************************)
(* Proofs about module ConnTable.  delete_connection copies the host ids   *)
(* the wrong way round, so the table is only right where that copy cannot  *)
(* be seen: HostsAgree, the hypothesis of the theorems.                    *)
(***************************************************************************)
EXTENDS ConnTable, ArithmeticLemmas, FiniteSetTheorems, TLAPS

\* The protocol does not store host ids, or all flows have the same one: an
\* endpoint that talks to one host and does not listen.
HostsAgree ==
  "src_dst_identifier" \in FlowIdentifiers => \A k, l \in Key : k.host = l.host

(***************************************************************************)
(* The inductive invariant: the entries in use and the open connections    *)
(* are in bijection, each entry has the ids of its connection, and no two  *)
(* open connections answer to the same packets.                            *)
(***************************************************************************)
ArraysOK ==
  /\ flow_identifier \in FlowIdentifiers
  /\ open \subseteq Conn
  /\ num_conn = Cardinality(open)
  /\ DOMAIN key = Conn /\ \A c \in open : key[c] \in Key
  /\ key = [c \in Conn |-> key[c]]
  /\ active_connections \in [Index -> Conn \union {NoConn}]
  /\ active_local_app_ids \in [Index -> LocalApps \union {0}]
  /\ active_remote_app_ids \in [Index -> RemoteApps \union {0}]
  /\ active_remote_host_ids \in [Index -> RemoteHosts \union {0}]

EntryOK(i) ==
  /\ active_connections[i] \in open
  /\ active_local_app_ids[i] = key[active_connections[i]].local
  /\ SrcDst => /\ active_remote_app_ids[i] = key[active_connections[i]].app
               /\ active_remote_host_ids[i] = key[active_connections[i]].host

EntriesOK == \A i \in Used : EntryOK(i)

BijectionOK ==
  /\ \A c \in open : \E i \in Used : active_connections[i] = c
  /\ \A i, j \in Used : active_connections[i] = active_connections[j] => i = j

KeysOK == \A c, d \in open : Clash(key[c], key[d]) => c = d

IndInv == ArraysOK /\ EntriesOK /\ BijectionOK /\ KeysOK

-----------------------------------------------------------------------------
\* The number of entries in use is a number of connections.
LEMMA CountFacts ==
  ASSUME ArraysOK
  PROVE  /\ MaxConn \in Nat /\ num_conn \in Nat /\ num_conn <= MaxConn
         /\ IsFiniteSet(open)
         /\ \A c \in Conn \ open : num_conn < MaxConn
  <1>1. IsFiniteSet(Conn) /\ open \in SUBSET Conn
    BY ConnTableAssumption DEF ArraysOK
  <1>2. /\ IsFiniteSet(open) /\ Cardinality(open) <= Cardinality(Conn)
        /\ Cardinality(Conn) = Cardinality(open) => Conn = open
    BY <1>1, FS_Subset
  <1>3. Cardinality(Conn) \in Nat /\ Cardinality(open) \in Nat
    BY <1>1, <1>2, FS_CardinalityType
  <1> QED BY <1>2, <1>3 DEF ArraysOK, MaxConn

\* Keys with the same parts are equal.
LEMMA KeyEquality ==
  ASSUME NEW k \in Key, NEW l \in Key,
         k.local = l.local, k.app = l.app, k.host = l.host
  PROVE  k = l
  BY DEF Key, Peer, Listener

\* match_connection finds the entry of a connection and no other.
LEMMA MatchIsEntry ==
  ASSUME IndInv, NEW c \in open, NEW i \in Used
  PROVE  match_connection(i, key[c]) <=> active_connections[i] = c
  <1> DEFINE d == active_connections[i]
  <1>1. EntryOK(i)
    BY DEF IndInv, EntriesOK
  <1>2. d \in open /\ key[c] \in Key /\ key[d] \in Key
    BY <1>1 DEF EntryOK, IndInv, ArraysOK
  <1>3. ASSUME match_connection(i, key[c]) PROVE d = c
    <2>1. Clash(key[d], key[c])
      BY <1>1, <1>2, <1>3, KeyEquality DEF EntryOK, match_connection, Clash
    <2> QED BY <1>2, <2>1 DEF IndInv, KeysOK
  <1>4. ASSUME d = c PROVE match_connection(i, key[c])
    BY <1>1, <1>4 DEF EntryOK, match_connection
  <1> QED BY <1>3, <1>4

\* The search stops at the entry of the connection.
LEMMA SearchFinds ==
  ASSUME IndInv, NEW c \in open
  PROVE  \E i \in Used : /\ active_connections[i] = c
                         /\ {j \in Used : match_connection(j, key[c])} = {i}
                         /\ Min({i}) = i
  <1>1. PICK i \in Used : active_connections[i] = c
    BY DEF IndInv, BijectionOK
  <1>2. \A j \in Used : match_connection(j, key[c]) <=> j = i
    BY <1>1, MatchIsEntry DEF IndInv, BijectionOK
  <1>3. {j \in Used : match_connection(j, key[c])} = {i}
    BY <1>2
  <1>4. i \in Nat
    BY DEF Used, Index
  <1>5. Min({i}) \in {i}
    BY <1>4, MinProperties
  <1> QED BY <1>1, <1>3, <1>5

\* hook_net_init sets the invariant up.
LEMMA InitInv == Init => IndInv
  <1> SUFFICES ASSUME Init PROVE IndInv
    OBVIOUS
  <1>1. Cardinality({}) = 0
    BY FS_EmptySet
  <1>2. ArraysOK
    BY <1>1 DEF Init, ArraysOK
  <1>3. Used = {}
    BY DEF Used, Index, Init
  <1> QED BY <1>2, <1>3 DEF IndInv, EntriesOK, BijectionOK, KeysOK, Init

\* hook_establish appends an entry.
LEMMA EstablishStep ==
  ASSUME IndInv, NEW c \in Conn, NEW k \in Key, hook_establish(c, k)
  PROVE  IndInv'
  <1>1. /\ c \notin open /\ num_conn \in Nat /\ num_conn < MaxConn /\ MaxConn \in Nat
        /\ IsFiniteSet(open)
    BY CountFacts DEF IndInv, hook_establish
  <1>2. num_conn \in Index /\ num_conn \notin Used
    BY <1>1 DEF Index, Used
  <1>3. Used' = Used \union {num_conn}
    BY <1>1 DEF Used, Index, hook_establish
  <1>4. SrcDst' = SrcDst /\ open' = open \union {c} /\ key' = [key EXCEPT ![c] = k]
    BY DEF hook_establish, SrcDst
  <1>5. /\ key'[c] = k /\ \A d \in open : key'[d] = key[d]
    BY <1>1, <1>4 DEF IndInv, ArraysOK
  <1>6. ArraysOK'
    <2>1. num_conn' = Cardinality(open')
      BY <1>1, <1>4, FS_AddElement DEF IndInv, ArraysOK, hook_establish
    <2>2. k.local \in LocalApps /\ k.app \in RemoteApps \union {0} /\ k.host \in RemoteHosts \union {0}
      BY ConnTableAssumption DEF Key, Peer, Listener, WILDCARD
    <2>3. /\ active_connections' \in [Index -> Conn \union {NoConn}]
          /\ active_local_app_ids' \in [Index -> LocalApps \union {0}]
      BY <1>2, <2>2 DEF IndInv, ArraysOK, hook_establish
    <2>4. /\ active_remote_app_ids' \in [Index -> RemoteApps \union {0}]
          /\ active_remote_host_ids' \in [Index -> RemoteHosts \union {0}]
      BY <1>2, <2>2 DEF IndInv, ArraysOK, hook_establish
    <2>5. flow_identifier' \in FlowIdentifiers /\ open' \subseteq Conn
      BY <1>4 DEF IndInv, ArraysOK, hook_establish
    <2>6. /\ DOMAIN key' = Conn /\ key' = [d \in Conn |-> key'[d]]
      BY <1>4 DEF IndInv, ArraysOK
    <2>7. \A d \in open' : key'[d] \in Key
      BY <1>4, <1>5 DEF IndInv, ArraysOK
    <2> QED BY <2>1, <2>3, <2>4, <2>5, <2>6, <2>7 DEF ArraysOK
  <1>7. /\ active_connections'[num_conn] = c
        /\ active_local_app_ids'[num_conn] = k.local
        /\ SrcDst => /\ active_remote_app_ids'[num_conn] = k.app
                     /\ active_remote_host_ids'[num_conn] = k.host
    BY <1>2 DEF IndInv, ArraysOK, hook_establish
  <1>8. \A i \in Used : /\ active_connections'[i] = active_connections[i]
                        /\ active_local_app_ids'[i] = active_local_app_ids[i]
                        /\ active_remote_app_ids'[i] = active_remote_app_ids[i]
                        /\ active_remote_host_ids'[i] = active_remote_host_ids[i]
    BY <1>2 DEF IndInv, ArraysOK, hook_establish, Used
  <1>9. EntriesOK'
    <2>1. ASSUME NEW i \in Used PROVE EntryOK(i)'
      <3>1. EntryOK(i)
        BY DEF IndInv, EntriesOK
      <3> QED BY <1>4, <1>5, <1>8, <3>1 DEF EntryOK
    <2>2. ASSUME NEW i \in Used', i = num_conn PROVE EntryOK(i)'
      BY <1>4, <1>5, <1>7, <2>2 DEF EntryOK
    <2> QED BY <1>3, <2>1, <2>2 DEF EntriesOK
  <1>10. BijectionOK'
    <2>1. \A i \in Used : active_connections'[i] = active_connections[i] /\ active_connections[i] \in open
      BY <1>8 DEF IndInv, EntriesOK, EntryOK
    <2>2. \A d \in open' : \E i \in Used' : active_connections'[i] = d
      BY <1>3, <1>4, <1>7, <2>1 DEF IndInv, BijectionOK
    <2>3. \A i, j \in Used' : active_connections'[i] = active_connections'[j] => i = j
      BY <1>1, <1>3, <1>7, <2>1 DEF IndInv, BijectionOK
    <2> QED BY <2>2, <2>3 DEF BijectionOK
  <1>11. KeysOK'
    <2>1. \A d \in open : ~Clash(key[d], k) /\ ~Clash(k, key[d])
      BY DEF hook_establish, Clash
    <2>2. \A x, y : Clash(x, y)' <=> (IF SrcDst THEN x = y ELSE x.local = y.local)
      BY <1>4 DEF Clash
    <2>3. \A x, y : Clash(x, y) <=> (IF SrcDst THEN x = y ELSE x.local = y.local)
      BY DEF Clash
    <2>4. \A d, e \in open : Clash(key[d], key[e]) => d = e
      BY DEF IndInv, KeysOK
    <2> SUFFICES ASSUME NEW d \in open', NEW e \in open', Clash(key[d], key[e])' PROVE d = e
      BY DEF KeysOK
    <2>5. IF SrcDst THEN key'[d] = key'[e] ELSE key'[d].local = key'[e].local
      BY <1>4 DEF Clash
    <2> QED BY <1>4, <1>5, <2>1, <2>3, <2>4, <2>5
  <1> QED BY <1>6, <1>9, <1>10, <1>11 DEF IndInv

\* hook_destablish moves the last entry into the gap.
LEMMA DestablishStep ==
  ASSUME HostsAgree, IndInv, NEW c \in Conn, hook_destablish(c)
  PROVE  IndInv'
  <1>1. c \in open /\ delete_connection(key[c]) /\ open' = open \ {c} /\ key' = key /\ SrcDst' = SrcDst
        /\ flow_identifier' = flow_identifier
    BY DEF hook_destablish, SrcDst
  <1>2. PICK g \in Used : /\ active_connections[g] = c
                          /\ {j \in Used : match_connection(j, key[c])} = {g}
                          /\ Min({g}) = g
    BY <1>1, SearchFinds
  <1> DEFINE total == num_conn - 1
  <1>3. /\ num_conn \in Nat /\ num_conn <= MaxConn /\ MaxConn \in Nat /\ IsFiniteSet(open)
        /\ g \in Nat /\ g < num_conn
    BY CountFacts DEF IndInv, Used, Index
  <1>4. /\ num_conn' = total
        /\ active_local_app_ids' = Move(active_local_app_ids, total, g)
        /\ active_connections' = Move(active_connections, total, g)
        /\ IF SrcDst
           THEN /\ active_remote_app_ids' = Move(active_remote_app_ids, total, g)
                /\ active_remote_host_ids' = Move(active_remote_host_ids, g, total)
           ELSE UNCHANGED <<active_remote_app_ids, active_remote_host_ids>>
    <2>1. {g} # {}
      OBVIOUS
    <2> QED BY <1>1, <1>2, <2>1 DEF delete_connection
  <1>5. total \in Used /\ total \in Index /\ g \in Index /\ total \in Nat
    BY <1>3 DEF Used, Index
  <1>6. Used' = Used \ {total}
    BY <1>3, <1>4 DEF Used, Index
  <1>7. ArraysOK'
    <2>1. num_conn' = Cardinality(open')
      BY <1>1, <1>3, <1>4, FS_RemoveElement DEF IndInv, ArraysOK
    <2>2. /\ active_connections' \in [Index -> Conn \union {NoConn}]
          /\ active_local_app_ids' \in [Index -> LocalApps \union {0}]
      BY <1>4, <1>5 DEF IndInv, ArraysOK, Move
    <2>3. /\ active_remote_app_ids' \in [Index -> RemoteApps \union {0}]
          /\ active_remote_host_ids' \in [Index -> RemoteHosts \union {0}]
      BY <1>4, <1>5 DEF IndInv, ArraysOK, Move
    <2> QED BY <1>1, <2>1, <2>2, <2>3 DEF IndInv, ArraysOK
  <1>8. /\ active_connections'[g] = active_connections[total]
        /\ active_local_app_ids'[g] = active_local_app_ids[total]
        /\ SrcDst => active_remote_app_ids'[g] = active_remote_app_ids[total]
    BY <1>4, <1>5 DEF IndInv, ArraysOK, Move
  <1>9. \A i \in Used : i # g => /\ active_connections'[i] = active_connections[i]
                                 /\ active_local_app_ids'[i] = active_local_app_ids[i]
                                 /\ SrcDst => active_remote_app_ids'[i] = active_remote_app_ids[i]
    BY <1>4, <1>5 DEF IndInv, ArraysOK, Move, Used
  <1>10. \A i \in Used' : SrcDst => active_remote_host_ids'[i] = active_remote_host_ids[i]
    BY <1>4, <1>5, <1>6 DEF IndInv, ArraysOK, Move, Used
  <1>11. EntryOK(total) /\ EntryOK(g)
    BY <1>5 DEF IndInv, EntriesOK
  <1>12. \A i \in Used' : i \in Used /\ i # total
    BY <1>6
  <1>13. \A i \in Used : active_connections[i] = c => i = g
    BY <1>2 DEF IndInv, BijectionOK
  <1>14. EntriesOK'
    <2>1. ASSUME NEW i \in Used', i # g PROVE EntryOK(i)'
      <3>1. EntryOK(i) /\ i \in Used /\ active_connections[i] # c
        BY <1>12, <1>13, <2>1 DEF IndInv, EntriesOK
      <3> QED BY <1>1, <1>9, <1>10, <2>1, <3>1 DEF EntryOK
    <2>2. ASSUME NEW i \in Used', i = g PROVE EntryOK(i)'
      <3> DEFINE d == active_connections[total]
      <3>1. d # c /\ d \in open
        BY <1>5, <1>11, <1>12, <1>13, <2>2 DEF EntryOK
      <3>2. SrcDst => key[c].host = key[d].host
        <4>1. key[c] \in Key /\ key[d] \in Key
          BY <1>1, <3>1 DEF IndInv, ArraysOK
        <4>2. SrcDst => "src_dst_identifier" \in FlowIdentifiers
          BY DEF SrcDst, IndInv, ArraysOK
        <4> QED BY <4>1, <4>2 DEF HostsAgree
      <3>3. SrcDst => active_remote_host_ids'[i] = key[d].host
        BY <1>2, <1>10, <1>11, <2>2, <3>2 DEF EntryOK
      <3> QED BY <1>1, <1>8, <1>11, <2>2, <3>1, <3>3 DEF EntryOK
    <2> QED BY <2>1, <2>2 DEF EntriesOK
  <1>15. BijectionOK'
    <2>1. ASSUME NEW d \in open' PROVE \E i \in Used' : active_connections'[i] = d
      <3>1. PICK i \in Used : active_connections[i] = d
        BY <1>1 DEF IndInv, BijectionOK
      <3>2. i # g
        BY <1>1, <1>2, <3>1
      <3>3. CASE i = total
        <4>1. g \in Used'
          BY <1>6, <3>2, <3>3
        <4> QED BY <1>8, <3>1, <3>3, <4>1
      <3>4. CASE i # total
        <4>1. i \in Used'
          BY <1>6, <3>4
        <4> QED BY <1>9, <3>1, <3>2, <4>1
      <3> QED BY <3>3, <3>4
    <2>2. ASSUME NEW i \in Used', NEW j \in Used',
                 active_connections'[i] = active_connections'[j]
          PROVE  i = j
      <3>1. \A x, y \in Used : active_connections[x] = active_connections[y] => x = y
        BY DEF IndInv, BijectionOK
      <3> QED BY <1>5, <1>8, <1>9, <1>12, <2>2, <3>1
    <2> QED BY <2>1, <2>2 DEF BijectionOK
  <1>16. KeysOK'
    BY <1>1 DEF IndInv, KeysOK, Clash, SrcDst
  <1> QED BY <1>7, <1>14, <1>15, <1>16 DEF IndInv

\* A step that leaves the table, the connections and their keys alone.
LEMMA TableUnchanged ==
  ASSUME IndInv, UNCHANGED <<flow_identifier, table, open, key>>
  PROVE  IndInv'
  <1> USE DEF table
  <1>1. Used' = Used /\ SrcDst' = SrcDst
    BY DEF Used, SrcDst
  <1>2. ArraysOK'
    BY DEF IndInv, ArraysOK
  <1>3. EntriesOK' /\ BijectionOK'
    BY <1>1 DEF IndInv, EntriesOK, EntryOK, BijectionOK
  <1>4. KeysOK'
    BY <1>1 DEF IndInv, KeysOK, Clash
  <1> QED BY <1>2, <1>3, <1>4 DEF IndInv

\* Every step preserves the invariant.
LEMMA StepInv ==
  ASSUME HostsAgree
  PROVE  IndInv /\ [Next]_vars => IndInv'
  <1> SUFFICES ASSUME IndInv, [Next]_vars PROVE IndInv'
    OBVIOUS
  <1>1. ASSUME NEW c \in Conn, hook_destablish(c) PROVE IndInv'
    BY <1>1, DestablishStep
  <1>2. ASSUME NEW c \in Conn, NEW k \in Key, hook_establish(c, k) PROVE IndInv'
    BY <1>2, EstablishStep
  <1>3. ASSUME NEW k \in Peer, hook_ingress(k) PROVE IndInv'
    BY <1>3, TableUnchanged DEF hook_ingress
  <1>4. CASE Aborted \/ UNCHANGED vars
    BY <1>4, TableUnchanged DEF Aborted, vars
  <1> QED BY <1>1, <1>2, <1>3, <1>4 DEF Next

-----------------------------------------------------------------------------
\* The entries of the table and the open connections stay in bijection.
THEOREM ConnTableInvariant ==
  ASSUME HostsAgree
  PROVE  Spec => []IndInv
  <1>1. IndInv /\ [Next]_vars => IndInv'
    BY StepInv
  <1> QED BY <1>1, InitInv, PTL DEF Spec

\* The lookup of hook_ingress hands a packet of an open connection to that
\* connection.
LEMMA LookupIsRight ==
  ASSUME IndInv, NEW c \in open
  PROVE  retrieve_connection(key[c]) = c
  <1>1. PICK i \in Used : /\ active_connections[i] = c
                          /\ {j \in Used : match_connection(j, key[c])} = {i}
                          /\ Min({i}) = i
    BY SearchFinds
  <1>2. {i} # {}
    OBVIOUS
  <1> QED BY <1>1, <1>2 DEF retrieve_connection, First

\* A packet of an open connection finds it, after any sequence of
\* nb__establish and nb__destablish.
THEOREM ConnTableLookup ==
  ASSUME HostsAgree
  PROVE  Spec => []LookupFindsOpen
  <1>1. IndInv => LookupFindsOpen
    BY LookupIsRight DEF LookupFindsOpen
  <1> QED BY <1>1, ConnTableInvariant, PTL

\* The table never holds a connection that nb__destablish freed.
THEOREM ConnTableNoDangling ==
  ASSUME HostsAgree
  PROVE  Spec => []NoDanglingEntry
  <1>1. IndInv => NoDanglingEntry
    BY DEF IndInv, EntriesOK, EntryOK, BijectionOK, NoDanglingEntry
  <1> QED BY <1>1, ConnTableInvariant, PTL

\* The assertion of hook_ingress holds when no packet arrives for a closed
\* connection: the lookup itself never loses one.
THEOREM ConnTableAssertion ==
  ASSUME HostsAgree, ~LatePackets
  PROVE  Spec => []LookupAssertion
  <1> DEFINE Quiet == closed = {} /\ ~aborted
  <1>1. Init => Quiet
    BY DEF Init
  <1>2. IndInv /\ Quiet /\ [Next]_vars => Quiet'
    <2> SUFFICES ASSUME IndInv, Quiet, [Next]_vars PROVE Quiet'
      OBVIOUS
    <2>1. ASSUME NEW c \in Conn, hook_destablish(c) PROVE Quiet'
      BY <2>1 DEF hook_destablish
    <2>2. ASSUME NEW c \in Conn, NEW k \in Key, hook_establish(c, k) PROVE Quiet'
      BY <2>2 DEF hook_establish
    <2>3. ASSUME NEW k \in Peer, hook_ingress(k) PROVE Quiet'
      <3>1. CASE ~SrcDst
        BY <2>3, <3>1 DEF hook_ingress
      <3>2. CASE SrcDst
        <4>1. "src_dst_identifier" \in FlowIdentifiers
          BY <3>2 DEF SrcDst, IndInv, ArraysOK
        <4>2. k.host # WILDCARD /\ k \in Key
          BY ConnTableAssumption DEF Peer, Key
        <4>3. \A c \in open : key[c] # [k EXCEPT !.app = WILDCARD, !.host = WILDCARD]
          <5> SUFFICES ASSUME NEW c \in open,
                              key[c] = [k EXCEPT !.app = WILDCARD, !.host = WILDCARD]
                       PROVE  FALSE
            OBVIOUS
          <5>1. key[c] \in Key
            BY DEF IndInv, ArraysOK
          <5>2. key[c].host = WILDCARD
            BY DEF Peer
          <5> QED BY <4>1, <4>2, <5>1, <5>2 DEF HostsAgree
        <4>4. PICK c \in open : key[c] = k
          BY <2>3, <4>3 DEF hook_ingress, Expected
        <4>5. retrieve_connection(k) = c /\ c # NoConn
          BY <4>4, LookupIsRight, ConnTableAssumption DEF IndInv, ArraysOK
        <4> QED BY <2>3, <4>5 DEF hook_ingress
      <3> QED BY <3>1, <3>2
    <2>4. CASE Aborted \/ UNCHANGED vars
      BY <2>4 DEF Aborted, vars
    <2> QED BY <2>1, <2>2, <2>3, <2>4 DEF Next
  <1>3. Quiet => LookupAssertion
    BY DEF LookupAssertion
  <1> HIDE DEF Quiet
  <1> QED BY <1>1, <1>2, <1>3, ConnTableInvariant, PTL DEF Spec

-----------------------------------------------------------------------------
\* The entries of the abstract map, as the arrays give them, and its keys.
Entries == {[conn |-> active_connections[i], key |-> StoredKey(i)] : i \in Used}
MapKey == Key \union [local : LocalApps, app : {WILDCARD}, host : {WILDCARD}]

\* What the table can tell of a key: without src_dst_identifier only the local
\* application.
Stored(k) == IF SrcDst THEN k ELSE [local |-> k.local, app |-> WILDCARD, host |-> WILDCARD]

\* Two keys that differ in the table do not clash, and the other way round.
LEMMA StoredClash ==
  ASSUME NEW k \in Key, NEW l \in Key
  PROVE  /\ Stored(k) \in MapKey
         /\ Stored(k) = Stored(l) <=> Clash(k, l)
  <1>1. k.local \in LocalApps
    BY ConnTableAssumption DEF Key, Peer, Listener
  <1>2. CASE SrcDst
    BY <1>2 DEF Stored, Clash, MapKey
  <1>3. CASE ~SrcDst
    <2> DEFINE r(j) == [local |-> j.local, app |-> WILDCARD, host |-> WILDCARD]
    <2>1. Stored(k) = r(k) /\ Stored(l) = r(l)
      BY <1>3 DEF Stored
    <2>2. r(k).local = k.local /\ r(l).local = l.local
      OBVIOUS
    <2>3. r(k) = r(l) <=> k.local = l.local
      BY <2>2
    <2> QED BY <1>1, <1>3, <2>1, <2>3 DEF Clash, MapKey
  <1> QED BY <1>2, <1>3

\* An entry of the table reads as the key of its connection.
LEMMA StoredKeyIsKey ==
  ASSUME IndInv, NEW i \in Used
  PROVE  active_connections[i] \in open /\ StoredKey(i) = Stored(key[active_connections[i]])
  <1> DEFINE k == key[active_connections[i]]
  <1>1. EntryOK(i)
    BY DEF IndInv, EntriesOK
  <1>2. k \in Key
    BY <1>1 DEF EntryOK, IndInv, ArraysOK
  <1>3. k = [local |-> k.local, app |-> k.app, host |-> k.host]
    BY <1>2 DEF Key, Peer, Listener
  <1> QED BY <1>1, <1>3 DEF EntryOK, StoredKey, Stored

\* The table stands for the open connections and their keys.
LEMMA EntriesAreOpen ==
  IndInv => Entries = {[conn |-> c, key |-> Stored(key[c])] : c \in open}
  <1> SUFFICES ASSUME IndInv
               PROVE  Entries = {[conn |-> c, key |-> Stored(key[c])] : c \in open}
    OBVIOUS
  <1>1. \A i \in Used : /\ active_connections[i] \in open
                       /\ StoredKey(i) = Stored(key[active_connections[i]])
    BY StoredKeyIsKey
  <1>2. \A c \in open : \E i \in Used : active_connections[i] = c
    BY DEF IndInv, BijectionOK
  <1> QED BY <1>1, <1>2 DEF Entries

\* ... in the next state too.
LEMMA EntriesAreOpenNext ==
  IndInv' => (Entries = {[conn |-> c, key |-> Stored(key[c])] : c \in open})'
  BY EntriesAreOpen, PTL

\* Every step is a step of the map or leaves it alone.
LEMMA StepImplementsMap ==
  ASSUME HostsAgree, IndInv, IndInv', [Next]_vars
  PROVE  [Map!Next]_Entries
  <1>1. /\ Entries = {[conn |-> c, key |-> Stored(key[c])] : c \in open}
        /\ Entries' = {[conn |-> c, key |-> Stored(key'[c])] : c \in open'}
    <2>1. Entries = {[conn |-> c, key |-> Stored(key[c])] : c \in open}
      BY EntriesAreOpen
    <2>2. (Entries = {[conn |-> c, key |-> Stored(key[c])] : c \in open})'
      BY EntriesAreOpenNext
    <2>3. SrcDst' = SrcDst
      BY DEF SrcDst, Next, hook_establish, hook_destablish, hook_ingress, Aborted, vars
    <2> QED BY <2>1, <2>2, <2>3 DEF Stored
  <1>2. {e.conn : e \in Entries} = open
    <2>1. ASSUME NEW c \in open PROVE c \in {e.conn : e \in Entries}
      <3> DEFINE e == [conn |-> c, key |-> Stored(key[c])]
      <3>1. e \in Entries /\ e.conn = c
        BY <1>1
      <3> QED BY <3>1
    <2>2. ASSUME NEW e \in Entries PROVE e.conn \in open
      BY <1>1
    <2> QED BY <2>1, <2>2
  <1>3. ASSUME NEW c \in Conn, hook_destablish(c) PROVE Map!Delete(c)
    <2>1. c \in open /\ open' = open \ {c} /\ key' = key
      BY <1>3 DEF hook_destablish
    <2>2. Entries' = {e \in Entries : e.conn # c}
      BY <1>1, <2>1
    <2> QED BY <1>2, <2>1, <2>2 DEF Map!Delete, Map!Established, Entries
  <1>4. ASSUME NEW c \in Conn, NEW k \in Key, hook_establish(c, k)
        PROVE  \E l \in MapKey : Map!Add(c, l)
    <2>1. c \notin open /\ open' = open \union {c} /\ key' = [key EXCEPT ![c] = k]
      BY <1>4 DEF hook_establish
    <2>2. key'[c] = k /\ \A d \in open : key'[d] = key[d]
      BY <2>1 DEF IndInv, ArraysOK
    <2>3. Entries' = Entries \union {[conn |-> c, key |-> Stored(k)]}
      BY <1>1, <2>1, <2>2
    <2>4. ASSUME NEW e \in Entries PROVE e.key # Stored(k)
      <3>1. PICK d \in open : e = [conn |-> d, key |-> Stored(key[d])]
        BY <1>1
      <3>2. key[d] \in Key /\ ~Clash(key[d], k)
        BY <1>4 DEF hook_establish, IndInv, ArraysOK
      <3> QED BY <3>1, <3>2, StoredClash
    <2>5. PICK l \in MapKey : l = Stored(k)
      BY StoredClash
    <2>6. Map!Add(c, l)
      BY <1>2, <2>1, <2>3, <2>4, <2>5 DEF Map!Add, Map!Established, Entries
    <2> QED BY <2>6
  <1>5. ASSUME NEW k \in Peer, hook_ingress(k) PROVE Entries' = Entries
    BY <1>1, <1>5 DEF hook_ingress
  <1>6. CASE Aborted \/ UNCHANGED vars
    BY <1>1, <1>6 DEF Aborted, vars
  <1>7. ASSUME NEW c \in Conn, NEW k \in Key, hook_establish(c, k) PROVE Map!Next
    <2>1. \E l \in MapKey : Map!Add(c, l)
      BY <1>4, <1>7
    <2> QED BY <2>1, Zenon DEF Map!Next, MapKey
  <1>8. ASSUME NEW c \in Conn, hook_destablish(c) PROVE Map!Next
    BY <1>3, <1>8, Zenon DEF Map!Next
  <1> QED BY <1>5, <1>6, <1>7, <1>8 DEF Next

\* The arrays of net_state implement a map from connections to keys.
THEOREM ConnTableImplementsMap ==
  ASSUME HostsAgree
  PROVE  Spec => ImplementsMap
  <1>1. Init => Entries = {}
    BY DEF Init, Entries, Used, Index
  <1>2. IndInv /\ IndInv' /\ [Next]_vars => [Map!Next]_Entries
    BY StepImplementsMap
  <1> QED BY <1>1, <1>2, ConnTableInvariant, PTL
          DEF Spec, ImplementsMap, Map!Spec, Map!Init, Entries
=============================================================================
