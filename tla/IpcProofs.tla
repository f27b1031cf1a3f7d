----------------------------- MODULE IpcProofs ------------------------------
(***************************************************************************)
(* Proofs about module Ipc, for any number of stations, senders and        *)
(* packets: first what "comes before" means in the sequences the sockets   *)
(* are, then one lemma per group of actions that it preserves IndInv, then *)
(* the theorems and the refinement of IpcMedium.                           *)
(***************************************************************************)
EXTENDS Ipc, SequenceTheorems, TLAPS

(***************************************************************************)
(* Order in a sequence.                                                    *)
(***************************************************************************)

\* x stands before y in the sequence q.
Precedes(q, x, y) == \E j, k \in 1 .. Len(q) : j < k /\ q[j] = x /\ q[k] = y

\* What stands in a sequence, and before what, after an element is appended.
LEMMA AppendOrder ==
  ASSUME NEW S, NEW q \in Seq(S), NEW e \in S
  PROVE  /\ Append(q, e) \in Seq(S)
         /\ Range(Append(q, e)) = Range(q) \union {e}
         /\ \A x, y : Precedes(Append(q, e), x, y) <=>
                        Precedes(q, x, y) \/ (x \in Range(q) /\ y = e)
  <1>1. /\ Append(q, e) \in Seq(S) /\ Len(q) \in Nat
        /\ Len(Append(q, e)) = Len(q) + 1
        /\ \A k \in 1 .. Len(q) : Append(q, e)[k] = q[k]
        /\ Append(q, e)[Len(q) + 1] = e
    BY AppendProperties, LenProperties
  <1>2. Range(q) = {q[k] : k \in 1 .. Len(q)}
        /\ Range(Append(q, e)) = {Append(q, e)[k] : k \in 1 .. Len(Append(q, e))}
    BY <1>1, RangeEquality
  <1>3. Range(Append(q, e)) = Range(q) \union {e}
    BY <1>1, <1>2
  <1>4. ASSUME NEW x, NEW y, Precedes(Append(q, e), x, y)
        PROVE  Precedes(q, x, y) \/ (x \in Range(q) /\ y = e)
    BY <1>1, <1>2, <1>4 DEF Precedes
  <1>5. ASSUME NEW x, NEW y, Precedes(q, x, y) PROVE Precedes(Append(q, e), x, y)
    BY <1>1, <1>5 DEF Precedes
  <1>6. ASSUME NEW x, NEW y, x \in Range(q), y = e PROVE Precedes(Append(q, e), x, y)
    BY <1>1, <1>2, <1>6 DEF Precedes
  <1> QED BY <1>1, <1>3, <1>4, <1>5, <1>6

\* The same for two sequences one after the other.
LEMMA ConcatOrder ==
  ASSUME NEW S, NEW q \in Seq(S), NEW t \in Seq(S)
  PROVE  /\ q \o t \in Seq(S)
         /\ Range(q \o t) = Range(q) \union Range(t)
         /\ \A x, y : Precedes(q \o t, x, y) =>
                        \/ Precedes(q, x, y) \/ Precedes(t, x, y)
                        \/ x \in Range(q) /\ y \in Range(t)
  <1>1. /\ q \o t \in Seq(S) /\ Len(q) \in Nat /\ Len(t) \in Nat
        /\ Len(q \o t) = Len(q) + Len(t)
        /\ \A k \in 1 .. Len(q) + Len(t) :
             (q \o t)[k] = IF k <= Len(q) THEN q[k] ELSE t[k - Len(q)]
    BY ConcatProperties, LenProperties
  <1>2. Range(q) = {q[k] : k \in 1 .. Len(q)} /\ Range(t) = {t[k] : k \in 1 .. Len(t)}
    BY RangeEquality
  <1>3. Range(q \o t) = Range(q) \union Range(t)
    BY RangeConcatenation
  <1>4. ASSUME NEW x, NEW y, Precedes(q \o t, x, y)
        PROVE  \/ Precedes(q, x, y) \/ Precedes(t, x, y)
               \/ x \in Range(q) /\ y \in Range(t)
    <2>1. PICK j, k \in 1 .. Len(q) + Len(t) : j < k /\ (q \o t)[j] = x /\ (q \o t)[k] = y
      BY <1>1, <1>4 DEF Precedes
    <2>2. CASE k <= Len(q)
      BY <1>1, <2>1, <2>2 DEF Precedes
    <2>3. CASE j > Len(q)
      <3>1. j - Len(q) \in 1 .. Len(t) /\ k - Len(q) \in 1 .. Len(t) /\ j - Len(q) < k - Len(q)
        BY <1>1, <2>1, <2>3
      <3>2. t[j - Len(q)] = x /\ t[k - Len(q)] = y
        BY <1>1, <2>1, <2>3
      <3> QED BY <3>1, <3>2 DEF Precedes
    <2>4. CASE j <= Len(q) /\ k > Len(q)
      BY <1>1, <1>2, <2>1, <2>4
    <2> QED BY <1>1, <2>1, <2>2, <2>3, <2>4
  <1> QED BY <1>1, <1>3, <1>4

\* The same for what is left after the first element is taken.
LEMMA TailOrder ==
  ASSUME NEW S, NEW q \in Seq(S), q # << >>
  PROVE  /\ Tail(q) \in Seq(S) /\ Head(q) \in S
         /\ Range(q) = {Head(q)} \union Range(Tail(q))
         /\ \A x, y : Precedes(Tail(q), x, y) => Precedes(q, x, y)
         /\ \A y \in Range(Tail(q)) : Precedes(q, Head(q), y)
  <1>1. /\ Tail(q) \in Seq(S) /\ Head(q) \in S /\ Len(q) \in Nat \ {0}
        /\ Len(Tail(q)) = Len(q) - 1 /\ Head(q) = q[1]
        /\ \A k \in 1 .. Len(q) - 1 : Tail(q)[k] = q[k + 1]
    BY HeadTailProperties, EmptySeq
  <1>2. Range(q) = {q[k] : k \in 1 .. Len(q)}
        /\ Range(Tail(q)) = {Tail(q)[k] : k \in 1 .. Len(Tail(q))}
    BY <1>1, RangeEquality
  <1>3. Range(q) \subseteq {Head(q)} \union Range(Tail(q))
    <2> SUFFICES ASSUME NEW k \in 1 .. Len(q) PROVE q[k] \in {q[1]} \union Range(Tail(q))
      BY <1>1, <1>2
    <2>1. CASE k = 1
      BY <2>1
    <2>2. CASE k # 1
      <3>1. k - 1 \in 1 .. Len(q) - 1 /\ Tail(q)[k - 1] = q[k]
        BY <1>1, <2>2
      <3> QED BY <1>1, <1>2, <3>1
    <2> QED BY <2>1, <2>2
  <1>4. {Head(q)} \union Range(Tail(q)) \subseteq Range(q)
    BY <1>1, <1>2
  <1>5. ASSUME NEW x, NEW y, Precedes(Tail(q), x, y) PROVE Precedes(q, x, y)
    <2>1. PICK j, k \in 1 .. Len(q) - 1 : j < k /\ Tail(q)[j] = x /\ Tail(q)[k] = y
      BY <1>1, <1>5 DEF Precedes
    <2>2. j + 1 \in 1 .. Len(q) /\ k + 1 \in 1 .. Len(q) /\ j + 1 < k + 1
          /\ q[j + 1] = x /\ q[k + 1] = y
      BY <1>1, <2>1
    <2> QED BY <2>2 DEF Precedes
  <1>6. ASSUME NEW y \in Range(Tail(q)) PROVE Precedes(q, Head(q), y)
    <2>1. PICK k \in 1 .. Len(q) - 1 : Tail(q)[k] = y
      BY <1>1, <1>2, <1>6
    <2>2. 1 \in 1 .. Len(q) /\ k + 1 \in 1 .. Len(q) /\ 1 < k + 1 /\ q[k + 1] = y
      BY <1>1, <2>1
    <2> QED BY <1>1, <2>2 DEF Precedes
  <1> QED BY <1>1, <1>3, <1>4, <1>5, <1>6

\* Nothing stands in the empty sequence.
LEMMA EmptyOrder ==
  Range(<< >>) = {} /\ \A x, y : ~Precedes(<< >>, x, y)
  BY EmptySeq DEF Precedes, Range

\* A sequence of one element.
LEMMA SingleOrder ==
  ASSUME NEW S, NEW e \in S
  PROVE  <<e>> \in Seq(S) /\ Range(<<e>>) = {e} /\ \A x, y : ~Precedes(<<e>>, x, y)
  BY DEF Precedes, Range

(***************************************************************************)
(* The inductive invariant.                                                *)
(***************************************************************************)

\* The variables are in their ranges.
TypeOK ==
  /\ socket \in [Station -> {"none", "open", "closed"}]
  /\ out_of_order_store \in [Station -> 0 .. MaxSends]
  /\ sent \in [Station -> 0 .. MaxSends]
  /\ up \in [Station -> Seq(Packet)]
  /\ down \in [Station -> Seq(Packet)]
  /\ polled \in [Station -> Seq(Packet)]
  /\ backlog \subseteq Station
  /\ fds \in Seq(Station)
  /\ set \subseteq Station
  /\ i \in Nat
  /\ relayed \subseteq Packet
  /\ missed \in [Station -> SUBSET Packet]

\* The hub's array: every accepted station that did not close once, and what
\* the scan still has to look at really is readable.
HubOK ==
  /\ \A j, k \in 1 .. Len(fds) : fds[j] = fds[k] => j = k
  /\ \A j \in 1 .. Len(fds) : fds[j] \notin backlog /\ socket[fds[j]] # "none"
  /\ \A s \in backlog : socket[s] # "none"
  /\ \A s \in Attached : \E j \in 1 .. Len(fds) : fds[j] = s
  /\ i = 0 => set = {}
  /\ \A j \in 1 .. Len(fds) : j >= i /\ fds[j] \in set => Readable(fds[j])

\* On the way up are packets of that station the hub has not read yet; a
\* packet that is held back is later than all that were written.
WireOK ==
  /\ \A p \in relayed : p.n <= sent[p.src]
  /\ \A s \in Station :
       /\ out_of_order_store[s] <= sent[s]
       /\ out_of_order_store[s] # 0 => OutOfOrder
       /\ \A p \in Range(up[s]) : p.src = s /\ p.n <= sent[s] /\ p \notin relayed
       /\ \A p \in Range(up[s]) \union relayed :
            out_of_order_store[s] # 0 /\ p.src = s => p.n < out_of_order_store[s]

\* A station hears packets of others that the hub read, after it was accepted.
HeardOK ==
  \A s \in Station :
    /\ \A p \in Range(Heard(s)) : p \in relayed /\ p.src # s
    /\ socket[s] = "none" \/ s \in backlog => Heard(s) = << >>
    /\ missed[s] \subseteq relayed
    /\ s \in Attached => Range(Heard(s)) = {p \in relayed \ missed[s] : p.src # s}

\* No two stations hear two packets in different orders, and none hears or
\* sends one twice.
OrderOK ==
  /\ \A r, s \in Station : \A x, y :
       Precedes(Heard(r), x, y) => ~Precedes(Heard(s), y, x)
  /\ \A s \in Station : \A x : ~Precedes(up[s], x, x)

\* The later packet x of sender s comes before y on the way to station r.
Overtakes(r, s, x, y) ==
  /\ x.n > y.n
  /\ \/ Precedes(Heard(r), x, y)
     \/ Precedes(up[s], x, y)
     \/ x \in Range(Heard(r)) /\ y \in Range(up[s])

\* A packet is overtaken by one other at most.
SwapOK ==
  \A r, s \in Station : \A x, z, y \in {p \in Packet : p.src = s} :
    Overtakes(r, s, x, y) /\ Overtakes(r, s, z, y) => OutOfOrder /\ x = z

\* The inductive invariant: what the sockets, the hub's array and the packet
\* held back say of each other.
IndInv ==
  /\ TypeOK
  /\ HubOK
  /\ WireOK
  /\ HeardOK
  /\ OrderOK
  /\ SwapOK
  /\ NothingLost

(***************************************************************************)
(* Initial state, and the steps that leave the packets alone.              *)
(***************************************************************************)

\* What a station heard is a sequence of packets.
LEMMA HeardType ==
  ASSUME TypeOK, NEW s \in Station
  PROVE  Heard(s) \in Seq(Packet) /\ Range(Heard(s)) \subseteq Packet
         /\ up[s] \in Seq(Packet) /\ Range(up[s]) \subseteq Packet
  <1>1. polled[s] \in Seq(Packet) /\ down[s] \in Seq(Packet) /\ up[s] \in Seq(Packet)
    BY DEF TypeOK
  <1> QED BY <1>1, ConcatProperties, RangeOfSeq DEF Heard

\* The invariant holds before any station connects.
LEMMA InitInv == Init => IndInv
  <1> SUFFICES ASSUME Init PROVE IndInv
    OBVIOUS
  <1>1. << >> \in Seq(Packet) /\ << >> \in Seq(Station) /\ << >> \o << >> = << >>
    BY EmptySeq, ConcatEmptySeq
  <1>2. TypeOK
    BY <1>1, IpcAssumption DEF Init, TypeOK
  <1>3. \A s \in Station : Heard(s) = << >> /\ up[s] = << >>
    BY <1>1 DEF Init, Heard
  <1>4. HubOK
    BY DEF Init, HubOK, Attached, Open
  <1>5. WireOK
    BY <1>3, EmptyOrder DEF Init, WireOK
  <1>6. HeardOK
    BY <1>3, EmptyOrder DEF Init, HeardOK, Attached, Open
  <1>7. OrderOK
    BY <1>3, EmptyOrder DEF OrderOK
  <1>8. SwapOK
    BY <1>3, EmptyOrder DEF SwapOK, Overtakes
  <1>9. NothingLost
    BY IpcAssumption DEF Init, NothingLost
  <1> QED BY <1>2, <1>4, <1>5, <1>6, <1>7, <1>8, <1>9 DEF IndInv

\* A step that moves no packet keeps what is said of the packets.
LEMMA PacketsFrame ==
  ASSUME WireOK, OrderOK, SwapOK, NothingLost,
         UNCHANGED <<out_of_order_store, up, sent, dropped, down, polled, relayed>>
  PROVE  WireOK' /\ OrderOK' /\ SwapOK' /\ NothingLost'
  <1>1. \A s \in Station : Heard(s)' = Heard(s)
    BY DEF Heard
  <1>2. WireOK'
    BY DEF WireOK
  <1>3. OrderOK'
    BY <1>1 DEF OrderOK
  <1>4. SwapOK'
    BY <1>1 DEF SwapOK, Overtakes
  <1>5. NothingLost'
    BY DEF NothingLost, Held
  <1> QED BY <1>2, <1>3, <1>4, <1>5

\* nb__ipc_init: a station connects and waits for the hub.
LEMMA InitStep ==
  ASSUME IndInv, NEW s \in Station, nb__ipc_init(s)
  PROVE  IndInv'
  <1> USE DEF IndInv
  <1>1. TypeOK'
    BY DEF TypeOK, nb__ipc_init
  <1>2. HubOK'
    <2>1. socket[s] = "none" /\ socket' = [socket EXCEPT ![s] = "open"]
          /\ backlog' = backlog \union {s} /\ UNCHANGED <<fds, set, i, up>>
      BY DEF nb__ipc_init
    <2>2. \A j \in 1 .. Len(fds) : fds[j] \in Station /\ fds[j] # s
      BY <2>1, ElementOfSeq DEF HubOK, TypeOK
    <2>3. \A j \in 1 .. Len(fds) : socket'[fds[j]] = socket[fds[j]]
      BY <2>1, <2>2 DEF TypeOK
    <2>4. \A j \in 1 .. Len(fds) : fds[j] \notin backlog' /\ socket'[fds[j]] # "none"
      BY <2>1, <2>2, <2>3 DEF HubOK
    <2>5. \A t \in backlog' : socket'[t] # "none"
      BY <2>1 DEF HubOK, TypeOK
    <2>6. Attached' \subseteq Attached
      BY <2>1 DEF Attached, Open, TypeOK
    <2>7. \A j \in 1 .. Len(fds) : j >= i /\ fds[j] \in set =>
            up[fds[j]] # << >> \/ socket'[fds[j]] = "closed"
      BY <2>3 DEF HubOK, Readable
    <2> QED BY <2>1, <2>4, <2>5, <2>6, <2>7 DEF HubOK, Readable
  <1>3. HeardOK'
    BY DEF HeardOK, TypeOK, nb__ipc_init, Attached, Open, Heard
  <1>4. WireOK' /\ OrderOK' /\ SwapOK' /\ NothingLost'
    BY PacketsFrame DEF nb__ipc_init
  <1> QED BY <1>1, <1>2, <1>3, <1>4

\* The part of HeardOK a step of the hub that relays nothing keeps.
LEMMA HeardFrame ==
  ASSUME HeardOK, UNCHANGED <<socket, down, polled, backlog, relayed, missed>>
  PROVE  HeardOK'
  BY DEF HeardOK, Heard, Attached, Open

\* Stations and the hub's array: s is in the array iff it stands somewhere in it.
LEMMA FdsRange ==
  ASSUME TypeOK
  PROVE  Range(fds) = {fds[j] : j \in 1 .. Len(fds)} /\ Ready \subseteq Station
  BY RangeEquality, RangeOfSeq DEF TypeOK, Ready

\* select returns with a new connection, which is accepted.
LEMMA SelectAcceptStep ==
  ASSUME IndInv, NEW s \in Station, SelectAccept(s)
  PROVE  IndInv'
  <1> USE DEF IndInv
  <1>1. fds \in Seq(Station) /\ Len(fds) \in Nat /\ s \in Station
    BY LenProperties DEF TypeOK
  <1>2. /\ fds' = Append(fds, s) /\ fds' \in Seq(Station)
        /\ Len(fds') = Len(fds) + 1
        /\ \A j \in 1 .. Len(fds) : fds'[j] = fds[j]
        /\ fds'[Len(fds) + 1] = s
    BY <1>1, AppendProperties DEF SelectAccept
  <1>3. s \in backlog /\ set' = Ready /\ backlog' = backlog \ {s} /\ i = 0 /\ i' = 1
        /\ missed' = [missed EXCEPT ![s] = relayed]
        /\ UNCHANGED <<stations, down, polled, relayed>>
    BY DEF SelectAccept
  <1>4. UNCHANGED <<socket, out_of_order_store, up, sent, dropped, down, polled, relayed>>
    BY <1>3 DEF stations
  <1>5. TypeOK'
    BY <1>2, <1>3, <1>4, FdsRange DEF TypeOK
  <1>6. HubOK'
    <2>1. \A j \in 1 .. Len(fds) : fds[j] # s
      BY <1>3 DEF HubOK
    <2>2. \A j, k \in 1 .. Len(fds') : fds'[j] = fds'[k] => j = k
      BY <1>1, <1>2, <2>1 DEF HubOK
    <2>3. \A j \in 1 .. Len(fds') : fds'[j] \notin backlog' /\ socket'[fds'[j]] # "none"
      BY <1>1, <1>2, <1>3, <1>4 DEF HubOK
    <2>4. \A t \in backlog' : socket'[t] # "none"
      BY <1>3, <1>4 DEF HubOK
    <2>5. ASSUME NEW t \in Attached' PROVE \E j \in 1 .. Len(fds') : fds'[j] = t
      <3>1. t = s \/ t \in Attached
        BY <1>3, <1>4 DEF Attached, Open
      <3>2. CASE t = s
        BY <1>1, <1>2, <3>2
      <3>3. CASE t \in Attached
        <4>1. PICK j \in 1 .. Len(fds) : fds[j] = t
          BY <3>3 DEF HubOK
        <4> QED BY <1>1, <1>2, <4>1
      <3> QED BY <3>1, <3>2, <3>3
    <2>6. \A j \in 1 .. Len(fds') : fds'[j] \in set' =>
            up'[fds'[j]] # << >> \/ socket'[fds'[j]] = "closed"
      BY <1>3, <1>4 DEF Ready, Readable
    <2> QED BY <1>3, <2>2, <2>3, <2>4, <2>5, <2>6 DEF HubOK, Readable
  <1>7. HeardOK'
    <2> SUFFICES ASSUME NEW t \in Station
                 PROVE  /\ \A p \in Range(Heard(t)') : p \in relayed' /\ p.src # t
                        /\ socket'[t] = "none" \/ t \in backlog' => Heard(t)' = << >>
                        /\ missed'[t] \subseteq relayed'
                        /\ t \in Attached' =>
                             Range(Heard(t)') = {p \in relayed' \ missed'[t] : p.src # t}
      BY DEF HeardOK
    <2>1. Heard(t)' = Heard(t)
      BY <1>4 DEF Heard
    <2>2. CASE t = s
      <3>1. Heard(s) = << >> /\ missed'[s] = relayed /\ Range(Heard(s)) = {}
        BY <1>3, EmptyOrder DEF HeardOK, TypeOK
      <3> QED BY <1>4, <2>1, <2>2, <3>1
    <2>3. CASE t # s
      <3>1. missed'[t] = missed[t] /\ (t \in Attached' => t \in Attached)
            /\ (t \in backlog' => t \in backlog)
        BY <1>3, <1>4, <2>3 DEF TypeOK, Attached, Open
      <3> QED BY <1>4, <2>1, <3>1 DEF HeardOK
    <2> QED BY <2>2, <2>3
  <1>8. WireOK' /\ OrderOK' /\ SwapOK' /\ NothingLost'
    BY <1>4, PacketsFrame
  <1> QED BY <1>5, <1>6, <1>7, <1>8

\* select returns without one; the scan skips an entry, or comes to its end.
LEMMA ScanStep ==
  ASSUME IndInv, SelectData \/ ScanSkip \/ ScanEnd
  PROVE  IndInv'
  <1> USE DEF IndInv
  <1>1. UNCHANGED <<socket, out_of_order_store, up, sent, dropped, down, polled,
                    relayed, backlog, fds, missed>>
    BY DEF SelectData, ScanSkip, ScanEnd, stations
  <1>2. fds \in Seq(Station) /\ Len(fds) \in Nat
    BY LenProperties DEF TypeOK
  <1>3. i' \in Nat /\ set' \subseteq Station
    <2>1. i \in Nat /\ set \subseteq Station /\ Ready \subseteq Station
      BY FdsRange DEF TypeOK
    <2>2. \/ i' = 1 /\ set' = Ready
          \/ i' = i + 1 /\ set' = set
          \/ i' = 0 /\ set' = {}
      BY DEF SelectData, ScanSkip, ScanEnd
    <2> HIDE DEF IndInv
    <2>3. i' \in Nat
      BY <2>1, <2>2
    <2>4. set' \subseteq Station
      BY <2>1, <2>2
    <2> QED BY <2>3, <2>4
  <1>4. TypeOK'
    BY <1>1, <1>3 DEF TypeOK
  <1>5. i' = 0 => set' = {}
    BY <1>2 DEF TypeOK, SelectData, ScanSkip, ScanEnd
  <1>6. \A j \in 1 .. Len(fds) : j >= i' /\ fds[j] \in set' => Readable(fds[j])
    <2>1. CASE SelectData
      BY <2>1 DEF SelectData, Ready
    <2>2. CASE ScanSkip
      <3>1. i' = i + 1 /\ set' = set /\ i \in Nat
        BY <2>2 DEF ScanSkip, TypeOK
      <3>2. \A j \in 1 .. Len(fds) : j >= i + 1 => j >= i
        BY <1>2, <3>1
      <3> QED BY <3>1, <3>2 DEF HubOK
    <2>3. CASE ScanEnd
      BY <2>3 DEF ScanEnd
    <2> QED BY <2>1, <2>2, <2>3
  <1>7. HubOK'
    BY <1>1, <1>5, <1>6 DEF HubOK, Attached, Open, Readable
  <1>8. HeardOK'
    BY <1>1, HeardFrame
  <1>9. WireOK' /\ OrderOK' /\ SwapOK' /\ NothingLost'
    BY <1>1, PacketsFrame
  <1> QED BY <1>4, <1>7, <1>8, <1>9

\* The array of descriptors without its last entry.
LEMMA FrontElements ==
  ASSUME NEW S, NEW q \in Seq(S), Len(q) >= 1
  PROVE  /\ Front(q) \in Seq(S) /\ Len(Front(q)) = Len(q) - 1
         /\ \A j \in 1 .. Len(q) - 1 : Front(q)[j] = q[j]
  <1>1. Len(q) - 1 \in Nat /\ Len(q) - 1 <= Len(q)
    BY LenProperties
  <1>2. PICK n : n = Len(q) - 1
    OBVIOUS
  <1>3. n \in Nat /\ n <= Len(q)
    BY <1>1, <1>2
  <1>4. SubSeq(q, 1, n) \in Seq(S)
    BY <1>3
  <1>5. Len(SubSeq(q, 1, n)) = n /\ \A j \in 1 .. n : SubSeq(q, 1, n)[j] = q[j]
    BY <1>3
  <1> QED BY <1>2, <1>4, <1>5, Zenon DEF Front

\* The array without entry k, the last one in its place.
Without(q, k) == Front([q EXCEPT ![k] = Last(q)])

\* What the array holds after the hub closed the connection of entry k.
LEMMA CloseArray ==
  ASSUME NEW S, NEW q \in Seq(S), NEW k \in 1 .. Len(q)
  PROVE  /\ Without(q, k) \in Seq(S) /\ Len(Without(q, k)) = Len(q) - 1
         /\ \A j \in 1 .. Len(q) - 1 :
              Without(q, k)[j] = IF j = k THEN q[Len(q)] ELSE q[j]
  <1>1. Len(q) \in Nat /\ Len(q) >= 1 /\ Last(q) \in S /\ Last(q) = q[Len(q)]
    BY LenProperties, ElementOfSeq DEF Last
  <1>2. PICK u : u = [q EXCEPT ![k] = Last(q)]
    OBVIOUS
  <1>3. u \in Seq(S) /\ Len(u) = Len(q)
        /\ \A j \in 1 .. Len(q) : u[j] = IF j = k THEN q[Len(q)] ELSE q[j]
    BY <1>1, <1>2, ExceptSeq
  <1>4. /\ Front(u) \in Seq(S) /\ Len(Front(u)) = Len(q) - 1
        /\ \A j \in 1 .. Len(q) - 1 : Front(u)[j] = IF j = k THEN q[Len(q)] ELSE q[j]
    <2>1. /\ Front(u) \in Seq(S) /\ Len(Front(u)) = Len(u) - 1
          /\ \A j \in 1 .. Len(u) - 1 : Front(u)[j] = u[j]
      BY <1>1, <1>3, FrontElements
    <2> QED BY <1>1, <1>3, <2>1
  <1> QED BY <1>2, <1>4, Zenon DEF Without

\* The hub forgets a connection that is at its end.
LEMMA ScanCloseStep ==
  ASSUME IndInv, ScanClose
  PROVE  IndInv'
  <1> USE DEF IndInv
  <1>1. fds \in Seq(Station) /\ Len(fds) \in Nat /\ i \in 1 .. Len(fds)
        /\ \A j \in 1 .. Len(fds) : fds[j] \in Station
    BY LenProperties, ElementOfSeq DEF TypeOK, ScanClose
  <1>2. /\ fds[i] \in set /\ up[fds[i]] = << >> /\ set' = set \ {fds[i]}
        /\ fds' = Front([fds EXCEPT ![i] = Last(fds)])
        /\ UNCHANGED <<socket, out_of_order_store, up, sent, dropped, down, polled,
                       backlog, i, relayed, missed>>
    BY DEF ScanClose, stations
  <1>3. /\ fds' \in Seq(Station) /\ Len(fds') = Len(fds) - 1
        /\ \A j \in 1 .. Len(fds) - 1 : fds'[j] = IF j = i THEN fds[Len(fds)] ELSE fds[j]
    <2>1. fds' = Without(fds, i)
      BY <1>2 DEF Without
    <2> QED BY <1>1, <2>1, CloseArray
  <1>4. TypeOK'
    BY <1>2, <1>3 DEF TypeOK
  <1>5. socket[fds[i]] = "closed"
    BY <1>1, <1>2 DEF HubOK, Readable
  <1>6. \A j \in 1 .. Len(fds') : \E k \in 1 .. Len(fds) :
          fds'[j] = fds[k] /\ k # i /\ k >= j
    BY <1>1, <1>3
  <1>7. \A j, k \in 1 .. Len(fds') : fds'[j] = fds'[k] => j = k
    BY <1>1, <1>3 DEF HubOK
  <1>8. ASSUME NEW j \in 1 .. Len(fds')
        PROVE  fds'[j] \notin backlog' /\ socket'[fds'[j]] # "none"
    <2>1. PICK k \in 1 .. Len(fds) : fds'[j] = fds[k]
      BY <1>6
    <2> QED BY <1>2, <2>1 DEF HubOK
  <1>9. ASSUME NEW t \in Attached' PROVE \E j \in 1 .. Len(fds') : fds'[j] = t
    <2>1. t \in Attached
      BY <1>2 DEF Attached, Open
    <2>2. PICK k \in 1 .. Len(fds) : fds[k] = t
      BY <2>1 DEF HubOK
    <2>3. k # i
      BY <1>5, <2>1, <2>2 DEF Attached, Open
    <2>4. CASE k = Len(fds)
      BY <1>1, <1>3, <2>2, <2>3, <2>4
    <2>5. CASE k # Len(fds)
      BY <1>1, <1>3, <2>2, <2>3, <2>5
    <2> QED BY <2>4, <2>5
  <1>10. \A j \in 1 .. Len(fds') : j >= i' /\ fds'[j] \in set' =>
           up'[fds'[j]] # << >> \/ socket'[fds'[j]] = "closed"
    <2> SUFFICES ASSUME NEW j \in 1 .. Len(fds'), j >= i, fds'[j] \in set
                 PROVE  up[fds'[j]] # << >> \/ socket[fds'[j]] = "closed"
      BY <1>2
    <2>1. PICK k \in 1 .. Len(fds) : fds'[j] = fds[k] /\ k >= j
      BY <1>6
    <2>2. k >= i
      BY <1>1, <1>3, <2>1
    <2> QED BY <2>1, <2>2 DEF HubOK, Readable
  <1>11. (i' = 0 => set' = {}) /\ \A t \in backlog' : socket'[t] # "none"
    BY <1>1, <1>2 DEF HubOK
  <1>12. HubOK'
    BY <1>7, <1>8, <1>9, <1>10, <1>11 DEF HubOK, Readable
  <1>13. HeardOK'
    BY <1>2, HeardFrame
  <1>14. WireOK' /\ OrderOK' /\ SwapOK' /\ NothingLost'
    BY <1>2, PacketsFrame
  <1> QED BY <1>4, <1>12, <1>13, <1>14

(***************************************************************************)
(* The transport.                                                          *)
(***************************************************************************)

\* The first element of the second of two sequences becomes the last of the
\* first.
LEMMA PollSequence ==
  ASSUME NEW S, NEW q \in Seq(S), NEW t \in Seq(S), t # << >>
  PROVE  Append(q, Head(t)) \o Tail(t) = q \o t
  <1>1. Head(t) \in S /\ Tail(t) \in Seq(S) /\ <<Head(t)>> \in Seq(S)
    BY HeadTailProperties
  <1>2. Append(q, Head(t)) = q \o <<Head(t)>>
    BY <1>1, AppendIsConcat
  <1>3. <<Head(t)>> \o Tail(t) = t
    OBVIOUS
  <1>4. (q \o <<Head(t)>>) \o Tail(t) = q \o (<<Head(t)>> \o Tail(t))
    BY <1>1, ConcatAssociative
  <1> QED BY <1>2, <1>3, <1>4, Zenon

\* nb__poll_packet moves a packet from the socket to the station: what the
\* station heard is the same.
LEMMA PollStep ==
  ASSUME IndInv, NEW s \in Station, nb__poll_packet(s)
  PROVE  IndInv' /\ \A t \in Station : Heard(t)' = Heard(t)
  <1> USE DEF IndInv
  <1>1. polled[s] \in Seq(Packet) /\ down[s] \in Seq(Packet) /\ down[s] # << >>
    BY DEF TypeOK, nb__poll_packet
  <1>2. /\ polled' = [polled EXCEPT ![s] = Append(polled[s], Head(down[s]))]
        /\ down' = [down EXCEPT ![s] = Tail(down[s])]
        /\ UNCHANGED <<socket, out_of_order_store, up, sent, dropped,
                       backlog, fds, set, i, relayed, missed>>
    BY DEF nb__poll_packet, stations, hub
  <1>3. Head(down[s]) \in Packet /\ Tail(down[s]) \in Seq(Packet)
        /\ Append(polled[s], Head(down[s])) \in Seq(Packet)
    BY <1>1, HeadTailProperties, AppendProperties
  <1>4. TypeOK'
    BY <1>2, <1>3 DEF TypeOK
  <1>5. Append(polled[s], Head(down[s])) \o Tail(down[s]) = polled[s] \o down[s]
    BY <1>1, PollSequence
  <1>6. ASSUME NEW t \in Station PROVE Heard(t)' = Heard(t)
    BY <1>2, <1>5 DEF Heard, TypeOK
  <1>7. HubOK'
    BY <1>2 DEF HubOK, Attached, Open, Readable
  <1>8. WireOK'
    BY <1>2 DEF WireOK
  <1>9. HeardOK'
    BY <1>2, <1>6 DEF HeardOK, Attached, Open
  <1>10. OrderOK'
    BY <1>2, <1>6 DEF OrderOK
  <1>11. SwapOK'
    BY <1>2, <1>6 DEF SwapOK, Overtakes
  <1>12. NothingLost'
    BY <1>2 DEF NothingLost, Held
  <1> QED BY <1>4, <1>6, <1>7, <1>8, <1>9, <1>10, <1>11, <1>12

\* The packet held back, as the sequence that is written after another one.
LEMMA HeldFacts ==
  ASSUME TypeOK, NEW s \in Station
  PROVE  /\ Held(s) \in Seq(Packet)
         /\ Range(Held(s)) = {p \in {Pkt(s, out_of_order_store[s])} :
                                out_of_order_store[s] # 0}
         /\ \A x, y : ~Precedes(Held(s), x, y)
  <1>1. CASE out_of_order_store[s] = 0
    <2>1. Held(s) = << >>
      BY <1>1 DEF Held
    <2> QED BY <1>1, <2>1, EmptySeq, EmptyOrder
  <1>2. CASE out_of_order_store[s] # 0
    <2>1. Held(s) = <<Pkt(s, out_of_order_store[s])>>
      BY <1>2 DEF Held
    <2>2. Pkt(s, out_of_order_store[s]) \in Packet
      BY <1>2 DEF TypeOK, Packet, Pkt
    <2> QED BY <1>2, <2>1, <2>2, SingleOrder
  <1> QED BY <1>1, <1>2

\* What nb__send_packet changes, whatever becomes of the packet.
LEMMA SendFrame ==
  ASSUME IndInv, NEW s \in Station, nb__send_packet(s)
  PROVE  /\ sent[s] \in 0 .. MaxSends - 1
         /\ sent' = [sent EXCEPT ![s] = sent[s] + 1]
         /\ sent' \in [Station -> 0 .. MaxSends]
         /\ \A t \in Station : sent[t] <= sent'[t]
         /\ Pkt(s, sent[s] + 1) \in Packet
         /\ UNCHANGED <<socket, down, polled, backlog, fds, set, i, relayed, missed>>
         /\ HeardOK'
  <1>1. /\ sent[s] \in 0 .. MaxSends - 1
        /\ sent' = [sent EXCEPT ![s] = sent[s] + 1]
        /\ UNCHANGED <<socket, down, polled, backlog, fds, set, i, relayed, missed>>
    BY IpcAssumption DEF IndInv, TypeOK, nb__send_packet, hub
  <1>2. Pkt(s, sent[s] + 1) \in Packet
    BY <1>1, IpcAssumption DEF Pkt, Packet
  <1>3. \A t \in Station : sent[t] <= sent'[t] /\ sent'[t] \in 0 .. MaxSends
    BY <1>1, IpcAssumption DEF IndInv, TypeOK
  <1>4. sent' \in [Station -> 0 .. MaxSends]
    BY <1>1, <1>3 DEF IndInv, TypeOK
  <1> QED BY <1>1, <1>2, <1>3, <1>4, HeardFrame DEF IndInv

\* A packet is dropped on purpose.
LEMMA SendDroppedStep ==
  ASSUME IndInv, NEW s \in Station, nb__send_packet(s), SendDropped(s)
  PROVE  IndInv'
  <1> USE DEF IndInv
  <1>1. UNCHANGED <<out_of_order_store, up>> /\ dropped' = dropped \union {Pkt(s, sent[s] + 1)}
    BY DEF SendDropped
  <1>2. UNCHANGED <<socket, down, polled, backlog, fds, set, i, relayed, missed>>
    BY SendFrame
  <1>3. TypeOK'
    BY <1>1, <1>2, SendFrame DEF TypeOK
  <1>4. HubOK'
    BY <1>1, <1>2 DEF HubOK, Attached, Open, Readable
  <1>5. \A t \in Station : Heard(t)' = Heard(t)
    BY <1>2 DEF Heard
  <1>6. \A t \in Station : sent[t] \in Int /\ sent'[t] \in Int /\ sent[t] <= sent'[t]
    BY SendFrame DEF TypeOK
  <1>7. WireOK'
    <2>1. \A p \in relayed : p.src \in Station /\ p.n \in Int
      BY DEF TypeOK, Packet
    <2>2. \A p \in relayed : p.n <= sent'[p.src]
      BY <1>6, <2>1 DEF WireOK
    <2>3. ASSUME NEW t \in Station
          PROVE  /\ out_of_order_store[t] <= sent'[t]
                 /\ \A p \in Range(up[t]) : p.n <= sent'[t]
      <3>1. \A p \in Range(up[t]) : p.n \in Int
        BY HeardType DEF Packet
      <3>2. out_of_order_store[t] \in Int
        BY DEF TypeOK
      <3> QED BY <1>6, <3>1, <3>2 DEF WireOK
    <2> QED BY <1>1, <1>2, <2>2, <2>3 DEF WireOK
  <1>8. OrderOK'
    BY <1>1, <1>5 DEF OrderOK
  <1>9. SwapOK'
    BY <1>1, <1>5 DEF SwapOK, Overtakes
  <1>10. NothingLost'
    <2> SUFFICES ASSUME NEW t \in Station, NEW n \in 1 .. sent'[t]
                 PROVE  Pkt(t, n) \in Range(Held(t)') \union Range(up'[t]) \union dropped' \union relayed'
      BY DEF NothingLost
    <2>1. Held(t)' = Held(t)
      BY <1>1 DEF Held
    <2>2. CASE n \in 1 .. sent[t]
      BY <1>1, <1>2, <2>1, <2>2 DEF NothingLost
    <2>3. CASE n \notin 1 .. sent[t]
      <3>1. t = s /\ n = sent[s] + 1
        <4>1. PICK m \in Nat : m = sent[s] /\ sent' = [sent EXCEPT ![s] = m + 1]
          BY SendFrame
        <4>2. DOMAIN sent = Station
          BY DEF TypeOK
        <4> HIDE DEF IndInv
        <4>3. CASE t # s
          <5>1. sent'[t] = sent[t]
            BY <4>1, <4>2, <4>3
          <5> QED BY <2>3, <5>1
        <4>4. CASE t = s
          <5>1. sent'[t] = m + 1 /\ sent[t] = m
            BY <4>1, <4>2, <4>4
          <5>2. n \in 1 .. m + 1 /\ n \notin 1 .. m
            BY <2>3, <5>1
          <5>3. n = m + 1
            BY <5>2
          <5> QED BY <4>1, <4>4, <5>3
        <4> QED BY <4>3, <4>4
      <3> QED BY <1>1, <3>1
    <2> QED BY <2>2, <2>3
  <1> QED BY <1>3, <1>4, <1>7, <1>8, <1>9, <1>10, SendFrame

\* A packet is held back: nothing is held, so it is later than all that were
\* written.
LEMMA SendHeldStep ==
  ASSUME IndInv, NEW s \in Station, nb__send_packet(s), SendHeld(s)
  PROVE  IndInv'
  <1> USE DEF IndInv
  <1>1. /\ OutOfOrder /\ out_of_order_store[s] = 0
        /\ out_of_order_store' = [out_of_order_store EXCEPT ![s] = sent[s] + 1]
        /\ UNCHANGED <<up, dropped>>
    BY DEF SendHeld
  <1>2. UNCHANGED <<socket, down, polled, backlog, fds, set, i, relayed, missed>>
    BY SendFrame
  <1>3. TypeOK'
    BY <1>1, <1>2, SendFrame, IpcAssumption DEF TypeOK
  <1>4. HubOK'
    BY <1>1, <1>2 DEF HubOK, Attached, Open, Readable
  <1>5. \A t \in Station : Heard(t)' = Heard(t)
    BY <1>2 DEF Heard
  <1>6. \A t \in Station : sent[t] \in Int /\ sent'[t] \in Int /\ sent[t] <= sent'[t]
    BY SendFrame DEF TypeOK
  <1>7. WireOK'
    <2>1. \A p \in relayed : p.src \in Station /\ p.n \in Int
      BY DEF TypeOK, Packet
    <2>2. \A p \in relayed : p.n <= sent'[p.src]
      BY <1>6, <2>1 DEF WireOK
    <2>3. ASSUME NEW t \in Station
          PROVE  /\ out_of_order_store'[t] <= sent'[t]
                 /\ out_of_order_store'[t] # 0 => OutOfOrder
                 /\ \A p \in Range(up[t]) : p.src = t /\ p.n <= sent'[t] /\ p \notin relayed
                 /\ \A p \in Range(up[t]) \union relayed :
                      out_of_order_store'[t] # 0 /\ p.src = t => p.n < out_of_order_store'[t]
      <3>1. \A p \in Range(up[t]) : p.n \in Int
        BY HeardType DEF Packet
      <3>2. out_of_order_store[t] \in Int
        BY DEF TypeOK
      <3>3. \A p \in Range(up[t]) : p.src = t /\ p.n <= sent'[t] /\ p \notin relayed
        BY <1>6, <3>1 DEF WireOK
      <3>4. CASE t = s
        <4>1. out_of_order_store'[s] = sent[s] + 1 /\ sent'[s] = sent[s] + 1
          BY <1>1, SendFrame DEF TypeOK
        <4>2. \A p \in Range(up[s]) \union relayed : p.src = s => p.n < sent[s] + 1
          BY <1>6, <2>1, <3>1, <3>4 DEF WireOK
        <4> QED BY <1>1, <1>6, <3>3, <3>4, <4>1, <4>2
      <3>5. CASE t # s
        <4>1. out_of_order_store'[t] = out_of_order_store[t]
          BY <1>1, <3>5 DEF TypeOK
        <4>2. out_of_order_store[t] <= sent'[t]
          BY <1>6, <3>2 DEF WireOK
        <4> QED BY <3>3, <4>1, <4>2 DEF WireOK
      <3> QED BY <3>4, <3>5
    <2> QED BY <1>1, <1>2, <2>2, <2>3 DEF WireOK
  <1>8. OrderOK'
    BY <1>1, <1>5 DEF OrderOK
  <1>9. SwapOK'
    BY <1>1, <1>5 DEF SwapOK, Overtakes
  <1>10. NothingLost'
    <2> SUFFICES ASSUME NEW t \in Station, NEW n \in 1 .. sent'[t]
                 PROVE  Pkt(t, n) \in Range(Held(t)') \union Range(up'[t]) \union dropped' \union relayed'
      BY DEF NothingLost
    <2>1. CASE t # s
      <3>1. sent'[t] = sent[t] /\ Held(t)' = Held(t)
        BY <1>1, <2>1, SendFrame DEF TypeOK, Held
      <3> QED BY <1>1, <1>2, <3>1 DEF NothingLost
    <2>2. CASE t = s /\ n \in 1 .. sent[s]
      <3>1. Range(Held(s)) = {}
        BY <1>1, HeldFacts
      <3> QED BY <1>1, <1>2, <2>2, <3>1 DEF NothingLost
    <2>3. CASE t = s /\ n \notin 1 .. sent[s]
      <3>1. n = sent[s] + 1 /\ out_of_order_store'[s] = sent[s] + 1 /\ sent[s] + 1 # 0
        BY <1>1, <2>3, SendFrame DEF TypeOK
      <3>2. Held(s)' = <<Pkt(s, sent[s] + 1)>>
        BY <3>1 DEF Held
      <3>3. Range(Held(s)') = {Pkt(s, sent[s] + 1)}
        BY <3>2, SendFrame, SingleOrder
      <3> QED BY <2>3, <3>1, <3>3
    <2> QED BY <2>1, <2>2, <2>3
  <1> QED BY <1>3, <1>4, <1>7, <1>8, <1>9, <1>10, SendFrame

\* A station writes the new packets X (one, or none when it closes) and then
\* the packet it holds back.
LEMMA WriteOut ==
  ASSUME IndInv, NEW s \in Station, NEW X \in SUBSET Packet, NEW base \in Seq(Packet),
         \A p \in X : p.src = s /\ p.n > sent[s] /\ p.n <= sent'[s],
         \A p, q \in X : p = q,
         Range(base) = Range(up[s]) \union X,
         \A x, y : Precedes(base, x, y) =>
                     Precedes(up[s], x, y) \/ (x \in Range(up[s]) /\ y \in X),
         up' = [up EXCEPT ![s] = base \o Held(s)],
         out_of_order_store' = [out_of_order_store EXCEPT ![s] = 0],
         sent' \in [Station -> 0 .. MaxSends],
         \A t \in Station : sent[t] <= sent'[t],
         \A t \in Station : t # s => sent'[t] = sent[t],
         \A n \in 1 .. sent'[s] : n \in 1 .. sent[s] \/ Pkt(s, n) \in X,
         UNCHANGED <<dropped, down, polled, relayed>>
  PROVE  /\ up' \in [Station -> Seq(Packet)]
         /\ out_of_order_store' \in [Station -> 0 .. MaxSends]
         /\ \A t \in Station : up[t] # << >> => up'[t] # << >>
         /\ WireOK' /\ OrderOK' /\ SwapOK' /\ NothingLost'
  <1> USE DEF IndInv
  <1> DEFINE h == out_of_order_store[s]
  <1>1. /\ up'[s] \in Seq(Packet) /\ up'[s] = base \o Held(s)
        /\ Range(up'[s]) = Range(up[s]) \union X \union {p \in {Pkt(s, h)} : h # 0}
    BY HeldFacts, ConcatOrder DEF TypeOK
  <1>2. \A x, y : Precedes(up'[s], x, y) =>
          \/ Precedes(up[s], x, y)
          \/ x \in Range(up[s]) /\ y \in X
          \/ h # 0 /\ y = Pkt(s, h) /\ x \in Range(up[s]) \union X
    BY <1>1, HeldFacts, ConcatOrder
  <1>3. \A t \in Station : t # s => up'[t] = up[t]
    BY DEF TypeOK
  <1>4. up' \in [Station -> Seq(Packet)]
    BY <1>1, <1>3 DEF TypeOK
  <1>5. out_of_order_store' \in [Station -> 0 .. MaxSends] /\ out_of_order_store'[s] = 0
        /\ \A t \in Station : t # s => out_of_order_store'[t] = out_of_order_store[t]
    BY IpcAssumption DEF TypeOK
  <1>6. \A t \in Station : up[t] # << >> => up'[t] # << >>
    <2>1. up[s] # << >> => up'[s] # << >>
      <3>1. CASE up[s] # << >>
        <4>1. Head(up[s]) \in Range(up[s])
          BY <3>1, HeardType, TailOrder
        <4> QED BY <1>1, <4>1, EmptyOrder
      <3> QED BY <3>1
    <2> QED BY <1>3, <2>1
  <1>7. sent[s] \in Int /\ h \in Int /\ h >= 0 /\ h <= sent[s] /\ (h # 0 => OutOfOrder)
        /\ sent'[s] \in Int /\ sent[s] <= sent'[s]
    <2>1. sent \in [Station -> 0 .. MaxSends] /\ out_of_order_store \in [Station -> 0 .. MaxSends]
      BY DEF TypeOK
    <2>2. \A k \in 0 .. MaxSends : k \in Int /\ k >= 0
      BY IpcAssumption
    <2>3. sent[s] \in 0 .. MaxSends /\ sent'[s] \in 0 .. MaxSends /\ h \in 0 .. MaxSends
      BY <2>1
    <2>4. h <= sent[s] /\ (h # 0 => OutOfOrder) /\ sent[s] <= sent'[s]
      BY Zenon DEF WireOK
    <2> QED BY <2>2, <2>3, <2>4, Zenon
  <1>8. \A p \in relayed \union Range(up[s]) \union X : p \in Packet /\ p.n \in Int
    <2>1. \A p \in Packet : p.n \in Int
      BY IpcAssumption DEF Packet
    <2>2. relayed \subseteq Packet /\ Range(up[s]) \subseteq Packet
      BY HeardType DEF TypeOK
    <2> QED BY <2>1, <2>2
  <1>9. \A p \in relayed \union Range(up[s]) : p.src = s => p.n <= sent[s]
    BY DEF WireOK
  <1>10. \A p \in relayed \union Range(up[s]) : p.src = s /\ h # 0 => p.n < h
    BY DEF WireOK
  <1>11. Pkt(s, h).src = s /\ Pkt(s, h).n = h
    BY DEF Pkt
  <1>12. \A p \in Range(up[s]) : p.src = s
    BY DEF WireOK
  <1> HIDE DEF h
  <1>13. WireOK'
    <2>1. \A p \in relayed : p.n <= sent'[p.src]
      <3>1. \A p \in relayed : p.src \in Station /\ p.n \in Int
        BY DEF TypeOK, Packet
      <3>2. \A t \in Station : sent[t] \in Int /\ sent'[t] \in Int
        <4>1. sent \in [Station -> 0 .. MaxSends]
          BY DEF TypeOK
        <4>2. \A k \in 0 .. MaxSends : k \in Int
          BY IpcAssumption
        <4>3. \A t \in Station : sent[t] \in 0 .. MaxSends /\ sent'[t] \in 0 .. MaxSends
          BY <4>1
        <4> QED BY <4>2, <4>3, Zenon
      <3> QED BY <3>1, <3>2 DEF WireOK
    <2>2. \A p \in Range(up'[s]) : p.src = s /\ p.n <= sent'[s] /\ p \notin relayed
      <3> SUFFICES ASSUME NEW p \in Range(up'[s])
                   PROVE  p.src = s /\ p.n <= sent'[s] /\ p \notin relayed
        OBVIOUS
      <3>1. CASE p \in Range(up[s])
        BY <1>7, <1>8, <3>1 DEF WireOK
      <3>2. CASE p \in X
        BY <1>7, <1>8, <1>9, <3>2
      <3>3. CASE h # 0 /\ p = Pkt(s, h)
        BY <1>7, <1>8, <1>10, <1>11, <3>3
      <3> QED BY <1>1, <3>1, <3>2, <3>3
    <2>3. ASSUME NEW t \in Station
          PROVE  /\ out_of_order_store'[t] <= sent'[t]
                 /\ out_of_order_store'[t] # 0 => OutOfOrder
                 /\ \A p \in Range(up'[t]) : p.src = t /\ p.n <= sent'[t] /\ p \notin relayed
                 /\ \A p \in Range(up'[t]) \union relayed :
                      out_of_order_store'[t] # 0 /\ p.src = t => p.n < out_of_order_store'[t]
      <3>1. CASE t = s
        BY <1>5, <2>2, <3>1
      <3>2. CASE t # s
        BY <1>3, <1>5, <3>2 DEF WireOK
      <3> QED BY <3>1, <3>2
    <2> QED BY <2>1, <2>3 DEF WireOK
  <1>14. \A t \in Station : Heard(t)' = Heard(t)
    BY DEF Heard
  <1>15. OrderOK'
    <2>1. ASSUME NEW x, Precedes(up'[s], x, x) PROVE FALSE
      <3>1. ~Precedes(up[s], x, x)
        BY DEF OrderOK
      <3>2. CASE x \in Range(up[s]) /\ x \in X
        BY <1>7, <1>8, <1>9, <1>12, <3>2
      <3>3. CASE h # 0 /\ x = Pkt(s, h) /\ x \in Range(up[s]) \union X
        BY <1>7, <1>8, <1>10, <1>11, <3>3
      <3> QED BY <1>2, <2>1, <3>1, <3>2, <3>3
    <2> QED BY <1>3, <1>14, <2>1 DEF OrderOK
  <1>16. SwapOK'
    <2> SUFFICES ASSUME NEW r \in Station, NEW t \in Station,
                        NEW x \in Packet, NEW z \in Packet, NEW y \in Packet,
                        x.src = t, z.src = t, y.src = t,
                        Overtakes(r, t, x, y)', Overtakes(r, t, z, y)'
                 PROVE  OutOfOrder /\ x = z
      BY DEF SwapOK
    <2>1. ASSUME NEW u \in Packet, u.src = t, Overtakes(r, t, u, y)'
          PROVE  \/ Overtakes(r, t, u, y)
                 \/ t = s /\ h # 0 /\ y = Pkt(s, h) /\ u \in X
      <3>1. u.n > y.n /\ u.n \in Int /\ y.n \in Int
            /\ \/ Precedes(Heard(r), u, y) \/ Precedes(up'[t], u, y)
               \/ u \in Range(Heard(r)) /\ y \in Range(up'[t])
        BY <1>14, <2>1 DEF Overtakes, Packet
      <3>2. CASE t # s
        BY <1>3, <3>1, <3>2 DEF Overtakes
      <3>3. CASE t = s
        <4>1. \A p \in Range(Heard(r)) : p \in relayed
          BY DEF HeardOK
        <4>2. CASE Precedes(Heard(r), u, y)
          BY <3>1, <4>2 DEF Overtakes
        <4>3. CASE Precedes(up'[s], u, y)
          <5>1. CASE Precedes(up[s], u, y)
            BY <3>1, <3>3, <5>1 DEF Overtakes
          <5>2. CASE u \in Range(up[s]) /\ y \in X
            BY <1>7, <1>8, <1>9, <1>12, <3>1, <5>2
          <5>3. CASE h # 0 /\ y = Pkt(s, h) /\ u \in Range(up[s])
            BY <1>7, <1>8, <1>10, <1>11, <1>12, <3>1, <5>3
          <5>4. CASE h # 0 /\ y = Pkt(s, h) /\ u \in X
            BY <3>3, <5>4
          <5> QED BY <1>2, <4>3, <5>1, <5>2, <5>3, <5>4
        <4>4. CASE u \in Range(Heard(r)) /\ y \in Range(up'[s])
          <5>1. CASE y \in Range(up[s])
            BY <3>1, <3>3, <4>4, <5>1 DEF Overtakes
          <5>2. CASE y \in X
            BY <1>7, <1>8, <1>9, <2>1, <3>1, <3>3, <4>1, <4>4, <5>2
          <5>3. CASE h # 0 /\ y = Pkt(s, h)
            BY <1>7, <1>8, <1>10, <1>11, <2>1, <3>1, <3>3, <4>1, <4>4, <5>3
          <5> QED BY <1>1, <4>4, <5>1, <5>2, <5>3
        <4> QED BY <3>1, <3>3, <4>2, <4>3, <4>4
      <3> QED BY <3>2, <3>3
    <2>2. ASSUME NEW u \in Packet, Overtakes(r, t, u, y), t = s, h # 0, y = Pkt(s, h)
          PROVE  FALSE
      <3>1. y \in Range(Heard(r)) \union Range(up[s])
        <4>1. Heard(r) \in Seq(Packet) /\ up[s] \in Seq(Packet)
          BY HeardType
        <4>2. \A q \in Seq(Packet) : Precedes(q, u, y) => y \in Range(q)
          BY RangeEquality DEF Precedes
        <4> QED BY <2>2, <4>1, <4>2 DEF Overtakes
      <3>2. y \in relayed \union Range(up[s])
        BY <3>1 DEF HeardOK
      <3> QED BY <1>7, <1>10, <1>11, <2>2, <3>2
    <2>3. CASE Overtakes(r, t, x, y) /\ Overtakes(r, t, z, y)
      BY <2>3 DEF SwapOK
    <2>4. CASE ~Overtakes(r, t, x, y) \/ ~Overtakes(r, t, z, y)
      BY <1>7, <2>1, <2>2, <2>4
    <2> QED BY <2>3, <2>4
  <1>17. NothingLost'
    <2> SUFFICES ASSUME NEW t \in Station, NEW n \in 1 .. sent'[t]
                 PROVE  Pkt(t, n) \in Range(Held(t)') \union Range(up'[t]) \union dropped' \union relayed'
      BY DEF NothingLost
    <2>1. CASE t # s
      <3>1. sent'[t] = sent[t] /\ Held(t)' = Held(t)
        BY <1>5, <2>1 DEF TypeOK, Held
      <3> QED BY <1>3, <2>1, <3>1 DEF NothingLost
    <2>2. CASE t = s /\ n \in 1 .. sent[s]
      <3>1. Range(Held(s)) \subseteq Range(up'[s])
        BY <1>1, HeldFacts DEF h
      <3> QED BY <1>1, <2>2, <3>1 DEF NothingLost
    <2>3. CASE t = s /\ n \notin 1 .. sent[s]
      BY <1>1, <2>3
    <2> QED BY <2>1, <2>2, <2>3
  <1> QED BY <1>4, <1>5, <1>6, <1>13, <1>15, <1>16, <1>17

\* A step of a station that writes to its socket or closes it keeps the hub's
\* array in order.
LEMMA HubFrame ==
  ASSUME TypeOK, HubOK, NEW s \in Station,
         \A t \in Station : up[t] # << >> => up'[t] # << >>,
         UNCHANGED socket \/ (Open(s) /\ socket' = [socket EXCEPT ![s] = "closed"]),
         UNCHANGED <<backlog, fds, set, i>>
  PROVE  HubOK'
  <1>1. \A j \in 1 .. Len(fds) : fds[j] \in Station
    BY ElementOfSeq DEF TypeOK
  <1>2. \A t \in Station : /\ socket'[t] = "none" => socket[t] = "none"
                           /\ socket[t] = "closed" => socket'[t] = "closed"
                           /\ socket'[t] = "open" => socket[t] = "open"
    BY DEF TypeOK
  <1>3. \A t \in backlog : t \in Station /\ socket'[t] # "none"
    BY <1>2 DEF HubOK, TypeOK
  <1>4. Attached' \subseteq Attached
    BY <1>2 DEF Attached, Open
  <1>5. \A j \in 1 .. Len(fds) : j >= i /\ fds[j] \in set =>
          up'[fds[j]] # << >> \/ socket'[fds[j]] = "closed"
    BY <1>1, <1>2 DEF HubOK, Readable
  <1>6. \A j \in 1 .. Len(fds) : fds[j] \notin backlog /\ socket'[fds[j]] # "none"
    BY <1>1, <1>2 DEF HubOK
  <1> QED BY <1>3, <1>4, <1>5, <1>6 DEF HubOK, Readable

\* A packet is written, followed by the one that is held.
LEMMA SendWrittenStep ==
  ASSUME IndInv, NEW s \in Station, nb__send_packet(s), SendWritten(s)
  PROVE  IndInv'
  <1> USE DEF IndInv
  <1> DEFINE w == Pkt(s, sent[s] + 1)
             base == Append(up[s], w)
  <1>1. /\ up' = [up EXCEPT ![s] = base \o Held(s)]
        /\ out_of_order_store' = [out_of_order_store EXCEPT ![s] = 0]
        /\ UNCHANGED dropped
    BY DEF SendWritten
  <1>2. UNCHANGED <<socket, down, polled, backlog, fds, set, i, relayed, missed>>
    BY SendFrame
  <1>3. w \in Packet /\ w.src = s /\ w.n = sent[s] + 1
    BY SendFrame DEF Pkt
  <1>4. /\ base \in Seq(Packet) /\ Range(base) = Range(up[s]) \union {w}
        /\ \A x, y : Precedes(base, x, y) =>
                       Precedes(up[s], x, y) \/ (x \in Range(up[s]) /\ y \in {w})
    BY <1>3, HeardType, AppendOrder
  <1>5. /\ sent[s] \in Int /\ sent'[s] = sent[s] + 1
        /\ \A t \in Station : t # s => sent'[t] = sent[t]
    BY SendFrame DEF TypeOK
  <1>6. \A p \in {w} : p.src = s /\ p.n > sent[s] /\ p.n <= sent'[s]
    BY <1>3, <1>5
  <1>7. \A n \in 1 .. sent'[s] : n \in 1 .. sent[s] \/ Pkt(s, n) \in {w}
    BY <1>5
  <1>8. {w} \in SUBSET Packet /\ \A p, q \in {w} : p = q
    BY <1>3
  <1> HIDE DEF w, base
  <1>9. /\ up' \in [Station -> Seq(Packet)]
        /\ out_of_order_store' \in [Station -> 0 .. MaxSends]
        /\ \A t \in Station : up[t] # << >> => up'[t] # << >>
        /\ WireOK' /\ OrderOK' /\ SwapOK' /\ NothingLost'
    BY <1>1, <1>2, <1>4, <1>5, <1>6, <1>7, <1>8, SendFrame, WriteOut
  <1>10. TypeOK'
    BY <1>2, <1>9, SendFrame DEF TypeOK
  <1>11. HubOK'
    BY <1>2, <1>9, HubFrame
  <1> QED BY <1>9, <1>10, <1>11, SendFrame

\* nb__ipc_deinit writes what is held back and closes.
LEMMA DeinitStep ==
  ASSUME IndInv, NEW s \in Station, nb__ipc_deinit(s)
  PROVE  IndInv'
  <1> USE DEF IndInv
  <1>1. /\ up' = [up EXCEPT ![s] = up[s] \o Held(s)]
        /\ out_of_order_store' = [out_of_order_store EXCEPT ![s] = 0]
        /\ socket[s] = "open" /\ socket' = [socket EXCEPT ![s] = "closed"]
        /\ UNCHANGED <<sent, dropped, down, polled, backlog, fds, set, i, relayed, missed>>
    BY DEF nb__ipc_deinit, hub, Open
  <1>2. up[s] \in Seq(Packet) /\ Range(up[s]) = Range(up[s]) \union {}
    BY HeardType
  <1>3. sent' \in [Station -> 0 .. MaxSends] /\ \A t \in Station : sent[t] <= sent'[t]
    BY <1>1 DEF TypeOK
  <1>4. {} \in SUBSET Packet /\ \A n \in 1 .. sent'[s] : n \in 1 .. sent[s]
    BY <1>1
  <1>5. /\ up' \in [Station -> Seq(Packet)]
        /\ out_of_order_store' \in [Station -> 0 .. MaxSends]
        /\ \A t \in Station : up[t] # << >> => up'[t] # << >>
        /\ WireOK' /\ OrderOK' /\ SwapOK' /\ NothingLost'
    BY <1>1, <1>2, <1>3, <1>4, WriteOut
  <1>6. TypeOK'
    BY <1>1, <1>5 DEF TypeOK
  <1>7. HubOK'
    BY <1>1, <1>5, HubFrame DEF Open
  <1>8. HeardOK'
    <2>1. Attached' \subseteq Attached
          /\ \A t \in Station : socket'[t] = "none" => socket[t] = "none"
      BY <1>1 DEF Attached, Open, TypeOK
    <2>2. \A t \in Station : Heard(t)' = Heard(t)
      BY <1>1 DEF Heard
    <2> QED BY <1>1, <2>1, <2>2 DEF HeardOK
  <1> QED BY <1>5, <1>6, <1>7, <1>8

(***************************************************************************)
(* The hub relays a packet.                                                *)
(***************************************************************************)

\* An element appended to the second of two sequences.
LEMMA RelaySequence ==
  ASSUME NEW S, NEW q \in Seq(S), NEW t \in Seq(S), NEW e \in S
  PROVE  q \o Append(t, e) = Append(q \o t, e)
  <1>1. <<e>> \in Seq(S) /\ q \o t \in Seq(S)
    BY ConcatProperties
  <1>2. Append(t, e) = t \o <<e>> /\ Append(q \o t, e) = (q \o t) \o <<e>>
    BY <1>1, AppendIsConcat
  <1>3. (q \o t) \o <<e>> = q \o (t \o <<e>>)
    BY <1>1, ConcatAssociative
  <1> QED BY <1>2, <1>3

\* The packet the hub reads from the connection of c, and who hears it: every
\* station the hub accepted and that did not close, but c.
LEMMA RelayFacts ==
  ASSUME IndInv, ScanRelay
  PROVE  \E c \in Station, p \in Packet, R \in SUBSET Station :
           /\ up[c] # << >> /\ p = Head(up[c]) /\ p \in Range(up[c])
           /\ p.src = c /\ p.n <= sent[c] /\ p \notin relayed
           /\ up' = [up EXCEPT ![c] = Tail(up[c])] /\ relayed' = relayed \union {p}
           /\ i \in 1 .. Len(fds) /\ c = fds[i] /\ i' = i + 1
           /\ down' \in [Station -> Seq(Packet)]
           /\ c \notin R
           /\ \A r \in R : socket[r] # "none" /\ r \notin backlog
           /\ \A r \in Attached : r # c => r \in R
           /\ \A r \in Station : Heard(r)' = IF r \in R THEN Append(Heard(r), p) ELSE Heard(r)
  <1> USE DEF IndInv
  <1>1. i \in 1 .. Len(fds) /\ fds \in Seq(Station)
        /\ \A j \in 1 .. Len(fds) : fds[j] \in Station
    BY ElementOfSeq DEF ScanRelay, TypeOK
  <1>2. PICK c \in Station : c = fds[i]
    BY <1>1
  <1>3. up[c] # << >> /\ up[c] \in Seq(Packet) /\ up' = [up EXCEPT ![c] = Tail(up[c])]
        /\ i' = i + 1 /\ UNCHANGED polled
    BY <1>2, HeardType DEF ScanRelay
  <1>4. PICK p \in Packet : p = Head(up[c])
    BY <1>3, HeadTailProperties
  <1>5. p \in Range(up[c])
    BY <1>3, <1>4, TailOrder
  <1>6. p.src = c /\ p.n <= sent[c] /\ p \notin relayed
    BY <1>5 DEF WireOK
  <1>7. PICK R \in SUBSET Station : R = {r \in RelayTo(i) : Open(r)}
    BY <1>1 DEF RelayTo
  <1>8. c \notin R
    BY <1>1, <1>2, <1>7 DEF RelayTo, HubOK
  <1>9. \A r \in R : socket[r] # "none" /\ r \notin backlog
    BY <1>1, <1>7 DEF RelayTo, HubOK
  <1>10. ASSUME NEW r \in Attached, r # c PROVE r \in R
    <2>1. PICK j \in 1 .. Len(fds) : fds[j] = r
      BY DEF HubOK
    <2>2. j # i
      BY <1>2, <1>10, <2>1
    <2> QED BY <1>7, <2>1, <2>2 DEF RelayTo, Attached
  <1>11. relayed' = relayed \union {p}
         /\ down' = [r \in Station |-> IF r \in R THEN Append(down[r], p) ELSE down[r]]
    BY <1>2, <1>4, <1>7 DEF ScanRelay
  <1>12. \A r \in Station : down[r] \in Seq(Packet) /\ polled[r] \in Seq(Packet)
                            /\ Append(down[r], p) \in Seq(Packet)
    BY AppendProperties DEF TypeOK
  <1>13. down' \in [Station -> Seq(Packet)]
    BY <1>11, <1>12
  <1>14. ASSUME NEW r \in Station
         PROVE  Heard(r)' = IF r \in R THEN Append(Heard(r), p) ELSE Heard(r)
    <2>1. CASE r \notin R
      BY <1>3, <1>11, <2>1 DEF Heard
    <2>2. CASE r \in R
      <3>1. Heard(r)' = polled[r] \o Append(down[r], p)
        BY <1>3, <1>11, <2>2 DEF Heard
      <3>2. polled[r] \o Append(down[r], p) = Append(polled[r] \o down[r], p)
        <4>1. PICK q, t \in Seq(Packet) : q = polled[r] /\ t = down[r]
          BY <1>12
        <4>2. q \o Append(t, p) = Append(q \o t, p)
          BY RelaySequence
        <4> QED BY <4>1, <4>2
      <3> QED BY <2>2, <3>1, <3>2 DEF Heard
    <2> QED BY <2>1, <2>2
  <1>15. /\ up[c] # << >> /\ p = Head(up[c]) /\ p \in Range(up[c])
         /\ p.src = c /\ p.n <= sent[c] /\ p \notin relayed
         /\ up' = [up EXCEPT ![c] = Tail(up[c])] /\ relayed' = relayed \union {p}
         /\ i \in 1 .. Len(fds) /\ c = fds[i] /\ i' = i + 1
         /\ down' \in [Station -> Seq(Packet)]
         /\ c \notin R
         /\ \A r \in R : socket[r] # "none" /\ r \notin backlog
         /\ \A r \in Attached : r # c => r \in R
         /\ \A r \in Station : Heard(r)' = IF r \in R THEN Append(Heard(r), p) ELSE Heard(r)
    BY <1>1, <1>2, <1>3, <1>4, <1>5, <1>6, <1>8, <1>9, <1>10, <1>11, <1>13, <1>14, Zenon
  <1> QED BY <1>15, Zenon

\* ScanRelay preserves the invariant: the packet leaves one sequence and
\* becomes the last of the others.
LEMMA ScanRelayStep ==
  ASSUME IndInv, ScanRelay
  PROVE  IndInv'
  <1> USE DEF IndInv
  <1>1. UNCHANGED <<socket, out_of_order_store, sent, dropped, polled, backlog, fds, set, missed>>
    BY DEF ScanRelay
  <1>2. PICK c \in Station, p \in Packet, R \in SUBSET Station :
          /\ up[c] # << >> /\ p = Head(up[c]) /\ p \in Range(up[c])
          /\ p.src = c /\ p.n <= sent[c] /\ p \notin relayed
          /\ up' = [up EXCEPT ![c] = Tail(up[c])] /\ relayed' = relayed \union {p}
          /\ i \in 1 .. Len(fds) /\ c = fds[i] /\ i' = i + 1
          /\ down' \in [Station -> Seq(Packet)]
          /\ c \notin R
          /\ \A r \in R : socket[r] # "none" /\ r \notin backlog
          /\ \A r \in Attached : r # c => r \in R
          /\ \A r \in Station : Heard(r)' = IF r \in R THEN Append(Heard(r), p) ELSE Heard(r)
    BY RelayFacts, Zenon
  <1>3. \A t \in Station : up[t] \in Seq(Packet) /\ Heard(t) \in Seq(Packet)
    BY HeardType
  <1>4. /\ up'[c] = Tail(up[c]) /\ Tail(up[c]) \in Seq(Packet)
        /\ Range(up[c]) = {p} \union Range(up'[c])
        /\ \A x, y : Precedes(up'[c], x, y) => Precedes(up[c], x, y)
        /\ \A y \in Range(up'[c]) : Precedes(up[c], p, y)
    <2>1. up'[c] = Tail(up[c])
      BY <1>2 DEF TypeOK
    <2> QED BY <1>2, <1>3, <2>1, TailOrder
  <1>5. \A t \in Station : t # c => up'[t] = up[t]
    BY <1>2 DEF TypeOK
  <1>6. p \notin Range(up'[c])
    BY <1>4 DEF OrderOK
  <1>7. \A r \in Station : Range(Heard(r)') = Range(Heard(r)) \union {x \in {p} : r \in R}
    <2>1. ASSUME NEW r \in Station PROVE Range(Append(Heard(r), p)) = Range(Heard(r)) \union {p}
      BY <1>3, AppendOrder, Zenon
    <2> QED BY <1>2, <2>1
  <1>8. ASSUME NEW r \in Station, NEW x, NEW y, Precedes(Heard(r)', x, y)
        PROVE  Precedes(Heard(r), x, y) \/ (r \in R /\ x \in Range(Heard(r)) /\ y = p)
    <2>1. Precedes(Append(Heard(r), p), x, y) =>
            Precedes(Heard(r), x, y) \/ (x \in Range(Heard(r)) /\ y = p)
      BY <1>3, AppendOrder, Zenon
    <2>2. CASE r \in R
      BY <1>2, <1>8, <2>1, <2>2, Zenon
    <2>3. CASE r \notin R
      BY <1>2, <1>8, <2>3, Zenon
    <2> QED BY <2>2, <2>3
  <1>9. \A r \in Station : p \notin Range(Heard(r))
    BY <1>2 DEF HeardOK
  <1>10. TypeOK'
    <2>1. up' \in [Station -> Seq(Packet)]
      BY <1>2, <1>4, <1>5 DEF TypeOK
    <2>2. relayed' \subseteq Packet
      BY <1>2 DEF TypeOK
    <2>3. i' = i + 1 /\ i \in Nat
      BY <1>2, Zenon DEF TypeOK
    <2>4. i' \in Nat
      BY <2>3
    <2> QED BY <1>1, <1>2, <2>1, <2>2, <2>4 DEF TypeOK
  <1>11. HubOK'
    <2>1. i \in Nat /\ Len(fds) \in Nat /\ \A j \in 1 .. Len(fds) : fds[j] \in Station
      BY ElementOfSeq, LenProperties DEF TypeOK
    <2>2. ASSUME NEW j \in 1 .. Len(fds), j >= i + 1, fds[j] \in set
          PROVE  up'[fds[j]] # << >> \/ socket[fds[j]] = "closed"
      <3>1. j # i /\ j >= i
        BY <2>1, <2>2
      <3>2. fds[j] # c
        BY <1>2, <3>1 DEF HubOK
      <3>3. up'[fds[j]] = up[fds[j]]
        BY <1>5, <2>1, <3>2
      <3> QED BY <2>2, <3>1, <3>3 DEF HubOK, Readable
    <2>3. i' # 0
      BY <1>2, <2>1
    <2>4. Attached' = Attached
      BY <1>1 DEF Attached, Open
    <2> QED BY <1>1, <1>2, <2>2, <2>3, <2>4 DEF HubOK, Readable
  <1>12. WireOK'
    <2>1. \A q \in relayed' : q.n <= sent[q.src]
      BY <1>2 DEF WireOK
    <2>2. ASSUME NEW t \in Station
          PROVE  /\ \A q \in Range(up'[t]) : q.src = t /\ q.n <= sent[t] /\ q \notin relayed'
                 /\ Range(up'[t]) \union relayed' \subseteq
                      Range(up[t]) \union relayed \union {p}
                 /\ p.src = t => p \in Range(up[t])
      BY <1>2, <1>4, <1>5, <1>6 DEF WireOK
    <2>3. ASSUME NEW t \in Station, NEW q \in Range(up'[t]) \union relayed',
                 out_of_order_store[t] # 0, q.src = t
          PROVE  q.n < out_of_order_store[t]
      BY <2>2, <2>3 DEF WireOK
    <2> QED BY <1>1, <2>1, <2>2, <2>3 DEF WireOK
  <1>13. HeardOK'
    <2> SUFFICES ASSUME NEW s \in Station
                 PROVE  /\ \A q \in Range(Heard(s)') : q \in relayed' /\ q.src # s
                        /\ socket[s] = "none" \/ s \in backlog => Heard(s)' = << >>
                        /\ missed[s] \subseteq relayed'
                        /\ s \in Attached =>
                             Range(Heard(s)') = {q \in relayed' \ missed[s] : q.src # s}
      BY <1>1 DEF HeardOK, Attached, Open
    <2>1. \A q \in Range(Heard(s)') : q \in relayed' /\ q.src # s
      BY <1>2, <1>7 DEF HeardOK
    <2>2. socket[s] = "none" \/ s \in backlog => Heard(s)' = << >>
      BY <1>2 DEF HeardOK
    <2>3. missed[s] \subseteq relayed' /\ p \notin missed[s]
      BY <1>2 DEF HeardOK
    <2>4. ASSUME s \in Attached
          PROVE  Range(Heard(s)') = {q \in relayed' \ missed[s] : q.src # s}
      <3>1. Range(Heard(s)) = {q \in relayed \ missed[s] : q.src # s}
        BY <2>4 DEF HeardOK
      <3>2. s \in R <=> s # c
        BY <1>2, <2>4
      <3> QED BY <1>2, <1>7, <2>3, <3>1, <3>2
    <2> QED BY <2>1, <2>2, <2>3, <2>4
  <1>14. OrderOK'
    <2>1. ASSUME NEW r \in Station, NEW s \in Station, NEW x, NEW y,
                 Precedes(Heard(r)', x, y), Precedes(Heard(s)', y, x)
          PROVE  FALSE
      <3>1. \A q \in Seq(Packet) : \A v, w : Precedes(q, v, w) => v \in Range(q) /\ w \in Range(q)
        BY RangeEquality DEF Precedes
      <3>2. x # p /\ y # p
        BY <1>3, <1>8, <1>9, <2>1, <3>1
      <3> QED BY <1>8, <2>1, <3>2 DEF OrderOK
    <2>2. \A s \in Station : \A x : ~Precedes(up'[s], x, x)
      BY <1>4, <1>5 DEF OrderOK
    <2> QED BY <2>1, <2>2 DEF OrderOK
  <1>15. SwapOK'
    <2>1. ASSUME NEW r \in Station, NEW s \in Station, NEW x \in Packet, NEW y \in Packet,
                 x.src = s, y.src = s, Overtakes(r, s, x, y)'
          PROVE  Overtakes(r, s, x, y)
      <3>1. x.n > y.n /\ (\/ Precedes(Heard(r)', x, y) \/ Precedes(up'[s], x, y)
                          \/ x \in Range(Heard(r)') /\ y \in Range(up'[s]))
        BY <2>1 DEF Overtakes
      <3>2. CASE s # c
        <4>1. x # p /\ y # p
          BY <1>2, <2>1, <3>2
        <4> QED BY <1>5, <1>7, <1>8, <3>1, <3>2, <4>1 DEF Overtakes
      <3>3. CASE s = c
        BY <1>2, <1>4, <1>7, <1>8, <3>1, <3>3 DEF Overtakes
      <3> QED BY <3>2, <3>3
    <2> QED BY <2>1 DEF SwapOK
  <1>16. NothingLost'
    <2> SUFFICES ASSUME NEW t \in Station, NEW n \in 1 .. sent[t]
                 PROVE  Pkt(t, n) \in Range(Held(t)) \union Range(up'[t]) \union dropped \union relayed'
      BY <1>1 DEF NothingLost, Held
    <2>1. Range(up[t]) \subseteq Range(up'[t]) \union {p}
      BY <1>4, <1>5
    <2> QED BY <1>2, <2>1 DEF NothingLost
  <1> QED BY <1>10, <1>11, <1>12, <1>13, <1>14, <1>15, <1>16

(***************************************************************************)
(* The theorems.                                                           *)
(***************************************************************************)

\* Every step of a station and of the hub preserves the invariant.
LEMMA NextInv == IndInv /\ [Next]_vars => IndInv'
  <1> SUFFICES ASSUME IndInv, [Next]_vars PROVE IndInv'
    OBVIOUS
  <1>1. CASE \E s \in Station : nb__ipc_init(s)
    BY <1>1, InitStep
  <1>2. CASE \E s \in Station : nb__send_packet(s)
    <2>1. PICK s \in Station : nb__send_packet(s)
      BY <1>2
    <2>2. SendDropped(s) \/ SendHeld(s) \/ SendWritten(s)
      BY <2>1 DEF nb__send_packet
    <2> QED BY <2>1, <2>2, SendDroppedStep, SendHeldStep, SendWrittenStep
  <1>3. CASE \E s \in Station : nb__poll_packet(s)
    BY <1>3, PollStep
  <1>4. CASE \E s \in Station : nb__ipc_deinit(s)
    BY <1>4, DeinitStep
  <1>5. CASE \E s \in Station : SelectAccept(s)
    BY <1>5, SelectAcceptStep
  <1>6. CASE SelectData \/ ScanSkip \/ ScanEnd
    BY <1>6, ScanStep
  <1>7. CASE ScanRelay
    BY <1>7, ScanRelayStep
  <1>8. CASE ScanClose
    BY <1>8, ScanCloseStep
  <1>9. CASE UNCHANGED vars
    <2>1. UNCHANGED <<socket, out_of_order_store, up, sent, dropped, down, polled,
                      backlog, fds, set, i, relayed, missed>>
      BY <1>9 DEF vars, stations, hub
    <2>2. TypeOK' /\ HubOK'
      BY <2>1 DEF IndInv, TypeOK, HubOK, Attached, Open, Readable
    <2> QED BY <2>1, <2>2, HeardFrame, PacketsFrame DEF IndInv
  <1> QED BY <1>1, <1>2, <1>3, <1>4, <1>5, <1>6, <1>7, <1>8, <1>9 DEF Next, Hub

\* The invariant of the IPC transports and the hub holds in every reachable
\* state, for any number of stations, senders and packets.
THEOREM IpcInvariant == Spec => []IndInv
  BY InitInv, NextInv, PTL DEF Spec

\* No packet is lost between nb__send_packet and the hub but the ones dropped
\* on purpose: not one held back while others are sent, dropped, or the
\* station closes.
THEOREM IpcNothingLost == Spec => []NothingLost
  <1>1. IndInv => NothingLost
    BY DEF IndInv
  <1> QED BY <1>1, IpcInvariant, PTL

\* A station hears every packet once, after at most one later packet of the
\* same sender, and after none when nothing is held back on purpose.
THEOREM IpcSwapsNeighbours == Spec => []SwapsNeighbours
  <1>1. ASSUME IndInv PROVE SwapsNeighbours
    <2> SUFFICES ASSUME NEW r \in Station, NEW q, q = Heard(r)
                 PROVE  /\ \A j, k \in 1 .. Len(q) : q[j] = q[k] => j = k
                        /\ \A j, l, k \in 1 .. Len(q) :
                             /\ j < k /\ q[j].src = q[k].src /\ q[j].n > q[k].n
                             /\ l < k /\ q[l].src = q[k].src /\ q[l].n > q[k].n
                             => OutOfOrder /\ j = l
      BY DEF SwapsNeighbours
    <2>1. q \in Seq(Packet) /\ Len(q) \in Nat /\ \A j \in 1 .. Len(q) : q[j] \in Packet
      BY HeardType, ElementOfSeq, LenProperties, <1>1 DEF IndInv
    <2>2. \A x : ~Precedes(q, x, x)
      BY <1>1 DEF IndInv, OrderOK
    <2>3. \A j, k \in 1 .. Len(q) : q[j] = q[k] => j = k
      <3> SUFFICES ASSUME NEW j \in 1 .. Len(q), NEW k \in 1 .. Len(q), q[j] = q[k], j # k
                   PROVE  FALSE
        OBVIOUS
      <3>1. j < k \/ k < j
        BY <2>1
      <3> QED BY <2>2, <3>1 DEF Precedes
    <2>4. ASSUME NEW j \in 1 .. Len(q), NEW l \in 1 .. Len(q), NEW k \in 1 .. Len(q),
                 j < k, q[j].src = q[k].src, q[j].n > q[k].n,
                 l < k, q[l].src = q[k].src, q[l].n > q[k].n
          PROVE  OutOfOrder /\ j = l
      <3>1. PICK s \in Station : q[k].src = s
        BY <2>1 DEF Packet
      <3>2. Overtakes(r, s, q[j], q[k]) /\ Overtakes(r, s, q[l], q[k])
        BY <2>4 DEF Overtakes, Precedes
      <3>3. OutOfOrder /\ q[j] = q[l]
        BY <1>1, <2>1, <2>4, <3>1, <3>2 DEF IndInv, SwapOK
      <3> QED BY <2>3, <3>3
    <2> QED BY <2>3, <2>4
  <1> QED BY <1>1, IpcInvariant, PTL

\* The hub's array loses no station: each one that is attached hears every
\* packet of the others read since it was accepted, and all hear what they
\* hear in the same order.
THEOREM IpcStationsAgree == Spec => []StationsAgree
  <1>1. ASSUME IndInv PROVE StationsAgree
    <2>1. \A s \in Attached : s \in Station
      BY DEF Attached
    <2>2. \A s \in Attached : Range(Heard(s)) = {p \in relayed \ missed[s] : p.src # s}
      BY <1>1, <2>1 DEF IndInv, HeardOK
    <2>3. ASSUME NEW r \in Attached, NEW s \in Attached,
                 NEW j \in 1 .. Len(Heard(r)), NEW k \in 1 .. Len(Heard(r)),
                 NEW l \in 1 .. Len(Heard(s)), NEW m \in 1 .. Len(Heard(s)),
                 Heard(r)[j] = Heard(s)[l], Heard(r)[k] = Heard(s)[m]
          PROVE  j < k <=> l < m
      <3>1. Len(Heard(r)) \in Nat /\ Len(Heard(s)) \in Nat
        BY HeardType, LenProperties, <1>1, <2>1 DEF IndInv
      <3>2. \A t, u \in Station : \A x, y : Precedes(Heard(t), x, y) => ~Precedes(Heard(u), y, x)
        BY <1>1 DEF IndInv, OrderOK
      <3>3. ASSUME j < k PROVE l < m
        <4>1. Precedes(Heard(r), Heard(r)[j], Heard(r)[k])
          BY <3>3 DEF Precedes
        <4>2. CASE m < l
          <5>1. Precedes(Heard(s), Heard(r)[k], Heard(r)[j])
            BY <2>3, <4>2 DEF Precedes
          <5> QED BY <2>1, <3>2, <4>1, <5>1
        <4>3. CASE m = l
          <5>1. Precedes(Heard(r), Heard(r)[k], Heard(r)[j])
            BY <2>3, <4>1, <4>3
          <5> QED BY <2>1, <3>2, <4>1, <5>1
        <4> QED BY <3>1, <4>2, <4>3
      <3>4. ASSUME l < m PROVE j < k
        <4>1. Precedes(Heard(s), Heard(s)[l], Heard(s)[m])
          BY <3>4 DEF Precedes
        <4>2. CASE k < j
          <5>1. Precedes(Heard(r), Heard(s)[m], Heard(s)[l])
            BY <2>3, <4>2 DEF Precedes
          <5> QED BY <2>1, <3>2, <4>1, <5>1
        <4>3. CASE k = j
          <5>1. Precedes(Heard(s), Heard(s)[m], Heard(s)[l])
            BY <2>3, <4>1, <4>3
          <5> QED BY <2>1, <3>2, <4>1, <5>1
        <4> QED BY <3>1, <4>2, <4>3
      <3> QED BY <3>3, <3>4
    <2> QED BY <2>2, <2>3 DEF StationsAgree
  <1> QED BY <1>1, IpcInvariant, PTL

(***************************************************************************)
(* The refinement.                                                         *)
(***************************************************************************)

\* Before any station connects, nobody has heard anything.
LEMMA MediumInit == Init => Medium!Init
  <1> SUFFICES ASSUME Init PROVE Medium!Init
    OBVIOUS
  <1>1. \A s \in Station : Heard(s) = << >>
    BY EmptySeq, ConcatEmptySeq DEF Init, Heard
  <1>2. \A s \in Station : Range(Heard(s)) = {}
    BY <1>1, EmptyOrder
  <1> QED BY <1>2 DEF Init, Medium!Init

\* What is sent is a send of the medium, what the hub relays a broadcast, and
\* every other step a stutter.
LEMMA MediumNext == IndInv /\ [Next]_vars => [Medium!Next]_(Medium!vars)
  <1> SUFFICES ASSUME IndInv, [Next]_vars PROVE [Medium!Next]_(Medium!vars)
    OBVIOUS
  <1> DEFINE heard == [s \in Station |-> Range(Heard(s))]
  <1>1. ASSUME UNCHANGED sent, \A s \in Station : Heard(s)' = Heard(s)
        PROVE  UNCHANGED Medium!vars
    <2>1. heard' = heard
      BY <1>1
    <2> QED BY <1>1, <2>1 DEF Medium!vars
  <1>2. ASSUME UNCHANGED <<sent, polled, down>> PROVE UNCHANGED Medium!vars
    BY <1>1, <1>2 DEF Heard
  <1>3. ASSUME NEW s \in Station, nb__send_packet(s) PROVE Medium!Next
    <2>1. \A t \in Station : Heard(t)' = Heard(t)
      BY <1>3 DEF nb__send_packet, Heard
    <2>2. heard' = heard
      BY <2>1
    <2>3. Medium!Send(s)
      BY <1>3, <2>2 DEF nb__send_packet, Medium!Send
    <2> QED BY <2>3 DEF Medium!Next
  <1>4. ASSUME ScanRelay PROVE Medium!Next
    <2>1. PICK c \in Station, p \in Packet, R \in SUBSET Station :
            /\ p.src = c /\ p.n <= sent[c] /\ p \notin relayed /\ c \notin R
            /\ \A r \in Station : Heard(r)' = IF r \in R THEN Append(Heard(r), p) ELSE Heard(r)
      BY <1>4, RelayFacts, Zenon
    <2>2. p = [src |-> c, n |-> p.n] /\ p.n \in 1 .. MaxSends
      BY <2>1 DEF Packet
    <2>3. p.n \in 1 .. sent[c]
      BY <2>1, <2>2 DEF IndInv, TypeOK
    <2>4. \A r \in R : p \notin heard[r]
      BY <2>1 DEF IndInv, HeardOK
    <2>5. ASSUME NEW r \in Station
          PROVE  heard'[r] = IF r \in R THEN heard[r] \union {p} ELSE heard[r]
      <3>1. Heard(r) \in Seq(Packet)
        BY HeardType DEF IndInv
      <3>2. Range(Append(Heard(r), p)) = Range(Heard(r)) \union {p}
        BY <3>1, AppendOrder, Zenon
      <3> QED BY <2>1, <3>2
    <2>6. heard' = [r \in Station |-> IF r \in R THEN heard[r] \union {p} ELSE heard[r]]
      BY <2>5
    <2>7. UNCHANGED sent
      BY <1>4 DEF ScanRelay
    <2>8. Medium!Broadcast(c, p.n, R)
      BY <2>1, <2>2, <2>3, <2>4, <2>6, <2>7 DEF Medium!Broadcast
    <2> QED BY <2>2, <2>8 DEF Medium!Next
  <1>5. ASSUME NEW s \in Station, nb__poll_packet(s) PROVE UNCHANGED Medium!vars
    BY <1>1, <1>5, PollStep DEF nb__poll_packet, stations
  <1>6. CASE \/ \E s \in Station : nb__ipc_init(s) \/ nb__ipc_deinit(s) \/ SelectAccept(s)
             \/ SelectData \/ ScanSkip \/ ScanEnd \/ ScanClose \/ UNCHANGED vars
    <2>1. UNCHANGED <<sent, polled, down>>
      BY <1>6 DEF nb__ipc_init, nb__ipc_deinit, SelectAccept, SelectData, ScanSkip,
                  ScanEnd, ScanClose, stations, hub, vars
    <2> QED BY <1>2, <2>1
  <1> QED BY <1>3, <1>4, <1>5, <1>6 DEF Next, Hub

\* Transports and hub implement the shared medium of IpcMedium: what is heard
\* was sent, reaches a station once and never its sender.
THEOREM IpcImplementsMedium == Spec => ImplementsMedium
  BY IpcInvariant, MediumInit, MediumNext, PTL DEF Spec, ImplementsMedium, Medium!Spec
=============================================================================
