-------------------------------- MODULE Stack --------------------------------
(***************************************************************************)
(* The protocol stack src/impls/simple.cpp assembles, between a client and *)
(* a listening server: the framework runs the hooks of the registered      *)
(* modules over a packet (core/framework.cpp), and the modules number,     *)
(* acknowledge, checksum, shelve and signal.  This module is about how the *)
(* hooks fit together: their order, the lengths they pass on, the bytes of *)
(* the buffers they share, the packets they send from inside a path, and   *)
(* the second run of the ingress path over a packet nb__accept queued.     *)
(*                                                                         *)
(* A packet is its bytes after the headroom.  Buffers come from malloc, so *)
(* a byte nobody wrote is stale.  Ids select the one connection of either  *)
(* host (module ConnTable has the table), and at most INORDER_BUFFER_SIZE  *)
(* packets are sent, so the shelf is a set (module Flow has the slots).    *)
(* A frame once sent may arrive at any time and any number of times, or    *)
(* never: the transports lose and reorder, redelivery duplicates.  The     *)
(* redelivery timers themselves are in Flow.                               *)
(***************************************************************************)
EXTENDS Integers, Sequences, SequencesExt, FiniteSetsExt

CONSTANTS Base,         \* values of a byte (256)
          InitSeq,      \* first value of last_sent_sequence (1010)
          AppId,        \* local application id of a connection
          Messages,     \* host -> what its application sends, in order
          MaxLen,       \* length of the longest message
          Stale,        \* the values an unwritten byte may have
          Noise,        \* the values a corrupted byte may take
          MaxQueue      \* bound: packets in the accept queue (512)

Host == {"client", "server"}
Peer(h) == IF h = "client" THEN "server" ELSE "client"

\* Where the members are, one byte for an integer and two for the checksum;
\* the header has an even length, as the one of simple.cpp has.
dst_global_id       == 1
total_len           == 2
sequence_number     == 3
ack_sequence_number == 4
checksum            == 5
payload             == 7
HeaderLen == payload - 1
BufferLen == HeaderLen + MaxLen + 1

ASSUME StackAssumption ==
  /\ Base \in Nat /\ InitSeq \in Nat \ {0} /\ AppId \in 0 .. Base - 1
  /\ Stale \union Noise \subseteq 0 .. Base - 1 /\ MaxQueue \in Nat
  /\ MaxLen \in Nat \ {0} /\ HeaderLen + MaxLen < Base
  /\ \A h \in Host : /\ InitSeq + Len(Messages[h]) + 1 < Base
                     /\ \A i \in 1 .. Len(Messages[h]) : Len(Messages[h][i]) \in 1 .. MaxLen

VARIABLES
  checksum_type,        \* the configuration the protocol was generated with
  unwritten,            \* host -> what its unwritten bytes hold
  conn,                 \* host -> its connection
  accept_queue,         \* packets queued at the server's listening connection
  wire,                 \* host -> frames sent to it
  faults                \* history: what the checksum module got wrong

config == <<checksum_type, unwritten>>
vars   == <<config, conn, accept_queue, wire, faults>>

(***************************************************************************)
(* A hook is an operator on the state s of a path: the connection c, the   *)
(* packet p, the frames handed to the transport, whether a hook said       *)
(* HOOK_DROP, and the accept queue.  x is what malloc returns.             *)
(***************************************************************************)
NewBuffer(x) == [bytes |-> [i \in 1 .. BufferLen |-> x], computed_total_len |-> x]

Frame(p) == SubSeq(p.bytes, 1, p.computed_total_len)

SetLen(p, n) == [p EXCEPT !.bytes[total_len] = n, !.computed_total_len = n]

Payload(p) == SubSeq(p.bytes, payload, p.computed_total_len)

-----------------------------------------------------------------------------
(***************************************************************************)
(* The send hooks.                                                         *)
(***************************************************************************)
payload_send(s, buff) ==
  LET q == SetLen(s.p, HeaderLen + Len(buff))
  IN  [s EXCEPT !.p = [q EXCEPT !.bytes = [i \in 1 .. BufferLen |->
                         IF i - HeaderLen \in 1 .. Len(buff) THEN buff[i - HeaderLen] ELSE @[i]]]]

inorder_send(s) ==
  LET sq == s.c.last_sent_sequence + 1
  IN  [s EXCEPT !.c.last_sent_sequence = sq, !.p.bytes[sequence_number] = sq]

reliable_send(s) == [s EXCEPT !.p.bytes[ack_sequence_number] = 0]

routing_send(s) == [s EXCEPT !.p.bytes[dst_global_id] = s.c.dst_global_id]

\* Mutant: the sum leaves out the last two bytes.
ComputeChecksumShort(p) ==
  LET eo    == IF checksum_type = "full_packet" THEN p.computed_total_len ELSE HeaderLen
      zero  == [p.bytes EXCEPT ![checksum] = 0, ![checksum + 1] = 0]
      bytes == IF eo % 2 = 0 THEN zero ELSE [zero EXCEPT ![eo + 1] = 0]
  IN  [bytes |-> bytes,
       sum   |-> MapThenSumSet(LAMBDA k : bytes[2 * k - 1] + Base * bytes[2 * k],
                               1 .. (eo - 1) \div 2) % (Base * Base)]

\* The sum of the 16-bit words from the headroom to the end, the checksum
\* taken as zero and an odd length padded in the buffer itself.
compute_checksum(p) ==
  LET eo    == IF checksum_type = "full_packet" THEN p.computed_total_len ELSE HeaderLen
      zero  == [p.bytes EXCEPT ![checksum] = 0, ![checksum + 1] = 0]
      bytes == IF eo % 2 = 0 THEN zero ELSE [zero EXCEPT ![eo + 1] = 0]
  IN  [bytes |-> bytes,
       sum   |-> MapThenSumSet(LAMBDA k : bytes[2 * k - 1] + Base * bytes[2 * k],
                               1 .. (eo + 1) \div 2) % (Base * Base)]

GetChecksum(bytes) == bytes[checksum] + Base * bytes[checksum + 1]
SetChecksum(bytes, v) == [bytes EXCEPT ![checksum] = v % Base, ![checksum + 1] = v \div Base]

checksum_send(s) ==
  LET cc == compute_checksum(s.p)
  IN  [s EXCEPT !.p.bytes = SetChecksum(cc.bytes, cc.sum)]

network_send(s) == [s EXCEPT !.out = @ \union {Frame(s.p)}]

\* The modules in the order simple.cpp registers them.
m_registered_modules == <<"payload", "signaling", "inorder", "reliable", "identifier",
                          "signaling_after", "routing", "checksum", "network">>
m_sequence(m) == CHOOSE i \in DOMAIN m_registered_modules : m_registered_modules[i] = m

hook_send(m, s, buff) ==
  CASE m = "payload"  -> payload_send(s, buff)
    [] m = "inorder"  -> inorder_send(s)
    [] m = "reliable" -> reliable_send(s)
    [] m = "routing"  -> routing_send(s)
    [] m = "checksum" -> checksum_send(s)
    [] m = "network"  -> network_send(s)
    [] OTHER          -> s

\* The send hooks from module number i on, over a packet p; the packet of the
\* path s stays what it was.  No send hook drops.
SendFrom(i, s, p, buff) ==
  [FoldLeft(LAMBDA t, m : hook_send(m, t, buff), [s EXCEPT !.p = p],
            SubSeq(m_registered_modules, i, Len(m_registered_modules)))
     EXCEPT !.p = s.p]

run_send_path(s, buff) == SendFrom(1, s, NewBuffer(s.x), buff)

-----------------------------------------------------------------------------
(***************************************************************************)
(* The establish hooks.  signaling_after sends an empty packet through the *)
(* send hooks after signaling while the path is still under way.           *)
(***************************************************************************)
Malloc(x) == [up |-> FALSE, dst_global_id |-> x, last_sent_sequence |-> x,
              last_recv_sequence |-> x, inorder_buffer |-> {}, input_queue |-> << >>, signaling_state |-> "NONE"]

inorder_establish(s) ==
  [s EXCEPT !.c.last_sent_sequence = InitSeq, !.c.last_recv_sequence = 0,
            !.c.inorder_buffer = {}]

identifier_establish(s) == [s EXCEPT !.c.up = TRUE, !.c.input_queue = << >>]

\* Mutant: signalling is taken for done when the packet is sent.
SignalingEstablishAtOnce(s) ==
  SendFrom(m_sequence("signaling") + 1, [s EXCEPT !.c.signaling_state = "SIGNALED"],
           SetLen(NewBuffer(s.x), HeaderLen), << >>)

signaling_after_establish(s) ==
  SendFrom(m_sequence("signaling") + 1, [s EXCEPT !.c.signaling_state = "WAITING_FOR_SIGNAL"],
           SetLen(NewBuffer(s.x), HeaderLen), << >>)

routing_establish(s) == [s EXCEPT !.c.dst_global_id = AppId]

hook_establish(m, s) ==
  CASE m = "inorder"         -> inorder_establish(s)
    [] m = "identifier"      -> identifier_establish(s)
    [] m = "signaling_after" -> signaling_after_establish(s)
    [] m = "routing"         -> routing_establish(s)
    [] OTHER                 -> s

run_establish_path(s) ==
  FoldLeft(LAMBDA t, m : hook_establish(m, t), [s EXCEPT !.c = Malloc(s.x)],
           m_registered_modules)

-----------------------------------------------------------------------------
(***************************************************************************)
(* The ingress hooks.                                                      *)
(***************************************************************************)
network_ingress(s) == [s EXCEPT !.p.computed_total_len = s.p.bytes[total_len]]

payload_ingress(s) == [s EXCEPT !.p.computed_total_len = s.p.bytes[total_len]]

\* Mutant: the checksum of the packet is not put back.
ChecksumIngressForgets(s) ==
  LET cc == compute_checksum(s.p)
  IN  [s EXCEPT !.p.bytes = cc.bytes,
                !.refused = cc.sum # GetChecksum(s.p.bytes),
                !.drop = cc.sum # GetChecksum(s.p.bytes)]

checksum_ingress(s) ==
  LET saved == GetChecksum(s.p.bytes)
      cc    == compute_checksum(s.p)
  IN  [s EXCEPT !.p.bytes = SetChecksum(cc.bytes, saved),
                !.refused = cc.sum # saved,
                !.drop = cc.sum # saved]

\* A packet without a connection waits for nb__accept, the ACK is not sent yet.
identifier_ingress(s) ==
  IF s.c.up THEN s ELSE [s EXCEPT !.queue = Append(@, s.p), !.drop = TRUE]

\* An ACK ends here; any other packet is acknowledged from inside the path.
reliable_ingress(s) ==
  LET p_ack == [SetLen(NewBuffer(s.x), HeaderLen + 1)
                  EXCEPT !.bytes[ack_sequence_number] = s.p.bytes[sequence_number]]
  IN  IF s.p.bytes[ack_sequence_number] # 0
      THEN [s EXCEPT !.drop = TRUE]
      ELSE SendFrom(m_sequence("reliable") + 1, s, p_ack, << >>)

\* One packet to the user, its length read from total_len again.
Deliver(c, p) ==
  LET data == Payload([p EXCEPT !.computed_total_len = p.bytes[total_len]])
  IN  [c EXCEPT !.last_recv_sequence = p.bytes[sequence_number],
                !.input_queue = IF data = << >> THEN @ ELSE Append(@, data)]

inorder_ingress(s) ==
  LET seq     == s.p.bytes[sequence_number]
      Has(n)  == \E q \in s.c.inorder_buffer : q.bytes[sequence_number] = n
      At(n)   == CHOOSE q \in s.c.inorder_buffer : q.bytes[sequence_number] = n
      k       == CHOOSE i \in 0 .. Base : /\ \A j \in 1 .. i : Has(seq + j)
                                          /\ ~Has(seq + i + 1)
      shelved == [i \in 1 .. k |-> At(seq + i)]
  IN  IF s.c.last_recv_sequence = 0 \/ seq = s.c.last_recv_sequence + 1
      THEN [s EXCEPT !.c = [FoldLeft(Deliver, Deliver(s.c, s.p), shelved)
                              EXCEPT !.inorder_buffer = @ \ Range(shelved)]]
      ELSE [s EXCEPT !.c.inorder_buffer = {q \in @ : q.bytes[sequence_number] # seq}
                                            \union {s.p},
                     !.drop = TRUE]

signaling_ingress(s) ==
  [s EXCEPT !.c.signaling_state = IF @ = "WAITING_FOR_SIGNAL" THEN "SIGNALED" ELSE @]

hook_ingress(m, s) ==
  CASE m = "network"    -> network_ingress(s)
    [] m = "checksum"   -> checksum_ingress(s)
    [] m = "identifier" -> identifier_ingress(s)
    [] m = "reliable"   -> reliable_ingress(s)
    [] m = "inorder"    -> inorder_ingress(s)
    [] m = "signaling"  -> signaling_ingress(s)
    [] m = "payload"    -> payload_ingress(s)
    [] OTHER            -> s

\* The ingress hooks in reverse order, until one drops the packet.
run_ingress_path(s, p) ==
  FoldLeft(LAMBDA t, m : IF t.drop THEN t ELSE hook_ingress(m, t),
           [s EXCEPT !.p = p, !.drop = FALSE], Reverse(m_registered_modules))

-----------------------------------------------------------------------------
Path(h) == [c |-> conn[h], p |-> NewBuffer(unwritten[h]), out |-> {}, drop |-> FALSE,
            refused |-> FALSE, queue |-> accept_queue, x |-> unwritten[h]]

\* What a path leaves behind at host h.
Ran(h, s) ==
  /\ conn' = [conn EXCEPT ![h] = s.c]
  /\ accept_queue' = s.queue
  /\ wire' = [wire EXCEPT ![Peer(h)] = @ \union s.out]
  /\ UNCHANGED config

Init ==
  /\ checksum_type \in {"full_packet", "header_only"}
  /\ unwritten \in [Host -> Stale]
  /\ conn = [h \in Host |-> Malloc(0)]
  /\ accept_queue = << >>
  /\ wire = [h \in Host |-> {}]
  /\ faults = {}

\* establish_impl at the client.
nb__establish ==
  /\ ~conn["client"].up
  /\ Ran("client", run_establish_path(Path("client")))
  /\ UNCHANGED faults

\* The queued packets in the order nb__accept takes them out of the queue.
AcceptOrder(q) ==
  <<Last(q)>> \o (IF Len(q) = 1 THEN << >> ELSE <<Head(q)>> \o Reverse(Tail(Front(q))))

nb__accept ==
  /\ ~conn["server"].up
  /\ accept_queue # << >>
  /\ LET est == run_establish_path([Path("server") EXCEPT !.queue = << >>])
         s   == [est EXCEPT !.c.signaling_state = "SIGNALED"]
         in  == FoldLeft(LAMBDA t, p : LET u == run_ingress_path(t, p)
                                       IN  [u EXCEPT !.refused = @ \/ t.refused],
                         s, AcceptOrder(accept_queue))
     IN  /\ Ran("server", in)
         /\ faults' = faults \union (IF in.refused THEN {"refused"} ELSE {})

\* The application sends once the connection is established: from the callback
\* of the ESTABLISHED event, or after nbp_connect or nbp_accept returned.
NumSent(h) == conn[h].last_sent_sequence - InitSeq - 1

nb__send(h) ==
  /\ conn[h].signaling_state = "SIGNALED"
  /\ NumSent(h) < Len(Messages[h])
  /\ Ran(h, run_send_path(Path(h), Messages[h][NumSent(h) + 1]))
  /\ UNCHANGED faults

\* nb__main_loop_step polls a frame; the buffer holds something else after it.
Received(h, f) ==
  run_ingress_path(Path(h),
    [NewBuffer(unwritten[h]) EXCEPT !.bytes =
       [i \in 1 .. BufferLen |-> IF i <= Len(f) THEN f[i] ELSE unwritten[h]]])

Poll(h, f) ==
  /\ f \in wire[h]
  /\ conn[h].up \/ Len(accept_queue) < MaxQueue
  /\ LET s == Received(h, f)
     IN  /\ Ran(h, s)
         /\ faults' = faults \union (IF s.refused THEN {"refused"} ELSE {})

\* The bytes the checksum covers; total_len, which says which these are, is not
\* corrupted here.
Covered(f) ==
  (1 .. IF checksum_type = "full_packet" THEN Len(f) ELSE HeaderLen) \ {total_len}

\* A copy of the frame arrives with one byte changed.
PollCorrupt(h, f, k, v) ==
  /\ f \in wire[h]
  /\ k \in Covered(f)
  /\ f[k] # v
  /\ conn[h].up \/ Len(accept_queue) < MaxQueue
  /\ LET s == Received(h, [f EXCEPT ![k] = v])
     IN  /\ Ran(h, s)
         /\ faults' = faults \union (IF s.refused THEN {} ELSE {"forged"})

Next ==
  \/ nb__establish
  \/ nb__accept
  \/ \E h \in Host :
       \/ nb__send(h)
       \/ \E f \in wire[h] : \/ Poll(h, f)
                             \/ \E k \in Covered(f), v \in Noise : PollCorrupt(h, f, k, v)

Spec == Init /\ [][Next]_vars

-----------------------------------------------------------------------------
(***************************************************************************)
(* Properties.                                                             *)
(***************************************************************************)

\* The checksum module never drops a packet that arrived as it was sent: not
\* for bytes left over in a buffer, nor for an ACK whose payload nobody wrote,
\* nor in the second ingress of a packet that waited for nb__accept.
HonestAccepted == "refused" \notin faults

\* A packet with one byte changed in what the checksum covers gets no further
\* than checksum.hook_ingress.
CorruptRefused == "forged" \notin faults

\* No gap in what an application reads.  The server reads from the client's
\* first message on, although inorder starts a stream with any packet: the
\* client sends none before the server has accepted its signal.  The server
\* sends without waiting for anything, so the client may miss a beginning.
MessagesFromFirst ==
  /\ IsPrefix(conn["server"].input_queue, Messages["client"])
  /\ IsSuffix(conn["client"].input_queue,
              SubSeq(Messages["server"], 1, conn["client"].last_recv_sequence - InitSeq - 1))
=============================================================================
