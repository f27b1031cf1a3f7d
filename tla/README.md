# A TLA+ model of net-blocks

net-blocks generates network protocols from modules. A protocol is put together
from a list of modules (identifier, inorder, reliable, signaling, payload, ...);
each has hooks for establishing, closing, sending and receiving, and the
framework emits C code in which the hooks of the chosen modules run one after
the other. A small runtime (`runtime/`) gives the generated code its timers,
queues, main loop and transports, and a POSIX layer (`runtime/posix`) puts
sockets on top.

This directory models the parts of that system that keep state across calls,
checks them with TLC on small instances, and proves most of their safety
properties for every instance with TLAPS. The
models are of what the generated C code does at run time; code generation is
not modelled.

## 1. The system: parts, state, operations

| Part | State | Operations |
|---|---|---|
| inorder module (`src/modules/inorder_module.cpp`) | per connection: `last_sent_sequence`, `last_recv_sequence`, `inorder_buffer` (32 slots), `max_ooo_sequence` | number a packet; on ingress pass up, shelve or drop it, and empty the shelf |
| reliable module (`reliable_module.cpp`) | per connection: `redelivery_buffer` (32 slots), one timer per packet | store and arm on send; acknowledge on ingress; retire on an ACK; redeliver when the timer fires |
| timers (`runtime/nb_timer.c`) | pool of 1024 timers, free list, armed list sorted by timeout | alloc, return, insert, remove, check |
| identifier module (`identifier_module.cpp`) | four parallel arrays and `num_conn` in `net_state` | add, delete with compaction, look up, look up the listener |
| signaling module (`signaling_module.cpp`) | `signaling_state` of a connection | empty first packet, state change on the first packet received |
| runtime (`nb_runtime.c`) | data queue and accept queue of a connection (512 places), cached time | insert, `nb__read`, `nb__accept`, `nb__cycle_connections`, `nb__main_loop_step` |
| POSIX layer (`runtime/posix/src/network.c`) | tables by descriptor, flags by port | socket, connect, bind, accept, recv, select, close, ... |
| IPC transport and hub (`nb_ipc_transport.c`, `utils/hub/ipc_hub.c`) | a packet held back; the hub's array of descriptors | send with simulated loss and reordering, poll; accept, relay, forget |
| packet layout (`include/core/packet.h`, `core/packet.cpp`) | bit offsets and sizes of the header members | read and write integers at any bit offset |
| checksum, payload, network, routing, interface modules | header fields of one packet, bytes of its buffer | lengths, copying, sum and check, each on one path |
| framework (`core/framework.cpp`) | `m_registered_modules` | run the hooks of a path in order (ingress in reverse), stop at a drop |
| mlx5 transport (`nb_mlx5_transport.cc`, `mlx5_impl/transport.cc`) | ring of frames, work requests and completions shared with the card | count arrivals from one completion, post work requests again, hand frames out |
| Linux transport | a raw socket | send and poll |
| code generation | | emit the code |

How they interact. A process is single threaded. `nb__main_loop_step` reads the
clock, polls at most one packet and runs it through the ingress path
(identifier, reliable, inorder, signaling, payload, ...), where a packet of a
new client fires ACCEPT_READY; then `nb__cycle_connections` fires ESTABLISHED
and READ_READY on the connections, then due timers fire. The POSIX layer's callback notes the events by
descriptor, and its blocking calls run main loop steps until the note they wait
for appears. Timers call back into the reliable module, which sends. Two
processes meet in the transport: packets are lost, delayed, reordered and,
through redelivery, duplicated.

What is hard here. Packets and ACKs in any order against buffers that are
indexed modulo 32 and never compare full numbers; an ACK that is sent before it
is decided what becomes of its packet; a timer that is re-armed by its own
callback while an ACK is on its way; arrays and lists that are compacted while
they are walked; counters that count packets where clients are meant;
descriptors that are reused with the marks of their last owner; several
processes that come and go at the hub; header members that share bytes; hooks
that send packets of their own from inside a path; buffers that carry what they
held before, through a checksum computed in place and an ingress path that runs
twice; completions a network card overwrites while they are read.
`PROJECT.json` lists these hazards at their lines, each with the properties that
would catch it going wrong.

What makes each part correct:

* inorder + reliable: nothing acknowledged is lost, the user sees a gapless
  stream, every packet is eventually retired and passed up;
* timers: the lists partition the pool, the earliest timer fires first, due
  timers fire;
* identifier: a packet reaches its own connection after any sequence of opening
  and closing, and no entry points at freed memory;
* accept path: no client waits unseen or is accepted twice, and its first packets
  reach the user as a run;
* POSIX layer: events reach the socket they belong to, a blocking call ends for
  its own reason, keys of connections differ;
* IPC: a shared medium that reorders neighbours only;
* layout: a member reads back what was written, at any offset (the code fails
  here, section 5);
* the stack as a whole: what was sent unchanged is accepted, what was changed is
  not, and the handshake puts the beginning of the client's stream first;
* mlx5: no frame is counted that did not arrive, none is overwritten before it is
  counted, all are handed out.

## 2. Modules

| Module | Models | Abstract specification |
|---|---|---|
| `Flow` | inorder and reliable modules of both endpoints of one direction of a connection, and the network | `FlowSpec` |
| `FlowWindow` | `Flow` with the conditions `Window` and `InReach`, and the inductive invariant | |
| `MCStrategies` | `Flow` under the two strategies without a shelf | |
| `ArithmeticLemmas` | lemmas the proofs share: `%` and `\div`, minimum, induction over the rounds of a loop | |
| `FlowProofs` | theorems about `FlowWindow` and `MCStrategies` | |
| `TimersProofs`, `ConnTableProofs`, `ListenerProofs`, `SocketsProofs`, `IpcProofs`, `Mlx5Proofs` | theorems about `Timers`, `ConnTable`, `Listener`, `Sockets`, `Ipc`, `Mlx5` | |
| `Timers` | `nb_timer.c` | `TimerQueue` |
| `ConnTable` | the connection table of the identifier module | `ConnMap` |
| `Listener` | accept queue, `nb__accept`, `nbp_accept`, `nbp_recv` with packets of several clients | |
| `Sockets` | the POSIX layer and `signaling_state` | |
| `Ipc` | IPC transports and hub | `IpcMedium` |
| `Layout`, `MCLayout` | integer members of `packet.h`; a concrete layout | |
| `Stack`, `MCStack` | the paths of the framework over the hooks of all modules of `impls/simple.cpp`, client and server; what the two applications send | |
| `Mlx5` | the receive half of the mlx5 transport, and the card | |

`PROJECT.json` ("map") names for every definition the lines it stands for.

**Flow.** Packets are named 1, 2, ...; `SeqNo(n) = (InitSeq + n) % SeqMod` is the
number in the header and `Slot(n)` its slot. `Send` is the send path (inorder
numbers, reliable stores and arms, the network module sends); `Redeliver` is
`redelivery_cb`; `RecvData` is the ingress path for data (ACK first, then the
inorder hook), with `HoldForever`, `DropOutOfOrder` and `NoInorder` as the three
strategies; `RecvAck` is the ACK branch, which retires whatever the slot holds.
The network is a number of copies per packet, so it reorders by itself;
`LoseData` and `LoseAck` lose. The loop that empties the shelf is closed: the
number of rounds is the first one at which it stops. `delivered` is a history
variable. Timing is left out: an armed timer may fire at any moment. A corrupted
packet is dropped by the checksum module: a loss. The number does not wrap
(`ConstantsAssumption`): the ACK of number 0 would not be an ACK to the code
(section 5). Short of that the two directions of a connection use disjoint fields
and run the same code, so one is modelled. `MCStrategies` runs the same actions
under drop_out_of_order and, through an instance, under no_inorder; which of the
two is the initial choice `strategy`.

**Timers.** Pointers are indices, 0 is NULL; the lists are followed along `next`
as the code does. One turn of the loop of `nb__check_timers` is one step, and
`redelivery_cb`, the only callback, arms its timer again inside it. An empty
pool stops the model where the code would write through NULL.

**ConnTable.** The arrays are functions on `0 .. MaxConn - 1`. `delete_connection`
copies `active_remote_host_ids` in the direction the code does. Which
`flow_identifier_t` the protocol was generated with is an initial choice. That
callers do not reuse a key is assumed here and checked in `Sockets`
(`KeysDistinct`).

**Listener.** One listening socket, several clients with their streams; a client
sends 1, 2, ... and its packets may arrive in any order and repeatedly. The
inorder hook of an accepted connection is `Ingress`, with a shelf as a set:
numbers stay below the size of the buffer. `AcceptRound` is a round of
the removal loop of `nb__accept`, with its swap and its index that goes back;
`TakeOut` runs it to the end, the packets of the client going through `Ingress` as
the loop meets them.

**Sockets.** An action is a call, the part of a call between two main loop steps,
or a main loop step; `call` says where the application is. A connection is the
object `nb__establish` allocates. Not covered: `nbp_close` and `nbp_select` on a
socket without a connection (both dereference NULL), descriptors of the
operating system (handed through), `nbp_send` and `nbp_write` (they pass their
payload to `nb__send`, module `Flow`), and calls that do nothing
(`nbp_listen`, `nbp_setsockopt`, `nbp_ioctl`).

**Ipc.** A station is a process. `nb__send_packet` drops, holds back or writes; a
written packet is followed by the one held. The hub is its loop: `select`, one
accept, a scan over the array in which a closed connection is replaced by the
last entry and the index stays.

**Layout.** Memory is the set of bits that are 1. `set_bits_lower` clears the
number of bits the code computes, which is not the number it means.

**Stack.** The composition: `hook_send`, `hook_establish` and `hook_ingress` are the
hooks of the modules by name, `run_send_path`, `run_establish_path` and
`run_ingress_path` fold them over `m_registered_modules` as the framework does,
and `SendFrom` is the loop with which the signaling and reliable modules send a
packet of their own from the middle of another path. A packet is its bytes; a
byte is a digit of base `Base`, the checksum has two, and `compute_checksum`
clears, pads and adds as the code does, in the buffer. A buffer starts out with
what `malloc` left in it (`unwritten`), and so does a connection. An action is a
call of the application (`nb__establish`, `nb__accept`, `nb__send`) or the
ingress of one frame in a main loop step. Left to other modules: the connection
table (`ConnTable`), slots and redelivery timers (`Flow`), several clients
(`Listener`). Redelivery appears as what it does to the network: a frame that
was sent may arrive any number of times. The client's first packet is queued at
the listening connection and runs through the ingress path a second time in
`nb__accept`, from the buffer the first run changed. `PollCorrupt` delivers a
copy with one byte changed. `faults` is a history variable.

**Mlx5.** `Arrive` is the card: it writes a frame, overwrites a completion and uses
up work requests, without asking the host. `ReadId` and `CountFrames` are
`get_packet_count` and `mlx5_try_recv`, split between the two reads of a
completion; `nb__poll_packet` hands out one counted frame. Frames carry their
number of arrival, so a slot that is overwritten or handed out in the wrong turn
shows.

## 3. Runs

Bounds are named in the modules and set in the `.cfg` files.

| Run | Checks | Bounds, and why they are enough |
|---|---|---|
| `flow_window` | `NoLostPacket`, `TimersFindable`, `ConsecutiveDelivery`, `NothingDueShelved`, `IndInv`, `ImplementsStream`, and under fairness `EventuallyRetired`, `ImplementsFairStream` | 3 packets, 3 slots, one copy of each packet and ACK in flight beside redelivery. Three packets are the least with one on the shelf between two others; sizes beyond, and more packets than slots, are covered by the proofs |
| `flow_strategies` | `DropRises`, `NoOrderLosesNothing` | 4 packets, 4 slots, so that no ACK is late for its slot; more packets than slots are covered by the proofs |
| `flow_stale_shelf` | violation of `ConsecutiveDelivery` | 4 packets, 2 slots: more packets than slots |
| `timers` | `PoolPartitioned`, `PrevInverse`, `NoneDueAfterCheck`, `ImplementsQueue`, `DueTimersFire` | 3 timers (head, middle, end of the list), 3 delays (earlier, equal, later), time to 5 |
| `conn_table` | `LookupFindsOpen`, `NoDanglingEntry`, `ImplementsMap` | both flow identifiers; 3 connections (an entry that moves, one that goes, one that stays), 2 local and 2 remote applications, one remote host, no listener |
| `conn_table_delete` | violation of `LookupAssertion` | two remote hosts and a listener |
| `listener` | `AcceptedOnce`, `WaitingClientsSeen`, `ReadsConsecutive` | 2 clients with 3 packets each, 3 places in the queue |
| `sockets` | `EventsGoHome`, `StatusIsOwn`, `KeysDistinct`, and under fairness `ConnectReturns` | 3 descriptors and connections (a listener, an accepted socket, one that connects), all reused; 2 ports, so that they run out |
| `ipc` | `SwapsNeighbours`, `NothingLost`, `StationsAgree`, `ImplementsMedium`, and under fairness `ClosedForgotten` | 3 stations that come and go, one of which sends 3 packets: held, written, dropped in any combination. Deadlock is not checked: the processes end |
| `layout` | violation of `ReadsBack` | headroom, host ids of 1 bit and application ids of 3, length, one more byte; the buffer all zeros or all ones |
| `mlx5` | `NoPhantomFrame`, `UncountedIntact`, `FrameInTurn`, and under fairness `EveryFramePolled` | 3 work requests of 4 frames, 4 completions, work request numbers modulo 5, 30 frames: the ring, the completions and the cycle counter all wrap. As in the code a completion keeps its place modulo the frames of a work request, and the cycle is longer than the ring |
| `stack` | `HonestAccepted`, `CorruptRefused`, `MessagesFromFirst` | 2 messages of odd and even length each way, both checksum types, leftover bytes of 0 or 15 (all ones) at either host, 2 places in the accept queue: the signal and a duplicate |

`flow_window` and `mlx5` also check `TypeOK`. The other proofs carry the types as part
of their inductive invariants, in the proof modules; those invariants were checked
with TLC on the constants of the runs before they were proved. So was `IndInv` with
`InReach` for twice as many packets as slots (6 and 3), which `flow_window` does not
reach.

Fairness, and why the code justifies it:

* `flow_window`: weak fairness of `Redeliver`, since `nb__main_loop_step` runs
  `nb__check_timers` on every turn and the callback re-arms; strong fairness of
  receiving a packet or an ACK that is sent again and again, that is, the network
  loses some copies, not all. `Send` is not fair: the application need not send.
* `timers`: the main loop calls `nb__check_timers` again and again. The clock need
  not advance.
* `sockets`: a blocking call goes on with its loop, and the peer of a connection
  that waits for its signal answers, its packet getting through in the end
  (`flow_window`). `ConnectReturns` is about the rest of the way: ingress,
  cycle, callback, loop.
* `ipc`: the hub's loop goes on while `select` has something to return. Stations
  need not do anything.
* `mlx5`: every main loop step polls the transport. The card need not receive
  anything.

## 4. What is proved

Every theorem holds for all values of the constants that satisfy the named
assumptions of its module: any number of slots, stations, connections, clients
or frames. The bounds that make the models finite (`MaxSends`, `MaxFrames`,
`MaxQueue`, ...) are constants too. A hypothesis beyond those assumptions is named
in the table and is a hypothesis of the theorem, not an assumption of the module.
That the sequence number does not wrap is an assumption of `Flow`
(`ConstantsAssumption`).

| Module | Theorems (property) | Beyond the types of the constants |
|---|---|---|
| `FlowProofs` | `FlowInvariant` (`IndInv`), `FlowTypeCorrect` (`TypeOK`), `FlowLosesNothing` (`NoLostPacket`), `FlowTimersFindable` (`TimersFindable`), `FlowInOrder` (`ConsecutiveDelivery`), `FlowNothingDue` (`NothingDueShelved`), `FlowImplementsStream` (`ImplementsStream`) | `Setting`: hold_forever with reliable delivery; and `InReach`, a condition on the behaviour, below |
| | `FlowWindowInReach` (`InReach`) | `Window`: `Setting`, and no more packets than slots |
| | `StrategiesDropRises` (`DropRises`) | drop_out_of_order |
| | `StrategiesNoOrderLosesNothing` (`NoOrderLosesNothing`) | reliable delivery; and `TimelyAcks`: an ACK arrives before its slot is used again |
| | `StrategiesAcksTimely` (`TimelyAcks`) | reliable delivery, and no more packets than slots |
| `TimersProofs` | `TimersInvariant`, `TimersPoolPartitioned` (`PoolPartitioned`), `TimersPrevInverse` (`PrevInverse`), `TimersNoneDueAfterCheck` (`NoneDueAfterCheck`), `TimersImplementsQueue` (`ImplementsQueue`) | |
| `Mlx5Proofs` | `Mlx5Invariant`, `Mlx5TypeCorrect` (`TypeOK`), `Mlx5NoPhantom` (`NoPhantomFrame`), `Mlx5UncountedIntact` (`UncountedIntact`), `Mlx5InTurn` (`FrameInTurn`) | `Mlx5Assumption`, as in the code: a completion keeps its place modulo the frames of a work request, the cycle is longer than the rings |
| `ConnTableProofs` | `ConnTableInvariant`, `ConnTableLookup` (`LookupFindsOpen`), `ConnTableNoDangling` (`NoDanglingEntry`), `ConnTableImplementsMap` (`ImplementsMap`) | `HostsAgree`: host ids are not stored, or are all equal |
| | `ConnTableAssertion` (`LookupAssertion`) | `HostsAgree`, and no packet for a closed connection |
| `SocketsProofs` | `SocketsInvariant`, `SocketsEventsGoHome` (`EventsGoHome`), `SocketsStatusIsOwn` (`StatusIsOwn`) | `SocketsAssumption`: the wildcard is no peer, and `find_free_port` (8080 .. 9999) does not give out port 8000, whose flag `nbp_close` clears |
| | `SocketsKeysDistinct` (`KeysDistinct`) | `PortsApart`: applications bind outside the range of `find_free_port` |
| `IpcProofs` | `IpcInvariant`, `IpcNothingLost` (`NothingLost`), `IpcSwapsNeighbours` (`SwapsNeighbours`), `IpcStationsAgree` (`StationsAgree`), `IpcImplementsMedium` (`ImplementsMedium`) | |
| `ListenerProofs` | `ListenerInvariant`, `ListenerAcceptedOnce` (`AcceptedOnce`), `ListenerWaitingClientsSeen` (`WaitingClientsSeen`), `ListenerReadsConsecutive` (`ReadsConsecutive`) | |

The code enforces neither the reach of the slots nor equal host ids nor the separation of
ports. Without the first two the theorems are false, which the runs
`flow_stale_shelf` and `conn_table_delete` show; for the third see section 5.

**Flow.** The number of packets is not bounded by the slots. Instead `InReach` says of
every step what keeps packets that share a slot apart: a packet is sent when the
one before it in its slot is acknowledged; an ACK arrives before its slot is used
again; a packet that arrives is one of the `BufferSize` after the last one passed
up, or one whose slot no later packet needs (`Fits`). Loss, reordering and
duplication are free within that. A bound on the packets in flight alone is not
enough: an ACK that is lost is answered by a second copy of a packet that was
passed up, and that copy stays on the shelf until it is passed up a second time
(TLC finds this with the first two conditions and 2 slots). With no more packets than slots every behaviour is in reach
(`FlowWindowInReach`), duplicates included: the instances `flow_window` checks.

None of the properties is inductive. That an ACK retires the right
packet needs to know that a slot holds a packet that belongs there (`SlotsOK`),
that timers and slots agree and only the last packets are armed (`TimersOK`), and
that only received packets have ACKs on the way (`WireOK`); the last one makes
`NoLostPacket` survive `RecvAck`. That the loop passes up the right packets needs
to know that the shelf holds packets that fit, in their own slots and not beyond
`max_ooo_sequence` (`ShelfOK`), and that the log ends at `last_recv_sequence`
(`RunOK`). `IndInv` is the conjunction; the run checks it as well. There is one lemma per action (`SendStep`,
`RedeliverStep`, `RecvAckStep`, `RecvDataStep`, `LoseStep`). Below them,
`SlotInjective` (packets less than `BufferSize` apart have different slots, from
arithmetic lemmas about `%`), `FitsInjective` (so have packets that fit), and
`LoopFacts` (the loop meets exactly the packets n+1 .. n+r, all shelved, stops
because n+r+1 is not, and does not come round to its own slot). `StepImplementsStream`
then shows that a `PassUp` is one `Deliver` of the abstract stream and
everything else a `Send` or a stutter.

**The other strategies.** Under drop_out_of_order it is enough that nothing was
passed up with a number beyond `last_recv_sequence` (`RisingOK`). Under no_inorder
the argument is the one of `FlowLosesNothing` without the shelf (`RetiredOK`), and
without a condition on what is sent: since a slot never holds a packet older than
the last one stored there, an ACK in time retires its own packet or nothing, and
the sender may run ahead of the slots.

**Timers.** The invariant says of each list which sequence of timers its links lead
through (`Chain`): the armed timers in the order of their timeouts (`Sorted`) and
along `prev` back (`Back`), the free list all the others, no timer twice
(`Shared`). None of the properties is inductive: removal is right only because
`prev` is the inverse of `next`, insertion stops at the right place only in a
sorted list, and `nb__check_timers` looks at the head alone, so that only the order
says that no other timer is due. The lists of the model are read off the links
by a recursive function; `FollowChain` and `ListOfChain` show that it returns the
sequence the links stand for and stops within the size of the pool, because a list
without repetitions is no longer than that (`ChainLength`). `WalkStops` finds the
place of insertion; `InsertChain`, `InsertBack`, `RemoveChain` and `RemoveBack` say
what the assignments to `next` and `prev` do to the sequence; `AllocInsertStep`,
`RemoveReturnStep` and `FireStep` are the actions. For `ImplementsQueue` each action
is matched with one of `TimerQueue`: arming puts the timer behind all that are due
no later and before the others (`SplitIsPlaced`), a turn of the check loop is a
`Fire`, and the end of the loop a stutter.

**Mlx5.** The indices of the host are functions of what was counted and polled
(`HostOK`), the receive queue holds the work requests from the one being filled to
the last one posted (`QueueOK`), each place of the completion array one of the
last completions (`ArrayOK`), the ring the last frames (`BufferOK`). The heart is
`IdOK` with `CountFacts`: `get_packet_count` may read the id of one completion and
the counter of a later one in the same place, and the pair still reads as the
completion of a frame that has arrived: of the work request of the earlier one,
no later than the later one. The cycle is long enough to tell it from a frame
that was counted before.

**ConnTable.** Entries and open connections are in bijection, each entry has the
ids of its connection, and no two open connections answer to the same packet
(`ArraysOK`, `EntriesOK`, `BijectionOK`, `KeysOK`). Then the search stops at the one
entry it means (`SearchFinds`) and compaction keeps the bijection
(`DestablishStep`, the only place that needs `HostsAgree`). `ImplementsMap` reads the
key of an entry from the arrays, as lookups do; `StoredKeyIsKey` shows that this is
what the connection was established with, as far as the arrays hold it (without
src_dst_identifier only the local application), and `StoredClash` that no two
entries read the same.

**Sockets.** `HomeInv` adds to the two properties that the socket a blocking call
waits on keeps its connection while the main loop runs (`CallOK`), and that a
descriptor without a connection carries no status (`StatusOK`). `KeyInv` adds to
`KeysDistinct` that every port in use is marked (`PortsOK`) and that clients in an
accept queue are not connected yet (`WaitingOK`).

**Ipc.** `HubOK`: the array names every accepted station once, and what the scan has
still to look at is readable, also after an entry was replaced by the last one.
`WireOK`: a packet held back is later than all its sender wrote. `HeardOK`: an
attached station has on its way exactly what was relayed since it was accepted.
`OrderOK` and `SwapOK` say of the packets under way what the properties say of the
ones that were heard; order is expressed by positions (`Precedes`), so that the
lemmas about `Append`, `\o` and `Tail` suffice.

**Listener.** A connection's log is a run that ends at `last_recv_sequence`
(`RunOK`, kept by `IngressOK`), the queue is never longer than the counter, and no
packet in it is of a connected client. What `nb__accept` does is shown by
induction over the rounds of its loop: before the index no packet of the client is
left, and every round removes a packet or moves the index on (`LoopOK`, `RoundOK`,
`TakeOutOK`).

Induction. The library's induction theorems cannot be instantiated by the installed
provers. `SetInduction` and `IterateExists` of `ArithmeticLemmas` take a set and a
function where those take operators: the first is proved from the least
counterexample, the second shows that iterating a body is well defined, and
together they carry what a loop needs.

Only model-checked:

* liveness and fairness (`EventuallyRetired`, `ImplementsFairStream`,
  `ConnectReturns`, `DueTimersFire`, `ClosedForgotten`, `EveryFramePolled`), which
  are out of the prover's reach;
* `Stack` (`HonestAccepted`, `CorruptRefused`, `MessagesFromFirst`): the checksum is a
  sum over the bytes of a packet, the paths are folds over the registered modules;
  what they compute is induction over data.

## 5. Where code and comments disagree

Three runs show it (`PROJECT.json`, "findings"):

* `flow_stale_shelf`: an old duplicate is shelved and, one buffer size later,
  passed up in place of the packet whose turn it is
  (`inorder_module.cpp:115`).
* `conn_table_delete`: `active_remote_host_ids` is copied the wrong way on
  compaction (`identifier_module.cpp:169`), and an open connection is not found.
  A table whose host ids are all equal hides it, but a listener, whose host id is
  the wildcard, already makes them differ: `conn_table` therefore has no listener.
* `layout`: `num_bits = bit_end = bit_start` (`packet.h:129`) clears a number of bits
  that depends on the offset. With host ids of one bit the application id at bit
  194 keeps a bit the buffer held before, although the comments say "clear the bits"
  and "any offset": what is read is not what was written. `Layout` has the code's
  number.

Limits of the code. The models keep the following behaviour too; no run is
dedicated to it:

* The accept counter is raised for every queued packet and lowered once per accept,
  while `nb__accept` takes all packets of its client (`network.c:188`); the comment
  there says that a connection is ready, but with two packets of one client the
  next `nbp_accept` gets NULL. `Listener` reaches that state (`crashed`) and stops.
* The stream starts at the first packet to arrive (`inorder_module.cpp:85`).
  Packets that it overtook are acknowledged, shelved and not delivered. `FlowSpec`
  says so. The handshake protects the client's stream and not the server's: a
  server that sends right after `nb__accept` loses the messages its second one
  overtakes. `MessagesFromFirst` states both.
* When the 32-bit number wraps, the ACK for number 0 has `ack_sequence_number` 0,
  which marks data (`reliable_module.cpp:79`). The packet is never retired and is
  redelivered for ever. Its sender takes each ACK for a packet: the inorder module
  acts on a `sequence_number` nobody wrote and may pass up a byte nobody sent
  (`inorder_module.cpp:122`), and the reliable module acknowledges that number. At the
  peer this second ACK retires whatever packet is in the slot the number points to,
  received or not (`reliable_module.cpp:80`). `Flow` ends before the wrap, and its
  properties do not hold beyond it.
* The checksum runs over `total_len` bytes before the packet is verified
  (`checksum_module.cpp:31`), so a changed length is caught only by chance, and the
  sum may read past the buffer. `PollCorrupt` changes any byte but that one. With
  header_only and a header of odd length the padding would clear the first byte of
  the payload (`checksum_module.cpp:37`); the header of `simple.cpp` is even.
* The signalling packet leaves before the routing module has run
  (`simple.cpp:26`), with whatever `malloc` put into `dst_global_id`; nothing reads
  it.
* `get_packet_count` is right only because it reads the id before the counter
  (`transport.cc:418`); exchanging the two reads violates `NoPhantomFrame`, and
  nothing keeps a compiler from it.
* A frame that is counted but not yet handed out may be overwritten by the one a
  lap later, since the work request is posted first (`transport.cc:465`);
  `FrameInTurn` says exactly that.
* Send buffers of the mlx5 transport are a ring of 512 that never looks at the
  redelivery buffers (`nb_mlx5_transport.cc:29`): a packet that waits for its ACK
  while 512 others, ACKs included, are sent is overwritten.
* With more than 32 packets unacknowledged `redelivery_buffer` is overwritten
  (`reliable_module.cpp:65`): no ACK finds the timer of the packet that was there, and
  it is redelivered for ever. `Send` keeps that; the runs and theorems stay within
  the slots.
* Beyond the window a duplicate ACK retires the packet that took the slot since
  (`reliable_module.cpp:86`), although the comment above calls such ACKs ignored.
* Under drop_out_of_order a packet that is dropped was acknowledged before.
* `nb__accept` feeds the last queued packet first (`nb_runtime.c:72`), and the
  stream of the new connection starts there; what `ReadsConsecutive` shows is that
  the user still reads a run.
* With src_dst_identifier a packet for a connection that was closed ends the
  process in the lookup assertion (`identifier_module.cpp:245`). `ConnTable` with
  `LatePackets` reaches that state and stops there.
* `nbp_close` clears the flag of index `fd_src_port[fd]`, which is always 0
  (`network.c:318`): ports are never free again, and `nbp_connect_no_port` is the
  failed assertion at the end.
* `nbp_bind` does not mark its port; `KeysDistinct` is checked with bound ports
  outside the range of `find_free_port`, and would not hold inside.
* `nbp_accept` does not reset the counter of the descriptor it grabs
  (`network.c:189`), so `nbp_select` may report an accepted socket with nothing to
  read.

## 6. Plan

Done: `Flow` with its proofs, then `Timers`, `ConnTable`, `Listener`, `Sockets`,
`Ipc`, `Layout`, in this order, the delivery of data first; then the composition
of the modules and the handshake (`Stack`) and the mlx5 rings (`Mlx5`).

Next, modelling: callbacks of the application that destablish their own
connection inside `nb__cycle_connections`; redelivery timers of a connection that
was closed, and the pool they share at its limit.

Proved: `Flow` under all three strategies, `Timers`, `Mlx5`, `ConnTable`, `Sockets`,
`Ipc`, `Listener`.

## 7. Not modelled

* Code generation (`core/impl.cpp`, `core/genplugin.cpp`, `impls/simple.cpp`,
  BuildIt): the models are of the code it emits.
* `framework::finalize_paths`: never called, and its loop ends in an assertion that
  always fails (`framework.cpp:123`).
* IP, UDP and Ethernet compatibility (routing and identifier modules, the IP
  checksum of the runtime): no program of the repository turns it on.
* The routing table of the runtime: a constant list.
* mlx5: setting the device up, allocation (`halloc.cc`) and the send half, calls
  into the verbs library. Linux transport: opening the socket.
* IPC transport in bind mode (two processes without a hub). A hub whose `read` fails
  (it would relay a length of -1, `ipc_hub.c:67`) or that blocks in `send` on a station
  that does not read (`ipc_hub.c:83`): `Ipc` assumes that sockets have room, and
  `ClosedForgotten` rests on it.
* Full queues (`nb_runtime.c:38`), an empty timer pool and NULL connections:
  undefined from that step on; the models stop before it.
