# Sponge, specified in TLA+

TLA+ specifications of the user-space TCP/IP stack in this repository
(`libsponge` and the applications in `apps`), with the model-checking runs and
the machine-checked proofs about them. `PROJECT.json` gives the source lines
behind every definition, the runs, the mutants, the findings, the hazards and
the theorems.

## 1. The system

| Part | State | Operations | Works with |
|---|---|---|---|
| `ByteStream` | ring buffer, `_front`, `_rear`, sizes and counts, end and error flags | write, peek, pop, read, end_input, set_error | everything above it |
| `WrappingInt32` | 32-bit raw value | wrap, unwrap, +, - | sender and receiver |
| `StreamReassembler` | set of disjoint excerpts, `_head_index`, unassembled count, eof flag, output stream | push_substring | the receiver |
| `TCPReceiver` | reassembler, ISN | segment_received, ackno, window_size | the connection |
| `TCPSender` | outgoing stream, segments sent and unacknowledged with the time of sending, window and its used part, timeout, clock | fill_window, ack_received, tick, send_empty_segment | the connection |
| `TCPConnection`, `TCPState` | sender, receiver, output queue, linger and active flags, time since the last segment | connect, write, end_input_stream, segment_received, tick, destructor | its owner |
| `TCPSpongeSocket` | the connection, an adapter, a socket pair to the application, flags | four event-loop rules, connect, listen_and_accept, wait_until_closed, destructor | the event loop, a second thread |
| `EventLoop` | rules with interest and cancel callbacks | add_rule, wait_next_event | poll |
| adapters | addresses, listening flag, loss rates | read, write, tick | UDP, TUN, TAP |
| `NetworkInterface` | ARP cache with times, request times, waiting datagrams, queue of frames | send_datagram, recv_frame, tick | the Ethernet segment |
| `Router` | interfaces with queues of datagrams, route table | add_interface, add_route, route | its interfaces |
| headers and parsers | none | parse, serialize, checksum | all of the network |
| lab 7, bouncer | a host, a router and a thread per program; the peers the bouncer has heard from | start, stop, one turn of the thread, passing a datagram on | routers, UDP |
| network simulator | a router with seven interfaces, six hosts | a test, a round, a check | the router |
| other applications | - | copying between standard input, output and a socket; a benchmark of two connections | sockets, connections |

What is hard here: segments and acknowledgments are lost, repeated and
reordered; a receiver's window closes; numbers wrap; two endpoints decide
independently when they may leave; timers race late answers; two threads share
a socket pair, each in a loop that must notice every end and never spin or
stop; a listening adapter must bind itself to the right peer; datagrams wait
for address resolution that may never come; routes form loops; programs start
and restart while others remember where they were.
`PROJECT.json` lists each of these hazards at the line where it bites.

## 2. Modules

Each class is a module of operators without variables: its state is a record,
each operation maps the record to the next one. A second module turns it into a
state machine together with the environment the class lives in. In this way the
connection is composed of the very operators that were checked on their own.

| Class | Operators | State machine | Instance |
|---|---|---|---|
| `ByteStream` | - | `ByteStream` (the ring), `ByteFifo` (what it promises) | `MCByteStream` |
| `ByteStream`, as used by others | `ByteStreamOps` | | |
| `WrappingInt32` | `WrappingIntegers` | `SeqnoTracking` | |
| `StreamReassembler`, `TCPReceiver` | `StreamReassembler`, `TCPReceiver` | `ReceiverSpec`, `InOrderDelivery` (what they promise) | `MCReceiver` |
| `TCPSegment` | `TCPSegment` | | |
| `TCPSender` | `TCPSender` | `SenderSpec` | `MCSender` |
| `TCPConnection`, `TCPState` | `TCPConnection` | `ConnectionPair` | `MCConnectionPair` |
| `EventLoop`, `TCPSpongeSocket`, `bidirectional_stream_copy` | `EventLoop`, `SpongeSocket`, `StreamCopy` | `SocketSystem` | `MCSocket` |
| buffers, headers, parser, checksum | `Buffers`, `NetParser`, `SegmentFormat`, `DatagramFormat`, `FrameFormat` | | |
| adapters, and what the programs configure them with | `TCPAdapter` | `AdapterNetwork` | `MCAdapters` |
| `NetworkInterface` | `NetworkInterface` | `EthernetLink` | `MCLink` |
| `Router`, lab 7 with the bouncer, network simulator | `Router`, `Lab7`, `NetworkSimulator` | `RoutedNetwork` | `MCRoutedNetwork` |
| TCP benchmark | `TCPConnection` | `ConnectionPair` | `MCConnectionPair` |

### How data is abstracted

* A byte of a stream is the index at which it was written, so that a lost,
  doubled or misplaced byte is visible. In `ByteStream` it is any member of
  `Byte`.
* `ByteStreamOps` keeps all bytes ever written and a count of those read; the
  ring is dealt with in `ByteStream`, and `ImplementsFifo` justifies the change.
* `U32` is the number of raw sequence numbers and `Blocks` how many of these
  ranges make up the 64-bit ones. `TCPConnection` is run with 16 raw numbers,
  and the streams cross the wrap.
* Only `AdapterNetwork` deals with bytes on the wire: there a packet is the
  sequence of bytes the code would write, and every field has its width (32-bit
  fields are pairs of 16-bit halves, since TLC's integers are too narrow). In
  `EthernetLink` and `RoutedNetwork` an IP address is a small number and a
  frame's payload is the record it was made from.
* In `RoutedNetwork` an address has 13 bits: those that tell the networks of lab
  7 and of the simulator apart, and prefixes are shortened in the same way
  (`Ipv4` and `BitsOf` of `Router`).
* A `Buffer` is the string it shows and a `BufferList` the sequence of its
  buffers. Converting a list of several, or serialising a datagram of another
  length than its header has, is an exception in the code: here such a value is
  undefined, and a run that met it could not be completed.
* The clocks count in `SenderSpec`, and in `ConnectionPair` where the network is
  timed. Elsewhere in `ConnectionPair` a tick is reduced to its outcomes: the
  sender's timer has expired, or the connection has been idle for ten initial
  timeouts.
* In `SocketSystem` the connection is reduced to what its owner sees of it: two
  streams, whether it is active, and queued segments. Its peer loses nothing;
  loss is dealt with in `ConnectionPair`.

### Actions and handlers

* `ReceiverSpec`: `Arrive` is `TCPReceiver::segment_received` with
  `push_substring`; `Read` is the owner's.
* `SenderSpec`: every action is one public call, followed by the owner's
  draining of `segments_out`. `PeerAcks` is a peer that accepts any prefix of
  what was sent, with any window. `AckReceived` includes the call of
  `fill_window` that `TCPConnection::segment_received` makes afterwards.
* `ConnectionPair`: `Deliver`, `Write`, `EndInput` and `Read` are rules 1, 2 and
  3 of `TCPSpongeSocket`. Rule 4, which sends what has been queued, is part of
  each of them: a segment that stays in the queue is no different from one that
  the network has not delivered yet. `TimePasses` (timed network), `TimerExpires`
  and `LingerExpires` (any delay) are the ticks of `_tcp_loop`. `Destroy` is the
  destruction of the connection. `Loop` is one turn of the benchmark's loop,
  which takes the place of sockets and network.
* `SocketSystem`: `wait_next_event` is cut where another thread may come in
  between: at `poll` (`CopyPolls`, `SocketPolls`) and before each callback (one
  action per rule; `CancelsRule` and `CancelsSocketRule` for a descriptor that
  hung up). What a thread does between its last callback and its next `poll`
  touches nothing shared and belongs to the step before it. `Ticks` is the rest
  of `_tcp_loop`, `Finishes` the end of `_tcp_main`, `CopyReturns` and `Joins`
  are `wait_until_closed`, `Interrupted` is the destructor. How `poll` and the
  socket pair behave is the kernel's part: a pair of which both directions are
  shut down reports a hangup, and writing to a direction that is shut down kills
  the process, as nothing in the code handles SIGPIPE. Two ways out of
  `wait_next_event` are not taken: the exception for a descriptor in error
  (POLLERR, POLLNVAL), which a socket pair that is only shut down and an
  unconnected datagram socket do not report, and `Exit` when a signal interrupts
  `poll` (EINTR).
* `AdapterNetwork`: `Write` and `Receive` are `write` and `read` of the adapter;
  `DropWrite`, and `Receive` with `dropped`, those of `LossyFdAdapter`; `Tick` is
  the Ethernet adapter's.
* `SeqnoTracking`: one direction of an established connection. `fill_window`,
  `segment_received` and `ack_received` are the calls of sender and receiver,
  reduced to the numbers: the receiver unwraps with `bytes_written()`, the sender
  with `_next_seqno`. Retransmission and repetition are one thing: what was sent
  may arrive again.
* `EthernetLink`: `Send`, `Deliver` and `Tick` are `write`, `read` and `tick` of
  the Ethernet adapter, each with `send_pending`. A frame reaches one host after
  the other, and what they send in answer is behind it; a lost one may have
  reached some.
* `RoutedNetwork`: `Start` and `Stop` are the beginning and the end of a lab 7
  program, `HostSends` and `HostReads` the adapter of its socket,
  `NetworkThread` one turn of its second thread (up to four callbacks, in the
  order of the rules, and only those that were ready when it polled), `Bounce` a
  callback of the bouncer. `AddRoute` is `Router::add_route`, called at any time.
  In the simulator, `SetUpTest` is the beginning of a test, `Simulate` one round
  of `simulate()` and `Check` the checks at its end.

## 3. Runs

| Run | Configuration | States | What is asked |
|---|---|---|---|
| `byte_stream` | capacity 3, two byte values | 24,908 | does the ring hold the unread bytes, in order; is the end final; is it a bounded FIFO |
| `seqno_tracking` | 10 raw numbers, 3 blocks, a window of 3, packets that 4 numbers may overtake | 54,860 | is unwrap the closest number; can an endpoint be led astray by an old packet |
| `receiver` | a stream of 8 bytes, a window of 5; cut in four, with mere ACKs between, or in every way; four initial sequence numbers | 3,696 | is the output the stream, in order and complete; does the ackno name the first missing number; is the window honest |
| `sender` | ACKs in order with an open window, or in any order with one that closes | 185,510 | is anything forgotten, or sent with wrong bytes; is the oldest resent; is the window respected |
| `sender_reordered` | ACKs in any order, open windows | violation | is the window respected |
| `pair_timed` | one or two bytes each way; windows with room and streams ended at any time, or a window of one byte and a quiet close; up to three segments lost; the benchmark's loop, in order and reversed | 205,383 | do both finish |
| `pair_unreliable` | loss, repetition, early timers and giving up, with segments of a stream that overtake each other; or ACKs that overtake and a client that is destroyed | 159,584 | are the streams prefixes; is a clean close complete; does someone linger; do the state summaries only advance |
| `pair_truncated` | a window of one byte, streams ended at any time | violation | are the streams prefixes |
| `link` | three hosts; no loss and two senders, or loss and replaced interfaces | 226,542 | do waiting datagrams go out once, in order; are requests spaced; how long is a stale address used; do all arrive |
| `router` | lab 7 with routes added, with a client that restarts, or from the start; the simulator with two of its tests, in any order, together or apart | 103,407 | is the longest prefix found; do loops end; does what is sent arrive once both programs are in touch; does the simulator succeed |
| `adapters` | UDP, TUN and TAP; two clients of which one may be a stray, lossy adapters, or one damaged byte; over TAP, ARP mappings that expire | 83,208 | is what is read what the peer wrote; is what is written read |
| `socket` | up to three bytes each way through buffers of one and two bytes; a pipe or a terminal; resets; an interrupted owner | 160,359 | are both streams copied to their end; does a loop fail; does the process end |

Every property of a passing run has a mutant, an operator beside the original
one that changes it as a plausible mistake would, with which the run fails.

### Why the bounds are enough

The bounds let every interesting case happen: the ring wraps,
with a write and a read that straddle its end; an
excerpt can overlap two others and leave a gap; sequence numbers cross the end
of their range in the middle of an exchange; windows close and open; a segment
is retransmitted once and given up at the second time; ARP entries time out
while a datagram waits; a datagram goes round a loop until its time to live is
used up; the bouncer drops the first frames of a program whose peer it does not
know, and a program restarts with frames of its former run under way; a lost ACK
of a FIN and two lost repetitions double the peer's timer three times; every buffer between standard input and the connection is full at
once, and partial writes occur; the SYN, an odd payload behind a header with
options, and fields at their limits go over the wire. `pair_unreliable` holds
one or two segments in each direction: since a delivered segment may stay under
way, this is any number of repetitions, but at most two different segments at a
time. In `Overtaking` the client sends two bytes that may travel apart, overtake
each other, and be repeated after one another, with the FIN behind them. The
server keeps its own stream open there, to bound the run. In
`seqno_tracking` the numbers go through three blocks, and the lifetime is the
largest that half the raw range allows. The bounds are `MaxWrites`, `MaxAcks`, `MaxTime`, `MaxNet`, `MaxLost`,
`bound` of a segment, and `max_sent` and `max_routes` of a network; each is a conjunct
of a guard. The 256 rounds of `simulate()` are 8 here, and `SimulationSucceeds`
says that a further round changes nothing.

Runs that use `CHECK_DEADLOCK FALSE` may stop: `link`, `router` and `adapters`
when the number of datagrams, routes, replacements or segments is used up,
`pair_unreliable` when one endpoint waits for a peer that has given up, `socket`
when the process has ended (that it does is `ProcessEnds`). In the others
deadlock is checked. In `pair_timed` an idle system still ticks, so that nothing
would be a deadlock: there `BothFinish` says that it does not stall, and `FairSpec`
allows it to (section on fairness).

### Preconditions that matter

Several properties hold only under conditions which section 4 shows to be
necessary:

* `seqno_tracking` assumes of the network what TCP does: a packet does not stay
  in it while `Lifetime` further numbers are sent. It is less than half the raw
  range, as the window is, which has 16 bits of 32 in the code; with one number
  more `NumbersAreRecovered` fails.
* `QuietClose` (a stream is ended when everything is acknowledged) is assumed by
  `pair_unreliable`, and in `pair_timed` by the small window and by the network
  that loses. Without it the FIN can travel alone and overtake, or outlive, data
  (`pair_truncated`). With windows that do not close, and no loss, `pair_timed`
  does without it.
* `pair_timed` loses at most three segments. With a fourth, `BothFinish` fails:
  the peer then repeats its FIN fifteen initial timeouts after it first sent it,
  and the lingering endpoint leaves after ten.
* `InTouchMeansDelivered` speaks of datagrams sent when both programs run and the
  bouncer has heard from both. A request for an address that was lost before
  must be older than the limit on requests. After a restart, the peer must have
  heard from the new run, with no frame under way when the old one stopped, or
  its cache must have timed out.
* `WindowRespectedInOrder` speaks of acknowledgments in order and an open
  window.
* `receiver` assumes that the FIN comes with the last byte, and that a segment
  without contents does not fall inside another one.
* `copy.output_closed` implies a complete output only without a reset: the
  owner cannot tell a reset from an end of the stream.

### Fairness

* `receiver`: until the stream has ended the peer keeps sending what is due,
  which is the sender's retransmission, and the reader reads.
* `pair_timed`: weak fairness of the next-state action: something happens as
  long as a rule, a timer or an application has something to do (`_tcp_loop`
  calls `wait_next_event` and `tick` again and again). A state in which nothing
  can happen that changes it is written out as `Stalled`, since TLC takes hours
  to find out whether an action of this size is enabled. A pair that has stalled
  without having finished is a behaviour of `FairSpec` and refutes `BothFinish`,
  as the mutant does that never probes a closed window. The applications
  read; which of several actions comes first, and how often, is left open. Time
  passes only when no segment is under way: the network is quick compared with
  the timeouts.
* `socket`: each thread runs unless it is blocked in `poll` or `join`; input and
  peer send what they have to, end it, and acknowledge; a connection that
  lingers is given the time for it. Nothing is assumed of the order in which
  threads run.
* `link` and `adapters`: what is on the wire arrives. Nothing is assumed of
  time.
* `router`: each network thread takes a turn while a rule of its loop is ready,
  each host reads, the bouncer serves its ports, and the simulator runs. Nothing
  is assumed of time, of starts or of stops.

Over a network that loses without a bound no liveness is claimed: a connection
may be given up.

## 4. Findings

Shown by a run:

1. `sender_reordered`: an older, smaller window makes the sender forget how much
   it has in flight, and it exceeds the newer window.
2. `pair_truncated`: a stream that is ended while the peer's window is closed is
   cut short, over a network that loses and reorders nothing. A repeated
   acknowledgment with a closed window makes the sender probe with the next
   number although the last probe was refused, and `push_substring` takes a FIN
   without payload for the end although bytes before it are missing
   (`stream_reassembler.cc:28-30`). A data
   segment that is lost before such a FIN has the same effect.

Met while modelling, without a run of their own:

3. A FIN without payload that arrives before data ends the stream
   (`FinAlone` of `MCReceiver`, instead of `AllPlans`, violates
   `AcknoIsFirstMissing`).
4. A segment without contents that falls inside a stored excerpt becomes a node
   of its own, and bytes are then counted twice (`AckAnywhere` of `MCReceiver`
   violates `CountsEachByteOnce`).
5. The RST of `~TCPConnection` is queued where nobody can fetch it any more,
   although `tcp_connection.hh:106` has "destructor sends a RST if the
   connection is still open". `Destroy` therefore sends nothing.
6. After both directions of the socket pair are shut down, `poll` reports a
   hangup for rule 3 of `TCPSpongeSocket` even though it asked for nothing, so
   that `wait_next_event` returns `Success` at once without having triggered a
   rule, and the TCP thread spins as long as the connection lingers.
7. If the connection is reset while it has bytes for an owner who is slow, rule
   3 shuts the pair down and then writes the rest, and the process dies of a
   broken pipe; likewise if the owner writes after the TCP thread has finished.
   `DiesOfResetOnly` says that this is the only way.
8. `TCPOverUDPSocketAdapter` does not compare TCP ports, and `IPv4Datagram` and
   `TCPSegment` drop the result of parsing their header. `ReadWasWritten` holds
   nevertheless, by the kernel's filtering and the segment's checksum.
9. A program of lab 7 that is restarted may be given the ARP reply that was meant
   for its former run. It then knows its peer and asks nobody, so that its peer
   does not learn its new address and sends to the old one until that times out
   (`InTouchMeansDelivered` without `clean` fails).

## 5. Proofs

Proofs are for every value of the constants that satisfies the named
assumptions. They are in modules of their own.

* `ByteStream_proofs`: `TypeCorrect`, `RingCorrect`, `EofFinal` and
  `RingImplementsFifo`, for every positive capacity and every set of bytes. The
  inductive invariant is the type invariant with `RingHoldsUnreadBytes`: the slot
  of the i-th unread byte is `_rear + i` modulo the capacity, `_front` is the
  slot after the last. The type invariant is needed for the
  arithmetic, the place of `_front` for the induction: a write must not touch a
  slot that holds an unread byte. The refinement maps the ring to the sequence
  of all bytes written; each operation is a step of `ByteFifo`.
* `SeqnoTracking_proofs`: `UnwrapOfWrap` (unwrap inverts wrap for numbers less
  than half the raw range from the checkpoint), `ClosestAlways` (it returns the
  closest of all candidates, for every checkpoint in use) and `TrackingCorrect`:
  with the checkpoints the endpoints use, every segment and every acknowledgment
  under way is taken for what it was sent as. That the distance stays below the
  half is not assumed but follows from the window and the lifetime. The
  inductive invariant `TrackInv` orders what is acknowledged, assembled and sent:
  the sender is at most a window ahead of what it knows to be acknowledged, that
  is at most what is assembled, and that at most what was sent; a packet is at
  most a lifetime behind the sender. It has to name the absolute number behind
  each raw one, also behind `latest_ackno`, which is one window's use behind the
  next number. `PlusOfWrap` shows that adding on the wire agrees with that.
* `EthernetLink_proofs`: `Spaced`, for all hosts, settings and timeouts, with
  loss, and with interfaces replaced: requests of a host for an address are at
  least `ARP_REQUEST_LIMIT` apart unless its interface was replaced between them.
  `RequestsAreSpaced` speaks of the history of requests, but `send_datagram`
  decides by `_request_his`, which a new interface does not have. `SpacedInv`
  relates the two (`LastIsKnown`): the last request of the history is the one the
  interface remembers, or a replacement came after it. The lemmas show that
  `recv_frame` leaves `_request_his` alone, and that `send_datagram` makes a
  request only if the one it remembers is old enough, and then remembers it.

* `EthernetOrder_proofs`: `ArrivesOnce`, with loss and replacements as well. A
  datagram of a flow (from one host to another) waits, is on the wire or has
  arrived. `OrderInv` says that numbers grow within each place and from each
  place to the next, and that nothing waits for an address that is cached. The
  last part is what makes it inductive: `send_datagram` may send past the queue
  only because `recv_frame` empties the queue when it learns the address.
* `EthernetDelivery_proofs`: `StaleExpires` and `NothingLost`. `ClaimInv` dates
  what caches and frames say of a host's address: it was true when the entry was
  made, and time does not pass while frames are under way. `KeptInv`, without
  faults, says that every datagram is at one of the places of `OrderInv`; it
  needs `ClaimInv` to know that a frame reaches the interface it is addressed to.
* `TCPSender_proofs` and `SenderSpec_proofs`: `AckedOnlyTaken`, `FlightIsKept`,
  `BytesInPlace`, `WindowKept` and `ClockResends`, for every stream shorter than
  half the raw range (`SenderAssumption`), every window, timeout, payload size
  and initial sequence number, and acknowledgments lost, repeated or reordered.
  The first module shows what every call keeps: `SenderOK`. Its core is
  `CacheOK`: what is kept begins at or before the acknowledged number, has no
  gap, and ends at the next number; with `SentOK`, the next number counts what
  was read from the stream. `WindowKept` needs the stronger `Tight`, that the used
  part of the window is exactly what is in flight, which reordered
  acknowledgments destroy (finding 1). The second module adds the peer: every
  acknowledgment under way names a number that the peer has reached
  (`SenderInv`).

The loop of `fill_window` is a recursive function of its turns. The induction over
them is done by hand, with the least number of turns that would break the
invariant (`LeastNat`).

Only model-checked: every liveness property (fairness is beyond the proof
system); the reassembler, which goes through its data by recursion, and what is
built on it; the refinement of the receiver to in-order delivery; connections and
sockets; routing; the encodings; the event loops.

## 6. Not modelled, and the plan

1. The full `TCPConnection` under `SocketSystem`, and `listen_and_accept` there;
   TCP over the lab 7 network. Both are products of state spaces that fill the
   time of a run on their own.
2. The service counts of the descriptors, which two threads change without
   synchronisation: `SocketSystem` only knows whether a callback has served its
   descriptor.
3. The 50 ms that a turn of lab 7's thread counts however short it was: they are
   below the unit of time.
4. Proofs, in this order: the ageing of datagrams in the router; the socket pair
   as a FIFO in `SocketSystem`; the reassembler.

Not planned, as there is no state in it that another part could see:

* the reference counts of `Buffer`, and `BufferViewList::remove_prefix`, with
  which `FileDescriptor::write` repeats a partial write;
* `TunFD` and `TapFD`, name resolution, and the other wrappers of system calls;
* `to_string`, `summary` and the output of the programs; the parsing of options;
* `webget` and `tcp_native`, which make one connection with the kernel's TCP and
  copy; `udp_tcpdump` and `tun`, which print or create what
  the kernel provides.
