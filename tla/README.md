# A TLA+ model of shadow-gre

shadow-gre carries TCP connections over GRE packets. A client accepts TCP
connections, a server dials a backend for each of them, and a reliable
protocol of their own (sequence numbers, cumulative and selective ACKs,
retransmission, AIMD window) joins the two over an unreliable IP path.

This directory holds TLA+ modules for that protocol, for the transports and
codecs below it and for the life of a connection at both ends above it,
configurations that check them with TLC, and proofs checked by TLAPS. Line
numbers below are those of `src/`; `PROJECT.json` maps every definition to its
lines.

## 1. The system

| Component | State | Operations | Shared with |
|---|---|---|---|
| `ReliableStream` (`pkg/tunnel/reliable.go` 304-1100) | `sendSeq`, `sendBase`, `unacked`, `dupAckCount`, `cwnd`/`ssthresh`/`caAccum`; `recvNext`, `outOfOrder`, `recvCounter`, `pendingAck`; `closed` | `Send`, `SendClose`, `Receive` (`processAck`, `processData`), ACK timer, `checkRetransmit` ticker, `Close` | application writer, receive loop, two timers |
| `ReliableManager` (1103-1199) | map of streams, `closed` | `GetOrCreateStream`, `RemoveStream`, `Receive`, `Send`, `SendClose`, `Close` | everyone |
| Server (`pkg/shadowgre/server.go`) | per stream number a `serverStream`: state, pending data, `writeCh`, two close channels, backend connection | `handleReliableData`, `handleReliableClose`, `connectAndRun`, `writeToBackend`, `readFromBackend`, `closeWrite`, `close`, `Server.Close` | receive loop calls in; three goroutines per stream |
| Client (`pkg/shadowgre/client.go`) | per TCP connection a `streamConn`: `writeCh`, `closeCh`, `writerDone`, `serverClosed`, `closed` | `handleConnection`, `writeLoop`, `signalClose`, `handleReliableData`, `handleReliableClose`, `Client.Close` | receive loop calls in; four goroutines per connection |
| RTT estimator, pacing (reliable.go 227-302, 419-454) | smoothed RTT, RTO | `Update`, `Backoff`, `pace` | decides when timers fire |
| Codecs (`gre.go`, `frame.go`, reliable.go 73-216) | none | marshal, unmarshal | |
| Transports (`pkg/transport`) | socket, handler, `closed`, at the server the known clients | `SetReceiveHandler`, `Start`, `Send`, `SendZeroCopy`, `receiveLoop`, `Close` | one receive loop per process; it calls the `ReliableManager` of the packet's client |
| Frame-based `Manager`/`Connection` (`manager.go`) | map of connections, `acceptCh`; per connection `readCh`, `readBuf`, `established`, `closeCh` | `Dial`, `Accept`, `HandleFrame`, `Read`, `Write`, both `Close`s | not used by client or server |
| Command line (`cmd/shadow-gre`) | none | flags, signals | |

What is hard here:

* the network loses, repeats and reorders packets, ACKs and CLOSEs included,
  and a packet that is retransmitted repeats the ACK of its first sending;
* numbers are 32 bits wide and compared by signed difference;
* three kinds of retransmission (RTO, duplicate ACKs, SACK gaps), an ACK
  that may be delayed, coalesced or piggybacked, and a window that may close;
* channels closed by test-then-close from several goroutines, states read
  before a lock or a dial and used after it, a queue at its limit;
* closing: each direction ends on its own, the end of one object removes the
  reliable stream under the other goroutines, and the next packet or `Send`
  for the number makes a new one;
* the raw socket sees all GRE traffic of the host, and a receive loop that
  waits for a packet must still be stopped;
* everything must end: a goroutine may wait for a window, a deadline, a
  channel or a peer.

A component is correct when: the stream delivers what was written, in order
and once, and eventually; `sendBase` and `recvNext` only advance and never
pass one another; nothing leaves `unacked` before the peer holds it; the
server hands each backend its data in order, without a gap, with the FIN last,
and tells the client of the end; the client writes all that arrived before it
hangs up and tells the server; a `ReliableManager` gets exactly the packets its
peer sent it; every stream object is in the map or about to be closed; and
after a close all goroutines end, unless one waits for a peer. The list
`hazards` in `PROJECT.json` gives the places where these are at risk.

## 2. Modules

| Module | What it is |
|---|---|
| `SeqNum` | uint32 arithmetic and `seqLess`, `seqLessOrEqual`, `seqGreater`, for any even space of numbers |
| `Congestion` | `cwnd`, `ssthresh`, `caAccum`, `onAckAdvance`, `onLossFast`/`onLossRTO` |
| `ReliableStream` | two `ReliableStream` objects and the network between them |
| `ReliableChannel` | abstract specification: what the pair promises its applications |
| `MCReliableStream` | values of `MaxSend` for TLC |
| `StreamGoroutines` | one `ReliableStream` object, its goroutines interleaved at their atomic accesses |
| `StreamTable`, `MCStreamTable` | `ReliableManager` of both ends for one number with several objects |
| `GreCodec`, `ReliableCodec` | the GRE header and the reliable packet as operators |
| `GreTunnel`, `MCGreTunnel` | the transports with both codecs, several clients and stray traffic |
| `FrameMux` | the frame-based multiplexer |
| `ServerStream` | the server's end of one stream number |
| `ClientStream` | the client's end of one TCP connection |
| `SeqNumProofs` | lemmas about the arithmetic |
| `ReliableStreamProofs`, `StreamGoroutinesProofs`, `StreamTableProofs`, `GreTunnelProofs`, `ServerStreamProofs`, `ClientStreamProofs`, `FrameMuxProofs` | each the theorems of section 5 about the module it is named after |

### ReliableStream

`snd[e]` and `rcv[e]` are the sender and receiver fields of endpoint `e`.
`Send` is `Send` up to `waitForWindow` (it has taken its number), `Transmit`
the rest of it, `SendAborted` the return of `ErrStreamClosed`. `SendClose`
numbers and stores a CLOSE. `ReceiveAck`, `ReceiveInOrder`,
`ReceiveOutOfOrder`, `ReceiveDuplicate` and `ReceiveClose` are the outcomes of
`Receive`; each first runs `processAck` on what the packet carries (operators
`DupAck` and `NewAck`, with the SACK scan, the retransmissions and the window
update) and then `processData` with its ACK. `ReceiveClose` includes
`ReliableManager.Receive`'s `onClose` and `RemoveStream`. `CheckRetransmit` is
one tick of `retransmitLoop`, `AckTimeout` the delayed-ACK timer,
`RemoveStream` the removal by the endpoint's own connection, at any time, or the
close of its manager.

Abstractions:

* Time. An RTO, the SACK rate limit (`due`) and the once-per-RTT limit of
  window reductions (`cut`) may have elapsed or not. RTT samples only move
  those, and `pace` is disabled by its constant.
* `Transmit` is enabled while the window is open, and is one step from the
  window test to the send. So are the ACK decisions of `scheduleAck`. The
  interleavings inside them are the subject of `StreamGoroutines`.
* A payload is its position, the *chunk*. A packet also carries `acked`, the
  unwrapped value of its ACK number; the program has no such field and no
  action reads it, except that the network uses it when `AckReorder` is FALSE.
* SACK blocks are the set of numbers they cover. `retries` and `dupAckCount`
  stop at the value they are compared with; `recvCounter` is kept modulo
  `AckEveryN`.
* `Lifetime` is the assumption any wrapping protocol makes: a packet is not
  still around when its number is half the space old. It is a guard of taking
  a new number. With fewer than 2^31 packets it holds by itself.
* An object exists from the start, and a removed object stays removed: a
  second object for the same number is the subject of `StreamTable`.

### StreamGoroutines

The same operations for one object, cut between the accesses to its atomic
variables, channels and mutexes that another goroutine can get in between with
an effect: `Send` with the loop of `waitForWindow` (`TestWindow`,
`DrainSignal`, `Wait`) and the piggybacked ACK (`LoadPending`,
`PiggybackAck`, `Emit`), `Receive` with `scheduleAck`, `sendAckNow` and
`processAck` (its locked part is one step, the signal after the unlock another),
the callback of a timer that has fired, and `Close`. The peer is the
environment: it sends its packets in any order and any number of times, and
acknowledges what it likes of what it was sent. There is one writer, as in
client and server. Numbers do not wrap and SACK blocks are left out. The loads of
`closed`, `cwnd` and `sendBase` in one round of `waitForWindow` (393-399) are a
single step: the signal comes after the stores, so a value loaded earlier only
makes the writer go round once more.

### StreamTable

The maps of both managers for one number. `obj[e]` are the objects an end has
created so far, `streams[e]` the one in its map, `held` the one a goroutine got
from `GetOrCreateStream`. `Load` and `LoadOrStore` are the two halves of
`GetOrCreateStream`, `RemoveStream` has two steps (`LoadAndDelete`, `Close`),
and the object is used in a step of its own, when it may be closed already.
The objects are those of `ReliableStream` without window, SACK and delayed ACK;
the reorder buffer, the deletion by an old ACK, and the duplicate ACK that
deletes nothing are kept. The network loses
packets and keeps their order. An application sends, closes and removes as
`readFromBackend`/`connectAndRun` and `handleConnection` do.

### GreTunnel, GreCodec, ReliableCodec

A packet on the wire is a sequence with one number per header field and one per
payload byte, so that a missing field shifts the others, as in the program. The
codecs are operators on such sequences. `GreTunnel` is the path of a packet:
`Send` (or `SendZeroCopy`, which no caller uses) through both codecs, the
datagram on the network (never removed, so it may arrive late, again or not at
all), and `receiveLoop` as the three steps test, read and handle. `Handle`
includes the filters, `handleGREPacket`, `getOrCreateClient` and
`ReliableManager.Receive` up to the parsed packet. `prog` is the goroutine that
runs `Start` and later `transport.Close`. The client's filter by address, the
server's registration and the missing filter there are kept. `carries` and
`accepted` are history: what a manager sent in a datagram and what a manager
got.

### FrameMux

Two Managers, which neither client nor server of the program uses. Each step is the code between two accesses to shared state:
`Dial` (store and SYN, wait), `Read` (buffer, first frame, drain), `Write` by
frames, `Connection.Close` in its four parts, whether called by the application
or from `Manager.Close`, and `HandleFrame` by frame type. A second close of
`closeCh`, or a send to a closed `acceptCh`, sets `panicked`. The client dials.
The network is the tunnel's: a set of frames, of which any may arrive next, again
or never. `HandleFrame` does not look at a frame's sequence, so data is queued as
it comes; `fed` records that, `got` what `Read` returned. Only the SYN is not
repeated: a second one makes a second Connection that hides the first (manager.go
277), which the model leaves out. Frames are marshalled as in `GreTunnel`.

### ServerStream

One step is the code between two accesses to shared state. `ss[i]` are the
`serverStream` objects the number gets one after the other, `entry` the one in
`cs.streams`, `pc` the position of each goroutine. The receive loop is one
goroutine, as in the transport. `TestChannel` and `CloseChannel` are the two
halves of every `select { case <-ch: default: close(ch) }`; a second close sets
`panicked`, after which the process is gone. `got` and `out` record the chunks
meant for an object and the ones its backend received. `Events` says what may
go wrong. `reliable` is the number's `ReliableStream`: every packet that arrives
and every `Send` makes one if there is none (`Made`), so data also comes after the
client's CLOSE and after the stream has ended, handed over by a fresh object; it
is appended, dropped or makes a new `serverStream`, as the code has it. After
`Server.Close` the stream is closed and a `SendClose` sends nothing. A chunk is
the number of its call, so a payload that a fresh object hands over a second time
is a new chunk here (`StreamTable` tells them apart), and a late ACK, which makes
a stream too, is left to `StreamTable`. `ShutCalls` and `ShutStreams` bound when
`Server.Close` may be called: after at least so many calls, with at most so many
objects.

### ClientStream

The same style for one `streamConn`, from `Accept` to the lingering goroutine
that removes it, with late packets as in `ServerStream` and a CLOSE that may come
again. `due` is how many chunks came before the first CLOSE.

## 3. Runs

Constants of the program are replaced by small ones of the same order
(`MinCwnd <= InitialCwnd <= MaxCwnd <= MaxOutOfOrderBuffer`), so that window
full, buffer full, wraparound, the last retry and every ACK rule occur within
a few packets. All runs set `CHECK_DEADLOCK FALSE`: a stream on which all is
said and done stops.

| Run | Bounds | Checks |
|---|---|---|
| `StreamWrap` | 9 packets in 8 numbers, window 2, buffer 2, the client may close | every order of a full window and its ACKs, across the wraparound: `TypeOK`, `InOrderDelivery`, `ReorderBufferHasRoom`, `BaseNotAhead`, `NeverBackwards`, `OnlyStaleAcksForget`, `StreamInv` (the invariant the proofs use) and `ImplementsChannel` |
| `StreamDelivery` | 3 packets, window 1-3, 2 faults, 1 retry, ACKs in order, fair | `SackedIsHeld`, `NothingForgotten`, `EventualDelivery` |
| `ServerOrder` | 3 chunks, 2 objects, queue of 1, all events, the shutdown after the last chunk and before a second object, fair | `TypeOK`, `NeverReordered`; short of the shutdown `WithoutGap`, `FinComplete`, `TellsClient`, `OneBackend`; `Reaped` |
| `ClientLifecycle` | 3 chunks, queue of 1, all events, fair | `TypeOK`, `WithoutGap`, `AllWritten`, `TellsServer`, `Reaped` |
| `StreamRaces` | 2 packets each way, window 1-2, 1 lost ACK, 1 callback at a time, fair | `TypeOK`, `NoLostWakeup`, `EventuallyAcked`, `SendReturns` |
| `StreamLives` | 1 chunk up, 2 down, 3 objects per end, 1 fault, both ends remove, the server stops | `TypeOK`, `NoOrphan`, `MapHoldsOpen`, `HandedOnce` |
| `Tunnel` | 2 clients, a packet of each shape, 5 kinds of stray traffic, 3 datagrams, fair | `TypeOK`, `Genuine`, `Faithful`, `CloseReturns` |
| `FrameMux` | 1 connection, 2 frames, channels of 1, a read buffer of 3 for frames of 2, 1 frame repeated or refused, any order, fair | `TypeOK`, `ClosedOnce`, `ReadAsDelivered`, `DialReachesPeer`, `ReadReturns` |

One fault is enough for any single loss or duplicate, two for a loss of a
retransmission or a loss together with a duplicate. Three packets give a gap
with something behind it, nine packets in eight numbers use one number twice.
Three chunks and a queue of one give a chunk written, one queued and one that
blocks; two objects the replacement of one by the next. Three objects per end
give a removed stream, the one a late packet makes and the one a `Send` makes
at the same time. A datagram from each of two hosts and a stray one are enough
to confuse two senders or a filter. A read buffer that is no multiple of a
frame leaves a rest in `readBuf`.

In `ServerOrder` a shutdown that comes earlier, or with two objects, multiplies
the states without a new meeting: `Server.Close` works on the one object in the
map, and with all chunks still to be called it meets each stage of that object
anyway. The theorems have no such bound. A CLOSE that comes again ("repeat") is
part of `ClientLifecycle`; for the server the theorems cover it, and `ServerOrder`
with it passes too, but takes four minutes.

Properties that only hold short of a fault say so: the models record a failed
`Write` (`failed` in `ServerStream`), and failed writes, timeouts and a
shutdown (`faults` in `ClientStream`), and the property names the ones it
leaves out. `OnlyStaleAcksForget` takes the defect of `StreamStaleAck` as given
and says that there is no other of its kind: whatever else arrives, in whatever
order, a packet the peer lacks stays in `unacked` until its retries are used up.

Runs that find the code at odds with what it says of itself:

| Run | What happens |
|---|---|
| `StreamStaleAck` | an ACK older than `sendBase` makes `processAck` delete every packet in flight (770); the ACK repeated by a retransmitted data packet is enough |
| `ServerDoubleClose` | two goroutines pass the test in `closeWrite` (server.go 432) |
| `HalfCloseReply` | the client's CLOSE removes the server's stream object with its sending half (1168); the response goes out on a new object from number 0, and the client acknowledges it as duplicates (905) without handing it over, against server.go 227-228 |
| `ServerHang` | the client's CLOSE arrives while `readFromBackend` is in its `Read`; no deadline is set for that one (371), and a silent backend keeps the goroutine, against "set read deadline to avoid hanging forever" (370). Fairness is that of `Reaped`: the goroutines run, the backend need do nothing |

More behaviours of the code are in the models and bound what the passing
properties say; the ones that matter most are hazards in `PROJECT.json`:

* a CLOSE ends the stream at once, whatever data before it is still missing
  (reliable.go 639): `ReliableChannel` lets the end come after any prefix of
  what was written, and `ImplementsChannel` shows no worse;
* `RemoveStream` right after `SendClose` ends the retransmission of data the
  peer lacks (server.go 303, client.go 239);
* after a failed dial the next chunk of the stream dials again, and that backend
  misses the head (server.go 262): `OneBackend` and `WithoutGap` are about what
  each object was given;
* a removed number is handed a late packet with number 0 a second time
  (reliable.go 1127): `HandedOnce` is for an end that has not removed its
  stream; the object made for a late ACK stays in the map until the program
  ends (1163);
* `pendingAck` may stay set without a timer, after which delayed ACKs are not
  sent (reliable.go 940): `EventuallyAcked` needs the peer's retransmission. An
  ACK that advances `sendBase` over packets no longer in `unacked` gives no
  signal (817): `NoLostWakeup` leaves it out, `SendReturns` needs the 100 ms
  timeout for it;
* a GRE packet without a key counts as key 0 (gre.go 106, raw.go 168):
  `Genuine` is for other keys;
* in `FrameMux`, a closed connection reports EOF with frames still queued (90),
  a full `readCh` drops a frame (191), and a SYN that is handled while
  `Manager.Close` returns panics on `acceptCh` (288). Nothing reads the
  "Sequence number for ordering" (frame.go 36): frames that the tunnel reorders
  are read out of order, and `ReadAsDelivered` is about what happens behind
  `deliver` only;
* `Server.Close` sweeps the clients before it stops the receive loop
  (server.go 466): a packet in between makes a stream nobody closes. So does a
  late packet number 0 after the stream has ended (159): its `serverStream` gets
  a backend connection that only the backend can end. `OneBackend` and
  `NeverReordered` hold with these objects, `Reaped` says nothing of them;
* a packet given up leaves `sendBase` behind, and with enough packets beyond it
  the window stays shut (reliable.go 1036, 400): `EventualDelivery` ends its
  promise at a packet given up;
* a backend `Read` that began before the client's close has no deadline
  (server.go 371, run `ServerHang`), the `Write` of pending data has none either
  (280), and a reply may wait for the client's ACKs for ever (394): the server's
  `Reaped` is for a stream that does not stay in one of the three (`Waits`);
* a stream closed by `Server.Close` during its dial becomes connected
  (server.go 275): the server's `WithoutGap`, `FinComplete` and `OneBackend` end
  at the call of `Server.Close`;
* after a failed write the client's drain goes on behind the lost chunk
  (client.go 260): the client's `WithoutGap` ends at a failed write;
* a connection accepted but not stored yet is missed by `Client.Close`
  (client.go 380), which then waits for its application: no property says that
  `Client.Close` returns.

Each passing property has a mutant: an operator named `Bug...` in front of the
definition it replaces.

## 4. Fairness

`ReliableStream!FairSpec`: weak fairness for the writer, the ACK timer, the
receive loop and the retransmission ticker. The code runs them as goroutines
and runtime timers that are never starved; the ticker runs until the object is
closed. The network need not lose anything, and loses at most `MaxFaults`
packets, so a retransmission gets through or the retries are used up.

`ServerStream!FairSpec` and `ClientStream!FairSpec`: weak fairness for every
goroutine that is not waiting for a peer; timeouts expire. Nothing is assumed of
application, backend and peer: in the server a `Read`, a `Send` and the `Write`
of pending data on an open connection are under no fairness, and the property
`Reaped` itself names them (`<>[]~Waits(i)`). In the client a `Send` is fair only
when its reliable stream was closed or made again; one made again has its whole
window free, which outlasts the few reads until the watching goroutine has set
the deadline.

`StreamGoroutines!FairSpec`: weak fairness for the writer inside `Send` and for
the receive loop inside `Receive`; strong fairness for the arrival of the packet
the peer has no ACK for, and of the peer's ACK of all it was sent. The first is
what the peer's retransmission does, the second what its ACKs of duplicates do
(retransmission and ACK rules are those of `ReliableStream`, where
`EventualDelivery` shows them at work). Nothing is assumed of the ACK timer.

`GreTunnel!FairSpec`: the receive loops and `Close` run. A datagram need never
arrive, so `CloseReturns` does not rest on a packet that wakes the loop.

`FrameMux!FairSpec`: `HandleFrame`, `Read` and the two `Close`s run; nobody need
dial, accept, write or begin to close.

## 5. Proofs

A theorem holds for every value of the constants that satisfies the module's
`ASSUME`; TLC evaluates these in every run. Most properties are not inductive.
Each proof module first defines the invariant that is, in named parts, then has
one lemma per part (or per action) on what a step does to it, then the theorems.
The invariants were checked with TLC on the configurations of section 3 before
they were proved.

### ReliableStreamProofs

| Theorem | Statement |
|---|---|
| `StreamInvariant` | `Spec => []StreamInv` |
| `TypeCorrect` | `Spec => []TypeOK` |
| `DeliveryInOrder` | `Spec => []InOrderDelivery` |
| `BaseBehindReceiver` | `Spec => []BaseNotAhead` |
| `CountersAdvance` | `Spec => NeverBackwards` |
| `Refinement` | `Spec => ImplementsChannel` |
| `RoomInReorderBuffer` | `Spec => []ReorderBufferHasRoom` |
| `SackInvariant` | `Spec => [](\A e \in End : SackInv(e))` |
| `SackedHeld` | `Spec => []SackedIsHeld` |
| `ForgetsOnlyAtStaleAcks` | `Spec => OnlyStaleAcksForget` |

For every window, buffer, retry limit, ACK rule, number of packets, number of
faults and number space. Assumptions: `StreamAssumption`, `CwndAssumption` and
`HalfSpaceAssumption`, the ones that matter being
`1 <= MinCwnd <= InitialCwnd <= MaxCwnd` and `MaxCwnd + 1 < HalfSpace`
(16385 < 2^31 in the program).

In-order delivery is not inductive: a data packet is accepted by comparing a
wrapped number, so one has to know that the number identifies the chunk.
`StreamInv` says so. For each direction, every number that is stored anywhere
(`sendSeq`, `sendBase`, `recvNext`, in packets in flight, in the unacked map, in
the reorder buffer) is the wire form of a counter, and the counters lie within
half a space of each other: the window keeps the writer near `sendBase`,
`sendBase` is never ahead of the receiver, and `Lifetime` keeps old packets out.
Within half a space the signed difference of two wire forms is the difference of
the counters (`SeqNumProofs`). Then a packet equal to `recvNext` carries the next
chunk, a run in the buffer is the following ones, an ACK is at most what was
received, and the SACK scan only changes marks. One lemma per action shows that
it keeps the two directions; lemmas on `ProcessAck` are shared by the five
outcomes of `Receive`. The refinement maps `written` to the chunks a writer
numbered, `finished` to a writer that closed, and shows each step to be a
`Write`, `Finish`, `Deliver`, `ReportEnd` or a stutter. On the way it proves that
the delivery in `ReceiveClose` (641) hands over nothing: a run behind `recvNext`
never stays in the buffer.

`RoomInReorderBuffer` follows from the same invariant, by counting: the buffered
chunks are distinct and lie after `recvNext` and before `SentBy`, the number of
chunks that went out. It has to be `SentBy` and not the numbers taken. A writer
takes a number before it waits for the window, so `sendSeq` may be `MaxCwnd + 1`
ahead of `sendBase`; with that bound the buffer could just fill up.

The SACK bookkeeping is a second induction on top of `StreamInv`. `SackInv` says
that an entry of the unacked map is less than half a space old, that one marked
sacked is held by the peer, and that a number reported in any SACK block still
under way is the wire form of a chunk which the peer holds, at most a window
after the ACK next to it. The last part is what makes late SACK blocks harmless:
the peer never lets go of what it holds (`Local`), so a report stays true, and it
cannot be mistaken for a later chunk, since entry and report are both less than
half a space old. `Local(e)`, proved with every action of e, lists what the step
leaves alone at the peer and what its new packets may report.

`ForgetsOnlyAtStaleAcks` is an action property on top of the two. An ACK at or
ahead of `sendBase` makes the scan of `processAck` cover only chunks below the
ACK, which the peer has delivered (`StreamInv`); an ACK behind it makes the scan
(770) run over the whole window, and is the one exception the property allows.
Data both ways, reordering and repetition are all allowed. That nothing is
forgotten at all (`NothingForgotten`) is false, as `StreamStaleAck` shows;
`StreamDelivery` checks it for ACKs in order and data one way, and no theorem
claims it.

### StreamGoroutinesProofs

`TypeCorrect` (`TypeOK`) and `NoWakeupLost` (`NoLostWakeup`), for any amount of
data, number of `Send`s, largest window, number of timer callbacks and of lost
ACKs. `NoLostWakeup` says nothing of a writer that has tested the window and not
yet drained `windowAvail`; the invariant demands the signal there too. It is kept
because `processAck` signals after it has moved `sendBase`, and because the writer
tests the window again after it has drained.

### StreamTableProofs

`TypeCorrect`, `NothingLeaked` (`NoOrphan`), `OpenInMap` (`MapHoldsOpen`) and
`NothingTwice` (`HandedOnce`), for any number of chunks, objects and faults,
whichever ends remove their stream or shut down.

* The first three need `Owners`: a goroutine between `Load` and `LoadOrStore`,
  or between `LoadAndDelete` and `Close`, holds an object that is not in the map
  and that the other goroutine does not hold.
* `HandedOnce` needs to know what a number means while the peer goes through
  several objects that all begin at 0. `OneNumber`: a chunk has one number
  wherever it is (under way, at the receive loop, waiting for its ACK, in a
  reorder buffer, handed over), although several chunks may have the same number.
  `SentFirst`: no number is ahead of what the application has sent.
  `OneObject`: an end that has not removed its stream has one object in use, and
  its `recvNext` is the number of chunks handed over. Then a chunk handed over at
  `recvNext` has not been handed over at an earlier number.
* `RunLength`, the run a delivery takes from the reorder buffer, is the least
  number outside the buffer. It exists by the well-ordering of `Nat`
  (`LeastExists`, from `WellFoundedInduction`).

### GreTunnelProofs

| Theorem | Statement |
|---|---|
| `ReliableRoundTrip` | `UnmarshalReliable(MarshalReliable(p)) = p` for every `Built` packet |
| `GreRoundTrip` | key and payload survive `Marshal` and `SendZeroCopy` |
| `TypeCorrect` | `Spec => []TypeOK` |
| `OnlyGenuine` | `ASSUME Unforged PROVE Spec => []Genuine` |
| `NoneDropped` | `Spec => Faithful` |

For any clients, packets, stray traffic and number of datagrams. `Built` says how
`Send`, `SendClose` and the ACK functions fill a packet: `Ack` and `SackBlocks`
only with their flag, at most `MaxSackBlocks` of them. Without it the round trip
fails, as the code leaves out a field whose flag is not set. `CodecAssumption`
has `MaxSackBlocks` fit the count byte. `FlagsFit`, in `TunnelAssumption`, says
that the flags of any traffic are a byte. `Unforged` is a hypothesis of
`OnlyGenuine` and not of the specification: among the stray traffic none is a
well-formed reliable packet under the tunnel's key, to the server from anywhere
or to a client from the server's address. The protocol has no authentication, so
this cannot be dropped; the run `Tunnel` has stray traffic with another key,
without a key, from another address, and malformed under the tunnel's key.

The invariant says that a datagram with a manager's packet is the encoding of
that packet by the two codecs (so that the round trips apply when it is read,
however late and however often), that an open receive loop has a handler and a
socket, and that `Close` waits for the loop.

### ServerStreamProofs

| Theorem | Statement |
|---|---|
| `TypeCorrect` | `Spec => []TypeOK` |
| `InOrder` | `Spec => []NeverReordered` |
| `ClientTold` | `Spec => []TellsClient` |
| `NoGap` | `Spec => []WithoutGap` |
| `FinAfterAll` | `Spec => []FinComplete` |
| `OneAtATime` | `Spec => []OneBackend` |

For any number of chunks and objects, any queue and any events (backend replies
and closes, failing dial, failing write, slow backend, a repeated CLOSE, a
shutdown), late packets included. The last four properties hold until
`Server.Close` is called, and say so themselves.

`AlwaysInv` holds with every event. Its core is the *line* of an object: what its
backend got, what `connectAndRun` flushes, the pending data and `writeCh`, one
after the other, increase and end before the chunk the receive loop holds
(`LineOK`). It moves through the parts of the line from right to left and never
overtakes, since `writeCh` is only filled once the state is connected, which is
when the pending data was taken (`LifeOK`).

`QuietInv` adds what holds as long as nobody calls `Server.Close`; that call
cannot be undone (`ShutStays`), so `AlwaysInv` together with `QuietInv` before the
call is inductive (`UntilShutdown`). The line is
then `got` up to a chunk that was dropped, and a dropped chunk is the last
(`Flow`): a chunk is dropped only by an object that somebody is closing
(`ClosesOK`, `EndOK`), and such an object gets nothing more after the entry goes
or its `writeCloseCh` is closed (`HalfOK`). A FIN is sent only when all that came
before the client's close is out (`FinOK`). An object that is no longer the entry, and is not about to become it,
has closed its backend (`Settled`, `Held`), so the next one is alone.

The limit is needed: TLC finds `WithoutGap`, `FinComplete` and `OneBackend`
violated behind a shutdown. `Server.Close` closes an object while `connectAndRun`
dials for it, and the dial then makes it connected again (server.go 275); and its
closed reliable stream sends no CLOSE, so that `TellsClient` fails too.

### ClientStreamProofs

`TypeCorrect`, `NoGap` (`WithoutGap`), `WrittenBeforeClose` (`AllWritten`) and
`ServerTold` (`TellsServer`), for any number of chunks, any queue and all events.
The invariant has where the goroutines can be and which flags that implies
(`Control`), that `out` followed by `writeCh` is `got` up to a dropped chunk, after
which nothing more is queued (`Flow`), and that without a fault nothing is dropped
before the server's CLOSE, and of what came before it nothing is left when the
writer is done (`Ended`). A late chunk may well be queued behind the back of a
writer that has ended, and stays there. The proof of `TypeOK` found the type of `faults` too
narrow: a send to a full queue whose writer has ended times out, and is recorded as
"slow", even when that event is not among `Events`.

### FrameMuxProofs

| Theorem | Statement |
|---|---|
| `TypeCorrect` | `Spec => []TypeOK` |
| `OnceClosed` | `Spec => []ClosedOnce` |
| `ReadsAsDelivered` | `Spec => []ReadAsDelivered` |
| `DialReached` | `Spec => []DialReachesPeer` |

For any number of connections, frames and faults, any channel capacities and read
buffer, whichever ends read, write and shut down, over a network that loses,
repeats and reorders frames (but does not repeat a SYN). One invariant, `Inv`, gives all
four. Its parts:

* `ClaimOK`: a goroutine between the swap of `closed` and the close of `closeCh`
  is the only one there for that Connection, and `closeCh` is still open. The test
  of `closeCh` alone would not do; the swap decides.
* `HeldOK`: what was read, `readBuf` and `readCh`, one behind the other, are the
  bytes `HandleFrame` has queued, in the order it queued them. So a `Read` that
  stops within a frame loses and swaps nothing. It says nothing of the order in
  which the frames come, which is the network's. `DataWire` proves that
  `UnmarshalFrame` gets back the bytes that were written.
* `ShakeInv`: the only SYN for a number is sent by its `Dial`, and a SYN-ACK, or an
  `established` at the client, means that the server has stored the Connection.
* `BornOK`: a Connection that is not there has nothing and nobody at it, so that the
  one a SYN creates starts empty.

### Only model-checked

* The liveness properties: TLAPS does not prove liveness under fairness.
* `NothingForgotten` of `StreamDelivery`, which is false without that run's
  restrictions; the theorem is about `OnlyStaleAcksForget`.

Every other property of a passing run is stated by a theorem above.

## 6. Plan

Open on the modelling side: several writers in `waitForWindow` (the program has
one per stream), and `buildSackBlocks` as an algorithm on sequences against the
set used here.

## 7. Not modelled

* `RTTEstimator` and `pace` (reliable.go 227-302, 419-454): floating-point time.
  They decide when a timer fires, which the models leave open; `pace` returns
  at once with the constant the program is built with.
* `MarshalIPHeader` and `ParseIPHeader` of `gre.go`, and the `StreamPacket` codec of `stream.go`: nothing calls them.
* PING and PONG of the frame-based Manager, which nothing sends first, its
  `onConnect` variant, dialling from both ends and a SYN that arrives twice
  (it replaces the Connection, manager.go 277).
* A restarted client that begins again at the same stream numbers (client.go
  80): the protocol has no epoch, so old and new packets of a number cannot be
  told apart and nothing that could be stated holds.
* Logging, statistics, socket buffer sizes, buffer pools, the command line.
