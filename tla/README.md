# iptcp-go in TLA+

iptcp-go is a user-space IP and TCP stack in Go: hosts and routers are
processes that exchange IP packets over UDP sockets, routers speak RIP, and
hosts offer TCP sockets through a small command line (REPL). This directory
holds TLA+ modules of its core, TLC configurations that check them on small
instances, and TLAPS proofs.

## 1. Inventory

One process is one `Device` (`src/pkg/protocol/protocol.go`), with one
`Device.Mutex`. Its goroutines: one `Listen` per interface, one `Handler` per
packet received (`go d.Handler`), `Rip` (periodic update), one `timeout` per RIP
neighbour, and per TCP connection `tcbReadController`, `tcbSendController`,
`windowProbing`, `rtoTimeout` and `timeWaitTimeout`; the REPL runs in the main goroutine, `a`
and `sf`/`rf` in goroutines of their own.

| Component | State | Operations | Talks to | What is hard |
|---|---|---|---|---|
| Sequence arithmetic (`tcb.go`, `normalsocket.go`) | - | `wrapIndex`, `wrapFromIss/Irs`, `wrappedDist`, `wrappedCompare`, `isAckAcceptable`, `isSegmentAcceptable` | all of TCP | unsigned comparisons of wrapped numbers |
| Receive half of the TCB (`tcb.go`) | `rcvBuf` (ring), `rcvNxt`, `rcvLbr`, `rcvWnd` | `AddRead`/`add2Read`, `ReadRecv`/`readFromRecv`, FIN | handler (channel `dataToRecvSignal`), `VRead` (`bytesToRead`, `bytesReadRcv`) | one goroutine serves both callers and waits for a signal only it sends; `AddRead` returns before the bytes are stored; the ring wraps; a `uint16` window |
| Connection (`socketHandlers.go`, `normalsocket.go`) | status, pointers, windows, `ConnTable` | one handler per status, `VConnect`, `VWrite`, `VClose`, `closeDelete`, timeouts | peer (segments), listener, REPL | packets handled out of order, lost, sent again; calls that read the pointers without the lock; both ends closing |
| Retransmission (`retransmitQueue.go`, `normalsocket.go`) | a slice used as a stack, a timer | `Push`, `Peek`, `Cleanup`, `rtoTimeout` | connection | which entry is acknowledged or sent again; a timer object that is replaced while waited on |
| Send half of the TCB (`tcb.go`) | `sendBuf` (ring), `sendUna`, `sendNxt`, `sendLbr`, `sendWnd` | `AddSend`, `ReadSend`, zero-window probe | `VWrite`, handler of ACKs (`windowSendSignal`) | two writers without a lock, signals sent with a default, a probe that takes a byte out of the buffer |
| Listener (`listensocket.go`) | `listenChannel`, `ListenTable` | `VListen`, `VAccept`, `VClose` | handler (`listenChannel`, `signalChannel`), `listenPort` | a handler that blocks with `Device.Mutex` held; `ConnTable` written without it |
| RIP (`rip.go`, `protocol.go`) | `Table`, `RipNeighbors`, `ripChannels` | `RipHandler`, `Rip`, `timeout`, `Initialize` | other routers | loss, reordering, stale routes, restarts, convergence |
| Interfaces | `IsUp` | `Listen`, `UpInterface`, `DownInterface` | RIP | the flag is tested before a blocking read |
| RIP timeout channels (`protocol.go`) | `ripChannels`, a goroutine per neighbour | `timeoutHandler`, `timeout`, `addNeighboursIfStale`, `Initialize` | `Listen`, `Handler`, RIP | a channel closed by one goroutine while another sends on it; a map made after its users start |
| IP forwarding (`protocol.go`) | reads `Table` | `getDstPrefix`, `findIp`, `Handler`, `sendPacket` | RIP | a table that changes while it is ranged over; routing loops and TTL |
| REPL and socket ids (`utils.go`) | two maps | `updataSocketIds`, commands | all | maps replaced without a lock by two goroutines |
| Codecs, configuration parser, programs, scripts | - | - | - | sequential |

What makes them correct: each half of the TCB is a bounded lossless FIFO that
does not block its callers for good; text is sent at its own number; what is
queued is retried by one goroutine, and goroutines end with their connection;
an accepted connection is found by its packets; the host's mutex is released;
every neighbour will be timed out by one goroutine; a packet takes the longest
matching route; a connection delivers the peer's stream, forgets
only bytes the peer has, moves along the TCP state diagram, and opens and closes
completely; no route is better than the network, none points back, none lives
without a timeout, and routes appear and disappear when they should.

The hazards, each at its line and with the properties that cover it, are in
`PROJECT.json`.

## 2. Modules

| Module | Models |
|---|---|
| `SeqSpace` | the sequence arithmetic, with the modulus and `tcbSize` as constants |
| `ByteStream` | abstract: a bounded first-in first-out pipe |
| `RecvPath` | receive half of the TCB, its goroutine, the handler in `AddRead`, a reader; implements `ByteStream` |
| `SendPath` | send half of the TCB, its goroutine, `VWrite` calls, the probe, ACKs from the program's own receiver; implements `ByteStream` |
| `TcpConn` | a client and a listener: the client's connection, those the listener opens for it, the network between the hosts |
| `ConnTimers` | the two timers of a connection and the goroutines that wait on them |
| `Host` | the goroutines that share the socket tables of one host: handlers, accept loop, TIME-WAIT, REPL; the socket ids |
| `Rip` | routers on any topology: tables, timers, interfaces, packets |
| `RipTree` | `Rip` on a topology without cycles, and what holds only there |
| `Router` | inside one router: timeout channels and goroutines of neighbours, and the lookup of a route |
| `RecvPathProofs`, `SendPathProofs`, `TcpConnProofs`, `ConnTimersProofs`, `HostProofs`, `RipProofs`, `RipTreeProofs`, `RouterProofs` | the proofs, each about the module it is named after |
| `MCRecvPath`, `MCSendPath`, `MCTcpConn`, `MCConnTimers`, `MCHost`, `MCRipTree`, `MCRouter` | roots of the TLC runs; `MCRipTree` gives the line a - b - c, `MCRouter` the prefixes and their hops, `MCSendPath` what the two threads write, `MCTcpConn` the numbers of the server's connections |

The modules share one system at different depths. `RecvPath` and `SendPath` open
up what `TcpConn` does in one step (storing a payload, queueing a write);
`ConnTimers` opens up the step `Retransmit`, `Host` the step that establishes a
connection and what the tables go through, `Router` what `Rip` calls `Silent` and
`timeout`.

Definitions whose comment starts with `mutant` are not part of the model: each is
a faulty variant of the definition after it, which a property must detect.

### SeqSpace and RecvPath

A pointer of the TCB is a 64-bit offset from the initial number and does not
overflow here; `WndMod = TcbSize + 1` is both the ring's length and the modulus of
the `uint16` window. Byte i of the peer's stream has the value i, so a lost,
repeated, reordered or overwritten byte shows in what is delivered. The four
channels are unbuffered: a send and its receive are one step. Per actor:

* handler: `HandleData` (an acceptable segment, up to `AddRead`), `HandleFin`;
* reader: `VRead` (up to the send on `bytesToRead`);
* controller: `TakePayload`, `Add2Read`, `TakeRequest`, `ReadFromRecv`, `Reply`,
  which are the two branches of its `select` with a step between any two
  channel operations.

`windowRecvSignal` is sent to by the controller only, in a `select` with a
default, at a moment when the controller does not receive from it. No send ever
succeeds, and a controller that waits for it waits forever; the two waits are
therefore guards without an alternative (`MustWaitForRoom`, `MustWaitForData`).

The environment has four switches; `RecvFlow` has the first three on. `Overrun`: the peer may send past the window
(`isSegmentAcceptable` takes a segment of which either end is in the window). `ReadEmpty`: the
user may read an empty buffer. `WithFin`: the peer may close. `EagerFin`: the
FIN's handler may run between `AddRead` and `add2Read`.

### SendPath

Sequence numbers are offsets and the byte stored at offset i has the value i.
Per actor: `VWrite`, `Segment` (the head of the loop, which reads the capacity
without a lock), `AddSend`, `ReadSend`, `Send` for each calling thread; the steps of
the two branches of `tcbSendController` (`AddMustWait` to `Add2Send`, `ReadMustWait` to
`ReadReply`); `WindowProbing`; `HandleAck`. `windowSendSignal` is sent to in a `select`
with a default: the handler's send succeeds only while the controller is at its
receive, so that test and receive are separate steps (`addGap`, `readGap`) and
the signal may fall between. The peer is the program's own receiver: it appends
acceptable text at `rcvNxt`, answers with the end of the segment, announces the
window before or after `add2Read`, stops when text exceeds the window, and
announces nothing when its user reads. `ProbeTimer` (one second) fires when little
is under way. Three history variables mark what the code does not survive:
`missed`, `overlap`, `overrun`; the properties state what holds without them.

### ConnTimers

`rtoTimer` and `timeWaitTimer` are pointers to timer objects; an object is armed,
fired or drained. `rtoTimeout` is a step per access to shared state (`RtoCheck`,
`RtoEval`, `RtoFired`, `RtoItems`, `RtoPeek`, `RtoReset`), as it holds no lock;
`timeWaitTimeout` is two. The queue is its length, the connection's status is open,
in TIME-WAIT, or closed. A `VWrite` may have tested the status and send after
`closeDelete`. A nil pointer ends the program (`crashed`).

### Host

A handler that waits for `Device.Mutex` has done nothing yet, so its packet may as
well arrive when it gets the mutex: there is one handler at a time, in one of two
places where it blocks (`listen`, `signal`) or not at all. `VAccept` is `TakeSyn`,
`Create` (which may fail to send and leave the connection in the table), `Signal`,
`Timeout`; `updataSocketIds` is `addAllSocketsToMap`, `Assign`, `StoreKeys` and `StoreIds`,
run by the accept goroutine and by the REPL. Map iteration order is a choice
(`Numbered`). After it is established a connection is only open, closing, in
TIME-WAIT or closed. The two keys of a connection (of the packet's destination
in `ConnTable`, of interface `if0` in `closeDelete`) are taken to be equal, as they
are on a host with one interface. Go may stop a program it catches using a map
from two goroutines; every behaviour of `Spec` may end, which is that case.

### Router

Channel objects have a buffer and are open or closed; `timeoutHandler` looks the
channel up under the mutex and `Send`s without it; `timeout` is `Receive`,
`TimerFires` and `Expire`. `Table[p]` is the `Hop` of a prefix, with all costs above 0
taken for one. A static route has cost 0 and the hop the configuration gives it
(`FixedHop`), a neighbour or another address: `Expire` purges it with the neighbour's
learned routes, and a dearer offer of that neighbour replaces it. `RipHandler` is
`addNeighboursIfStale` with any change of the table a packet from that neighbour
may cause. `Initialize` is at `MakeChannels` and
`AskNeighbour` while packets are already handled. The lookup visits entries one by
one (`Visit`) while the table changes; Go promises a visit only to entries that
stay (`stayed`). Which neighbour `findIp` then picks (the hop, the destination itself,
or nobody if the route is gone by then) changes nothing and is not modelled; the
step `sendPacket` ends the lookup. Sends on closed channels and stores into the nil map set `crashed`.

### TcpConn

`conn[p]` is a `VTcpConn` with its TCB. Connection 0 is the client's, which calls
`VConnect` once; 1, 2, ... are those that `VAccept` opens on the server, in turn, each
with an ISS of its own. `listenPort` calls `VAccept` in a loop, so a SYN that finds no
connection in `ConnTable` opens the next one: also a SYN that was sent again, after
`VAccept` gave up or the connection was deleted. All have one key: `IsFor` is the
look-up in the tables, and `Deleted` is `closeDelete`, which deletes by key. While
`VAccept` waits for its signal nobody receives from `listenChannel`, and a further SYN
waits (`VAcceptBusy`; that its handler keeps the mutex meanwhile is in `Host`, and so
is a second SYN that arrives between the look-up and the store into `ConnTable`).
`Len(ServerIss)` bounds the openings.

`net[h]` has the segments on their way to host h. A handler runs under
`Device.Mutex` and is one step, `Receive`; it is built from one operator per
function of `socketHandlers.go`, each mapping a connection and a segment to a result
(connection, segments sent, bytes stored, early return). `VWrite` and `VClose` read
the pointers without a lock and are two steps each (`VWriteQueue`/`VWriteSend`,
`VCloseRead`/`VCloseRun`). `GiveUp` is the timeout of `VConnect` or `VAccept`,
`Retransmit` that of `rtoTimeout`, `TimeWaitTimeout` the end of TIME-WAIT. The ring is
`RecvPath`'s subject: here a payload is stored in the handler's step once the window
has room for it, and nobody reads.

### Rip and RipTree

Handlers and the purge of a timeout hold `Device.Mutex`: one step each. `net[l]` is
the UDP socket at the end of link l. `RipHandler` includes the neighbour that
is added again, the change of the table and the triggered update, or the answer
to a request; `timeout` includes the purge and the poisoned table sent to the
others; `Initialize` and `Exit` start and end a process, which forgets its table
and what its sockets hold. An interface has three states: `Listen` tests `IsUp`
before it blocks in `Read`, so one that is taken down is `draining` until one
more packet was handled. Time is not modelled; a timeout may fire when nothing
of the neighbour can arrive (`Silent`), or when the network may lose packets.

`Dist` is any function that is 0 exactly at the owners of a prefix and differs by
at most 1 along a link, `Toward` any choice of next hops that makes the network
a tree (`RipAssumption`, `TreeAssumption`); TLC evaluates both on its instances.

## 3. Runs

No run looks for deadlock: peers, users and bounds may stop, and a system in
which nothing is left to do is a legal end. Waiting that must end is stated as
liveness.

| Run | Expect | Checks | Instance |
|---|---|---|---|
| `RecvFlow` | pass | types; the window accounts for the pointers; bytes in order; the right edge never shrinks; readers and the handler get out unless the controller has stopped; refinement of `ByteStream` | ring of 5 slots, 12 bytes, segments to 3, reads to 5 (a whole ring), a FIN, overruns, reads of an empty buffer |
| `SendFlow` | pass | types; text at its own number; every byte queued once; a write returns; refinement of `ByteStream` | ring of 4 slots, two threads writing 4 and 1 bytes, segments to 2, windows that close |
| `ConnClean` | pass | types; stream intact; acknowledged means received; a FIN comes last; the queue covers what is unacknowledged; the state diagram | 3 + 1 bytes, one retransmission, one close per connection, up to 2 connections of the server, network in order |
| `ConnClose` | pass | the opening completes; the closing completes | 1 + 1 bytes, one close per connection |
| `ConnHostile` | pass | an acknowledged connection of the server is the one the client has; SND.UNA <= SND.NXT | 1 + 1 bytes, loss, reordering, two retransmissions, timeouts, 2 connections of the server, a `VClose` of the client, which may fall into a `VWrite` |
| `ConnTimers` | pass | types; one retransmitter; entries are retried; TIME-WAIT and goroutines end | 5 timer objects, 2 goroutines, queue to 2 |
| `Host` | pass | types; accepted connections are reachable; ids unique; ids stable; the mutex is released | 2 clients, 2 SYNs (of one client or of two), 2 commands, 4 timers in `VAccept` |
| `RipHostile` | pass | types; every route is timed; none too short; none points back | line of 3, loss, reordering, false timeouts, restart of c |
| `RipSettle` | pass | convergence; a prefix that is gone is purged | line of 3, no loss, c may exit |
| `RipCut` | pass | prefixes behind an interface that is down are purged | line of 3, one `down`, any `up` |
| `RipHeal` | violation | convergence | as `RipCut` |
| `Router` | pass | every neighbour is timed by one goroutine; the longest route; a sender gets out | 1 configured neighbour, 1 stranger, 4 channel objects of capacity 1, 2 senders, a static default through the neighbour and a prefix to learn |

What the violation shows: when an interface was down until both ends timed each
other out, neither has the other in `RipNeighbors`, so neither sends, and
`addNeighboursIfStale` never sees a packet (`RipHeal`).

Further disagreements with the RFC or the comments met while modelling, which the
models exhibit unless the text says otherwise, and which a property names as its
exception or a changed constant brings out:

* receive half: a read of an empty buffer, and a payload larger than the window,
  stop the controller for good, and with it the handler in `AddRead`, which keeps
  `Device.Mutex` (`Stuck`). A FIN takes a position in the ring, so a `VRead` after it
  returns one byte that was never sent, and the window wraps to 0 (`StreamInOrder`
  and `WindowAccounting` say how far this goes). A FIN handled before `add2Read`
  leaves a gap (`EagerFin`);
* connection: text is appended at `rcvNxt` wherever in the window it belongs
  (`ConnClean.cfg` with `Reorder = TRUE`: `StreamIntegrity` fails with two segments);
  after a lost segment the ACK of the next covers the gap (`Lossy`); `Cleanup` pops at
  the newest end and stops at the first entry not acknowledged, so with two
  segments in flight the ACK of the first removes nothing; a second `VClose` emits
  a second FIN (`ClientCloses = 2`); any ACK ends LAST-ACK; a reset has sequence number
  0 and is ignored, so a client that is ESTABLISHED with a connection that `VAccept`
  gave up on stays so, also when a late SYN has meanwhile opened another connection
  of the server, which then waits in SYN-RECEIVED in vain (`Timeouts`); `iss = 2^32 - 1` never gets through the handshake
  (`ClientIss = SeqMod - 1`);
* send half: a signal that falls between test and receive leaves the writer stuck
  for good (`missed`). Two `VWrite` calls that overlap send text at numbers that are
  not its own; the peer's answers then free slots that were never read, and a
  `ReadSend` may wait with everything acknowledged (`overlap`). `VWrite` looks at the
  window only to see whether it is 0, so it overruns a small one. A closed window
  never reopens by itself: a reader sends no update, an update counts only in an
  ACK that acknowledges something new, the probe is sent at `sendNxt`, and the ACK
  of a probe the peer did take is beyond `sendNxt` and is refused, while the peer
  has stored a byte that does not belong there (`overrun`; compare section 3.8.6.1
  of `src/rfc9293.txt`). The probe's byte is not counted by `VWrite`, which queues
  its last byte again (the exception of `WrittenOnce`);
* timers: a timer that fires when the queue is empty is not replaced, and the
  goroutine waits on it for good: later losses are not repaired and the goroutine
  outlives the connection (`Deaf`). A queue emptied between `Items` and `Peek`, or a
  `closeDelete` before a timer is evaluated, ends the program. `resetTimeWaitTimer`
  has no effect on the goroutine that waits;
* host: when `VAccept` gives up while a handler is about to signal it, or has left
  after a failed send, the handler keeps `Device.Mutex` for good (`Orphaned`). A
  second SYN during an opening keeps the ACK of the first from being handled, so
  the first opening fails. The TIME-WAIT goroutine of a connection that was reset
  deletes the entry of the next connection with the same key (`robbed`). Overlapping
  calls of `updataSocketIds` can change ids; `ls` of a socket that closed meanwhile
  ends the program;
* router: a send on a channel that was closed meanwhile ends the program, and so
  does a packet of a stranger before `ripChannels` is made. A neighbour that
  `Initialize` could not send to is never timed out. A static route whose hop is a
  neighbour that times out is purged for good (`Expire`, in the run). The hop of a static
  route other than the default is ignored (`findIp`, cost 0), which no module shows;
* RIP: a withdrawn route whose one datagram is lost stays as long as the neighbour
  lives (`Lossy` in `RipSettle`).

### Bounds, and why they are enough

`RecvPath`: 12 bytes through 5 slots pass the end of the ring twice at every
offset, reads of 5 ask for exactly the ring's length, segments of 3 meet a
window of any size. `TcpConn`: two segments in flight are the fewest that can be
reordered, lost separately, or stacked; sequence numbers are taken from a space of
256 with the initial numbers away from its end and from each other, so that neither
wrapping nor two connections with nearby numbers mix with the other questions;
`Len(ServerIss) = 2` is one connection and the one a late SYN opens after it;
`ClientCloses` and `ServerCloses` bound the calls of `VClose` on one connection. In
`ConnHostile` the server does not close and two retransmissions are the fewest that
repeat both a SYN and what answers it. `SendPath`: a ring of 3 bytes and 5 to write pass the
end of the ring, a segment of 2 meets every capacity, and one thread writes more
than the ring holds while the other's call falls anywhere. `ConnTimers`: five
timer objects always leave a free one (`NewTimer` has no value otherwise, and TLC
would stop), and a second retransmitting goroutine is the fewest that could be
wrong. `Host`: two
SYNs suffice for a duplicate, for a second client, and for a second connection
with the key of the first; two commands for `ls` or `cl` on top of another. `Router`:
a new channel is made when at most one other neighbour and two senders hold one,
so four suffice; capacity 1 fills with two senders. `Rip`: three routers are the fewest with a route
learned at second hand; the table of three prefixes fills a packet exactly
(`MaxEntries = 3`); `INFINITY` is one or two above the longest distance. `MaxBacklog`
leaves a periodic update out when one is already waiting, and keeps a timeout by
loss to moments with little under way. The safety properties listed in section 4
do not rest on these bounds: they are proved for all of them.

### Fairness

* `SendPath`: weak fairness of the controller, the probe, the handlers and the
  network; strong fairness of a thread's two sends to the controller (its `select`
  chooses at random). None for the users: nobody has to write or to read.
* `ConnTimers`: weak fairness of each goroutine, and armed timers fire.
* `Host`: weak fairness of the accept goroutine only, which nothing but its channels
  blocks. That alone releases the mutex.
* `Router`: strong fairness of `Send` (a Go channel serves blocked senders in turn),
  weak fairness of panics and of the `timeout` goroutines once they can run. A timer
  need not fire.
* `RecvPath`: weak fairness of the controller (a goroutine that can run does) and
  strong fairness of its two receives (Go's `select` chooses at random among
  ready channels). None for peer or user.
* `TcpConn`: weak fairness of handlers, of the second half of `VWrite` and `VClose`,
  and of the TIME-WAIT timer. None for users or retransmission; `ConnClose` has a
  network that loses nothing.
* `Rip`: weak fairness of the periodic update, of handlers, of timeouts that are
  due, and of the first start. None for commands.

## 4. Proofs

TLAPS proves these for every value of the constants that satisfies the
assumptions in the modules.

`RecvPathProofs` (any ring, segment and read size):

* `RecvTypes`: `TypeOK`, with any peer and user. Inductive: `TypeInv`, which adds
  `rcvLbr <= rcvNxt`; without it the window could be subtracted below 0. The key
  lemma, `SliceFits`, says that the two-piece slice never has more bytes than asked
  for.
* `WindowAccounts`, `StreamComesInOrder`, `EdgeNeverShrinks` and the refinement
  `RecvIsAPipe`, for a FIN handled in its turn (`FinInTurn`: the peer does not
  close, or the FIN's handler does not overtake `add2Read`; the code does not
  guarantee the second). Inductive: `StreamInv`, the conjunction of
  `TypeInv`, `PendingInOrder` (what is on its way continues what is stored),
  `WindowExact` (the window without wrapping), `RingKeeps` (no unread byte was
  overwritten) and `HandedInOrder` (what left the ring is a prefix of the stream).
  `RingKeeps` rests on `SlotsDiffer`: pointers less than a ring apart have different
  slots. For the refinement, `OutIsFirst` turns what was handed out into the first
  n bytes of the stream; a step then either accepts, hands out or stutters.

`RipProofs` (any topology, any loss, reordering, restarts and interface changes):
`TypesHold`, `LocalRoutesStay`, `RoutesStayTimed`, `CostsNeverTooGood`. Inductive:
`Inv`, the four properties with `HonestNet`: no packet announces a cost below the
sender's distance. Without the last, a packet under way could carry anything.

`RipTreeProofs` (any topology without cycles): `NoRoutePointsBack`. Inductive:
`TreeInv`, with `OutwardNet`: a router announces a prefix at a finite cost only to
neighbours that are not on its way there (poisoned reverse).

`LocalRoutesStay` states a property no run spends time on: it is part of `Inv`.

`TcpConnProofs` (any sequence space, initial numbers, window and segment size, number
of connections of the server, length of the streams and number of calls; any loss,
reordering, retransmission, timeout and overlap of `VClose` with `VWrite`). No theorem
has a hypothesis beyond `ConnAssumption` and `SeqSpaceAssumption`:

* `Types`: `TypeOK`. The receive window never falls below 0, as text for which it has
  no room waits in `tcbReadController`, and a send window is always one that was
  advertised.
* `NumbersWereSent`: `NumbersAreReal`, the first half of `HandshakeAgreement`. Every
  connection of the server was opened by the client's own SYN, also one that a late
  SYN opens after the first was given up, and the client has synchronised only with
  a connection that the server opened. The second half, that a connection that was
  acknowledged is the one the client has, is only model-checked: it rests on initial
  numbers that lie far apart, as random ones mostly do.
* `NothingUnsentIsAcked`: `UnaWithinSent`. `PointersNeverRetreat`: no step moves SND.UNA,
  SND.NXT or RCV.NXT of a connection back (`Forward`).
* `StatusFollowsDiagram`: `StatusFollowsRfc`, with its exceptions: `Aborts` (timeouts and
  resets), `ClosesAgain` (`VClose` after a FIN was sent), and connections that are not
  in `ConnTable`.
* Inductive: `Inv`, of three parts. `ConnInv`: each connection has its types, its own
  ISS, `sendUna <= sendNxt`, a receive window that is one, and is alive as long as it is
  in the table (`Live`); a SYN in its retransmission queue has its ISS (`SynKept`), since
  what is sent again is what was kept; once it is synchronised its IRS is the number
  of a connection that the other host has opened (`Agrees`). `NetInv`: a segment on
  its way has a window that was one, and a SYN the number of an opened connection.
  `CallInv`: the types of what `VWrite` and `VClose` have read, and that a call under way
  is on an opened connection. Without `SynKept` a retransmission, and without `NetInv`
  a SYN under way, could carry any number; without `Live` a TIME-WAIT timer could end
  a connection in any status, which the diagram does not have.
* The numeric core is `AckStays`: an acknowledgement that passes the code's two
  unsigned comparisons of wrapped numbers advances `sendUna` by at most
  `sendNxt - sendUna`, also when the numbers wrap between the two
  (`WrapAdvance`: a wrapped number grows by no more than its pointer does).
  `CleanupFacts` gives the CHOOSE of `Cleanup` its value.
* The handlers are proved function by function: `Handled` says what every handler
  of a synchronised connection keeps, `Fits` that its window shrinks by the text it
  takes, `AckEdge`, `FinEdge` and `StatusStep` which edges of the diagram it may take,
  and `Kept` what a whole step keeps. One lemma per action concludes.

`SendPathProofs` (any ring, `Mss`, number of callers and length of their writes):

* `TypeCorrect`: `TypeOK`. Inductive: `TypeInv`, which adds `sendLbr <= sendNxt`, that
  no call queues or takes more than is left of what it writes (`CallBounds`), and that
  the read the controller serves is that of the one call that waits for it
  (`OneServed`).
* `NumbersAreRight`: `SentAtOwnNumber`, and the refinement `SendIsAPipe`. Both speak
  of calls that do not overlap. Inductive: `TypeInv` and, as long as `~overlap`,
  `Alone`: at most one call is between `AddSend` and the end of `send` (`OneBetween`),
  the controller works for that call (`Serves`), what the ring holds, from `sendLbr`
  to `sendNxt`, is its text only (`OnlyItsText`, `RingKeeps`), what has left the ring is
  a prefix of the stream (`LeftInOrder`), and the text a call is about to send ends
  at `sendNxt` (`TakenInOrder`), which is why `send`, which reads `sendNxt` without a
  lock, numbers it right (`NumberedInOrder`).
* `EachByteWrittenOnce`: `WrittenOnce`, for calls that may overlap. Inductive: `TypeInv`
  and, as long as no window was closed, `Accounted`: `sendNxt`, with what the controller
  is about to add, is 1 plus the sum of what all calls have handed in, and `sendLbr`
  plus the sum of what they have not read back. The sums are over a finite set of
  callers (`SendAssumption`); `SumFunction` folds over them in an order that `CHOOSE` picks,
  and `SumChange` shows, by induction on the number of callers, that a sum changes by
  as much as one caller's part does, whatever the order.

`ConnTimersProofs` (any timers, goroutines and queue): `TypeCorrect` and
`RetransmitsOnce`. Inductive: `PointerTells`: `rtoTimer` is set exactly if a goroutine
runs. `startRtoTimer` decides by the pointer, the property counts goroutines.

`HostProofs` (any number of clients, SYNs and commands):

* `ReturnedIsReachable`: `EstablishedReachable`. Inductive: `TablesOK`, which says whose
  connection an entry of `ConnTable` may be (`Owners`), that a SYN on its way to
  `VAccept` is never for the key of a connection already returned (`Pending`), the
  property itself while `VAccept` still waits for the signal (`Reachable`), and that
  connection objects do not run out (`Counted`).
* `TypeCorrect`, `IdsStayUnique` and the action property `IdsAreStable`. Inductive:
  `IdsOK`, of the maps and of what the two callers of `updataSocketIds` hold of them
  between their steps. That a numbering leaves ids unique, keeps the old ones and
  never runs out of ids is an induction over its rounds (`Numbering`), with a
  pigeonhole argument for the free id (`FreeIdExists`).

`RouterProofs` (any neighbours, channels, senders, prefixes and static hops):
`NeighboursAreTimed` and `LookupFindsLongest`. Inductive: `Inv`, which adds types, that a
channel has a watcher exactly if the watcher has an address, that
neighbours that are not yet asked, or could not be, stay neighbours, and what the
lookup knows of the entries it has visited (`Progress`). Nothing is assumed of where static routes lead.

Where an argument needs induction over the natural numbers (a round of
`updataSocketIds`, the last entry that `Cleanup` leaves, a sum over callers), it is by the least
counterexample: `LeastNat`, from the well-foundedness of < on `Nat`, and
`SetInduction` on top of it, both about a set and so within reach of the provers.

Only model-checked:

* all liveness, as the prover has no fairness: `CallsReturn`, `WriteReturns`,
  `HandshakeCompletes`, `CloseCompletes`, `EntriesAreRetried`, `GoroutinesEnd`,
  `MutexReleased`, `TouchReturns`, `Converges`, `GoneRoutesPurged`, `CutRoutesPurged`;
* the safety properties of `TcpConn` that need an orderly network and orderly calls:
  `StreamIntegrity`, `AckedIsReceived`, `FinMeansAll` and `QueueCoversUnacked`, which `ConnClean`
  checks without reordering, loss, timeouts and overlapping calls, and which fail with
  one or the other (section 3). They are no promises of the program, so there is no
  theorem that would have them as its conclusion without assuming all of that;
* the second half of `HandshakeAgreement`.

## 5. Not modelled, and the plan

Modelled, in the order the code's own risk suggested: `RecvPath`, `TcpConn`, `Rip`,
`RipTree`, then `SendPath`, `ConnTimers`, `Host`, `Router`. Left, in order:

1. Proofs. The second half of `HandshakeAgreement`, for initial numbers that differ by
   more than what a connection sends.
2. `Rip` on a ring, where counting to infinity happens and must end.
3. Packets forwarded over several routers with a TTL that is decremented and never
   tested.

Simplified: in `ConnTimers`, `VClose` of a connection that was deleted since its
lookup (it sets the status back and sends a FIN; `TcpConn` has it) is left out. In
`TcpConn`, the client opens one connection; a send that fails is a lost packet, so
`VConnect` and `VAccept` do not return with its error and leave a connection in the
table that nobody waits for (`VAccept`'s return is in `Host`); `VWrite` pushes to the
retransmission queue in one step, while in the code the append of `Push` holds no lock
and may collide with `Cleanup` in a handler. In `SendPath` the peer's user never reads an
empty buffer, which would stop its read controller (`RecvPath`), and `VWrite` does not fail: `SendTcp` returns a negative count when a packet
cannot be sent or goes to an own address, which `VWrite` would use as an index.

Left out for good: byte layouts and checksums, the configuration parser, the
programs' argument handling, printing, and the scripts around the program; they
are sequential and best tested.
