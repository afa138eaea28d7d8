# RAODV and companions: specifications, model checking and proofs

The repository holds three student projects: RAODV, a variant of the ns-3 AODV
routing protocol (`ns3 Offline 1/Necessary Codes/raodv`); a tweaked TCP Vegas
for ns-3 (`ns3 Offline 2`); and a small HTTP file server with an upload client
in Java (`Socket Programming`). This directory verifies all three. The first is
by far the largest and the one with distributed state; most of what follows is
about it.

Source names of the form `aodv-*` below are relative to `raodv/model/`.

## Inventory

| Part | State | Operations | What is hard, and what makes it correct |
|---|---|---|---|
| Routing table (`aodv-rtable`) | map from destination to entry: flag, sequence number, hops, next hop, lifetime, precursors, request count | `LookupRoute`, `AddRoute`, `Update`, `DeleteRoute`, `Purge`, `InvalidateRoutesWithDst` | Callers work on copies that share the `Ipv4Route`; `AddRoute` never replaces and `Update` never creates; every lookup purges. A VALID entry must be usable. |
| Routing protocol (`aodv-routing-protocol`) | the table, `m_seqNo`, `m_requestId`, the two rate counters, a retry timer per destination, scheduled calls | `RouteOutput`, `DeferredRouteOutput`, `SendRequest`, `SendRevRequest`, `RecvRequest`, `RecvRevRequest`, `RecvReply`, `ProcessHello`, `RecvReplyAck`, `RecvError`, the timers, `RouteInput`, `Forwarding` | Messages of several nodes interleave, are lost and overtake one another. Sequence numbers must come from their owner, floods must end, no loops, searches must be bounded and must end, route errors must be true. |
| Packet buffer (`aodv-rqueue`) | vector of packets with an expiry time | `Enqueue`, `Dequeue`, `DropPacketWithDst`, `GetSize`, setters | Every operation purges on the side; the limit is tested with `==`. No packet may vanish, be doubled or be sent late. |
| Neighbour list (`aodv-neighbor`) | address, MAC and expiry of each neighbour, one timer | `Update`, `Purge`, `IsNeighbor`, `GetExpireTime`, `ProcessTxError`, `Clear` | One timer, pushed back by every purge, must still find everybody who falls silent. |
| Request id cache (`aodv-id-cache`) | (originator, id) pairs with an expiry time | `IsDuplicate`, `Purge` | Two kinds of flood share numbers and cache. A flood must be recognised for as long as copies are about, and never taken for another. |
| Duplicate detection (`aodv-dpd`) | an id cache for broadcast data | `IsDuplicate` | As above. |
| Headers (`aodv-packet`) | none | serialise, deserialise | Field widths. |
| Interfaces (`aodv-routing-protocol`, 718-965) | two socket maps, the broadcast entries of the table, the hello timer | `NotifyInterfaceUp/Down`, `NotifyAdd/RemoveAddress` | The two socket maps must stay in step though one path erases from the wrong one; nothing may outlive its socket. |
| TCP Vegas (`tcp-vegas-tweaked`) | window and threshold, base and minimum RTT, the round's end, alpha and beta, two throughputs | `PktsAcked`, `IncreaseWindow`, `CongestionStateSet`, `GetSsThresh` | Unsigned subtraction and truncation, thresholds that move and are never reset, uninitialised throughputs, slow start overwritten. |
| HTTP server (`ServerPart`) | uploaded files, a log, a thread per connection | the accept loop, `Worker.run` | Workers share files and log without a lock, and die of exceptions that must still close the connection. |
| Upload client (`ClientPart`) | a thread and a socket per upload, which nobody closes | `Client.main`, `WorkerClient.run` | The server learns of the end of an upload only when the socket goes. A killed client. |

How they interact: an application's packet enters `RouteOutput`. With no VALID
route it takes a detour through the loopback device to `DeferredRouteOutput`,
which buffers it and calls `SendRequest`. The RREQ floods; the destination
answers with a flood of its own (`SendRevRequest`, the *R* of RAODV), an
intermediate node that knows a route with a unicast RREP. When the answer
reaches the originator the buffer is flushed (`SendPacketFromQueue`). The
neighbour list calls back `SendRerrWhenBreaksLinkToNextHop` for each neighbour
it drops, and RERR messages carry the loss upstream along precursors. IP tells
the protocol of interfaces and addresses that come and go, and the last one to
go clears the neighbour list.

The TCP socket calls Vegas with every ACK and every change of its congestion
state. The upload client asks the server's permission over a socket, reads one
line and then sends the file.

Every hazard found while reading is listed at its line in `PROJECT.json`, with
the properties aimed at it, or with the reason why there is none yet.

## Modules

| Module | What it is |
|---|---|
| `RoutingTable` | one node's table as a function from destinations to entries, and each operation of class `RoutingTable` |
| `RouteUpdates` | what each message handler does to its own table: pure functions of a purged table, extracted from the handlers |
| `Raodv` | the network: every node's state, the messages in flight, the radio links; one action per event; the properties |
| `MCRaodv` | three nodes, two topologies, four traffic patterns |
| `PacketBuffer` | what the packet buffer promises, without the queue that keeps the promise: an abstract specification |
| `RequestQueue`, `MCRequestQueue` | the packet buffer and `SendPacketFromQueue`, on a clock; refines `PacketBuffer` |
| `NeighborWatch` | what the neighbour list promises, without the timer that keeps the promise: an abstract specification |
| `Neighbors` | the neighbour list and its timer, on a clock; refines `NeighborWatch` |
| `Interfaces`, `MCNeighbors` | the sockets of a node's interfaces, composed with `Neighbors`; the run checks both |
| `Flood`, `MCFlood` | requests, reverse requests and broadcast data spreading over nodes whose id caches forget, on a clock |
| `Vegas`, `MCVegas` | the congestion window of one connection |
| `FileServer`, `MCFileServer` | the server's threads, the client's threads and browsers |
| `RouteProofs` | lemmas: what every table operation keeps: the type of a table, the freshness of its sequence numbers, sound entries, next hops on a chosen way, counts of requests |
| `RaodvProofs` | type correctness and ownership of sequence numbers, as theorems of `Raodv` |
| `RaodvSafety` | floods, rate limit, route errors, usable routes, the search for buffered packets, loops and bounded retries, as theorems of `Raodv` |
| `RequestQueueProofs` | nothing is lost, late or overtaken in the buffer; it implements `PacketBuffer` |
| `InterfacesProofs` | the timer of the neighbour list covers everybody listed, and the list implements `NeighborWatch`; the node drives it within its specification; sockets, entries and addresses stay in step |
| `FloodProofs` | a flood is handled once and never taken for another, in every network |
| `VegasProofs` | window, samples and band stay sound; how a round may move the window |
| `FileServerProofs` | uploads are whole, chunks in place, the log true, for any number of threads |

`Raodv` extends `RouteUpdates`, which extends `RoutingTable`. The packet buffer
and the neighbour list appear in `Raodv` in reduced form (a count per
destination, a set), and in full in their own modules: their clocks and limits
would multiply a state space that is already large, and nothing the routing
protocol does depends on more than "a packet is buffered" and "this neighbour
is dropped now". For the same reason `Raodv` never forgets a request id and has
one interface per node; `Flood` and `Interfaces` are about what it leaves out.

### State and actions of `Raodv`

`rtab`, `seqNo`, `requestId`, `rreqCount`, `rerrCount`, `idCache` and `nb` are
the members of the same or a similar name of each node's `RoutingProtocol`.
`reqTimer[n]` is the set of destinations with a running `m_addressReqTimer`;
`deferred` and `deferredRev` count the calls of `SendRequest` and
`SendRevRequest` that the rate limit has put off with `Simulator::Schedule`;
`loopback` counts packets between `RouteOutput` and `DeferredRouteOutput`;
`queue` counts buffered packets.

An action is one event of the simulator. `RecvAodv` first refreshes the route
to the sender (`Received`), so each `Recv...` action starts from that table.
The whole handler is one action, down to the messages it sends. Lines are in
the "map" of `PROJECT.json`.

### What is abstracted

- **Time in tables.** An entry's lifetime is one bit, `live`. `Lapse` clears
  it at any moment; what the code refreshes sets it. `Purged` is `Purge()`,
  which every lookup runs. `UpdateRouteLifeTime` disappears: it only touches
  VALID entries, which are live after a purge.
- **Messages.** In flight until delivered, in any order, or never. Jitter, loss
  and reordering are all of these. Two identical messages in flight coincide. A
  unicast whose next hop is out of range is lost.
- **Packets.** Distinct, so `Enqueue` never refuses one in `Raodv` (it does in
  `RequestQueue`). Their IP TTL is left out.
- **Headers.** Only fields some receiver reads: the destination sequence number
  of a REV_RREQ and the sequence numbers in a RERR are never read.
- **Interfaces.** One per node here, several in `Interfaces`. `source` and `iface` keep whether an entry's
  source address and interface are real or the placeholder of a dummy entry.
- **Sequence numbers and counters** are natural numbers: a wrap of the 32-bit
  sequence number would take 2^31 floods by one node.
- **Request ids** are never forgotten. That the lifetime is long enough for this
  is what `Flood` checks.
- **Blacklist and RREP-ACK timer.** Left out: the code sets the timer up on a
  copy of an entry and never schedules it, so no neighbour is ever listed.
- **Hellos** may be sent at any time, up to a bound; the deferral after other
  broadcasts only makes them rarer. A phantom neighbour with the null address,
  which `Forwarding` may record, is not kept: no entry reaches it.
- `SendReply` has no caller any more and is not modelled.

### `RequestQueue` and `Neighbors`: clocks

`now` advances one tick at a time. In `RequestQueue` an operation is described
by positions of `m_queue` as it finds it: the ones whose time is up, the ones it
takes, the ones that stay in their order (`Picked`). The same packet may come
in twice: it is refused while it is buffered, and accepted after it has left.
`Held` and `Due`, the packets and their times, are what `PacketBuffer` sees of
the queue. It leaves open when a packet whose time is up is reported, in which
order packets are kept, and how the purges on the side come about; what it
fixes is that a packet leaves once, and for which reasons. The queue has no timer, so its operations
happen at any time; the limit and timeout are changed while it is in use, as the
attribute setters allow. `SendPacketFromQueue` takes packets until none is left
or one is bound to another interface, as one action, as in the code. In
`Neighbors` a tick may not pass an expired timer, because the simulator runs
events on time; whatever else happens at that instant may come before it or
after. `closed` and `reported` record what the last step did, for the
refinement of `NeighborWatch`.

### `Interfaces`

`addrs` and `up` are IP's, the rest are the members of `RoutingProtocol`, per
address: `sockets` counts what is in `m_socketAddresses`; `bcast` and `stale`
count what is in `m_socketSubnetBroadcastAddresses`, sockets that are open and
sockets that `NotifyRemoveAddress` closed but erased from the other map. `FindSubnetBroadcastSocketWithInterfaceAddress` returns the first that
matches, and map order is the order of pointers, so either kind may be found.
`subnets` are the broadcast entries of the table, `learned` the addresses over
which it has any other. The module starts after `Start` and `DoInitialize`.

`NotifyInterfaceUp` does not look whether the interface is up already, and IP
calls it again for one that is: `Ipv4L3Protocol::SetUp` tells the routing
protocol each time, as a second `Ipv4AddressHelper::Assign` on an interface does.
The second pair of sockets goes under the keys of their own that the maps have,
and `NotifyInterfaceDown` closes one pair. Whether ns-3 binds two sockets to one
address is its affair; here both are counted as open. The history variable `repeated` says
whether it ever happened: the node may then listen on addresses it should not, and
an address that comes back has a socket already, so that `NotifyAddAddress`
opens none. `ListensOnFirst` and `BroadcastHeard` say what is left then.
`NotifyInterfaceDown` needs both sockets of the first address, or its assertions
stop the program. All addresses are in different subnets, so a broadcast socket
that leaks after its address has gone hears nothing. The hello timer is cancelled with the last interface and
never started again: `hello` shows it, and nothing in the repository promises
otherwise.

`NodeNext` is the composition: the actions of `Neighbors` happen inside those of
the node (`Receive`, `NoInterfacesLeft`) or beside them (`WatchOn`).

### `Flood`

A copy of a flood is on its way for any time up to `MaxDelay`, or is lost; what
a node takes for new is recorded in `handled`. Routes are left out: a node that
answers a request from its table instead of relaying it, or that drops it
because its answer would loop, behaves as one whose copies are lost. The
destination's answer (`SendRevRequest`) is part of the action that receives the
request. The assumption `LongestPath * MaxDelay <= Lifetime` is what
`PathDiscoveryTime = 4 * NetDiameter * NodeTraversalTime` gives when a hop takes
no longer than four times `NodeTraversalTime` and the flood is no longer than
`NetDiameter`. Broadcast data goes out with the TTL of IP, 64 by default: in a
network wider than `NetDiameter` it is outside the assumption.

### `Vegas`

Times, windows and thresholds are numbers, sequence numbers are kept relative to
the last one acknowledged. The window is in bytes of small segments, so that a
threshold of three quarters of a window falls between them; unsigned arithmetic
is modulo `Word`. Throughputs are pairs compared by cross products, where the
code divides floating point numbers. `TargetCwnd` allows the product of a
rounded quotient to come out one lower when it is whole. The base class
`TcpNewReno` and the socket are external: they may add up to what was
acknowledged in slow start and up to a segment, in bytes, in congestion
avoidance, and put the window at the threshold or at one segment around a loss. A
first duplicate ACK turns Vegas off and leaves both as they are. ACKs of less
than a segment, which count a sample and add nothing in slow start, are left
out: `SlowStartGrows` is about ACKs of whole segments. The copy constructor
leaves both throughputs uninitialised: `Indeterminate`.

### `FileServer`

An action is what a thread does between two points where another could matter:
a read or write of a socket, of the shared file or of the log. Files are
sequences of chunks, each tagged with its upload and position; a write past the
end leaves a `Hole`, as the workers' file positions are their own. The reader of
the request line may take any prefix of what has arrived (`TakeLine`). Exceptions
that end a thread are steps to `closed`, as `finally` or the catch around `run`
closes the connection. Sockets of the client are closed by the garbage
collector, some time or never (`Collect`), by the end of the process, or because
it is killed. A killed client whose socket still held an unread answer resets
the connection (`Disconnected`).

A write returns when what is left of the answer fits into the buffers and what
the browser has read (`Fits`), or when the browser has left. Until then it
blocks, without a timeout. A browser may read or not, at any time. If it has
left, the write of a file's body throws and ends the thread, but a listing or an
error goes through a `PrintWriter`, which hides the failure (`"cut"`): the
response is logged all the same. Logging may fail, too, and is then not repeated
(`Logs`, `lost`). An entry of the log is one step, though a listing longer than
the writer's buffer may reach the file in pieces. GETs touch only the log and files under the
root that nobody changes, uploads only uploaded files.

## Runs

| Run | Instance | Shows |
|---|---|---|
| `discovery` | chain s-i-d, s and i send to d, 2 packets, 1 lapse | `TypeOK`, `SeqNoComesFromOwner`, `NoLoop`, `FloodsOnce` hold |
| `faults` | chain, s sends to d, 1 packet, 2 lapses, a broken link, a hello round | `SeqNoComesFromOwner`, `ValidRouteIsUsable`, `ReportsWhatItLost` hold |
| `search` | chain, s sends to d, rate limit 1 that restarts, fairness | `BufferedIsSought`, `RetriesAreBounded`, `RequestsAreCounted` hold, and `BufferedLeaves` |
| `request_queue` | 4 packets, one of them twice, 2 destinations, limits and timeouts that change | `TypeOK`, `NothingLost`, `NeverLate`, `KeepsLimit`, `NoOvertaking` hold, and `BufferSpec`: the queue implements `PacketBuffer` |
| `neighbors` | 1 neighbour, an interface with two addresses and one with one, interfaces reported up also while they are, delay 2, lifetimes 1 and 2, 5 ticks | `NodeTypeOK`, `NoticedInTime`, `TimerRuns`, `ListensOnFirst`, `BroadcastHeard`, `RestsOnSockets` hold, and `WatchSpec`: the node implements `NeighborWatch` |
| `flood` | a circle of 3 nodes with one two-way link, 2 floods, ids remembered exactly as long as the longest path takes | `TypeOK`, `HandledOnce`, `NoFalseDuplicates` hold |
| `vegas` | windows up to 6 segments, 2 round trip times, 3 segments in flight | `TypeOK`, `NeverCollapses`, `SamplesAreSound`, `BandIsSane`, `LinearSteps`, `SlowStartGrows` hold |
| `file_server` | 2 uploads of any of 4 names, or 2 browsers with any of 7 requests, fairness | `TypeOK`, `UploadIsWhole`, `ChunksInPlace`, `LogIsTrue` hold, and `GetsEnd`, `WorkersEnd`, `ExitIsReached` |
| `two_way` | chain, both ends send | `BufferedIsSought` fails |
| `flush` | chain | `LeavesOverRoute` fails |
| `retries` | rate limit in play | `RetriesAreBounded` fails |
| `loop` | triangle, s sends to i and d | `NoLoop` fails |

The last four are findings: each states what a comment or the documentation
says, and the counterexample is what the code does.

1. **`two_way`.** The destination's reverse request leaves its own route to the
   originator IN_SEARCH, with no retry timer. A packet it then wants to send
   there is buffered, and no request is made as one seems to be under way.
2. **`flush`.** The reverse request reaches the originator, whose entry is
   IN_SEARCH. `AddRoute` does not replace it, and the buffer is emptied over an
   entry that is not VALID. The next hop is right only because `SetNextHop` on
   the copy writes through to the shared route; the source address is the
   placeholder 102.102.102.102. The same two lines may meet an entry that is
   VALID already: in a triangle, a second copy of the reverse request gives a
   route of one hop to the destination another neighbour as its next hop, and
   leaves the hop count as it is. The comments at 1225-1229 and 1419-1430 think
   of both as set together. `ValidRouteIsUsable` therefore says nothing of hop
   counts.
3. **`retries`.** Requests put off by the rate limit are not connected with the
   retry timer. They pile up, the count passes the limit it is compared with by
   `==`, and the search does not give up.
4. **`loop`.** A RREQ that comes straight from its originator marks the
   originator's sequence number as not valid. A late gratuitous RREP with an
   older number then replaces the direct route by one through another node,
   which routes back.

What the other runs show of behaviour that looks wrong at first sight:

- The wrong map in `NotifyRemoveAddress` leaves closed sockets behind, and a
  later change may close one of those in place of the open one. The open one is
  then left over; but wherever the node should listen, it does
  (`BroadcastHeard`), unless an interface was reported up twice.
- An interface that is reported up twice leaves a pair of sockets behind when it
  goes down. No assertion fails for it: as long as an interface is up its
  first address has its sockets (`ListensOnFirst`), and routes and neighbours
  still do not outlive the last socket (`RestsOnSockets`).
- The log is not a record of what browsers got: a listing or an error is logged
  though the browser has left. A file's response is logged only when all of it
  was written (`LogIsTrue`).
- In Vegas nothing compares the window with one segment before subtracting one.
  It is the threshold of at least two segments that keeps a small window out of
  linear mode (`NeverCollapses`). What slow start adds on the last ACK of a
  round is overwritten, and slow start grows all the same, as the ACKs before it
  count (`SlowStartGrows`).
- The reader of the request line could swallow the start of the file; that the
  client waits for the answer is all that prevents it (`UploadIsWhole`).
- The confirmation of an upload is never flushed. The client does not wait for
  it, so its thread ends (`ExitIsReached`), and with the process the workers do
  (`WorkersEnd`); until then a worker may wait, for as long as the garbage
  collector does. Two uploads of one name interleave in the file, but no chunk
  lands at another chunk's place (`ChunksInPlace`).

**Bounds of `Raodv`.** Three nodes are the fewest in which an intermediate node
answers, a flood is passed on, and a third node's loss matters; a triangle is
the smallest network with a loop that is not a mere bounce. `MaxSent` = 2 allows
two searches to overlap, `MaxLapses` an expiry in the middle of a search or a
neighbour that falls silent, `MaxBreaks` a broken link. `NoLoop` is not checked
in `faults`: one search alone cannot form a loop of the kind its mutant makes.
Ttl values are small so that a retry reaches the network diameter within two
requests; in `discovery` they let a flood come back to its originator with hops
to spare.

**Bounds of the others.** `neighbors` has one neighbour, as what several share,
the timer, is proved for any number (below); a second address on one interface
is what replaces the first, the other interface decides whether a socket is the
last, and two broadcast sockets per address of the first interface let a closed
one stand beside an open one, or a second pair beside the first. The two addresses may be exchanged: symmetry. `flood` has a lifetime
to the tick, so that a copy around the circle is back when its origin is about
to forget it. In `vegas` six segments let the window cross the threshold in both
directions, `MaxSamples` saturates `m_cntRtt` above the two it is compared with,
and an ACK of two segments may end a round and cross into the next. In
`file_server` uploads and GETs share no state, so a run has one kind or the
other. All bounds are constants of the specifications, used in guards and named
there.

**Deadlock** is checked in `request_queue`, `neighbors` and `vegas`. It is not
in the runs of `Raodv` and `Flood`, whose environments stop, and in
`file_server`, which is done when every connection is; there `GetsEnd`,
`WorkersEnd` and `ExitIsReached` say that nobody is stuck before.

**Fairness.** `search`: the simulator runs every event it has scheduled: weak
fairness for the retry timer, the loopback detour and the rate limit timer. A
request that the limit put off is rescheduled for 100 microseconds after the
limit restarts, so it is not overtaken for ever: strong fairness. Nothing is
assumed of messages, which may all be lost. `file_server`: a thread that can go
on does in the end, and so does the end of a process whose threads are over.
Nothing is assumed of the user, of the garbage collector, of a kill, or of a
browser; a write to one that stays and does not read is not enabled, and
`GetsEnd` is about the others. The other runs check safety only.

Each property of a passing run has a mutant in `PROJECT.json`: a definition
changed the way a plausible bug would, under which the same run finds the
property violated. The mutated operators stand next to the ones they replace.

## Proofs

Every theorem holds for all values of the constants that the module's `ASSUME`
allows (`RaodvAssumption`, `NodeAssumption`, `FloodAssumption` and so on, which
TLC evaluates in every run): any set of nodes, topology, traffic, limits, delays,
numbers of uploads or window sizes, and without the bounds on counters and
clocks mattering.

### The network: `RaodvProofs`, `RaodvSafety`

- `TypeCorrect`: `Spec => []TypeOK`.
- `SeqNoOwned`: `Spec => []SeqNoComesFromOwner`. No table and no message in
  flight ever holds as valid a sequence number for a node that is ahead of that
  node's own `m_seqNo`.

The invariant is `TypeOK /\ SeqNoComesFromOwner`. Neither part is inductive
alone: a handler copies numbers from messages to tables and back, so tables and
messages must be covered at once, and comparisons need types. `RouteProofs`
shows for each table operation that it keeps a table typed and fresh given a
fresh input; `RaodvProofs` has one lemma per action, which cites those and shows
the same of the messages it sends; own numbers only grow, so what the other
nodes hold stays fresh.

- `FloodedOnce`: `Spec => FloodsOnce`.
- `FloodsCounted`: `Spec => RequestsAreCounted`.
- `ErrorsAreTrue`: `Spec => ReportsWhatItLost`.

These three are about what a step may send, and share the invariant `FloodInv`:
the originator of every flood in flight knows it (`FloodsKnown`), nobody knows a
request that was not made yet (`NamesMade`), so that the next number is new to
all; the counter is within the limit (`WithinLimit`), which the handlers only
test before they add one; a message that has made no hop comes from its
originator (`Straight`). `TrafficInv` says that a node buffers and searches only
for destinations of its traffic and answers only requests of somebody's traffic;
it excludes a node that looks for itself.

- `ValidRoutesUsable`: `NetDiameter > 1 => (Spec => []ValidRouteIsUsable)`.
- `BufferedSought`:
  `NetDiameter > 1 /\ OneWayTraffic => (Spec => []BufferedIsSought)`.

The invariant is `UseInv`. Every table is sound (`Sound`): a VALID or INVALID
entry has a next hop, a source address and an interface, and so has an entry
IN_SEARCH that `UpdateRouteToNeighbor` would leave as it is because it has one
hop and a valid sequence number. And a node of one-way traffic has a retry timer
or a put-off request for whatever it buffers or marks IN_SEARCH (`Sought`).
`RouteProofs` shows of each table operation that it keeps tables sound and marks
nothing else IN_SEARCH.

Both hypotheses are needed. With a `NetDiameter` of one hop TLC violates
`ValidRouteIsUsable` in a triangle: the second request of a search marks its
entry with one hop, a request of the destination fills in its sequence number,
`UpdateRouteToNeighbor` leaves the entry alone, and a hello makes it VALID with
the placeholder as its source address. The default is 35. With traffic in both
directions `BufferedIsSought` is false, which is the run `two_way`; the runs that
check it have one-way traffic as well.

- `NoLoopInForests`: `Forest(Link0) => (Spec => []NoLoop)`.

`NoLoop` is false in a triangle (run `loop`), so the theorem is about networks
whose links make no circle. `Forest` says so without paths: for each destination
every other node can choose one neighbour so that every link is chosen at one of
its ends, and no group of nodes without the destination chooses only within
itself. TLC evaluates that this holds of the chain and not of the triangle
(`ChainIsForest`). Nothing is assumed of the traffic or the configuration, and
links may break, messages get lost or late, and routes lapse and be found again.

In a forest there is only one way to a destination, and the invariant `ForestInv`
says that every next hop is on it (`AtHome`); `NoLoop` is then the last clause of
`Forest`. That is not inductive without the messages, whose senders become next
hops (`Outward`). A copy of a flood that a node acts on has come from the side
of its originator: one that is sent back towards the originator finds its name
noted there, because its sender had it from there (`FloodOutward`). A reply moves
away from its destination, and is not on its way back to where it came from
(`ReplyOutward`). So the id cache and the way of the replies are what keeps loops
out here; which of two sequence numbers is newer plays no part in the proof. `RouteProofs` shows
of each table operation that it keeps next hops on a way if the ones it is given
are (`KeepsWay`).

- `RetriesBounded`:
  `OneWayTraffic => (Spec /\ []NothingPutOff => []RetriesAreBounded)`.

`NothingPutOff` says of a state that the rate limit holds no request back. The
invariant `CountInv` follows the count of requests through every table
operation (`KeepsCount` in `RouteProofs`): it is zero but in an entry IN_SEARCH,
and at most `RreqRetries` in one for a destination of the node's own traffic.
Both hypotheses are needed. A request that was put off goes out whatever the
count has become (run `retries`). With traffic in both directions TLC violates
the property with nothing put off: answering a request counts on the same entry
as the search for its originator.

### The packet buffer: `RequestQueueProofs`

- `QueueTypeCorrect`: `Spec => []TypeOK`; `NoPacketLost`: `Spec => []NothingLost`.
- `NothingSentLate`: `Spec => NeverLate`; `NobodyOvertakes`:
  `Spec => NoOvertaking`; `LimitIsKept`: `Spec => KeepsLimit`.
- `QueueIsABuffer`: `Spec => BufferSpec`, the queue implements `PacketBuffer`.

The invariant is `TypeOK`, `NothingLost` and `Distinct`: no packet is buffered
twice, which is what the search in `Enqueue` is for. `Distinct` is what turns
positions into packets. Without it the search for an overtaken packet and the
refinement fail. Most of the work is about `Picked`, the entries at a set of
positions in their order: as many as there are positions, each entry once, in
order. These lemmas count ranks, with the theorems on finite sets, and need no
induction over the queue. The refinement then maps each operation by what it
does to the packets: every operation but `Enqueue` drops what is overdue first,
which `PacketBuffer` allows at any time.

### The neighbour list and the interfaces: `InterfacesProofs`

- `AlwaysWatched`: `Spec => []TimerRuns`, and `SilenceNoticed`:
  `Spec => []NoticedInTime`, of `Neighbors`.

`NoticedInTime` is not inductive. The strengthening is `TimerCovers`: nobody's
time is up more than a delay before the timer expires. Every purge establishes
it anew, because whoever survives a purge is not silent at that moment.

- `KeepsWatch`: `Spec => WatchSpec`. The list with its one timer implements
  `NeighborWatch`: a neighbour is reported lost only when it has been silent past
  its time or a transmission to it failed, and no later than a delay after its
  time. The refinement mapping drops the hardware addresses and the timer. Each
  step but `Tick` maps by what it purges; that time does not pass a loss that is
  due is `TimerCovers` again.

Of the composition, for every set of interfaces and of addresses:

- `NodeKeepsWatch`: `NodeSpec => WatchSpec`. `NodeIsAList` shows that every step
  of the node is a step of `Neighbors` or leaves the list alone, so that the
  theorems of `Neighbors` carry over (`NodeNotices` for `NoticedInTime`).
- `NodeTypeCorrect`: `NodeSpec => []NodeTypeOK`.
- `ListensRight`: `NodeSpec => []ListensOnFirst`.
- `HearsBroadcasts`: `NodeSpec => []BroadcastHeard`.
- `SocketsCarry`: `NodeSpec => []RestsOnSockets`.

The invariant is `IfInv`. `Distinct` says that no interface has an address
twice: else the removal of an address that is not the first could take the
socket of one that is. `Covered` is that an interface listens on its first
address, `Single` that there is one socket for it and none elsewhere as long as
no interface was reported up twice. `Paired` says that there is a broadcast
socket, open or closed, for each of an address: the two maps keep in step also
with sockets left over, so that every handler finds one in each. The assumption
`InterfacesAssumption` says that no two interfaces can be given one address,
for the same reason between interfaces.

### Floods that are forgotten: `FloodProofs`

- `FloodTypeCorrect`: `Spec => []TypeOK`.
- `FloodsHandledOnce`: `Spec => []HandledOnce`.
- `NoFloodLostAsDuplicate`: `Spec => []NoFalseDuplicates`.

The state does not say when a flood started, and the argument needs it. The
invariant therefore says that there is an account of the past: the floods
started so far, when each was, and the set each node has taken for new, such
that (`Tracked`) a name means one flood; a copy in flight is due no later than
its flood's start and one longest hop for each node that has relayed it, and for
each unit of TTL it has used; who has handled a flood, or started it, has an
entry for it that lasts its full lifetime; and every entry is of a flood its
node handled, started or is the destination of. A copy can then arrive only
while the entry is there, by `LongestPath * MaxDelay <= Lifetime`. Each action
extends the account by what it does. TLC cannot evaluate a quantifier over such
accounts, so this invariant is only proved, and what follows from it is what the
run checks.

### TCP Vegas: `VegasProofs`

- `VegasTypeCorrect`, `WindowNeverCollapses`, `VegasSamplesAreSound`,
  `VegasBandIsSane`: `[]TypeOK`, `[]NeverCollapses`, `[]SamplesAreSound` and
  `[]BandIsSane`.
- `WindowMovesLinearly`: `Spec => LinearSteps`; `SlowStartNeverStalls`:
  `Spec => SlowStartGrows`.

The invariant adds to the properties: the window is at most `MaxWindow`, which
is what bounds `alpha`; a minimum of the round is also a sample of all rounds
(`Paired`), and a counted sample has left one (`Sampled`); and in slow start the
window has grown since the round began, for each sample but the one of the ACK
at hand (`Grown`). The assumption `4 * MaxWindow < Word` keeps the
three quarters of a window that become the threshold from wrapping.

### The file server: `FileServerProofs`

- `FileServerTypeCorrect`: `Spec => []TypeOK`.
- `UploadsAreWhole`: `Spec => []UploadIsWhole`.
- `ChunksKeepTheirPlaces`: `Spec => []ChunksInPlace`.
- `TheLogIsTrue`: `Spec => []LogIsTrue`.

Of each upload the invariant (`Handshake`) says how far the client, the
connection and the worker may be apart: before the worker has answered, nothing
but the request line can be in the stream, and afterwards exactly the chunks
that were sent and not yet written. `WholeSoFar` carries `UploadIsWhole` through
the copying, `Served` what a browser's worker has told and logged, or tried to
log, at each of its steps.

### Only model-checked

- Liveness: `BufferedLeaves`, `GetsEnd`, `WorkersEnd`, `ExitIsReached`. Liveness
  under fairness is out of the prover's reach.
- What a theorem states under a hypothesis, where the hypothesis does not hold:
  `RetriesAreBounded` in `search`, where requests are put off but only one packet
  is sent. In general both it and `NoLoop` are false then (runs `retries` and
  `loop`).

## Plan

1. Done: all components with state are modelled, their abstract specifications
   stated where there is something to abstract (`NeighborWatch`,
   `PacketBuffer`), and every safety property of a passing run is proved, four
   of them under hypotheses that the section on proofs shows to be needed.
2. To do: an abstract statement of what a flood promises (every node handles it
   at most once), implemented by `Flood`; the account of the past in its
   invariant is the refinement mapping, once it is a history variable.

## Not modelled

- The blacklist and the RREP-ACK timer, which never run (see above), and with
  them `MarkLinkAsUnidirectional`; `SendReply` and `SetEntryState`, which have
  no caller.
- The rate limit of RERRs: only one of the three senders counts what it sends,
  so that the limit bounds nothing, although the comment at
  `aodv-routing-protocol.cc:2382` asks for one. `Raodv` has the counter as the
  code has it.
- What the queue does beyond its limit. `KeepsLimit` says that a queue within its
  limit stays there unless the limit is lowered. `Enqueue` tests with `==`, so
  that a queue above a lowered limit grows on, and a limit of zero would read an
  empty vector: nothing in the repository says what should happen, and
  `PacketBuffer` leaves it open.
- The direction of a forked Vegas's first round, which compares with an
  uninitialised throughput and may be any.
- A wrap of sequence numbers, the byte layout of headers, multicast (refused by
  the code), the IP TTL of unicast packets.
- The helper classes, the simulation scripts, plots and shell scripts, which
  carry no protocol state, and the tests, read for what they expect.
