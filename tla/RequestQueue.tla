---------------------------- MODULE RequestQueue ----------------------------
(***************************************************************************)
(* The packet buffer of a RAODV node (model/aodv-rqueue.cc) and the        *)
(* routine of the routing protocol that flushes it, on a clock.  Every     *)
(* operation first purges what has expired; there is no timer, so a packet *)
(* may stay past its time until somebody touches the queue.                *)
(*                                                                         *)
(* A packet is identified by its uid and destination.  What becomes of the *)
(* packets is counted: the error callback of Drop, the forward callback of *)
(* SendPacketFromQueue, and the packet that SendPacketFromQueue gives up   *)
(* without a callback.                                                     *)
(***************************************************************************)
EXTENDS Naturals, Sequences, FiniteSets

CONSTANTS
  Packet, Destination, Interface,
  AnyInterface, \* the interface of a packet that may leave through any
  DstOf, OifOf, \* of each packet: its destination, and DeferredRouteOutputTag
  Limit,        \* the values SetMaxQueueLen is called with
  QueueTimeout, \* the values SetQueueTimeout is called with
  MaxTime,      \* bound on the clock
  MaxHandedIn   \* bound on how often each packet is accepted

ASSUME RequestQueueAssumption ==
  /\ DstOf \in [Packet -> Destination]
  /\ OifOf \in [Packet -> Interface \cup {AnyInterface}]
  /\ Limit \subseteq Nat \ {0}
  /\ QueueTimeout \subseteq Nat
  /\ MaxTime \in Nat
  /\ MaxHandedIn \in [Packet -> Nat]

VARIABLES
  queue,         \* m_queue
  maxLen,        \* m_maxLen
  queueTimeout,  \* m_queueTimeout
  now,           \* Simulator::Now()
  accepted,      \* how often each packet was accepted by Enqueue,
  sent,          \* sent on by SendPacketFromQueue,
  dropped,       \* reported to its error callback,
  discarded      \* given up because its interface is not the route's

counts == <<accepted, sent, dropped, discarded>>
vars == <<queue, maxLen, queueTimeout, now, accepted, sent, dropped, discarded>>

Entry == [packet : Packet, expire : Nat]

TypeOK ==
  /\ queue \in Seq(Entry)
  /\ maxLen \in Limit
  /\ queueTimeout \in QueueTimeout
  /\ now \in Nat
  /\ {accepted, sent, dropped, discarded} \subseteq [Packet -> Nat]

None == [p \in Packet |-> 0]

Init ==
  /\ queue = <<>>
  /\ maxLen \in Limit
  /\ queueTimeout \in QueueTimeout
  /\ now = 0
  /\ accepted = None /\ sent = None /\ dropped = None /\ discarded = None

-----------------------------------------------------------------------------
(***************************************************************************)
(* What an operation does to the queue is said by positions of m_queue as  *)
(* the operation finds it: the ones that expired, the ones taken, the ones *)
(* that stay.                                                              *)
(***************************************************************************)
Rank(K, k) == Cardinality({j \in K : j <= k})

(* What is at the positions K of q, in the order of q.                     *)
Picked(q, K) == [r \in 1 .. Cardinality(K) |-> q[CHOOSE k \in K : Rank(K, k) = r]]

First(K) == {k \in K : \A j \in K : k <= j}

Positions(q, p) == {k \in DOMAIN q : q[k].packet = p}

(* How often p is among the entries of q.                                  *)
Times(q, p) == Cardinality(Positions(q, p))

(* The count of every packet, and the entries at the positions K on top.   *)
Counting(count, K) ==
  [p \in Packet |-> count[p] + Cardinality(K \cap Positions(queue, p))]

Expired(e) == e.expire < now

(* What Purge leaves, and what it drops.                                   *)
Fresh == {k \in DOMAIN queue : ~Expired(queue[k])}

(* Mutant: they vanish without a report.                                   *)
OutdatedForgotten == {}

Outdated == DOMAIN queue \ Fresh

(* Mutant: the wrong sign.                                                 *)
StampedBackwards(p) == [packet |-> p, expire |-> queueTimeout - now]

Stamped(p) == [packet |-> p, expire |-> now + queueTimeout]

(* Mutant: the front makes room one packet too late.                       *)
OverflowLate == IF Cardinality(Fresh) > maxLen THEN First(Fresh) ELSE {}

(* The most aged packet makes room when the queue is full.                 *)
Overflow == IF Cardinality(Fresh) = maxLen THEN First(Fresh) ELSE {}

Enqueue(p) ==
  /\ accepted[p] < MaxHandedIn[p]
  /\ \/ /\ Fresh \cap Positions(queue, p) # {}
        /\ queue' = Picked(queue, Fresh)
        /\ dropped' = Counting(dropped, Outdated)
        /\ UNCHANGED accepted
     \/ /\ Fresh \cap Positions(queue, p) = {}
        /\ queue' = Append(Picked(queue, Fresh \ Overflow), Stamped(p))
        /\ dropped' = Counting(dropped, Outdated \cup Overflow)
        /\ accepted' = [accepted EXCEPT ![p] = @ + 1]
  /\ UNCHANGED <<maxLen, queueTimeout, now, sent, discarded>>

(* Mutant: every destination is given up at once.                          *)
BoundForAny(dst) == DOMAIN queue

BoundFor(dst) == {k \in DOMAIN queue : DstOf[queue[k].packet] = dst}

(* DropPacketWithDst, when the search for dst is given up.                 *)
DropPacketWithDst(dst) ==
  /\ queue' = Picked(queue, Fresh \ BoundFor(dst))
  /\ dropped' = Counting(dropped, Outdated \cup BoundFor(dst))
  /\ UNCHANGED <<maxLen, queueTimeout, now, accepted, sent, discarded>>

(***************************************************************************)
(* SendPacketFromQueue over a route through iface: Dequeue, which purges   *)
(* and takes the first packet for dst, until there is none.  The first     *)
(* packet bound to another interface is given up, and ends the routine.    *)
(***************************************************************************)
(* Mutant: nothing is purged.                                              *)
DequeuedWithOutdated(dst) == BoundFor(dst)

(* The packets Dequeue finds for dst.                                      *)
Dequeued(dst) == Fresh \cap BoundFor(dst)

(* Of these, the ones bound to another interface.                          *)
BoundElsewhere(mine, iface) ==
  {k \in mine : OifOf[queue[k].packet] \notin {AnyInterface, iface}}

(* Mutant: the search runs from the back.                                  *)
FlushedFromTheBack(mine, iface) ==
  {k \in mine : \A j \in BoundElsewhere(mine, iface) : k > j}

(* The ones sent before the routine ends.                                  *)
Flushed(mine, iface) ==
  {k \in mine : \A j \in BoundElsewhere(mine, iface) : k < j}

SendPacketFromQueue(dst, iface) ==
  LET mine   == Dequeued(dst)
      out    == Flushed(mine, iface)
      thrown == First(BoundElsewhere(mine, iface))
  IN  /\ queue' = Picked(queue, Fresh \ (out \cup thrown))
      /\ sent' = Counting(sent, out)
      /\ discarded' = Counting(discarded, thrown)
      /\ dropped' = Counting(dropped, Outdated)
      /\ UNCHANGED <<maxLen, queueTimeout, now, accepted>>

GetSize ==
  /\ queue' = Picked(queue, Fresh)
  /\ dropped' = Counting(dropped, Outdated)
  /\ UNCHANGED <<maxLen, queueTimeout, now, accepted, sent, discarded>>

SetMaxQueueLen(len) ==
  /\ maxLen' = len
  /\ UNCHANGED <<queue, queueTimeout, now, counts>>

SetQueueTimeout(timeout) ==
  /\ queueTimeout' = timeout
  /\ UNCHANGED <<queue, maxLen, now, counts>>

Tick ==
  /\ now < MaxTime
  /\ now' = now + 1
  /\ UNCHANGED <<queue, maxLen, queueTimeout, counts>>

Next ==
  \/ \E p \in Packet : Enqueue(p)
  \/ \E dst \in Destination : \/ DropPacketWithDst(dst)
                              \/ \E i \in Interface : SendPacketFromQueue(dst, i)
  \/ GetSize
  \/ \E len \in Limit : SetMaxQueueLen(len)
  \/ \E timeout \in QueueTimeout : SetQueueTimeout(timeout)
  \/ Tick

Spec == Init /\ [][Next]_vars

-----------------------------------------------------------------------------
(***************************************************************************)
(* Properties.                                                             *)
(***************************************************************************)

(* No packet is lost or doubled: each time it was accepted it is still     *)
(* buffered, or was sent once, or was reported once to its error callback, *)
(* or was given up by SendPacketFromQueue, whatever the purging that       *)
(* every operation does on the side.                                       *)
NothingLost ==
  \A p \in Packet :
    accepted[p] = Times(queue, p) + sent[p] + dropped[p] + discarded[p]

(* A packet that has waited longer than its timeout is not sent any more,  *)
(* though nothing wakes the queue up when the time has come.               *)
NeverLate ==
  [][\A p \in Packet : sent'[p] > sent[p] =>
       \E k \in DOMAIN queue : queue[k].packet = p /\ queue[k].expire >= now]_vars

(* The limit holds: a queue within it stays within it, unless the limit    *)
(* itself is lowered.                                                      *)
KeepsLimit ==
  [][Len(queue) <= maxLen => Len(queue') <= maxLen' \/ maxLen' < maxLen]_vars

(* Packets for one destination leave in the order in which they came: one  *)
(* that is sent leaves no older one behind, also when the flush stops half *)
(* way.                                                                    *)
NoOvertaking ==
  [][\A j, k \in DOMAIN queue :
       LET old == queue[j].packet  young == queue[k].packet
       IN  j < k /\ DstOf[old] = DstOf[young] /\ sent'[young] > sent[young] =>
             Times(queue', old) = 0]_vars

(* What the routing protocol relies on: a packet leaves the buffer once,   *)
(* and with cause.  It is sent in time or not at all, and is reported lost *)
(* only when its time was up, its destination was given up, or the buffer  *)
(* was full and a new packet pushed it out; purging on the side, the limit *)
(* that moves and the flush that stops half way make no difference.        *)
Held == {queue[k].packet : k \in DOMAIN queue}
Due ==
  [p \in Packet |->
     IF p \in Held THEN queue[CHOOSE k \in DOMAIN queue : queue[k].packet = p].expire
     ELSE 0]
Buffer == INSTANCE PacketBuffer WITH held <- Held, due <- Due, room <- maxLen
BufferSpec == Buffer!Spec
=============================================================================
