------------------------------- MODULE Raodv --------------------------------
(***************************************************************************)
(* A network of RAODV nodes (model/aodv-routing-protocol.cc): AODV route   *)
(* discovery in which the destination answers a request (RREQ) by flooding *)
(* a reverse request (REV_RREQ) back to the originator, and intermediate   *)
(* nodes that know a route answer with a unicast reply (RREP).             *)
(*                                                                         *)
(* One action is one event of the simulator: a timer or scheduled function *)
(* of a node, or a message reaching it.  A message in flight may be        *)
(* delivered at any later time or never, which covers the jitter of        *)
(* SendTo, reordering and loss.  Identical messages in flight coincide.    *)
(* Every node has one interface.                                           *)
(***************************************************************************)
EXTENDS RouteUpdates

CONSTANTS
  RreqRetries, TtlStart, TtlIncrement, TtlThreshold, NetDiameter,
  RreqRateLimit, RerrRateLimit, GratuitousReply, DestinationOnly,
  Link0,       \* the radio links at the start: a symmetric set of pairs
  Flow,        \* who sends data to whom: a set of pairs of nodes
  \* bounds on what the environment does:
  MaxSent,     \* data packets the applications hand down
  MaxLapses,   \* route lifetimes that pass
  MaxBreaks,   \* links that break
  MaxHellos,   \* hello rounds
  SecondsPass  \* do the rate limits restart, or is all within one second?

ASSUME RaodvAssumption ==
  /\ {RreqRetries, TtlStart, TtlIncrement, NetDiameter} \subseteq Nat \ {0}
  /\ {TtlThreshold, RreqRateLimit, RerrRateLimit} \subseteq Nat
  /\ {GratuitousReply, DestinationOnly, SecondsPass} \subseteq BOOLEAN
  /\ Link0 \subseteq {p \in Node \X Node : p[1] # p[2]}
  /\ \A p \in Link0 : <<p[2], p[1]>> \in Link0
  /\ Flow \subseteq {p \in Node \X Node : p[1] # p[2]}
  /\ {MaxSent, MaxLapses, MaxBreaks, MaxHellos} \subseteq Nat

Inputs == {"sent", "lapses", "breaks", "hellos"}

VARIABLES
  rtab,        \* m_routingTable
  seqNo,       \* m_seqNo
  requestId,   \* m_requestId
  rreqCount,   \* m_rreqCount, requests of this second
  rerrCount,   \* m_rerrCount, errors of this second
  idCache,     \* m_rreqIdCache: the (originator, id) pairs seen
  reqTimer,    \* destinations whose m_addressReqTimer is running
  deferred,    \* scheduled calls of SendRequest, per destination
  deferredRev, \* scheduled calls of SendRevRequest, per originator
  loopback,    \* packets on their way through the loopback device
  queue,       \* m_queue: packets buffered per destination
  msgs,        \* messages in flight
  nb,          \* m_nb: the neighbours heard of lately
  links,       \* the radio links
  used         \* how much of each environment bound is used up

nodeVars == <<rtab, seqNo, requestId, rreqCount, rerrCount, idCache, reqTimer,
              deferred, deferredRev, loopback, queue, nb>>
vars == <<rtab, seqNo, requestId, rreqCount, rerrCount, idCache, reqTimer,
          deferred, deferredRev, loopback, queue, nb, msgs, links, used>>

Count == [Node -> [Node -> Nat]]

(* The AODV messages, with the fields that a receiver reads.               *)
RreqHeaders ==
  [type : {"RREQ"}, origin : Node, id : Nat, dst : Node, originSeq : Nat,
   unknownSeq : BOOLEAN, dstSeq : Nat, hop : Nat]

RevRreqHeaders ==
  [type : {"REV_RREQ"}, origin : Node, id : Nat, dst : Node, originSeq : Nat,
   hop : Nat]

RrepHeaders ==
  [type : {"RREP"}, dst : Node, dstSeq : Nat, origin : Node, hop : Nat,
   ack : BOOLEAN]

RrepAckHeaders == [type : {"RREP_ACK"}]

RerrHeaders == [type : {"RERR"}, unreachable : SUBSET Node]

(* A data packet, with the source address its route gave it.               *)
DataHeaders == [type : {"DATA"}, src : Address, dst : Node]

Header == RreqHeaders \cup RevRreqHeaders \cup RrepHeaders
          \cup RrepAckHeaders \cup RerrHeaders \cup DataHeaders

Message == [from : Node, to : Node, ttl : Nat, hdr : Header]

TypeOK ==
  /\ rtab \in [Node -> Table]
  /\ {seqNo, requestId, rreqCount, rerrCount} \subseteq [Node -> Nat]
  /\ idCache \in [Node -> SUBSET (Node \X Nat)]
  /\ reqTimer \in [Node -> SUBSET Node]
  /\ {deferred, deferredRev, loopback, queue} \subseteq Count
  /\ nb \in [Node -> SUBSET Node]
  /\ msgs \subseteq Message
  /\ links \subseteq Node \X Node
  /\ used \in [Inputs -> Nat]

NoPackets == [n \in Node |-> [d \in Node |-> 0]]

Init ==
  /\ rtab = [n \in Node |-> EmptyTable]
  /\ seqNo = [n \in Node |-> 0]
  /\ requestId = [n \in Node |-> 0]
  /\ rreqCount = [n \in Node |-> 0]
  /\ rerrCount = [n \in Node |-> 0]
  /\ idCache = [n \in Node |-> {}]
  /\ reqTimer = [n \in Node |-> {}]
  /\ deferred = NoPackets
  /\ deferredRev = NoPackets
  /\ loopback = NoPackets
  /\ queue = NoPackets
  /\ nb = [n \in Node |-> {}]
  /\ msgs = {}
  /\ links = Link0
  /\ used = [k \in Inputs |-> 0]

Spend(what, bound) ==
  /\ used[what] < bound
  /\ used' = [used EXCEPT ![what] = @ + 1]

-----------------------------------------------------------------------------
(* The radio: a broadcast reaches the neighbours of the sender, a unicast  *)
(* its next hop if that is one of them.                                    *)
Neighbors(n) == {x \in Node : <<n, x>> \in links}

Broadcast(n, ttl, hdr) ==
  {[from |-> n, to |-> x, ttl |-> ttl, hdr |-> hdr] : x \in Neighbors(n)}

Unicast(n, x, ttl, hdr) ==
  {[from |-> n, to |-> y, ttl |-> ttl, hdr |-> hdr] : y \in Neighbors(n) \cap {x}}

Data(n, d, e) ==
  Unicast(n, e.nextHop, 0,
          [type |-> "DATA", src |-> IF e.source THEN n ELSE NoNode, dst |-> d])

(* The packets SendPacketFromQueue puts on the radio; the caller empties   *)
(* the queue.                                                              *)
FromQueue(n, d, e) == IF queue[n][d] > 0 THEN Data(n, d, e) ELSE {}

Add(count, n, d) == [count EXCEPT ![n][d] = @ + 1]
Take(count, n, d) == [count EXCEPT ![n][d] = @ - 1]
Emptied(count, n, d) == [count EXCEPT ![n][d] = 0]

-----------------------------------------------------------------------------
(***************************************************************************)
(* SendRequest(dst), called with the caller's table t, the calls pending   *)
(* and the timers running.  At the rate limit it only schedules itself     *)
(* again.                                                                  *)
(***************************************************************************)
RequestTtl(e) ==
  IF e.flag = "NONE" THEN TtlStart
  ELSE RingTtl(e, TtlIncrement, TtlThreshold, NetDiameter)

SearchEntry(t, d) ==
  LET ttl == RequestTtl(t[d])
  IN  IF Present(t, d) THEN Update(t, d, InSearch(t[d], ttl, NetDiameter))
      ELSE AddRoute(t, d, DummyEntry(ttl, NetDiameter))

RreqHeader(n, d, t) ==
  [type |-> "RREQ", origin |-> n, id |-> requestId[n] + 1, dst |-> d,
   originSeq |-> seqNo[n] + 1, unknownSeq |-> ~t[d].validSeqNo,
   dstSeq |-> IF t[d].validSeqNo THEN t[d].seqNo ELSE 0, hop |-> 0]

SendRequest(n, d, t, pending, timers) ==
  \/ /\ rreqCount[n] = RreqRateLimit
     /\ deferred' = Add(pending, n, d)
     /\ rtab' = [rtab EXCEPT ![n] = t]
     /\ reqTimer' = [reqTimer EXCEPT ![n] = timers]
     /\ UNCHANGED <<seqNo, requestId, rreqCount, idCache, msgs>>
  \/ /\ rreqCount[n] # RreqRateLimit
     /\ deferred' = pending
     /\ rreqCount' = [rreqCount EXCEPT ![n] = @ + 1]
     /\ rtab' = [rtab EXCEPT ![n] = SearchEntry(t, d)]
     /\ seqNo' = [seqNo EXCEPT ![n] = @ + 1]
     /\ requestId' = [requestId EXCEPT ![n] = @ + 1]
     /\ idCache' = [idCache EXCEPT ![n] = @ \cup {<<n, requestId[n] + 1>>}]
     /\ reqTimer' = [reqTimer EXCEPT ![n] = timers \cup {d}]
     /\ msgs' = msgs \cup
          Broadcast(n, RequestTtl(t[d]), RreqHeader(n, d, t))

(***************************************************************************)
(* SendRevRequest(origin, n): the destination n of a request floods a      *)
(* reverse request for its originator.  Like SendRequest, except that a    *)
(* missing entry is not created and no retry timer is started.  "in" is    *)
(* the set of messages left once the request is consumed.                  *)
(***************************************************************************)
(* Mutant: the originator's address is never filled in.                    *)
RevRequestHeaderNoOrigin(n, origin) ==
  [type |-> "REV_RREQ", origin |-> NoNode, id |-> requestId[n] + 1,
   dst |-> origin, originSeq |-> seqNo[n] + 1, hop |-> 0]

RevRequestHeader(n, origin) ==
  [type |-> "REV_RREQ", origin |-> n, id |-> requestId[n] + 1, dst |-> origin,
   originSeq |-> seqNo[n] + 1, hop |-> 0]

FloodRevRequest(n, origin, t, pending, cache, in) ==
  LET ttl == RingTtl(t[origin], TtlIncrement, TtlThreshold, NetDiameter)
  IN  /\ deferredRev' = pending
      /\ rreqCount' = [rreqCount EXCEPT ![n] = @ + 1]
      /\ rtab' = [rtab EXCEPT ![n] =
                    Update(t, origin, InSearch(t[origin], ttl, NetDiameter))]
      /\ seqNo' = [seqNo EXCEPT ![n] = @ + 1]
      /\ requestId' = [requestId EXCEPT ![n] = @ + 1]
      /\ idCache' = [idCache EXCEPT ![n] = cache \cup {<<n, requestId[n] + 1>>}]
      /\ msgs' = in \cup Broadcast(n, ttl, RevRequestHeader(n, origin))

(* Mutant: the rate limit does not stop it (the check was once commented   *)
(* out in the code).                                                       *)
SendRevRequestUnlimited(n, origin, t, pending, cache, in) ==
  FloodRevRequest(n, origin, t, pending, cache, in)

SendRevRequest(n, origin, t, pending, cache, in) ==
  \/ /\ rreqCount[n] = RreqRateLimit
     /\ deferredRev' = Add(pending, n, origin)
     /\ rtab' = [rtab EXCEPT ![n] = t]
     /\ idCache' = [idCache EXCEPT ![n] = cache]
     /\ msgs' = in
     /\ UNCHANGED <<seqNo, requestId, rreqCount>>
  \/ /\ rreqCount[n] # RreqRateLimit
     /\ FloodRevRequest(n, origin, t, pending, cache, in)

-----------------------------------------------------------------------------
(* An application hands down a packet for d: it leaves over a VALID route  *)
(* or goes through the loopback device to DeferredRouteOutput.             *)
RouteOutput(n, d) ==
  LET t == Purged(rtab[n])
  IN  /\ <<n, d>> \in Flow
      /\ Spend("sent", MaxSent)
      /\ rtab' = [rtab EXCEPT ![n] = t]
      /\ \/ /\ Valid(t, d)
            /\ msgs' = msgs \cup Data(n, d, t[d])
            /\ UNCHANGED loopback
         \/ /\ ~Valid(t, d)
            /\ loopback' = Add(loopback, n, d)
            /\ UNCHANGED msgs
      /\ UNCHANGED <<seqNo, requestId, rreqCount, rerrCount, idCache, reqTimer,
                     deferred, deferredRev, queue, nb, links>>

(* The packet comes back from the loopback device: it is buffered, and a   *)
(* request goes out unless one is under way.  The route may have become    *)
(* VALID in between; it is then searched for again.                        *)
DeferredRouteOutput(n, d) ==
  LET t == Purged(rtab[n])
  IN  /\ loopback[n][d] > 0
      /\ loopback' = Take(loopback, n, d)
      /\ queue' = Add(queue, n, d)
      /\ \/ /\ t[d].flag # "IN_SEARCH"
            /\ SendRequest(n, d, t, deferred, reqTimer[n])
         \/ /\ t[d].flag = "IN_SEARCH"
            /\ rtab' = [rtab EXCEPT ![n] = t]
            /\ UNCHANGED <<seqNo, requestId, rreqCount, idCache, reqTimer,
                           deferred, msgs>>
      /\ UNCHANGED <<rerrCount, deferredRev, nb, links, used>>

(* A call of SendRequest that the rate limit put off.  Firing at the limit *)
(* again puts it off again, which changes nothing.                         *)
DeferredRequest(n, d) ==
  /\ deferred[n][d] > 0
  /\ rreqCount[n] # RreqRateLimit
  /\ SendRequest(n, d, Purged(rtab[n]), Take(deferred, n, d), reqTimer[n])
  /\ UNCHANGED <<rerrCount, deferredRev, loopback, queue, nb, links, used>>

DeferredRevRequest(n, origin) ==
  /\ deferredRev[n][origin] > 0
  /\ rreqCount[n] # RreqRateLimit
  /\ SendRevRequest(n, origin, Purged(rtab[n]), Take(deferredRev, n, origin),
                    idCache[n], msgs)
  /\ UNCHANGED <<rerrCount, reqTimer, deferred, loopback, queue, nb, links,
                 used>>

(***************************************************************************)
(* The retry timer of a destination: flush the queue over a VALID route,   *)
(* give up after RreqRetries requests at full diameter, ask again, or give *)
(* up because the search was called off.                                   *)
(***************************************************************************)
(* Mutant: one request too many.                                           *)
GivesUpLate(e) == e.reqCnt = RreqRetries + 1

GivesUp(e) == e.reqCnt = RreqRetries

(* Mutant: the buffered packets are not dropped.                           *)
StopSearchKeepingQueue(n, d, t) ==
  /\ reqTimer' = [reqTimer EXCEPT ![n] = @ \ {d}]
  /\ rtab' = [rtab EXCEPT ![n] = DeleteRoute(t, d)]
  /\ UNCHANGED <<seqNo, requestId, rreqCount, idCache, deferred, queue, msgs>>

StopSearch(n, d, t) ==
  /\ reqTimer' = [reqTimer EXCEPT ![n] = @ \ {d}]
  /\ rtab' = [rtab EXCEPT ![n] = DeleteRoute(t, d)]
  /\ queue' = Emptied(queue, n, d)
  /\ UNCHANGED <<seqNo, requestId, rreqCount, idCache, deferred, msgs>>

RouteRequestTimerExpire(n, d) ==
  LET t == Purged(rtab[n])
  IN  /\ d \in reqTimer[n]
      /\ \/ /\ Valid(t, d)
            /\ reqTimer' = [reqTimer EXCEPT ![n] = @ \ {d}]
            /\ rtab' = [rtab EXCEPT ![n] = t]
            /\ queue' = Emptied(queue, n, d)
            /\ msgs' = msgs \cup FromQueue(n, d, t[d])
            /\ UNCHANGED <<seqNo, requestId, rreqCount, idCache, deferred>>
         \/ /\ ~Valid(t, d)
            /\ GivesUp(t[d]) \/ t[d].flag # "IN_SEARCH"
            /\ StopSearch(n, d, t)
         \/ /\ t[d].flag = "IN_SEARCH"
            /\ ~GivesUp(t[d])
            /\ SendRequest(n, d, t, deferred, reqTimer[n] \ {d})
            /\ UNCHANGED queue
      /\ UNCHANGED <<rerrCount, deferredRev, loopback, nb, links, used>>

(* The rate limits restart every second.                                   *)
RreqRateLimitTimerExpire(n) ==
  /\ SecondsPass
  /\ rreqCount' = [rreqCount EXCEPT ![n] = 0]
  /\ UNCHANGED <<rtab, seqNo, requestId, rerrCount, idCache, reqTimer, deferred,
                 deferredRev, loopback, queue, msgs, nb, links, used>>

RerrRateLimitTimerExpire(n) ==
  /\ SecondsPass
  /\ rerrCount' = [rerrCount EXCEPT ![n] = 0]
  /\ UNCHANGED <<rtab, seqNo, requestId, rreqCount, idCache, reqTimer, deferred,
                 deferredRev, loopback, queue, msgs, nb, links, used>>

-----------------------------------------------------------------------------
(***************************************************************************)
(* RecvAodv: message m is consumed at node m.to, and before its handler    *)
(* runs the route to the neighbour it came from is refreshed.              *)
(***************************************************************************)
Received(m) == UpdateRouteToNeighbor(Purged(rtab[m.to]), m.from)

(* Neighbors::Update: the neighbours of n heard of lately, and these.      *)
Heard(n, these) == [nb EXCEPT ![n] = @ \cup (these \cap Node)]

(* The handlers that change only the table and the messages.               *)
Handled(m, t, out) ==
  /\ rtab' = [rtab EXCEPT ![m.to] = t]
  /\ msgs' = (msgs \ {m}) \cup out

(* SendReplyByIntermediateNode: a RREP to the originator h.origin and, if  *)
(* so configured, a gratuitous one to the destination.  The acknowledgment *)
(* asked for has no timer behind it: the code sets one up on a copy of the *)
(* entry and never schedules it.                                           *)
Replies(n, h, t) ==
  LET toDst    == t[h.dst]
      toOrigin == t[h.origin]
      reply    == [type |-> "RREP", dst |-> h.dst, dstSeq |-> toDst.seqNo,
                   origin |-> h.origin, hop |-> toDst.hop, ack |-> toDst.hop = 1]
      gratuitous == [type |-> "RREP", dst |-> h.origin,
                     dstSeq |-> toOrigin.seqNo, origin |-> h.dst,
                     hop |-> toOrigin.hop, ack |-> FALSE]
  IN  Unicast(n, toOrigin.nextHop, toOrigin.hop, reply)
      \cup IF GratuitousReply
           THEN Unicast(n, toDst.nextHop, toDst.hop, gratuitous) ELSE {}

(* May a node with this entry for the destination vouch for it in a RREQ?  *)
KnowsBetter(h, e) ==
  e.validSeqNo /\ (h.unknownSeq \/ e.seqNo >= h.dstSeq)

(* The header of a RREQ as a node with entry e for its destination passes  *)
(* it on.                                                                  *)
ForwardedRreq(h, e) ==
  IF KnowsBetter(h, e)
  THEN [h EXCEPT !.hop = @ + 1, !.dstSeq = e.seqNo, !.unknownSeq = FALSE]
  ELSE [h EXCEPT !.hop = @ + 1]

Forwarded(n, ttl, h) == IF ttl < 2 THEN {} ELSE Broadcast(n, ttl - 1, h)

(* Mutant: the id cache never recognises a request.                        *)
IsDuplicateNever(n, h) == FALSE

IsDuplicate(n, h) == <<h.origin, h.id>> \in idCache[n]

(* Mutant: no check at all.                                                *)
NeverLoopsBack(e, from) == FALSE

(* Would an answer, or the request passed on, run back to its sender?      *)
LoopsBack(e, from) == e.flag # "NONE" /\ e.nextHop = from

RecvRequest(m) ==
  LET n == m.to
      h == m.hdr
      t == RouteToRreqSender(
             RouteToOrigin(Received(m), h.origin, h.originSeq, h.hop + 1, m.from),
             m.from, h.originSeq)
      cache  == idCache[n] \cup {<<h.origin, h.id>>}
      e      == t[h.dst]
      relay  == n # h.dst /\ ~LoopsBack(e, m.from)
      answer == KnowsBetter(h, e) /\ ~DestinationOnly /\ Valid(t, h.dst)
  IN  /\ h.type = "RREQ"
      /\ \/ /\ IsDuplicate(n, h)
            /\ Handled(m, Received(m), {})
            /\ UNCHANGED <<seqNo, requestId, rreqCount, idCache, deferredRev,
                           nb>>
         \/ /\ ~IsDuplicate(n, h)
            /\ n = h.dst
            /\ SendRevRequest(n, h.origin, t, deferredRev, cache, msgs \ {m})
            /\ nb' = Heard(n, {m.from})
         \/ /\ ~IsDuplicate(n, h)
            /\ n # h.dst
            /\ IF relay /\ answer
               THEN Handled(m, LinkReplyPrecursors(t, h.dst, h.origin),
                            Replies(n, h, t))
               ELSE Handled(m, t, IF relay
                                  THEN Forwarded(n, m.ttl, ForwardedRreq(h, e))
                                  ELSE {})
            /\ idCache' = [idCache EXCEPT ![n] = cache]
            /\ nb' = Heard(n, {m.from})
            /\ UNCHANGED <<seqNo, requestId, rreqCount, deferredRev>>
      /\ UNCHANGED <<rerrCount, reqTimer, deferred, loopback, queue, links, used>>

(***************************************************************************)
(* RecvRevRequest.  The node the reverse request is for takes every copy   *)
(* of it, and sends what it has buffered over whatever entry it has.       *)
(***************************************************************************)
RecvRevRequest(m) ==
  LET n  == m.to
      h  == m.hdr
      t0 == Received(m)
      t  == IF n = h.dst
            THEN RouteToReplier(t0, h.origin, h.originSeq, h.hop + 1, m.from)
            ELSE RouteToOrigin(t0, h.origin, h.originSeq, h.hop + 1, m.from)
  IN  /\ h.type = "REV_RREQ"
      /\ idCache' = [idCache EXCEPT ![n] = @ \cup {<<h.origin, h.id>>}]
      /\ \/ /\ n = h.dst
            /\ Handled(m, t, FromQueue(n, h.origin, t[h.origin]))
            /\ queue' = Emptied(queue, n, h.origin)
         \/ /\ n # h.dst
            /\ IF IsDuplicate(n, h)
               THEN Handled(m, t0, {})
               ELSE Handled(m, t, Forwarded(n, m.ttl, [h EXCEPT !.hop = @ + 1]))
            /\ UNCHANGED queue
      /\ UNCHANGED <<seqNo, requestId, rreqCount, rerrCount, reqTimer, deferred,
                     deferredRev, loopback, nb, links, used>>

(***************************************************************************)
(* RecvReply of a RREP that is not a hello.                                *)
(***************************************************************************)
ReplyAck(m) ==
  IF m.hdr.ack THEN Unicast(m.to, m.from, 1, [type |-> "RREP_ACK"]) ELSE {}

(* At the originator: the entry becomes VALID, a search is over, and what  *)
(* is buffered leaves.                                                     *)
ReplyArrives(m, t) ==
  LET n == m.to
      h == m.hdr
      searching == Received(m)[h.dst].flag = "IN_SEARCH"
      t1 == IF searching
            THEN Update(t, h.dst, NewEntry(TRUE, h.dstSeq, h.hop + 1, m.from))
            ELSE t
  IN  /\ Handled(m, t1, ReplyAck(m) \cup FromQueue(n, h.dst, t1[h.dst]))
      /\ queue' = Emptied(queue, n, h.dst)
      /\ reqTimer' = [reqTimer EXCEPT ![n] = IF searching THEN @ \ {h.dst} ELSE @]

(* On the path: the reply moves on towards the originator.                 *)
ReplyPasses(m, t) ==
  LET n == m.to
      h == m.hdr
      onward == [h EXCEPT !.hop = @ + 1, !.ack = FALSE]
      t1 == Update(t, h.origin, [t[h.origin] EXCEPT !.live = TRUE])
      t2 == IF Valid(t1, h.dst) THEN LinkPrecursors(t1, h.dst, h.origin) ELSE t1
  IN  /\ IF t[h.origin].flag \in {"NONE", "IN_SEARCH"}
         THEN Handled(m, t, ReplyAck(m))
         ELSE Handled(m, t2,
                ReplyAck(m) \cup
                IF m.ttl < 2 THEN {}
                ELSE Unicast(n, t2[h.origin].nextHop, m.ttl - 1, onward))
      /\ UNCHANGED <<queue, reqTimer>>

RecvReply(m) ==
  LET h == m.hdr
      t == ForwardRoute(Received(m), h.dst, h.dstSeq, h.hop + 1, m.from)
  IN  /\ h.type = "RREP"
      /\ h.dst # h.origin
      /\ IF m.to = h.origin THEN ReplyArrives(m, t) ELSE ReplyPasses(m, t)
      /\ UNCHANGED <<seqNo, requestId, rreqCount, rerrCount, idCache, deferred,
                     deferredRev, loopback, nb, links, used>>

ProcessHello(m) ==
  /\ m.hdr.type = "RREP"
  /\ m.hdr.dst = m.hdr.origin
  /\ Handled(m, RouteFromHello(Received(m), m.hdr.dst, m.hdr.dstSeq), {})
  /\ nb' = Heard(m.to, {m.hdr.dst})
  /\ UNCHANGED <<seqNo, requestId, rreqCount, rerrCount, idCache, reqTimer,
                 deferred, deferredRev, loopback, queue, links, used>>

RecvReplyAck(m) ==
  /\ m.hdr.type = "RREP_ACK"
  /\ Handled(m, RouteAcked(Received(m), m.from), {})
  /\ UNCHANGED <<seqNo, requestId, rreqCount, rerrCount, idCache, reqTimer,
                 deferred, deferredRev, loopback, queue, nb, links, used>>

(* SendHello: an own sequence number, one hop.                             *)
HelloTimerExpire(n) ==
  /\ Spend("hellos", MaxHellos)
  /\ msgs' = msgs \cup
       Broadcast(n, 1, [type |-> "RREP", dst |-> n, dstSeq |-> seqNo[n],
                        origin |-> n, hop |-> 0, ack |-> FALSE])
  /\ UNCHANGED <<rtab, seqNo, requestId, rreqCount, rerrCount, idCache, reqTimer,
                 deferred, deferredRev, loopback, queue, nb, links>>

-----------------------------------------------------------------------------
(***************************************************************************)
(* Route errors.  SendRerrMessage tells the precursors P that the          *)
(* destinations D are unreachable: nobody if there is no precursor or the  *)
(* rate limit is reached, a single precursor by unicast, several by        *)
(* broadcast.  Only the unicast counts towards the rate limit.             *)
(***************************************************************************)
Rerr(D) == [type |-> "RERR", unreachable |-> D]

UnicastsRerr(n, t, P) ==
  /\ rerrCount[n] # RerrRateLimit
  /\ \E p \in P \cap Node : P = {p} /\ Valid(t, p)

BroadcastsRerr(n, t, P) ==
  /\ rerrCount[n] # RerrRateLimit
  /\ \E p \in P \cap Node : P # {p} /\ Valid(t, p)

RerrMessages(n, t, P, D) ==
  IF UnicastsRerr(n, t, P)
  THEN UNION {Unicast(n, p, 1, Rerr(D)) : p \in P}
  ELSE IF BroadcastsRerr(n, t, P) THEN Broadcast(n, 1, Rerr(D)) ELSE {}

CountRerr(n, t, P) ==
  rerrCount' = [rerrCount EXCEPT ![n] = IF UnicastsRerr(n, t, P) THEN @ + 1 ELSE @]

PrecursorsOf(t, D) == UNION {t[d].precursors : d \in D}

(* Neighbors::Purge drops the neighbour m, of which n has not heard for    *)
(* too long or to which a transmission failed, and calls                   *)
(* SendRerrWhenBreaksLinkToNextHop.  If the link is there the silence      *)
(* counts as a lapse.                                                      *)
SendRerrWhenBreaksLinkToNextHop(n, m) ==
  LET t == Purged(rtab[n])
      D == {m} \cup DestinationsWithNextHop(t, m)
      P == PrecursorsOf(t, D)
  IN  /\ m \in nb[n]
      /\ nb' = [nb EXCEPT ![n] = @ \ {m}]
      /\ IF <<n, m>> \in links THEN Spend("lapses", MaxLapses)
         ELSE UNCHANGED used
      /\ \/ /\ Present(t, m)
            /\ rtab' = [rtab EXCEPT ![n] = InvalidateRoutesWithDst(t, D)]
            /\ msgs' = msgs \cup RerrMessages(n, t, P, D)
            /\ CountRerr(n, t, P)
         \/ /\ ~Present(t, m)
            /\ rtab' = [rtab EXCEPT ![n] = t]
            /\ UNCHANGED <<msgs, rerrCount>>
      /\ UNCHANGED <<seqNo, requestId, rreqCount, idCache, reqTimer, deferred,
                     deferredRev, loopback, queue, links>>

(* RecvError: the destinations that this node reaches through the sender   *)
(* become INVALID, and its own precursors hear of them.                    *)
RecvError(m) ==
  LET n == m.to
      t == Received(m)
      D == m.hdr.unreachable \cap DestinationsWithNextHop(t, m.from)
      P == PrecursorsOf(t, D)
  IN  /\ m.hdr.type = "RERR"
      /\ Handled(m, InvalidateRoutesWithDst(t, D), RerrMessages(n, t, P, D))
      /\ CountRerr(n, t, P)
      /\ UNCHANGED <<seqNo, requestId, rreqCount, idCache, reqTimer, deferred,
                     deferredRev, loopback, queue, nb, links, used>>

(* SendRerrWhenNoRouteToForward: to the next hop towards the source if     *)
(* there is a VALID route, else to everybody; never counted.               *)
RerrToSource(n, t, src, dst) ==
  IF rerrCount[n] = RerrRateLimit THEN {}
  ELSE IF src \in Node /\ Valid(t, src)
  THEN Unicast(n, t[src].nextHop, 1, Rerr({dst}))
  ELSE Broadcast(n, 1, Rerr({dst}))

(* RouteInput and Forwarding of a data packet: a node drops its own        *)
(* packets, takes those for it, and passes the others on over a VALID      *)
(* route or reports that it has none.  The next hops of the routes in use  *)
(* count as heard of.                                                      *)
NextHops(t, D) == {t[d].nextHop : d \in D \cap Node}

RouteInput(m) ==
  LET n == m.to
      h == m.hdr
      t == Purged(rtab[n])
  IN  /\ h.type = "DATA"
      /\ \/ /\ n = h.src
            /\ Handled(m, rtab[n], {})
            /\ UNCHANGED nb
         \/ /\ n # h.src
            /\ n = h.dst
            /\ Handled(m, t, {})
            /\ nb' = Heard(n, NextHops(t, {x \in {h.src} \cap Node :
                                              Valid(t, x)}))
         \/ /\ n \notin {h.src, h.dst}
            /\ Valid(t, h.dst)
            /\ Handled(m, t, Unicast(n, t[h.dst].nextHop, 0, h))
            /\ nb' = Heard(n, NextHops(t, {h.src, h.dst}))
         \/ /\ n \notin {h.src, h.dst}
            /\ ~Valid(t, h.dst)
            /\ Handled(m, t, RerrToSource(n, t, h.src, h.dst))
            /\ UNCHANGED nb
      /\ UNCHANGED <<seqNo, requestId, rreqCount, rerrCount, idCache, reqTimer,
                     deferred, deferredRev, loopback, queue, links, used>>

-----------------------------------------------------------------------------
(* The environment: a route's lifetime passes, a radio link breaks.        *)
Lapse(n, d) ==
  /\ Present(rtab[n], d)
  /\ rtab[n][d].live
  /\ Spend("lapses", MaxLapses)
  /\ rtab' = [rtab EXCEPT ![n][d].live = FALSE]
  /\ UNCHANGED <<seqNo, requestId, rreqCount, rerrCount, idCache, reqTimer,
                 deferred, deferredRev, loopback, queue, msgs, nb, links>>

LinkBreaks(n, m) ==
  /\ <<n, m>> \in links
  /\ Spend("breaks", MaxBreaks)
  /\ links' = links \ {<<n, m>>, <<m, n>>}
  /\ UNCHANGED <<nodeVars, msgs>>

-----------------------------------------------------------------------------
Next ==
  \/ \E m \in msgs : RecvRequest(m)
  \/ \E m \in msgs : RecvRevRequest(m)
  \/ \E m \in msgs : RecvReply(m)
  \/ \E m \in msgs : ProcessHello(m)
  \/ \E m \in msgs : RecvReplyAck(m)
  \/ \E m \in msgs : RecvError(m)
  \/ \E m \in msgs : RouteInput(m)
  \/ \E n \in Node : \/ RreqRateLimitTimerExpire(n)
                     \/ RerrRateLimitTimerExpire(n)
                     \/ HelloTimerExpire(n)
  \/ \E n, d \in Node : \/ RouteOutput(n, d)
                        \/ DeferredRouteOutput(n, d)
                        \/ DeferredRequest(n, d)
                        \/ DeferredRevRequest(n, d)
                        \/ RouteRequestTimerExpire(n, d)
                        \/ SendRerrWhenBreaksLinkToNextHop(n, d)
                        \/ Lapse(n, d)
                        \/ LinkBreaks(n, d)

Spec == Init /\ [][Next]_vars

-----------------------------------------------------------------------------
(* Fairness: the simulator runs every event it has scheduled.  Only the    *)
(* senders of a flow ever search.  A call that the rate limit put off runs *)
(* 100 microseconds after the limit restarts, so it is not kept from       *)
(* running for ever by later ones that use the limit up again.             *)
TimersRun ==
  /\ \A f \in Flow : /\ WF_vars(RouteRequestTimerExpire(f[1], f[2]))
                     /\ WF_vars(DeferredRouteOutput(f[1], f[2]))
                     /\ SF_vars(DeferredRequest(f[1], f[2]))
  /\ \A n \in Node : WF_vars(RreqRateLimitTimerExpire(n))

FairSpec == Spec /\ TimersRun

-----------------------------------------------------------------------------
(***************************************************************************)
(* Properties.                                                             *)
(***************************************************************************)

(* A sequence number is made by its owner: what a table holds as valid for *)
(* d, and what a message in flight says of d, is never ahead of d's own    *)
(* m_seqNo, however requests, reverse requests, replies and hellos of      *)
(* several nodes interleave.  Every comparison of freshness in the         *)
(* handlers rests on it.                                                   *)
FreshTables ==
  \A n, d \in Node : rtab[n][d].validSeqNo => rtab[n][d].seqNo <= seqNo[d]

FreshHeader(h) ==
  /\ h.type \in {"RREQ", "REV_RREQ"} => h.originSeq <= seqNo[h.origin]
  /\ h.type = "RREQ" => h.unknownSeq \/ h.dstSeq <= seqNo[h.dst]
  /\ h.type = "RREP" => h.dstSeq <= seqNo[h.dst]

SeqNoComesFromOwner == FreshTables /\ \A m \in msgs : FreshHeader(m.hdr)

(* A VALID route can be used: it has a next hop, and its source address    *)
(* and its interface are real ones (the code asserts that it finds a       *)
(* socket).  Entries are created IN_SEARCH without any of this and are     *)
(* later patched by several handlers, one of which also sets VALID without *)
(* looking.                                                                *)
ValidRouteIsUsable ==
  \A n, d \in Node :
    LET e == rtab[n][d]
    IN  e.flag = "VALID" => e.nextHop \in Node /\ e.source /\ e.iface

(* A node passes on a request or reverse request at most once, and never   *)
(* one of its own: a new flood message names a request the sender had not  *)
(* seen before this step and has seen after it.                            *)
FloodsOnce ==
  [][\A m \in msgs' \ msgs :
       m.hdr.type \in {"RREQ", "REV_RREQ"} =>
         <<m.hdr.origin, m.hdr.id>> \in idCache'[m.from] \ idCache[m.from]]_vars

(* A node does not originate more than RreqRateLimit requests per second,  *)
(* reverse requests included: every flood it starts is counted.            *)
OwnFlood(m) ==
  m.hdr.type \in {"RREQ", "REV_RREQ"} /\ m.hdr.origin = m.from

RequestsAreCounted ==
  [][\A m \in msgs' \ msgs :
       OwnFlood(m) => /\ rreqCount'[m.from] = rreqCount[m.from] + 1
                      /\ rreqCount'[m.from] <= RreqRateLimit]_vars

(* Packets are buffered while a request is disseminated: for a buffered    *)
(* packet a retry timer runs or a request waits for the rate limit.        *)
BufferedIsSought ==
  \A n, d \in Node :
    queue[n][d] > 0 => d \in reqTimer[n] \/ deferred[n][d] > 0

(* A search makes at most RreqRetries requests at full diameter.           *)
RetriesAreBounded ==
  \A n, d \in Node : d \in reqTimer[n] => rtab[n][d].reqCnt <= RreqRetries

(* No packet goes round in circles: no group of nodes, none of them the    *)
(* destination, hands packets for it only to each other.                   *)
NoLoop ==
  \A d \in Node : \A S \in (SUBSET (Node \ {d})) \ {{}} :
    \E n \in S : ~Valid(rtab[n], d) \/ rtab[n][d].nextHop \notin S

(* Links without a circle: for each destination there is a choice of a     *)
(* neighbour for every other node such that every link is chosen at one of *)
(* its ends, and no group of nodes without the destination chooses only    *)
(* within itself.                                                          *)
Leads(d, up, L) ==
  /\ \A p \in L : \/ p[1] # d /\ up[p[1]] = p[2]
                  \/ p[2] # d /\ up[p[2]] = p[1]
  /\ \A S \in (SUBSET Node) \ {{}} : \E n \in S : n = d \/ up[n] \notin S

Forest(L) == \A d \in Node : \E up \in [Node -> Node] : Leads(d, up, L)

(* A route error is true of its sender: the destinations it names are      *)
(* none the sender itself still has a VALID route to, whether it lost the  *)
(* link, was told, or had no route for a packet.                           *)
ReportsWhatItLost ==
  [][\A m \in msgs' \ msgs :
       m.hdr.type = "RERR" =>
         \A d \in m.hdr.unreachable : ~Valid(rtab'[m.from], d)]_vars

(* Buffered packets leave over an established route, or are dropped with   *)
(* the entry when the search is given up.                                  *)
LeavesOverRoute ==
  [][\A n, d \in Node :
       queue[n][d] > 0 /\ queue'[n][d] = 0 =>
         rtab'[n][d].flag \in {"VALID", "NONE"}]_vars

(* A buffered packet does not stay for ever.                               *)
BufferedLeaves ==
  \A f \in Flow : queue[f[1]][f[2]] > 0 ~> queue[f[1]][f[2]] = 0
=============================================================================
