---------------------------- MODULE RaodvSafety -----------------------------
(***************************************************************************)
(* Safety of Raodv for every network, traffic and configuration: floods    *)
(* are passed on once and counted, route errors are true of their sender,  *)
(* VALID routes can be used, buffered packets are sought, next hops form   *)
(* no loop where the links form no circle, and retries are bounded.        *)
(***************************************************************************)
EXTENDS RaodvProofs

(***************************************************************************)
(* Floods.  A message names a request by its originator and number; the    *)
(* originator knows its own, nobody knows one that was not made yet, and   *)
(* the count of this second is within the limit.                           *)
(***************************************************************************)
IsFlood(m) == m.hdr.type \in {"RREQ", "REV_RREQ"}

Name(m) == <<m.hdr.origin, m.hdr.id>>

FloodsKnown == \A m \in msgs : IsFlood(m) => Name(m) \in idCache[m.hdr.origin]

NamesMade == \A n \in Node : \A p \in idCache[n] : p[2] <= requestId[p[1]]

WithinLimit == \A n \in Node : rreqCount[n] <= RreqRateLimit

(* A flood that has made no hop comes from its originator, a hello from    *)
(* the node it speaks of, and a request is for a destination of its        *)
(* originator's traffic, which is never the originator.                    *)
Straight(m) ==
  /\ m.hdr.type = "RREQ" => <<m.hdr.origin, m.hdr.dst>> \in Flow
  /\ IsFlood(m) /\ m.hdr.hop = 0 => m.from = m.hdr.origin
  /\ m.hdr.type = "RREP" /\ m.hdr.dst = m.hdr.origin => m.from = m.hdr.dst

FloodInv ==
  FloodsKnown /\ NamesMade /\ WithinLimit /\ \A m \in msgs : Straight(m)

(* What the step of a node n that adds these names to its cache may say in *)
(* a new message.                                                          *)
NewOK(m, n, added) ==
  /\ m.from = n
  /\ Straight(m)
  /\ IsFlood(m) => /\ Name(m) \in added \ idCache[n]
                   /\ m.hdr.origin = n \/ Name(m) \in idCache[m.hdr.origin]
                   /\ m.hdr.origin = n => rreqCount'[n] = rreqCount[n] + 1
  /\ m.hdr.type = "RERR" =>
       \A d \in m.hdr.unreachable : ~Valid(rtab'[n], d)

(* What a step shows: the invariant, and the three action properties.      *)
FloodStep ==
  /\ FloodInv'
  /\ \A m \in msgs' \ msgs :
       /\ IsFlood(m) => Name(m) \in idCache'[m.from] \ idCache[m.from]
       /\ OwnFlood(m) => /\ rreqCount'[m.from] = rreqCount[m.from] + 1
                         /\ rreqCount'[m.from] <= RreqRateLimit
       /\ m.hdr.type = "RERR" =>
            \A d \in m.hdr.unreachable : ~Valid(rtab'[m.from], d)

(* A step of one node shows all that if it names only requests that are    *)
(* made, keeps to the limit and sends only what it may.                    *)
LEMMA FloodsKeep ==
  ASSUME IInv, IInv', FloodInv, NEW n \in Node, NEW added,
         idCache' = [idCache EXCEPT ![n] = @ \cup added],
         \A x \in Node : requestId[x] <= requestId'[x],
         \A p \in added : p[1] \in Node /\ p[2] <= requestId'[p[1]],
         \A x \in Node : rreqCount'[x] <= RreqRateLimit,
         \A m \in msgs' \ msgs : NewOK(m, n, added)
  PROVE  FloodStep
  <1>1. RestOK /\ RestOK' /\ MsgsOK'
    BY Parts, PartsPrime
  <1>2. \A x \in Node : /\ idCache[x] \subseteq idCache'[x]
                        /\ idCache[x] \subseteq Node \X Nat
                        /\ x # n => idCache'[x] = idCache[x]
                        /\ requestId[x] \in Nat /\ requestId'[x] \in Nat
        /\ idCache'[n] = idCache[n] \cup added
    BY <1>1 DEF RestOK
  <1>3. NamesMade'
    <2> SUFFICES ASSUME NEW x \in Node, NEW p \in idCache'[x]
                 PROVE  p[2] <= requestId'[p[1]]
      BY DEF NamesMade
    <2>1. CASE p \in idCache[x]
      <3>1. p[1] \in Node /\ p[2] \in Nat /\ p[2] <= requestId[p[1]]
        BY <1>2, <2>1 DEF FloodInv, NamesMade
      <3> QED
        BY <1>2, <3>1
    <2>2. CASE p \notin idCache[x]
      BY <1>2, <2>2
    <2> QED
      BY <2>1, <2>2
  <1>4. FloodsKnown'
    <2> SUFFICES ASSUME NEW m \in msgs', IsFlood(m)
                 PROVE  Name(m) \in idCache'[m.hdr.origin]
      BY DEF FloodsKnown, IsFlood, Name
    <2>1. m.hdr \in Header
      BY <1>1 DEF MsgsOK, GoodMsg, Message
    <2>2. m.hdr.origin \in Node
      BY <2>1, HeaderFields DEF IsFlood
    <2>3. CASE m \in msgs
      BY <1>2, <2>2, <2>3 DEF FloodInv, FloodsKnown
    <2>4. CASE m \notin msgs
      BY <1>2, <2>2, <2>4 DEF NewOK
    <2> QED
      BY <2>3, <2>4
  <1>5. WithinLimit' /\ \A m \in msgs' : Straight(m)
    BY DEF WithinLimit, FloodInv, NewOK
  <1>6. FloodInv'
    BY <1>3, <1>4, <1>5 DEF FloodInv, Straight, IsFlood
  <1>7. ASSUME NEW m \in msgs' \ msgs
        PROVE  /\ IsFlood(m) => Name(m) \in idCache'[m.from] \ idCache[m.from]
               /\ OwnFlood(m) => /\ rreqCount'[m.from] = rreqCount[m.from] + 1
                                 /\ rreqCount'[m.from] <= RreqRateLimit
               /\ m.hdr.type = "RERR" =>
                    \A d \in m.hdr.unreachable : ~Valid(rtab'[m.from], d)
    BY <1>2 DEF NewOK, OwnFlood, IsFlood
  <1> QED
    BY <1>6, <1>7 DEF FloodStep

(* What is on the radio carries its sender and its header.                 *)
LEMMA RadioFields ==
  ASSUME NEW n, NEW ttl, NEW h
  PROVE  /\ \A m \in Broadcast(n, ttl, h) : m.from = n /\ m.hdr = h
         /\ \A x : \A m \in Unicast(n, x, ttl, h) : m.from = n /\ m.hdr = h
  BY DEF Broadcast, Unicast

(* Data says nothing of floods or errors.                                  *)
LEMMA DataOK ==
  ASSUME NEW n, NEW d, NEW e, NEW added
  PROVE  /\ \A m \in Data(n, d, e) : NewOK(m, n, added)
         /\ \A m \in FromQueue(n, d, e) : NewOK(m, n, added)
  <1> DEFINE h == [type |-> "DATA", src |-> IF e.source THEN n ELSE NoNode,
                   dst |-> d]
  <1>1. h.type = "DATA"
    OBVIOUS
  <1>2. Data(n, d, e) = Unicast(n, e.nextHop, 0, h)
    BY DEF Data
  <1> HIDE DEF h
  <1>3. ASSUME NEW m \in Data(n, d, e) PROVE NewOK(m, n, added)
    <2>1. m.from = n /\ m.hdr = h
      BY <1>2 DEF Unicast
    <2> QED
      BY <1>1, <2>1 DEF NewOK, Straight, IsFlood
  <1> QED
    BY <1>3 DEF FromQueue

(* A step that leaves the cache and the numbers alone, and counts no more. *)
LEMMA QuietStep ==
  ASSUME IInv, IInv', FloodInv, NEW n \in Node,
         UNCHANGED <<requestId, idCache>>,
         \A x \in Node : rreqCount'[x] <= rreqCount[x],
         \A m \in msgs' \ msgs : NewOK(m, n, {})
  PROVE  FloodStep
  <1> DEFINE added == {}
  <1>1. RestOK /\ RestOK'
    BY Parts, PartsPrime
  <1>2. idCache' = [idCache EXCEPT ![n] = @ \cup added]
    BY <1>1 DEF RestOK
  <1>3. \A x \in Node : requestId[x] \in Nat /\ rreqCount[x] \in Nat
                        /\ rreqCount'[x] \in Nat
    BY <1>1 DEF RestOK
  <1>4. \A x \in Node : requestId[x] <= requestId'[x]
    BY <1>3
  <1>5. \A x \in Node : rreqCount'[x] <= RreqRateLimit
    BY <1>3, ConstantTypes DEF FloodInv, WithinLimit
  <1>6. \A p \in added : p[1] \in Node /\ p[2] <= requestId'[p[1]]
    OBVIOUS
  <1>7. \A m \in msgs' \ msgs : NewOK(m, n, added)
    OBVIOUS
  <1> HIDE DEF added
  <1> QED
    BY <1>2, <1>4, <1>5, <1>6, <1>7, FloodsKeep

(* A flood message that arrives names a request that was made.             *)
LEMMA ReceivedName ==
  ASSUME IInv, FloodInv, NEW m \in msgs, IsFlood(m)
  PROVE  /\ m.hdr.origin \in Node /\ m.hdr.id \in Nat
         /\ Name(m) \in idCache[m.hdr.origin]
         /\ m.hdr.id <= requestId[m.hdr.origin]
  <1>1. m.hdr \in Header
    BY ReceivedGood
  <1>2. m.hdr.origin \in Node /\ m.hdr.id \in Nat
    BY <1>1, HeaderFields DEF IsFlood
  <1>3. Name(m) \in idCache[m.hdr.origin]
    BY DEF FloodInv, FloodsKnown
  <1>4. m.hdr.id <= requestId[m.hdr.origin]
    BY <1>2, <1>3 DEF FloodInv, NamesMade, Name
  <1> QED
    BY <1>2, <1>3, <1>4

(* A step that makes a request, in which the node may also note others.    *)
LEMMA OwnFloodStep ==
  ASSUME IInv, IInv', FloodInv, NEW n \in Node, NEW known,
         \A p \in known : p[1] \in Node /\ p[2] <= requestId[p[1]],
         NEW cache, cache = idCache[n] \cup known,
         rreqCount[n] # RreqRateLimit,
         rreqCount' = [rreqCount EXCEPT ![n] = @ + 1],
         requestId' = [requestId EXCEPT ![n] = @ + 1],
         idCache' = [idCache EXCEPT ![n] = cache \cup {<<n, requestId[n] + 1>>}],
         NEW ttl, NEW h, IsFlood([hdr |-> h]),
         h.origin = n, h.id = requestId[n] + 1,
         h.type = "RREQ" => <<n, h.dst>> \in Flow,
         msgs' \ msgs \subseteq Broadcast(n, ttl, h),
         known \subseteq Node \X Nat
  PROVE  FloodStep
  <1> DEFINE own == <<n, requestId[n] + 1>>
             added == known \cup {own}
  <1>1. RestOK
    BY Parts
  <1>2. idCache' = [idCache EXCEPT ![n] = @ \cup added]
    BY <1>1 DEF RestOK
  <1>3. \A x \in Node : /\ requestId[x] \in Nat /\ requestId[x] <= requestId'[x]
                        /\ requestId'[x] \in Nat
    BY <1>1 DEF RestOK
  <1>4. \A p \in added : p[1] \in Node /\ p[2] <= requestId'[p[1]]
    <2>1. ASSUME NEW p \in known PROVE p[1] \in Node /\ p[2] <= requestId'[p[1]]
      <3>1. p[1] \in Node /\ p[2] \in Nat /\ p[2] <= requestId[p[1]]
        OBVIOUS
      <3> QED
        BY <1>3, <3>1
    <2>2. own[1] \in Node /\ own[2] <= requestId'[own[1]]
      BY <1>1 DEF RestOK
    <2> QED
      BY <2>1, <2>2
  <1>5. \A x \in Node : rreqCount'[x] <= RreqRateLimit
    <2>1. \A x \in Node : rreqCount[x] \in Nat /\ rreqCount[x] <= RreqRateLimit
      BY <1>1 DEF RestOK, FloodInv, WithinLimit
    <2>2. \A x \in Node : rreqCount'[x] = IF x = n THEN rreqCount[x] + 1
                                          ELSE rreqCount[x]
      BY <1>1 DEF RestOK
    <2> QED
      BY <2>1, <2>2, ConstantTypes
  <1>6. own \notin idCache[n]
    <2>1. own[2] = requestId[n] + 1 /\ own[1] = n /\ requestId[n] \in Nat
      BY <1>1 DEF RestOK
    <2> HIDE DEF own
    <2> QED
      BY <2>1 DEF FloodInv, NamesMade
  <1>7. rreqCount'[n] = rreqCount[n] + 1
    BY <1>1 DEF RestOK
  <1>8. ASSUME NEW m \in msgs' \ msgs PROVE NewOK(m, n, added)
    <2>1. m.from = n /\ m.hdr = h
      BY RadioFields
    <2>2. IsFlood(m) /\ Name(m) = own /\ m.hdr.origin = n
      BY <2>1 DEF IsFlood, Name
    <2>3. m.hdr.type # "RERR" /\ m.hdr.type # "RREP"
      BY <2>2 DEF IsFlood
    <2> HIDE DEF own
    <2> QED
      BY <1>6, <1>7, <2>1, <2>2, <2>3 DEF NewOK, Straight
  <1> HIDE DEF added
  <1> QED
    BY <1>2, <1>3, <1>4, <1>5, <1>8, FloodsKeep

(* SendRequest.                                                            *)
LEMMA SendRequestFloods ==
  ASSUME IInv, IInv', FloodInv, NEW n \in Node, NEW d, <<n, d>> \in Flow,
         NEW t, NEW pending, NEW timers, SendRequest(n, d, t, pending, timers)
  PROVE  FloodStep
  <1>1. RestOK
    BY Parts
  <1>2. CASE rreqCount[n] = RreqRateLimit
    <2>1. UNCHANGED <<requestId, idCache, rreqCount, msgs>>
      BY <1>2 DEF SendRequest
    <2>2. \A x \in Node : rreqCount'[x] <= rreqCount[x]
      BY <1>1, <2>1 DEF RestOK
    <2> QED
      BY <2>1, <2>2, QuietStep
  <1>3. CASE rreqCount[n] # RreqRateLimit
    <2> DEFINE h == RreqHeader(n, d, t)
               known == {}
               ttl == RequestTtl(t[d])
    <2>1. /\ rreqCount' = [rreqCount EXCEPT ![n] = @ + 1]
          /\ requestId' = [requestId EXCEPT ![n] = @ + 1]
          /\ idCache' = [idCache EXCEPT ![n] = @ \cup {<<n, requestId[n] + 1>>}]
          /\ msgs' \ msgs \subseteq Broadcast(n, ttl, h)
      BY <1>3 DEF SendRequest
    <2>2. h.type = "RREQ" /\ h.origin = n /\ h.id = requestId[n] + 1 /\ h.dst = d
      BY DEF RreqHeader
    <2>3. /\ idCache' = [idCache EXCEPT ![n] =
                          idCache[n] \cup {<<n, requestId[n] + 1>>}]
          /\ idCache[n] = idCache[n] \cup known
          /\ \A p \in known : p[1] \in Node /\ p[2] <= requestId[p[1]]
          /\ known \subseteq Node \X Nat
      BY <1>1, <2>1 DEF RestOK
    <2> HIDE DEF h, known, ttl
    <2>4. IsFlood([hdr |-> h])
      BY <2>2 DEF IsFlood
    <2> QED
      BY <1>3, <2>1, <2>2, <2>3, <2>4, OwnFloodStep
  <1> QED
    BY <1>2, <1>3

(* SendRevRequest, in which the node may note the request it answers.      *)
LEMMA SendRevRequestFloods ==
  ASSUME IInv, IInv', FloodInv, NEW n \in Node, NEW origin, NEW t, NEW pending,
         NEW known, known \subseteq Node \X Nat,
         \A p \in known : p[2] <= requestId[p[1]],
         NEW in, in \subseteq msgs,
         SendRevRequest(n, origin, t, pending, idCache[n] \cup known, in)
  PROVE  FloodStep
  <1> DEFINE cache == idCache[n] \cup known
  <1>1. RestOK
    BY Parts
  <1>2. CASE rreqCount[n] = RreqRateLimit
    <2>1. /\ UNCHANGED <<requestId, rreqCount>> /\ msgs' = in
          /\ idCache' = [idCache EXCEPT ![n] = cache]
      BY <1>2 DEF SendRevRequest
    <2>2. idCache' = [idCache EXCEPT ![n] = @ \cup known]
      BY <1>1, <2>1 DEF RestOK
    <2>3. /\ \A x \in Node : requestId[x] <= requestId'[x]
          /\ \A x \in Node : rreqCount'[x] <= RreqRateLimit
      BY <1>1, <2>1 DEF RestOK, FloodInv, WithinLimit
    <2>4. \A p \in known : p[1] \in Node /\ p[2] <= requestId'[p[1]]
      BY <2>1
    <2>5. \A m \in msgs' \ msgs : NewOK(m, n, known)
      BY <2>1
    <2> QED
      BY <2>2, <2>3, <2>4, <2>5, FloodsKeep
  <1>3. CASE rreqCount[n] # RreqRateLimit
    <2> DEFINE h == RevRequestHeader(n, origin)
               ttl == RingTtl(t[origin], TtlIncrement, TtlThreshold, NetDiameter)
    <2>1. /\ rreqCount' = [rreqCount EXCEPT ![n] = @ + 1]
          /\ requestId' = [requestId EXCEPT ![n] = @ + 1]
          /\ idCache' = [idCache EXCEPT ![n] = cache \cup {<<n, requestId[n] + 1>>}]
          /\ msgs' \ msgs \subseteq Broadcast(n, ttl, h)
      BY <1>3 DEF SendRevRequest, FloodRevRequest
    <2>2. h.type = "REV_RREQ" /\ h.origin = n /\ h.id = requestId[n] + 1
      BY DEF RevRequestHeader
    <2> HIDE DEF h, ttl
    <2>3. IsFlood([hdr |-> h])
      BY <2>2 DEF IsFlood
    <2>4. \A p \in known : p[1] \in Node /\ p[2] <= requestId[p[1]]
      OBVIOUS
    <2>5. cache = idCache[n] \cup known
      OBVIOUS
    <2> HIDE DEF cache
    <2> QED
      BY <1>3, <2>1, <2>2, <2>3, <2>4, <2>5, OwnFloodStep
  <1> QED
    BY <1>2, <1>3

-----------------------------------------------------------------------------
(***************************************************************************)
(* Traffic.  A node sends, buffers and searches only for destinations of   *)
(* its own traffic, and answers only requests of somebody's traffic.       *)
(***************************************************************************)
Busy(n, d) ==
  loopback[n][d] > 0 \/ deferred[n][d] > 0 \/ queue[n][d] > 0 \/ d \in reqTimer[n]

TrafficInv ==
  \A n, d \in Node : /\ Busy(n, d) => <<n, d>> \in Flow
                     /\ deferredRev[n][d] > 0 => <<d, n>> \in Flow

(* What one node's step may change.                                        *)
LEMMA CountValues ==
  ASSUME NEW c \in Count, NEW n \in Node, NEW d \in Node
  PROVE  /\ \A x, y \in Node : x # n \/ y # d =>
              /\ Add(c, n, d)[x][y] = c[x][y] /\ Take(c, n, d)[x][y] = c[x][y]
              /\ Emptied(c, n, d)[x][y] = c[x][y]
         /\ Add(c, n, d)[n][d] = c[n][d] + 1
         /\ Take(c, n, d)[n][d] = c[n][d] - 1
         /\ Emptied(c, n, d)[n][d] = 0
         /\ \A x, y \in Node : c[x][y] \in Nat
  BY DEF Count, Add, Take, Emptied

(* Whose count may be positive afterwards.                                 *)
LEMMA CountPositive ==
  ASSUME NEW c \in Count, NEW n \in Node, NEW d \in Node
  PROVE  \A x, y \in Node :
           /\ Take(c, n, d)[x][y] > 0 => c[x][y] > 0
           /\ Emptied(c, n, d)[x][y] > 0 => c[x][y] > 0
           /\ Add(c, n, d)[x][y] > 0 => c[x][y] > 0 \/ (x = n /\ y = d)
  <1> SUFFICES ASSUME NEW x \in Node, NEW y \in Node
               PROVE  /\ Take(c, n, d)[x][y] > 0 => c[x][y] > 0
                      /\ Emptied(c, n, d)[x][y] > 0 => c[x][y] > 0
                      /\ Add(c, n, d)[x][y] > 0 => c[x][y] > 0 \/ (x = n /\ y = d)
    OBVIOUS
  <1>1. c[x][y] \in Nat /\ c[n][d] \in Nat
    BY CountValues
  <1>2. CASE x = n /\ y = d
    BY <1>1, <1>2, CountValues
  <1>3. CASE x # n \/ y # d
    BY <1>1, <1>3, CountValues
  <1> QED
    BY <1>2, <1>3

(* SendRequest keeps the traffic if it is asked for a destination of it.   *)
LEMMA SendRequestTraffic ==
  ASSUME IInv, NEW n \in Node, NEW d \in Node, <<n, d>> \in Flow, NEW t,
         NEW pending \in Count, NEW timers \in SUBSET Node,
         \A x, y \in Node : pending[x][y] > 0 => deferred[x][y] > 0,
         timers \subseteq reqTimer[n], TrafficInv,
         SendRequest(n, d, t, pending, timers)
  PROVE  \A x, y \in Node : (deferred'[x][y] > 0 \/ y \in reqTimer'[x])
                              => <<x, y>> \in Flow
  <1>1. /\ deferred \in Count /\ reqTimer \in [Node -> SUBSET Node]
        /\ \A x, y \in Node : deferred[x][y] \in Nat /\ pending[x][y] \in Nat
    BY Parts, CountValues DEF RestOK
  <1>2. deferred' \in {pending, Add(pending, n, d)}
        /\ (reqTimer' = [reqTimer EXCEPT ![n] = timers]
            \/ reqTimer' = [reqTimer EXCEPT ![n] = timers \cup {d}])
    BY DEF SendRequest
  <1>3. \A x, y \in Node : deferred'[x][y] > 0 => <<x, y>> \in Flow
    <2> SUFFICES ASSUME NEW x \in Node, NEW y \in Node, deferred'[x][y] > 0,
                        x # n \/ y # d
                 PROVE  <<x, y>> \in Flow
      OBVIOUS
    <2>1. deferred'[x][y] = pending[x][y]
      BY <1>2, CountValues
    <2> QED
      BY <1>1, <2>1 DEF TrafficInv, Busy
  <1>4. \A x, y \in Node : y \in reqTimer'[x] => <<x, y>> \in Flow
    <2> SUFFICES ASSUME NEW x \in Node, NEW y \in Node, y \in reqTimer'[x],
                        x # n \/ y # d
                 PROVE  <<x, y>> \in Flow
      OBVIOUS
    <2>1. y \in reqTimer[x]
      BY <1>1, <1>2
    <2> QED
      BY <2>1 DEF TrafficInv, Busy
  <1> QED
    BY <1>3, <1>4

(* SendRevRequest likewise.                                                *)
LEMMA SendRevRequestTraffic ==
  ASSUME IInv, NEW n \in Node, NEW o \in Node, <<o, n>> \in Flow, NEW t,
         NEW pending \in Count, NEW cache, NEW in, TrafficInv,
         \A x, y \in Node : pending[x][y] > 0 => deferredRev[x][y] > 0,
         SendRevRequest(n, o, t, pending, cache, in)
  PROVE  \A x, y \in Node : deferredRev'[x][y] > 0 => <<y, x>> \in Flow
  <1>1. /\ deferredRev \in Count
        /\ \A x, y \in Node : deferredRev[x][y] \in Nat /\ pending[x][y] \in Nat
    BY Parts, CountValues DEF RestOK
  <1>2. deferredRev' \in {pending, Add(pending, n, o)}
    BY DEF SendRevRequest, FloodRevRequest
  <1> SUFFICES ASSUME NEW x \in Node, NEW y \in Node, deferredRev'[x][y] > 0,
                      x # n \/ y # o
               PROVE  <<y, x>> \in Flow
    OBVIOUS
  <1>3. deferredRev'[x][y] = pending[x][y]
    BY <1>2, CountValues
  <1> QED
    BY <1>1, <1>3 DEF TrafficInv

(* The counters and timers, as far as the traffic goes.                    *)
LEMMA TrafficParts ==
  ASSUME IInv, TrafficInv
  PROVE  /\ loopback \in Count /\ deferred \in Count /\ queue \in Count
         /\ deferredRev \in Count /\ reqTimer \in [Node -> SUBSET Node]
         /\ \A x, y \in Node :
              /\ loopback[x][y] \in Nat /\ deferred[x][y] \in Nat
              /\ queue[x][y] \in Nat /\ deferredRev[x][y] \in Nat
              /\ loopback[x][y] > 0 => <<x, y>> \in Flow
              /\ deferred[x][y] > 0 => <<x, y>> \in Flow
              /\ queue[x][y] > 0 => <<x, y>> \in Flow
              /\ y \in reqTimer[x] => <<x, y>> \in Flow
              /\ deferredRev[x][y] > 0 => <<y, x>> \in Flow
  <1>1. /\ loopback \in Count /\ deferred \in Count /\ queue \in Count
        /\ deferredRev \in Count /\ reqTimer \in [Node -> SUBSET Node]
    BY Parts DEF RestOK
  <1>2. \A x, y \in Node :
          /\ loopback[x][y] \in Nat /\ deferred[x][y] \in Nat
          /\ queue[x][y] \in Nat /\ deferredRev[x][y] \in Nat
    BY <1>1 DEF Count
  <1> QED
    BY <1>1, <1>2 DEF TrafficInv, Busy

(* The actions of the traffic's sender.                                    *)
LEMMA SenderTraffic ==
  ASSUME IInv, TrafficInv, NEW n \in Node, NEW d \in Node,
         \/ RouteOutput(n, d) \/ DeferredRouteOutput(n, d)
         \/ DeferredRequest(n, d) \/ RouteRequestTimerExpire(n, d)
  PROVE  TrafficInv'
  <1>1. /\ loopback \in Count /\ deferred \in Count /\ queue \in Count
        /\ reqTimer \in [Node -> SUBSET Node] /\ reqTimer[n] \in SUBSET Node
        /\ \A x, y \in Node :
             /\ loopback[x][y] \in Nat /\ deferred[x][y] \in Nat
             /\ queue[x][y] \in Nat
             /\ loopback[x][y] > 0 => <<x, y>> \in Flow
             /\ deferred[x][y] > 0 => <<x, y>> \in Flow
             /\ queue[x][y] > 0 => <<x, y>> \in Flow
             /\ y \in reqTimer[x] => <<x, y>> \in Flow
             /\ deferredRev[x][y] > 0 => <<y, x>> \in Flow
    BY TrafficParts
  <1>2. CASE RouteOutput(n, d)
    <2>1. <<n, d>> \in Flow /\ loopback' \in {loopback, Add(loopback, n, d)}
          /\ UNCHANGED <<deferred, queue, reqTimer, deferredRev>>
      BY <1>2 DEF RouteOutput
    <2>2. \A x, y \in Node : loopback'[x][y] > 0 => <<x, y>> \in Flow
      BY <1>1, <2>1, CountPositive
    <2> QED
      BY <1>1, <2>1, <2>2 DEF TrafficInv, Busy
  <1>3. CASE DeferredRouteOutput(n, d)
    <2> DEFINE t == Purged(rtab[n])
    <2>1. /\ loopback[n][d] > 0
          /\ loopback' = Take(loopback, n, d) /\ queue' = Add(queue, n, d)
          /\ UNCHANGED deferredRev
          /\ \/ SendRequest(n, d, t, deferred, reqTimer[n])
             \/ UNCHANGED <<reqTimer, deferred>>
      BY <1>3 DEF DeferredRouteOutput
    <2> HIDE DEF t
    <2>2. \A x, y \in Node : deferred[x][y] > 0 => deferred[x][y] > 0
      OBVIOUS
    <2>3. <<n, d>> \in Flow
      BY <1>1, <2>1
    <2>4. \A x, y \in Node : (deferred'[x][y] > 0 \/ y \in reqTimer'[x])
                               => <<x, y>> \in Flow
      BY <1>1, <2>1, <2>2, <2>3, SendRequestTraffic
    <2>5. \A x, y \in Node : /\ loopback'[x][y] > 0 => <<x, y>> \in Flow
                             /\ queue'[x][y] > 0 => <<x, y>> \in Flow
      BY <1>1, <2>1, <2>3, CountPositive
    <2> QED
      BY <1>1, <2>1, <2>4, <2>5 DEF TrafficInv, Busy
  <1>4. CASE DeferredRequest(n, d)
    <2> DEFINE t == Purged(rtab[n])
               pending == Take(deferred, n, d)
    <2>1. /\ deferred[n][d] > 0
          /\ SendRequest(n, d, t, pending, reqTimer[n])
          /\ UNCHANGED <<loopback, queue, deferredRev>>
      BY <1>4 DEF DeferredRequest
    <2>2. pending \in Count /\ <<n, d>> \in Flow
          /\ \A x, y \in Node : pending[x][y] > 0 => deferred[x][y] > 0
      BY <1>1, <2>1, CountTypes, CountPositive
    <2> HIDE DEF t, pending
    <2>3. \A x, y \in Node : (deferred'[x][y] > 0 \/ y \in reqTimer'[x])
                               => <<x, y>> \in Flow
      BY <1>1, <2>1, <2>2, SendRequestTraffic
    <2> QED
      BY <1>1, <2>1, <2>3 DEF TrafficInv, Busy
  <1>5. CASE RouteRequestTimerExpire(n, d)
    <2> DEFINE t == Purged(rtab[n])
               timers == reqTimer[n] \ {d}
    <2>1. /\ d \in reqTimer[n]
          /\ \/ /\ reqTimer' = [reqTimer EXCEPT ![n] = @ \ {d}]
                /\ queue' = Emptied(queue, n, d) /\ UNCHANGED deferred
             \/ SendRequest(n, d, t, deferred, timers) /\ UNCHANGED queue
          /\ UNCHANGED <<loopback, deferredRev>>
      BY <1>5 DEF RouteRequestTimerExpire, StopSearch
    <2> HIDE DEF t
    <2>2. CASE /\ reqTimer' = [reqTimer EXCEPT ![n] = @ \ {d}]
               /\ queue' = Emptied(queue, n, d) /\ UNCHANGED deferred
      <3>1. \A x, y \in Node : /\ y \in reqTimer'[x] => y \in reqTimer[x]
                               /\ queue'[x][y] > 0 => queue[x][y] > 0
        BY <1>1, <2>2, CountValues
      <3> QED
        BY <1>1, <2>1, <2>2, <3>1 DEF TrafficInv, Busy
    <2>3. CASE SendRequest(n, d, t, deferred, timers) /\ UNCHANGED queue
      <3>1. /\ <<n, d>> \in Flow /\ timers \in SUBSET Node
            /\ timers \subseteq reqTimer[n]
            /\ \A x, y \in Node : deferred[x][y] > 0 => deferred[x][y] > 0
        BY <1>1, <2>1
      <3> HIDE DEF timers
      <3>2. \A x, y \in Node : (deferred'[x][y] > 0 \/ y \in reqTimer'[x])
                                 => <<x, y>> \in Flow
        BY <1>1, <2>3, <3>1, SendRequestTraffic
      <3> QED
        BY <1>1, <2>1, <2>3, <3>2 DEF TrafficInv, Busy
    <2> QED
      BY <2>1, <2>2, <2>3
  <1> QED
    BY <1>2, <1>3, <1>4, <1>5

(* The answers: a reverse request goes out only for a request that was     *)
(* made, and a buffered packet only leaves.                                *)
LEMMA AnswerTraffic ==
  ASSUME IInv, TrafficInv, FloodInv,
         \/ \E n, d \in Node : DeferredRevRequest(n, d)
         \/ \E m \in msgs : RecvRequest(m) \/ RecvRevRequest(m) \/ RecvReply(m)
  PROVE  TrafficInv'
  <1>1. /\ queue \in Count /\ deferredRev \in Count
        /\ reqTimer \in [Node -> SUBSET Node]
        /\ \A x, y \in Node :
             /\ loopback[x][y] > 0 => <<x, y>> \in Flow
             /\ deferred[x][y] > 0 => <<x, y>> \in Flow
             /\ queue[x][y] > 0 => <<x, y>> \in Flow
             /\ y \in reqTimer[x] => <<x, y>> \in Flow
             /\ deferredRev[x][y] > 0 => <<y, x>> \in Flow
    BY TrafficParts
  <1>2. ASSUME NEW n \in Node, NEW o \in Node, DeferredRevRequest(n, o)
        PROVE  TrafficInv'
    <2> DEFINE t == Purged(rtab[n])
               pending == Take(deferredRev, n, o)
    <2>1. /\ deferredRev[n][o] > 0
          /\ SendRevRequest(n, o, t, pending, idCache[n], msgs)
          /\ UNCHANGED <<reqTimer, deferred, loopback, queue>>
      BY <1>2 DEF DeferredRevRequest
    <2>2. pending \in Count /\ <<o, n>> \in Flow
          /\ \A x, y \in Node : pending[x][y] > 0 => deferredRev[x][y] > 0
      BY <1>1, <2>1, CountTypes, CountPositive
    <2> HIDE DEF t, pending
    <2>3. \A x, y \in Node : deferredRev'[x][y] > 0 => <<y, x>> \in Flow
      BY <2>1, <2>2, SendRevRequestTraffic
    <2> QED
      BY <1>1, <2>1, <2>3 DEF TrafficInv, Busy
  <1>3. ASSUME NEW m \in msgs, RecvRequest(m) PROVE TrafficInv'
    <2> DEFINE n == m.to
               h == m.hdr
               t == RouteToRreqSender(
                      RouteToOrigin(Received(m), h.origin, h.originSeq,
                                    h.hop + 1, m.from), m.from, h.originSeq)
               cache == idCache[n] \cup {<<h.origin, h.id>>}
               in == msgs \ {m}
    <2>1. /\ UNCHANGED <<reqTimer, deferred, loopback, queue>>
          /\ h.type = "RREQ"
          /\ \/ UNCHANGED deferredRev
             \/ /\ SendRevRequest(n, h.origin, t, deferredRev, cache, in)
                /\ n = h.dst
      BY <1>3 DEF RecvRequest
    <2>2. n \in Node /\ h.origin \in Node /\ <<h.origin, h.dst>> \in Flow
      BY <2>1, ReceivedGood, ReceivedName DEF FloodInv, Straight, IsFlood
    <2>3. \A x, y \in Node : deferredRev[x][y] > 0 => deferredRev[x][y] > 0
      OBVIOUS
    <2> HIDE DEF n, h, t, cache, in
    <2>4. \A x, y \in Node : deferredRev'[x][y] > 0 => <<y, x>> \in Flow
      BY <1>1, <2>1, <2>2, <2>3, SendRevRequestTraffic
    <2> QED
      BY <1>1, <2>1, <2>4 DEF TrafficInv, Busy
  <1>4. ASSUME NEW m \in msgs, RecvRevRequest(m) \/ RecvReply(m) PROVE TrafficInv'
    <2>1. m.to \in Node /\ m.hdr \in Header
      BY ReceivedGood
    <2>2. /\ UNCHANGED <<deferred, loopback, deferredRev>>
          /\ \/ UNCHANGED queue
             \/ \E d \in Node : queue' = Emptied(queue, m.to, d)
          /\ \/ UNCHANGED reqTimer
             \/ \E d \in Node : reqTimer' = [reqTimer EXCEPT ![m.to] = @ \ {d}]
      <3>1. CASE RecvRevRequest(m)
        <4>1. m.hdr.origin \in Node
          BY <2>1, <3>1, HeaderFields DEF RecvRevRequest
        <4> QED
          BY <3>1, <4>1 DEF RecvRevRequest
      <3>2. CASE RecvReply(m)
        <4>1. m.hdr.dst \in Node
          BY <2>1, <3>2, HeaderFields DEF RecvReply
        <4>2. UNCHANGED reqTimer \/
              reqTimer' = [reqTimer EXCEPT ![m.to] = @ \ {m.hdr.dst}]
          <5> DEFINE searching == Received(m)[m.hdr.dst].flag = "IN_SEARCH"
          <5>1. UNCHANGED reqTimer \/
                reqTimer' = [reqTimer EXCEPT ![m.to] =
                               IF searching THEN @ \ {m.hdr.dst} ELSE @]
            BY <3>2 DEF RecvReply, ReplyArrives, ReplyPasses
          <5> HIDE DEF searching
          <5> QED
            BY <1>1, <2>1, <5>1
        <4>3. UNCHANGED queue \/ queue' = Emptied(queue, m.to, m.hdr.dst)
          BY <3>2 DEF RecvReply, ReplyArrives, ReplyPasses
        <4>4. UNCHANGED <<deferred, loopback, deferredRev>>
          BY <3>2 DEF RecvReply
        <4> QED
          BY <4>1, <4>2, <4>3, <4>4
      <3> QED
        BY <1>4, <3>1, <3>2
    <2>3. \A x, y \in Node : /\ queue'[x][y] > 0 => queue[x][y] > 0
                             /\ y \in reqTimer'[x] => y \in reqTimer[x]
      BY <1>1, <2>1, <2>2, CountPositive
    <2> QED
      BY <1>1, <2>2, <2>3 DEF TrafficInv, Busy
  <1> QED
    BY <1>2, <1>3, <1>4

(* Everything else leaves the traffic alone.                               *)
LEMMA TrafficKeeps ==
  ASSUME IInv, TrafficInv, FloodInv, [Next]_vars
  PROVE  TrafficInv'
  <1>1. ASSUME UNCHANGED <<loopback, deferred, queue, reqTimer, deferredRev>>
        PROVE  TrafficInv'
    BY <1>1 DEF TrafficInv, Busy
  <1>2. ASSUME NEW m \in msgs,
               \/ RecvRequest(m) \/ RecvRevRequest(m) \/ RecvReply(m)
               \/ ProcessHello(m) \/ RecvReplyAck(m) \/ RecvError(m)
               \/ RouteInput(m)
        PROVE  TrafficInv'
    BY <1>1, <1>2, AnswerTraffic DEF ProcessHello, RecvReplyAck, RecvError,
       RouteInput
  <1>3. ASSUME NEW n \in Node,
               \/ RreqRateLimitTimerExpire(n) \/ RerrRateLimitTimerExpire(n)
               \/ HelloTimerExpire(n)
        PROVE  TrafficInv'
    BY <1>1, <1>3 DEF RreqRateLimitTimerExpire, RerrRateLimitTimerExpire,
       HelloTimerExpire
  <1>4. ASSUME NEW n \in Node, NEW d \in Node,
               \/ SendRerrWhenBreaksLinkToNextHop(n, d)
               \/ Lapse(n, d) \/ LinkBreaks(n, d)
        PROVE  TrafficInv'
    BY <1>1, <1>4 DEF SendRerrWhenBreaksLinkToNextHop, Lapse, LinkBreaks, nodeVars
  <1>5. ASSUME NEW n \in Node, NEW d \in Node,
               \/ RouteOutput(n, d) \/ DeferredRouteOutput(n, d)
               \/ DeferredRequest(n, d) \/ DeferredRevRequest(n, d)
               \/ RouteRequestTimerExpire(n, d)
        PROVE  TrafficInv'
    BY <1>5, SenderTraffic, AnswerTraffic
  <1>6. CASE UNCHANGED vars
    BY <1>1, <1>6 DEF vars
  <1> QED
    BY <1>2, <1>3, <1>4, <1>5, <1>6 DEF Next

-----------------------------------------------------------------------------
(***************************************************************************)
(* What each action says in its messages.                                  *)
(***************************************************************************)

(* A handler that leaves the cache and the counters alone.                 *)
LEMMA QuietHandler ==
  ASSUME IInv, IInv', FloodInv, NEW m \in msgs, NEW t, NEW out, Handled(m, t, out),
         UNCHANGED <<requestId, idCache, rreqCount>>,
         \A x \in out : NewOK(x, m.to, {})
  PROVE  FloodStep
  <1>1. m.to \in Node /\ \A x \in Node : rreqCount[x] \in Nat
    BY ReceivedGood, Parts DEF RestOK
  <1>2. \A x \in msgs' \ msgs : NewOK(x, m.to, {})
    BY DEF Handled
  <1>3. \A x \in Node : rreqCount'[x] <= rreqCount[x]
    BY <1>1
  <1> QED
    BY <1>1, <1>2, <1>3, QuietStep

(* The sender's own actions.                                               *)
LEMMA SenderFloods ==
  ASSUME IInv, IInv', FloodInv, TrafficInv, NEW n \in Node, NEW d \in Node,
         \/ RouteOutput(n, d) \/ DeferredRouteOutput(n, d)
         \/ DeferredRequest(n, d) \/ RouteRequestTimerExpire(n, d)
         \/ DeferredRevRequest(n, d)
  PROVE  FloodStep
  <1>1. /\ \A x \in Node : rreqCount[x] \in Nat
        /\ loopback[n][d] > 0 => <<n, d>> \in Flow
        /\ deferred[n][d] > 0 => <<n, d>> \in Flow
        /\ d \in reqTimer[n] => <<n, d>> \in Flow
    BY Parts, TrafficParts DEF RestOK
  <1>2. ASSUME UNCHANGED <<requestId, idCache, rreqCount>>,
               \A x \in msgs' \ msgs : NewOK(x, n, {})
        PROVE  FloodStep
    <2>1. \A x \in Node : rreqCount'[x] <= rreqCount[x]
      BY <1>1, <1>2
    <2> QED
      BY <1>2, <2>1, QuietStep
  <1>3. CASE RouteOutput(n, d)
    <2> DEFINE t == Purged(rtab[n])
    <2>1. /\ UNCHANGED <<requestId, idCache, rreqCount>>
          /\ msgs' \ msgs \subseteq Data(n, d, t[d])
      BY <1>3 DEF RouteOutput
    <2> HIDE DEF t
    <2> QED
      BY <1>2, <2>1, DataOK
  <1>4. CASE DeferredRouteOutput(n, d)
    <2> DEFINE t == Purged(rtab[n])
    <2>1. /\ loopback[n][d] > 0
          /\ \/ SendRequest(n, d, t, deferred, reqTimer[n])
             \/ UNCHANGED <<requestId, idCache, rreqCount, msgs>>
      BY <1>4 DEF DeferredRouteOutput
    <2> HIDE DEF t
    <2>2. CASE SendRequest(n, d, t, deferred, reqTimer[n])
      BY <1>1, <2>1, <2>2, SendRequestFloods
    <2>3. CASE UNCHANGED <<requestId, idCache, rreqCount, msgs>>
      BY <1>2, <2>3
    <2> QED
      BY <2>1, <2>2, <2>3
  <1>5. CASE DeferredRequest(n, d)
    <2> DEFINE t == Purged(rtab[n])
               pending == Take(deferred, n, d)
    <2>1. deferred[n][d] > 0 /\ SendRequest(n, d, t, pending, reqTimer[n])
      BY <1>5 DEF DeferredRequest
    <2> HIDE DEF t, pending
    <2> QED
      BY <1>1, <2>1, SendRequestFloods
  <1>6. CASE RouteRequestTimerExpire(n, d)
    <2> DEFINE t == Purged(rtab[n])
               timers == reqTimer[n] \ {d}
    <2>1. /\ d \in reqTimer[n]
          /\ \/ SendRequest(n, d, t, deferred, timers)
             \/ /\ UNCHANGED <<requestId, idCache, rreqCount>>
                /\ msgs' \ msgs \subseteq FromQueue(n, d, t[d])
      BY <1>6 DEF RouteRequestTimerExpire, StopSearch
    <2> HIDE DEF t, timers
    <2>2. CASE SendRequest(n, d, t, deferred, timers)
      BY <1>1, <2>1, <2>2, SendRequestFloods
    <2>3. CASE /\ UNCHANGED <<requestId, idCache, rreqCount>>
               /\ msgs' \ msgs \subseteq FromQueue(n, d, t[d])
      BY <1>2, <2>3, DataOK
    <2> QED
      BY <2>1, <2>2, <2>3
  <1>7. CASE DeferredRevRequest(n, d)
    <2> DEFINE t == Purged(rtab[n])
               pending == Take(deferredRev, n, d)
               known == {}
    <2>1. SendRevRequest(n, d, t, pending, idCache[n] \cup known, msgs)
      BY <1>7 DEF DeferredRevRequest
    <2>2. /\ known \subseteq Node \X Nat
          /\ \A p \in known : p[2] <= requestId[p[1]]
          /\ msgs \subseteq msgs
      OBVIOUS
    <2> HIDE DEF t, pending, known
    <2> QED
      BY <2>1, <2>2, SendRevRequestFloods
  <1> QED
    BY <1>3, <1>4, <1>5, <1>6, <1>7

(* Hellos, rate limits and the environment.                                *)
LEMMA BackgroundFloods ==
  ASSUME IInv, IInv', FloodInv, NEW n \in Node,
         \/ RreqRateLimitTimerExpire(n) \/ RerrRateLimitTimerExpire(n)
         \/ HelloTimerExpire(n)
         \/ \E d \in Node : Lapse(n, d) \/ LinkBreaks(n, d)
  PROVE  FloodStep
  <1> DEFINE h == [type |-> "RREP", dst |-> n, dstSeq |-> seqNo[n],
                   origin |-> n, hop |-> 0, ack |-> FALSE]
             hello == Broadcast(n, 1, h)
  <1>1. rreqCount \in [Node -> Nat]
    BY Parts DEF RestOK
  <1>2. /\ UNCHANGED <<requestId, idCache>>
        /\ UNCHANGED rreqCount \/ rreqCount' = [rreqCount EXCEPT ![n] = 0]
        /\ msgs' \ msgs \subseteq hello
    BY DEF RreqRateLimitTimerExpire, RerrRateLimitTimerExpire, HelloTimerExpire,
       Lapse, LinkBreaks, nodeVars
  <1>3. \A x \in Node : rreqCount'[x] <= rreqCount[x]
    BY <1>1, <1>2
  <1>4. h.type = "RREP" /\ h.dst = n
    OBVIOUS
  <1> HIDE DEF h
  <1>5. ASSUME NEW x \in hello PROVE NewOK(x, n, {})
    <2>1. x.from = n /\ x.hdr = h
      BY <1>5 DEF Broadcast
    <2> QED
      BY <1>4, <2>1 DEF NewOK, Straight, IsFlood
  <1> HIDE DEF hello
  <1> QED
    BY <1>2, <1>3, <1>5, QuietStep

(* A route error names only what its sender has no VALID route to.         *)
LEMMA RerrOK ==
  ASSUME NEW n, NEW t, NEW P, NEW D, NEW added, \A d \in D : ~Valid(rtab'[n], d)
  PROVE  \A m \in RerrMessages(n, t, P, D) : NewOK(m, n, added)
  <1> SUFFICES ASSUME NEW m \in RerrMessages(n, t, P, D) PROVE NewOK(m, n, added)
    OBVIOUS
  <1>1. m.from = n /\ m.hdr = Rerr(D)
    BY DEF RerrMessages, Unicast, Broadcast
  <1> QED
    BY <1>1 DEF Rerr, NewOK, Straight, IsFlood

(* A link breaks, or an error arrives.                                     *)
LEMMA ErrorFloods ==
  ASSUME IInv, IInv', FloodInv,
         \/ \E n, d \in Node : SendRerrWhenBreaksLinkToNextHop(n, d)
         \/ \E m \in msgs : RecvError(m)
  PROVE  FloodStep
  <1>1. \A x \in Node : rtab[x] \in Table /\ rreqCount[x] \in Nat
    BY Parts DEF TablesOK, Good, RestOK
  <1>2. ASSUME NEW n \in Node, NEW d \in Node, SendRerrWhenBreaksLinkToNextHop(n, d)
        PROVE  FloodStep
    <2> DEFINE t == Purged(rtab[n])
               D == {d} \cup DestinationsWithNextHop(t, d)
               P == PrecursorsOf(t, D)
               u == InvalidateRoutesWithDst(t, D)
    <2>1. /\ UNCHANGED <<requestId, idCache, rreqCount>>
          /\ \/ /\ rtab' = [rtab EXCEPT ![n] = u]
                /\ msgs' = msgs \cup RerrMessages(n, t, P, D)
             \/ UNCHANGED msgs
      BY <1>2 DEF SendRerrWhenBreaksLinkToNextHop
    <2>2. t \in Table /\ D \in SUBSET Node
      BY PurgedGood DEF Good, DestinationsWithNextHop
    <2>3. \A x \in D : ~Valid(u, x)
      BY <2>2, InvalidatedNotValid
    <2> HIDE DEF t, D, P, u
    <2>4. \A m \in msgs' \ msgs : NewOK(m, n, {})
      <3>1. CASE UNCHANGED msgs
        BY <3>1
      <3>2. CASE /\ rtab' = [rtab EXCEPT ![n] = u]
                 /\ msgs' = msgs \cup RerrMessages(n, t, P, D)
        <4>1. rtab'[n] = u
          BY <3>2, Parts DEF TablesOK
        <4> QED
          BY <2>3, <3>2, <4>1, RerrOK
      <3> QED
        BY <2>1, <3>1, <3>2
    <2>5. \A x \in Node : rreqCount'[x] <= rreqCount[x]
      BY <1>1, <2>1
    <2> QED
      BY <2>1, <2>4, <2>5, QuietStep
  <1>3. ASSUME NEW m \in msgs, RecvError(m) PROVE FloodStep
    <2> DEFINE n == m.to
               t == Received(m)
               D == m.hdr.unreachable \cap DestinationsWithNextHop(t, m.from)
               P == PrecursorsOf(t, D)
               u == InvalidateRoutesWithDst(t, D)
               out == RerrMessages(n, t, P, D)
    <2>1. /\ UNCHANGED <<requestId, idCache, rreqCount>>
          /\ Handled(m, u, out)
      BY <1>3 DEF RecvError
    <2>2. t \in Table /\ D \in SUBSET Node /\ n \in Node
      BY ReceivedGood DEF Good, DestinationsWithNextHop
    <2>3. \A x \in D : ~Valid(u, x)
      BY <2>2, InvalidatedNotValid
    <2>4. rtab'[n] = u
      BY <2>1, <2>2, Parts DEF TablesOK, Handled
    <2> HIDE DEF t, D, P, u
    <2>5. \A x \in out : NewOK(x, n, {})
      BY <2>3, <2>4, RerrOK
    <2> HIDE DEF out
    <2> QED
      BY <2>1, <2>5, QuietHandler
  <1> QED
    BY <1>2, <1>3

(* A data packet arrives.                                                  *)
LEMMA RouteInputFloods ==
  ASSUME IInv, IInv', FloodInv, NEW m \in msgs, RouteInput(m)
  PROVE  FloodStep
  <1> DEFINE n == m.to
             h == m.hdr
             t == Purged(rtab[n])
             onward == Unicast(n, t[h.dst].nextHop, 0, h)
             error == RerrToSource(n, t, h.src, h.dst)
             nothing == {}
  <1>1. n \in Node
    BY ReceivedGood
  <1>2. /\ h.type = "DATA"
        /\ UNCHANGED <<requestId, idCache, rreqCount>>
        /\ \/ Handled(m, rtab[n], nothing) \/ Handled(m, t, nothing)
           \/ Handled(m, t, onward)
           \/ Handled(m, t, error) /\ ~Valid(t, h.dst)
    BY DEF RouteInput
  <1> HIDE DEF h, t
  <1>3. ASSUME NEW x \in onward PROVE NewOK(x, n, {})
    <2>1. x.from = n /\ x.hdr = h
      BY DEF Unicast
    <2> QED
      BY <1>2, <2>1 DEF NewOK, Straight, IsFlood
  <1>4. ASSUME Handled(m, t, error), ~Valid(t, h.dst), NEW x \in error
        PROVE  NewOK(x, n, {})
    <2>1. x.from = n /\ x.hdr = Rerr({h.dst})
      BY DEF RerrToSource, Unicast, Broadcast
    <2>2. rtab'[n] = t
      BY <1>1, <1>4, Parts DEF TablesOK, Handled
    <2> QED
      BY <1>4, <2>1, <2>2 DEF Rerr, NewOK, Straight, IsFlood
  <1>5. \A x \in nothing : NewOK(x, n, {})
    OBVIOUS
  <1> HIDE DEF onward, error, nothing
  <1> QED
    BY <1>2, <1>3, <1>4, <1>5, QuietHandler

(* A hello or an acknowledgment is answered by nothing.                    *)
LEMMA SilentFloods ==
  ASSUME IInv, IInv', FloodInv, NEW m \in msgs, ProcessHello(m) \/ RecvReplyAck(m)
  PROVE  FloodStep
  <1> DEFINE nothing == {}
  <1>1. /\ UNCHANGED <<requestId, idCache, rreqCount>>
        /\ \E t : Handled(m, t, nothing)
    BY DEF ProcessHello, RecvReplyAck
  <1>2. \A x \in nothing : NewOK(x, m.to, {})
    OBVIOUS
  <1> HIDE DEF nothing
  <1> QED
    BY <1>1, <1>2, QuietHandler

(* A reply arrives: what goes out is an acknowledgment, data, or the reply *)
(* itself, which is no hello.                                              *)
LEMMA RecvReplyFloods ==
  ASSUME IInv, IInv', FloodInv, NEW m \in msgs, RecvReply(m)
  PROVE  FloodStep
  <1> DEFINE n == m.to
             h == m.hdr
             onward == [h EXCEPT !.hop = @ + 1, !.ack = FALSE]
  <1>1. n \in Node /\ h \in Header
    BY ReceivedGood
  <1>2. h.type = "RREP" /\ h.dst # h.origin
        /\ UNCHANGED <<requestId, idCache, rreqCount>>
    BY DEF RecvReply
  <1>3. h \in [type : {"RREP"}, dst : Node, dstSeq : Nat, origin : Node,
              hop : Nat, ack : BOOLEAN]
    BY <1>1, <1>2, HeaderFields
  <1>4. onward.type = "RREP" /\ onward.dst # onward.origin
    BY <1>2, <1>3
  <1>5. ASSUME NEW x \in ReplyAck(m) PROVE NewOK(x, n, {})
    <2>1. x.from = n /\ x.hdr.type = "RREP_ACK"
      BY <1>5 DEF ReplyAck, Unicast
    <2> QED
      BY <2>1 DEF NewOK, Straight, IsFlood
  <1> HIDE DEF h, onward
  <1>6. ASSUME NEW to, NEW ttl, NEW x \in Unicast(n, to, ttl, onward)
        PROVE  NewOK(x, n, {})
    <2>1. x.from = n /\ x.hdr = onward
      BY DEF Unicast
    <2> QED
      BY <1>4, <2>1 DEF NewOK, Straight, IsFlood
  <1>7. ASSUME NEW t, ReplyArrives(m, t) PROVE FloodStep
    <2> DEFINE out(e) == ReplyAck(m) \cup FromQueue(n, h.dst, e)
    <2>1. \A e : \A x \in out(e) : NewOK(x, n, {})
      BY <1>5, DataOK
    <2>2. \E u, e : Handled(m, u, out(e))
      BY <1>7 DEF ReplyArrives, h
    <2> HIDE DEF out
    <2> QED
      BY <1>2, <2>1, <2>2, QuietHandler
  <1>8. ASSUME NEW t, ReplyPasses(m, t) PROVE FloodStep
    <2>1. \E u, out : /\ Handled(m, u, out)
                      /\ \/ out = ReplyAck(m)
                         \/ \E to, ttl : out \subseteq ReplyAck(m) \cup
                                                      Unicast(n, to, ttl, onward)
      <3> DEFINE t1 == Update(t, h.origin, [t[h.origin] EXCEPT !.live = TRUE])
                 t2 == IF Valid(t1, h.dst) THEN LinkPrecursors(t1, h.dst, h.origin)
                       ELSE t1
                 sent == Unicast(n, t2[h.origin].nextHop, m.ttl - 1, onward)
                 out == ReplyAck(m) \cup IF m.ttl < 2 THEN {} ELSE sent
      <3>1. Handled(m, t, ReplyAck(m)) \/ Handled(m, t2, out)
        BY <1>8 DEF ReplyPasses, h, onward
      <3>2. out \subseteq ReplyAck(m) \cup sent
        OBVIOUS
      <3> HIDE DEF t2, out
      <3> QED
        BY <3>1, <3>2
    <2>2. PICK u, out : /\ Handled(m, u, out)
                        /\ \/ out = ReplyAck(m)
                           \/ \E to, ttl : out \subseteq ReplyAck(m) \cup
                                                        Unicast(n, to, ttl, onward)
      BY <2>1
    <2>3. \A x \in out : NewOK(x, n, {})
      BY <1>5, <1>6, <2>2
    <2> QED
      BY <1>2, <2>2, <2>3, QuietHandler
  <1> QED
    BY <1>7, <1>8 DEF RecvReply

(* A flood passed on is one that the node had not seen, with one hop more. *)
LEMMA ForwardedOK ==
  ASSUME IInv, FloodInv, NEW m \in msgs, IsFlood(m), ~IsDuplicate(m.to, m.hdr),
         NEW ttl, NEW g,
         g.type = m.hdr.type, g.origin = m.hdr.origin, g.id = m.hdr.id,
         g.dst = m.hdr.dst, g.hop > 0
  PROVE  \A x \in Forwarded(m.to, ttl, g) : NewOK(x, m.to, {Name(m)})
  <1> SUFFICES ASSUME NEW x \in Forwarded(m.to, ttl, g)
               PROVE  NewOK(x, m.to, {Name(m)})
    OBVIOUS
  <1>1. x.from = m.to /\ x.hdr = g
    BY DEF Forwarded, Broadcast
  <1>2. /\ Name(m) \in idCache[m.hdr.origin] /\ Name(m) \notin idCache[m.to]
        /\ (m.hdr.type = "RREQ" => <<m.hdr.origin, m.hdr.dst>> \in Flow)
    BY ReceivedName DEF FloodInv, Straight, IsDuplicate, Name
  <1>3. Name(x) = Name(m) /\ IsFlood(x) /\ Straight(x)
    BY <1>1, <1>2 DEF Name, IsFlood, Straight
  <1> QED
    BY <1>1, <1>2, <1>3 DEF NewOK, IsFlood

(* A handler that notes the flood it got.                                  *)
LEMMA NotingHandler ==
  ASSUME IInv, IInv', FloodInv, NEW m \in msgs, IsFlood(m), NEW t, NEW out,
         Handled(m, t, out), UNCHANGED <<requestId, rreqCount>>,
         idCache' = [idCache EXCEPT ![m.to] = @ \cup {<<m.hdr.origin, m.hdr.id>>}],
         \A x \in out : NewOK(x, m.to, {Name(m)})
  PROVE  FloodStep
  <1> DEFINE added == {Name(m)}
             n == m.to
  <1>1. n \in Node /\ requestId \in [Node -> Nat]
    BY ReceivedGood, Parts DEF RestOK
  <1>2. idCache' = [idCache EXCEPT ![n] = @ \cup added]
    BY DEF Name
  <1>3. /\ \A x \in Node : requestId[x] <= requestId'[x]
        /\ \A x \in Node : rreqCount'[x] <= RreqRateLimit
    BY <1>1 DEF FloodInv, WithinLimit
  <1>4. \A p \in added : p[1] \in Node /\ p[2] <= requestId'[p[1]]
    BY ReceivedName DEF Name
  <1>5. \A x \in msgs' \ msgs : NewOK(x, n, added)
    BY DEF Handled
  <1> HIDE DEF added, n
  <1> QED
    BY <1>1, <1>2, <1>3, <1>4, <1>5, FloodsKeep

(* A request passed on is the same request.                                *)
LEMMA ForwardedRreqFields ==
  ASSUME NEW h \in Header, h.type = "RREQ", NEW e
  PROVE  LET g == ForwardedRreq(h, e)
         IN  /\ g.type = h.type /\ g.origin = h.origin /\ g.id = h.id
             /\ g.dst = h.dst /\ g.hop > 0
  <1>1. h \in [type : {"RREQ"}, origin : Node, id : Nat, dst : Node,
              originSeq : Nat, unknownSeq : BOOLEAN, dstSeq : Nat, hop : Nat]
    BY HeaderFields
  <1>2. /\ h.hop + 1 > 0
        /\ [h EXCEPT !.hop = @ + 1].type = h.type
        /\ [h EXCEPT !.hop = @ + 1].origin = h.origin
        /\ [h EXCEPT !.hop = @ + 1].id = h.id
        /\ [h EXCEPT !.hop = @ + 1].dst = h.dst
        /\ [h EXCEPT !.hop = @ + 1].hop = h.hop + 1
    BY <1>1
  <1>3. ASSUME NEW k
        PROVE  LET g == [h EXCEPT !.hop = @ + 1, !.dstSeq = k, !.unknownSeq = FALSE]
               IN  /\ g.type = h.type /\ g.origin = h.origin /\ g.id = h.id
                   /\ g.dst = h.dst /\ g.hop = h.hop + 1
    BY <1>1
  <1> QED
    BY <1>2, <1>3 DEF ForwardedRreq

(* The replies of a node on the path are no hellos.                        *)
LEMMA RepliesOK ==
  ASSUME NEW n, NEW h, NEW t, h.dst # h.origin, NEW added
  PROVE  \A m \in Replies(n, h, t) : NewOK(m, n, added)
  <1> DEFINE toDst    == t[h.dst]
             toOrigin == t[h.origin]
             r == [type |-> "RREP", dst |-> h.dst, dstSeq |-> toDst.seqNo,
                   origin |-> h.origin, hop |-> toDst.hop, ack |-> toDst.hop = 1]
             g == [type |-> "RREP", dst |-> h.origin, dstSeq |-> toOrigin.seqNo,
                   origin |-> h.dst, hop |-> toOrigin.hop, ack |-> FALSE]
  <1>1. r.type = "RREP" /\ r.dst # r.origin /\ g.type = "RREP" /\ g.dst # g.origin
    OBVIOUS
  <1>2. Replies(n, h, t) \subseteq
          Unicast(n, toOrigin.nextHop, toOrigin.hop, r)
          \cup Unicast(n, toDst.nextHop, toDst.hop, g)
    BY DEF Replies
  <1> HIDE DEF r, g
  <1>3. ASSUME NEW m \in Replies(n, h, t) PROVE NewOK(m, n, added)
    <2>1. m.from = n /\ (m.hdr = r \/ m.hdr = g)
      BY <1>2 DEF Unicast
    <2> QED
      BY <1>1, <2>1 DEF NewOK, Straight, IsFlood
  <1> QED
    BY <1>3

(* A request arrives.                                                      *)
LEMMA RecvRequestFloods ==
  ASSUME IInv, IInv', FloodInv, NEW m \in msgs, RecvRequest(m)
  PROVE  FloodStep
  <1> DEFINE n == m.to
             h == m.hdr
             t0 == Received(m)
             t == RouteToRreqSender(
                    RouteToOrigin(t0, h.origin, h.originSeq, h.hop + 1, m.from),
                    m.from, h.originSeq)
             known == {<<h.origin, h.id>>}
             in == msgs \ {m}
             u == LinkReplyPrecursors(t, h.dst, h.origin)
             replies == Replies(n, h, t)
             g == ForwardedRreq(h, t[h.dst])
             onward == Forwarded(n, m.ttl, g)
             nothing == {}
  <1>1. n \in Node /\ h \in Header
    BY ReceivedGood
  <1>2. /\ h.type = "RREQ"
        /\ \/ /\ Handled(m, t0, nothing)
              /\ UNCHANGED <<requestId, rreqCount, idCache>>
           \/ SendRevRequest(n, h.origin, t, deferredRev, idCache[n] \cup known, in)
           \/ /\ ~IsDuplicate(n, h)
              /\ Handled(m, u, replies) \/ Handled(m, t, onward)
                 \/ Handled(m, t, nothing)
              /\ idCache' = [idCache EXCEPT ![n] = idCache[n] \cup known]
              /\ UNCHANGED <<requestId, rreqCount>>
    BY DEF RecvRequest
  <1>3. IsFlood(m) /\ <<h.origin, h.dst>> \in Flow /\ Name(m) = <<h.origin, h.id>>
    BY <1>2 DEF IsFlood, FloodInv, Straight, Name
  <1>4. known \subseteq Node \X Nat /\ \A p \in known : p[2] <= requestId[p[1]]
    BY <1>3, ReceivedName
  <1>5. h.dst # h.origin
    BY <1>3, RaodvAssumption
  <1>6. /\ g.type = h.type /\ g.origin = h.origin /\ g.id = h.id
        /\ g.dst = h.dst /\ g.hop > 0
    <2> HIDE DEF h, t
    <2> QED
      BY <1>1, <1>2, ForwardedRreqFields
  <1>7. \A x \in replies : NewOK(x, n, {Name(m)})
    <2> HIDE DEF h, t
    <2> QED
      BY <1>5, RepliesOK
  <1>8. \A x \in nothing : NewOK(x, n, {Name(m)}) /\ NewOK(x, n, {})
    OBVIOUS
  <1>9. ASSUME ~IsDuplicate(n, h)
        PROVE  \A x \in onward : NewOK(x, n, {Name(m)})
    <2> HIDE DEF g, t
    <2> QED
      BY <1>3, <1>6, <1>9, ForwardedOK
  <1>10. in \subseteq msgs
    OBVIOUS
  <1> HIDE DEF t0, t, u, replies, onward, nothing, in
  <1>11. CASE /\ Handled(m, t0, nothing)
              /\ UNCHANGED <<requestId, rreqCount, idCache>>
    BY <1>8, <1>11, QuietHandler
  <1>12. CASE SendRevRequest(n, h.origin, t, deferredRev, idCache[n] \cup known, in)
    <2> HIDE DEF n, h, known
    <2> QED
      BY <1>1, <1>4, <1>10, <1>12, SendRevRequestFloods
  <1>13. CASE /\ ~IsDuplicate(n, h)
              /\ Handled(m, u, replies) \/ Handled(m, t, onward)
                 \/ Handled(m, t, nothing)
              /\ idCache' = [idCache EXCEPT ![n] = idCache[n] \cup known]
              /\ UNCHANGED <<requestId, rreqCount>>
    <2>1. idCache' = [idCache EXCEPT ![m.to] = @ \cup {<<m.hdr.origin, m.hdr.id>>}]
      BY <1>13
    <2> QED
      BY <1>3, <1>7, <1>8, <1>9, <1>13, <2>1, NotingHandler
  <1> QED
    BY <1>2, <1>11, <1>12, <1>13

(* A reverse request arrives.                                              *)
LEMMA RecvRevRequestFloods ==
  ASSUME IInv, IInv', FloodInv, NEW m \in msgs, RecvRevRequest(m)
  PROVE  FloodStep
  <1> DEFINE n == m.to
             h == m.hdr
             t0 == Received(m)
             there == RouteToReplier(t0, h.origin, h.originSeq, h.hop + 1, m.from)
             onPath == RouteToOrigin(t0, h.origin, h.originSeq, h.hop + 1, m.from)
             flushed == FromQueue(n, h.origin, there[h.origin])
             g == [h EXCEPT !.hop = @ + 1]
             onward == Forwarded(n, m.ttl, g)
             nothing == {}
  <1>1. n \in Node /\ h \in Header
    BY ReceivedGood
  <1>2. /\ h.type = "REV_RREQ"
        /\ idCache' = [idCache EXCEPT ![n] = @ \cup {<<h.origin, h.id>>}]
        /\ \/ Handled(m, there, flushed) \/ Handled(m, t0, nothing)
           \/ ~IsDuplicate(n, h) /\ Handled(m, onPath, onward)
        /\ UNCHANGED <<requestId, rreqCount>>
    BY DEF RecvRevRequest
  <1>3. IsFlood(m)
    BY <1>2 DEF IsFlood
  <1>4. /\ g.type = h.type /\ g.origin = h.origin /\ g.id = h.id
        /\ g.dst = h.dst /\ g.hop > 0
    <2>1. h \in [type : {"REV_RREQ"}, origin : Node, id : Nat, dst : Node,
                originSeq : Nat, hop : Nat]
      BY <1>1, <1>2, HeaderFields
    <2> HIDE DEF h
    <2> QED
      BY <2>1
  <1>5. \A x \in flushed : NewOK(x, n, {Name(m)})
    BY DataOK
  <1>6. \A x \in nothing : NewOK(x, n, {Name(m)})
    OBVIOUS
  <1>7. ASSUME ~IsDuplicate(n, h)
        PROVE  \A x \in onward : NewOK(x, n, {Name(m)})
    <2> HIDE DEF g
    <2> QED
      BY <1>3, <1>4, <1>7, ForwardedOK
  <1> HIDE DEF t0, there, onPath, flushed, onward, nothing
  <1> QED
    BY <1>2, <1>3, <1>5, <1>6, <1>7, NotingHandler

-----------------------------------------------------------------------------
(* At the start there is nothing to say.                                   *)
LEMMA InitFloods == Init => FloodInv /\ TrafficInv
  <1> SUFFICES ASSUME Init PROVE FloodInv /\ TrafficInv
    OBVIOUS
  <1>1. FloodInv
    BY ConstantTypes DEF Init, FloodInv, FloodsKnown, NamesMade, WithinLimit
  <1>2. TrafficInv
    BY DEF Init, TrafficInv, Busy, NoPackets
  <1> QED
    BY <1>1, <1>2

(* Every step shows what it must.                                          *)
LEMMA NextFloods ==
  ASSUME IInv, IInv', FloodInv, TrafficInv, [Next]_vars
  PROVE  FloodStep
  <1>1. ASSUME NEW m \in msgs,
               \/ RecvRequest(m) \/ RecvRevRequest(m) \/ RecvReply(m)
               \/ ProcessHello(m) \/ RecvReplyAck(m) \/ RecvError(m)
               \/ RouteInput(m)
        PROVE  FloodStep
    BY <1>1, RecvRequestFloods, RecvRevRequestFloods, RecvReplyFloods,
       SilentFloods, ErrorFloods, RouteInputFloods
  <1>2. ASSUME NEW n \in Node,
               \/ RreqRateLimitTimerExpire(n) \/ RerrRateLimitTimerExpire(n)
               \/ HelloTimerExpire(n)
        PROVE  FloodStep
    BY <1>2, BackgroundFloods
  <1>3. ASSUME NEW n \in Node, NEW d \in Node,
               \/ RouteOutput(n, d) \/ DeferredRouteOutput(n, d)
               \/ DeferredRequest(n, d) \/ DeferredRevRequest(n, d)
               \/ RouteRequestTimerExpire(n, d)
               \/ SendRerrWhenBreaksLinkToNextHop(n, d)
               \/ Lapse(n, d) \/ LinkBreaks(n, d)
        PROVE  FloodStep
    BY <1>3, SenderFloods, ErrorFloods, BackgroundFloods
  <1>4. CASE UNCHANGED vars
    BY <1>4 DEF vars, FloodStep, FloodInv, FloodsKnown, NamesMade, WithinLimit,
       Straight, IsFlood, Name
  <1> QED
    BY <1>1, <1>2, <1>3, <1>4 DEF Next

(* The two invariants hold for ever.                                       *)
LEMMA FloodInvariance == Spec => [](IInv /\ FloodInv /\ TrafficInv)
  <1>1. IInv /\ FloodInv /\ TrafficInv /\ [Next]_vars
          => (IInv /\ FloodInv /\ TrafficInv)'
    BY NextOK, NextFloods, TrafficKeeps DEF FloodStep
  <1> QED
    BY <1>1, InitOK, InitFloods, PTL DEF Spec

(* A node passes on a request or reverse request at most once, and never   *)
(* one of its own: whatever order copies arrive in, every new flood        *)
(* message names a request its sender had not noted before.                *)
THEOREM FloodedOnce == Spec => FloodsOnce
  <1>1. IInv /\ FloodInv /\ TrafficInv /\ [Next]_vars =>
          [\A m \in msgs' \ msgs :
             m.hdr.type \in {"RREQ", "REV_RREQ"} =>
               <<m.hdr.origin, m.hdr.id>> \in idCache'[m.from] \ idCache[m.from]]_vars
    BY NextOK, NextFloods DEF FloodStep, IsFlood, Name
  <1> QED
    BY <1>1, FloodInvariance, PTL DEF Spec, FloodsOnce

(* Every flood a node starts, reverse requests included, is counted, and   *)
(* never beyond RreqRateLimit in a second.                                 *)
THEOREM FloodsCounted == Spec => RequestsAreCounted
  <1>1. IInv /\ FloodInv /\ TrafficInv /\ [Next]_vars =>
          [\A m \in msgs' \ msgs :
             OwnFlood(m) => /\ rreqCount'[m.from] = rreqCount[m.from] + 1
                            /\ rreqCount'[m.from] <= RreqRateLimit]_vars
    BY NextOK, NextFloods DEF FloodStep
  <1> QED
    BY <1>1, FloodInvariance, PTL DEF Spec, RequestsAreCounted

(* A route error names only destinations that its sender has no VALID      *)
(* route to once the error is out.                                         *)
THEOREM ErrorsAreTrue == Spec => ReportsWhatItLost
  <1>1. IInv /\ FloodInv /\ TrafficInv /\ [Next]_vars =>
          [\A m \in msgs' \ msgs :
             m.hdr.type = "RERR" =>
               \A d \in m.hdr.unreachable : ~Valid(rtab'[m.from], d)]_vars
    BY NextOK, NextFloods DEF FloodStep
  <1> QED
    BY <1>1, FloodInvariance, PTL DEF Spec, ReportsWhatItLost

-----------------------------------------------------------------------------
(***************************************************************************)
(* Routes that can be used, and searches.  Every table is sound: an entry  *)
(* is such that no handler makes it VALID before it has a next hop, a      *)
(* source address and an interface.  And what a node of one-way traffic    *)
(* buffers or searches for, it has a retry timer or a put-off request for. *)
(* A destination that itself has packets for its source breaks the second: *)
(* answering a request it marks the entry IN_SEARCH with no timer.         *)
(***************************************************************************)
OneWayTraffic == \A f \in Flow : <<f[2], f[1]>> \notin Flow

Sought(n, d) ==
  queue[n][d] > 0 \/ rtab[n][d].flag = "IN_SEARCH" =>
    d \in reqTimer[n] \/ deferred[n][d] > 0

UseInv ==
  /\ \A n \in Node : SoundTable(rtab[n])
  /\ OneWayTraffic => \A n, d \in Node : <<n, d>> \in Flow => Sought(n, d)

(* A step that changes the table of one node.                              *)
LEMMA TableStep ==
  ASSUME IInv, UseInv, NEW n \in Node, NEW u, SoundTable(u),
         rtab' = [rtab EXCEPT ![n] = u],
         \A x, y \in Node : x # n =>
           /\ queue'[x][y] > 0 => queue[x][y] > 0
           /\ y \in reqTimer[x] => y \in reqTimer'[x]
           /\ deferred[x][y] > 0 => deferred'[x][y] > 0,
         ASSUME OneWayTraffic, NEW y \in Node, <<n, y>> \in Flow,
                queue'[n][y] > 0 \/ y \in Searches(u)
         PROVE  y \in reqTimer'[n] \/ deferred'[n][y] > 0
  PROVE  UseInv'
  <1>1. rtab'[n] = u /\ \A x \in Node \ {n} : rtab'[x] = rtab[x]
    BY Parts DEF TablesOK
  <1>2. \A x \in Node : SoundTable(rtab'[x])
    BY <1>1 DEF UseInv
  <1>3. ASSUME OneWayTraffic, NEW x \in Node, NEW y \in Node, <<x, y>> \in Flow
        PROVE  queue'[x][y] > 0 \/ rtab'[x][y].flag = "IN_SEARCH" =>
                 y \in reqTimer'[x] \/ deferred'[x][y] > 0
    <2>1. CASE x = n
      BY <1>1, <1>3, <2>1 DEF Searches
    <2>2. CASE x # n
      <3>1. queue[x][y] > 0 \/ rtab[x][y].flag = "IN_SEARCH" =>
              y \in reqTimer[x] \/ deferred[x][y] > 0
        BY <1>3 DEF UseInv, Sought
      <3> QED
        BY <1>1, <2>2, <3>1
    <2> QED
      BY <2>1, <2>2
  <1> QED
    BY <1>2, <1>3 DEF UseInv, Sought, OneWayTraffic

(* A step that marks nothing and stops no timer: packets may only leave.   *)
LEMMA QuietTable ==
  ASSUME IInv, UseInv, NEW n \in Node, NEW u, SoundTable(u),
         rtab' = [rtab EXCEPT ![n] = u], Searches(u) \subseteq Searches(rtab[n]),
         UNCHANGED <<reqTimer, deferred>>,
         \A x, y \in Node : queue'[x][y] > 0 => queue[x][y] > 0
  PROVE  UseInv'
  <1>1. ASSUME OneWayTraffic, NEW y \in Node, <<n, y>> \in Flow,
               queue'[n][y] > 0 \/ y \in Searches(u)
        PROVE  y \in reqTimer'[n] \/ deferred'[n][y] > 0
    <2>1. Sought(n, y)
      BY <1>1 DEF UseInv
    <2> QED
      BY <1>1, <2>1 DEF Sought, Searches
  <1> QED
    BY <1>1, TableStep

(* The table a handler starts from.                                        *)
LEMMA StartsSound ==
  ASSUME IInv, UseInv
  PROVE  /\ \A n \in Node : /\ SoundTable(rtab[n]) /\ SoundTable(Purged(rtab[n]))
                            /\ Searches(Purged(rtab[n])) = Searches(rtab[n])
         /\ \A m \in msgs :
              /\ SoundTable(Received(m))
              /\ Searches(Received(m)) \subseteq Searches(rtab[m.to])
              /\ Present(Received(m), m.from) /\ Real(Received(m)[m.from])
  <1>1. \A n \in Node : /\ SoundTable(rtab[n]) /\ SoundTable(Purged(rtab[n]))
                        /\ Searches(Purged(rtab[n])) = Searches(rtab[n])
    BY ShrinkSound DEF UseInv
  <1>2. ASSUME NEW m \in msgs
        PROVE  /\ SoundTable(Received(m))
               /\ Searches(Received(m)) \subseteq Searches(rtab[m.to])
               /\ Present(Received(m), m.from) /\ Real(Received(m)[m.from])
    <2>1. m.to \in Node /\ m.from \in Node
      BY ReceivedGood
    <2> DEFINE t == Purged(rtab[m.to])
    <2>2. SoundTable(t) /\ Searches(t) = Searches(rtab[m.to])
      BY <1>1, <2>1
    <2> HIDE DEF t
    <2>3. Received(m) = UpdateRouteToNeighbor(t, m.from)
      BY DEF Received, t
    <2> QED
      BY <2>1, <2>2, <2>3, UpdateRouteToNeighborSound
  <1> QED
    BY <1>1, <1>2

(* A handler that only changes the receiver's table, and marks nothing.    *)
LEMMA HandledTable ==
  ASSUME IInv, UseInv, NEW m \in msgs, NEW t, NEW out, Handled(m, t, out),
         SoundTable(t), Searches(t) \subseteq Searches(rtab[m.to]),
         UNCHANGED <<reqTimer, deferred>>,
         \A x, y \in Node : queue'[x][y] > 0 => queue[x][y] > 0
  PROVE  UseInv'
  <1>1. m.to \in Node /\ rtab' = [rtab EXCEPT ![m.to] = t]
    BY ReceivedGood DEF Handled
  <1> QED
    BY <1>1, QuietTable

(* The entry SendRequest writes: IN_SEARCH, and sound.                     *)
LEMMA SearchEntrySound ==
  ASSUME NEW t, SoundTable(t), NEW d \in Node, NetDiameter > 1
  PROVE  /\ SoundTable(SearchEntry(t, d))
         /\ Searches(SearchEntry(t, d)) \subseteq Searches(t) \cup {d}
  <1> DEFINE ttl == RequestTtl(t[d])
             e == InSearch(t[d], ttl, NetDiameter)
             f == DummyEntry(ttl, NetDiameter)
             u == SearchEntry(t, d)
  <1>1. t[d] \in Entry /\ Sound(t[d])
    BY DEF SoundTable, Table
  <1>2. /\ TtlStart \in Nat /\ TtlStart >= 1 /\ TtlIncrement \in Nat
        /\ TtlIncrement >= 1 /\ TtlThreshold \in Nat /\ NetDiameter \in Nat
    BY RaodvAssumption
  <1>3. u = IF Present(t, d) THEN Update(t, d, e) ELSE AddRoute(t, d, f)
    BY DEF SearchEntry
  <1>4. CASE Present(t, d)
    <2>1. e \in Entry /\ Sound(e)
      <3>1. ttl = RingTtl(t[d], TtlIncrement, TtlThreshold, NetDiameter)
        BY <1>4 DEF RequestTtl, Present
      <3> QED
        BY <1>1, <1>2, <1>4, <3>1, InSearchSound DEF Present
    <2> HIDE DEF e, f, u
    <2>2. SoundTable(u) /\ \A x \in Node \ {d} : u[x] = t[x]
      BY <1>3, <1>4, <2>1, UpdateSound
    <2> QED
      BY <2>2 DEF Searches, u
  <1>5. CASE ~Present(t, d)
    <2>1. f \in Entry /\ Sound(f)
      <3>1. ttl = TtlStart
        BY <1>5 DEF RequestTtl, Present
      <3> QED
        BY <1>2, <3>1, DummyEntrySound
    <2> HIDE DEF e, f, u
    <2>2. SoundTable(u) /\ \A x \in Node \ {d} : u[x] = t[x]
      BY <1>3, <1>5, <2>1, UpdateSound
    <2> QED
      BY <2>2 DEF Searches, u
  <1> QED
    BY <1>4, <1>5

(* SendRequest leaves its destination sought, by a timer or by a put-off   *)
(* call, and takes nothing from the other destinations.                    *)
LEMMA SendRequestTable ==
  ASSUME IInv, UseInv, NetDiameter > 1, NEW n \in Node, NEW d \in Node,
         NEW t, SoundTable(t), Searches(t) \subseteq Searches(rtab[n]),
         NEW pending \in Count, NEW timers \in SUBSET Node,
         \A x, y \in Node : x # n \/ y # d =>
           /\ deferred[x][y] > 0 => pending[x][y] > 0
           /\ queue'[x][y] > 0 => queue[x][y] > 0,
         reqTimer[n] \subseteq timers \cup {d},
         SendRequest(n, d, t, pending, timers)
  PROVE  UseInv'
  <1> DEFINE s == SearchEntry(t, d)
  <1>1. SoundTable(s) /\ Searches(s) \subseteq Searches(rtab[n]) \cup {d}
    BY SearchEntrySound
  <1>2. reqTimer \in [Node -> SUBSET Node] /\ rreqCount[n] \in Nat
    BY Parts DEF RestOK
  <1>3. PICK u : /\ SoundTable(u) /\ Searches(u) \subseteq Searches(rtab[n]) \cup {d}
                 /\ rtab' = [rtab EXCEPT ![n] = u]
                 /\ \/ /\ deferred' = Add(pending, n, d)
                       /\ reqTimer' = [reqTimer EXCEPT ![n] = timers]
                    \/ /\ deferred' = pending
                       /\ reqTimer' = [reqTimer EXCEPT ![n] = timers \cup {d}]
    <2>1. CASE rreqCount[n] = RreqRateLimit
      BY <2>1 DEF SendRequest
    <2>2. CASE rreqCount[n] # RreqRateLimit
      <3>1. /\ rtab' = [rtab EXCEPT ![n] = s] /\ deferred' = pending
            /\ reqTimer' = [reqTimer EXCEPT ![n] = timers \cup {d}]
        BY <2>2 DEF SendRequest
      <3> HIDE DEF s
      <3> QED
        BY <1>1, <3>1
    <2> QED
      BY <2>1, <2>2
  <1>4. \A x, y \in Node : x # n \/ y # d =>
          /\ y \in reqTimer[x] => y \in reqTimer'[x]
          /\ deferred[x][y] > 0 => deferred'[x][y] > 0
    BY <1>2, <1>3, CountValues
  <1>5. d \in reqTimer'[n] \/ deferred'[n][d] > 0
    BY <1>2, <1>3, CountValues
  <1>6. ASSUME OneWayTraffic, NEW y \in Node, <<n, y>> \in Flow,
               queue'[n][y] > 0 \/ y \in Searches(u)
        PROVE  y \in reqTimer'[n] \/ deferred'[n][y] > 0
    <2>1. CASE y = d
      BY <1>5, <2>1
    <2>2. CASE y # d
      <3>1. Sought(n, y)
        BY <1>6 DEF UseInv
      <3> QED
        BY <1>3, <1>4, <1>6, <2>2, <3>1 DEF Sought, Searches
    <2> QED
      BY <2>1, <2>2
  <1> QED
    BY <1>3, <1>4, <1>6, TableStep

(* SendRevRequest may mark the originator's entry, for which this node has *)
(* no traffic if the traffic is one-way.                                   *)
LEMMA SendRevRequestTable ==
  ASSUME IInv, UseInv, NetDiameter > 1, NEW n \in Node, NEW o \in Node,
         <<o, n>> \in Flow, NEW t, SoundTable(t),
         Searches(t) \subseteq Searches(rtab[n]),
         NEW pending, NEW cache, NEW in,
         UNCHANGED <<reqTimer, deferred, queue>>,
         SendRevRequest(n, o, t, pending, cache, in)
  PROVE  UseInv'
  <1> DEFINE ttl == RingTtl(t[o], TtlIncrement, TtlThreshold, NetDiameter)
             e == InSearch(t[o], ttl, NetDiameter)
             s == Update(t, o, e)
  <1>1. SoundTable(s) /\ \A x \in Node \ {o} : s[x] = t[x]
    <2>1. t[o] \in Entry /\ Sound(t[o])
      BY DEF SoundTable, Table
    <2>2. Present(t, o) => e \in Entry /\ Sound(e)
      <3>1. /\ TtlIncrement \in Nat /\ TtlIncrement >= 1
            /\ TtlThreshold \in Nat /\ NetDiameter \in Nat
        BY RaodvAssumption
      <3> QED
        BY <2>1, <3>1, InSearchSound DEF Present
    <2> HIDE DEF e
    <2>3. CASE Present(t, o)
      BY <2>2, <2>3, UpdateSound
    <2>4. CASE ~Present(t, o)
      BY <2>4 DEF Update
    <2> QED
      BY <2>3, <2>4
  <1>2. Searches(s) \subseteq Searches(rtab[n]) \cup {o}
    <2> HIDE DEF s
    <2> QED
      BY <1>1 DEF Searches
  <1>3. PICK u : /\ SoundTable(u) /\ Searches(u) \subseteq Searches(rtab[n]) \cup {o}
                 /\ rtab' = [rtab EXCEPT ![n] = u]
    <2>1. rtab' = [rtab EXCEPT ![n] = t] \/ rtab' = [rtab EXCEPT ![n] = s]
      BY DEF SendRevRequest, FloodRevRequest
    <2> HIDE DEF s
    <2> QED
      BY <1>1, <1>2, <2>1
  <1>4. ASSUME OneWayTraffic, NEW y \in Node, <<n, y>> \in Flow,
               queue'[n][y] > 0 \/ y \in Searches(u)
        PROVE  y \in reqTimer'[n] \/ deferred'[n][y] > 0
    <2>1. y # o
      BY <1>4 DEF OneWayTraffic
    <2>2. Sought(n, y)
      BY <1>4 DEF UseInv
    <2> QED
      BY <1>3, <1>4, <2>1, <2>2 DEF Sought, Searches
  <1> QED
    BY <1>3, <1>4, TableStep

(* The sender's own actions.                                               *)
LEMMA SenderTables ==
  ASSUME IInv, UseInv, TrafficInv, NetDiameter > 1, NEW n \in Node, NEW d \in Node,
         \/ RouteOutput(n, d) \/ DeferredRouteOutput(n, d)
         \/ DeferredRequest(n, d) \/ RouteRequestTimerExpire(n, d)
         \/ DeferredRevRequest(n, d)
  PROVE  UseInv'
  <1> DEFINE t == Purged(rtab[n])
             gone == DeleteRoute(t, d)
  <1>1. /\ SoundTable(t) /\ Searches(t) = Searches(rtab[n])
        /\ SoundTable(gone) /\ Searches(gone) \subseteq Searches(rtab[n]) \ {d}
    <2>1. SoundTable(t) /\ Searches(t) = Searches(rtab[n])
      BY StartsSound
    <2> HIDE DEF t
    <2>2. /\ SoundTable(gone) /\ Searches(gone) \subseteq Searches(t)
          /\ gone[d].flag = "NONE"
      BY <2>1, ShrinkSound
    <2> QED
      BY <2>1, <2>2 DEF Searches
  <1>2. /\ queue \in Count /\ deferred \in Count
        /\ reqTimer \in [Node -> SUBSET Node] /\ reqTimer[n] \in SUBSET Node
        /\ deferredRev[n][d] > 0 => <<d, n>> \in Flow
        /\ \A x, y \in Node : queue[x][y] \in Nat /\ deferred[x][y] \in Nat
    BY TrafficParts
  <1> HIDE DEF gone
  <1>3. ASSUME rtab' = [rtab EXCEPT ![n] = t],
               UNCHANGED <<reqTimer, deferred, queue>>
        PROVE  UseInv'
    <2> HIDE DEF t
    <2> QED
      BY <1>1, <1>3, QuietTable
  <1>4. CASE RouteOutput(n, d)
    BY <1>3, <1>4 DEF RouteOutput
  <1>5. CASE DeferredRouteOutput(n, d)
    <2>1. /\ queue' = Add(queue, n, d)
          /\ \/ SendRequest(n, d, t, deferred, reqTimer[n])
             \/ /\ t[d].flag = "IN_SEARCH"
                /\ rtab' = [rtab EXCEPT ![n] = t]
                /\ UNCHANGED <<reqTimer, deferred>>
          /\ loopback[n][d] > 0
      BY <1>5 DEF DeferredRouteOutput
    <2> HIDE DEF t
    <2>2. \A x, y \in Node : x # n \/ y # d =>
            /\ deferred[x][y] > 0 => deferred[x][y] > 0
            /\ queue'[x][y] > 0 => queue[x][y] > 0
      BY <1>2, <2>1, CountValues
    <2>3. CASE SendRequest(n, d, t, deferred, reqTimer[n])
      BY <1>1, <1>2, <2>2, <2>3, SendRequestTable
    <2>4. CASE /\ t[d].flag = "IN_SEARCH"
               /\ rtab' = [rtab EXCEPT ![n] = t]
               /\ UNCHANGED <<reqTimer, deferred>>
      <3>1. ASSUME OneWayTraffic, NEW y \in Node, <<n, y>> \in Flow,
                   queue'[n][y] > 0 \/ y \in Searches(t)
            PROVE  y \in reqTimer'[n] \/ deferred'[n][y] > 0
        <4>1. Sought(n, y)
          BY <3>1 DEF UseInv
        <4>2. queue[n][y] > 0 \/ y \in Searches(t)
          BY <2>2, <2>4, <3>1 DEF Searches
        <4>3. queue[n][y] > 0 \/ rtab[n][y].flag = "IN_SEARCH"
          BY <1>1, <4>2 DEF Searches
        <4> QED
          BY <2>4, <4>1, <4>3 DEF Sought
      <3> QED
        BY <1>1, <2>2, <2>4, <3>1, TableStep
    <2> QED
      BY <2>1, <2>3, <2>4
  <1>6. CASE DeferredRequest(n, d)
    <2> DEFINE pending == Take(deferred, n, d)
    <2>1. /\ deferred[n][d] > 0 /\ UNCHANGED queue
          /\ SendRequest(n, d, t, pending, reqTimer[n])
      BY <1>6 DEF DeferredRequest
    <2>2. /\ pending \in Count
          /\ \A x, y \in Node : x # n \/ y # d =>
               /\ deferred[x][y] > 0 => pending[x][y] > 0
               /\ queue'[x][y] > 0 => queue[x][y] > 0
      <3>1. pending \in Count
        BY <1>2, <2>1, CountTypes
      <3>2. \A x, y \in Node : x # n \/ y # d => pending[x][y] = deferred[x][y]
        BY <1>2, CountValues
      <3> HIDE DEF pending
      <3> QED
        BY <2>1, <3>1, <3>2
    <2> HIDE DEF pending, t
    <2> QED
      BY <1>1, <1>2, <2>1, <2>2, SendRequestTable
  <1>7. CASE RouteRequestTimerExpire(n, d)
    <2> DEFINE timers == reqTimer[n] \ {d}
    <2>1. \/ /\ UNCHANGED queue
             /\ SendRequest(n, d, t, deferred, timers)
          \/ /\ reqTimer' = [reqTimer EXCEPT ![n] = @ \ {d}]
             /\ queue' = Emptied(queue, n, d) /\ UNCHANGED deferred
             /\ \/ rtab' = [rtab EXCEPT ![n] = t] /\ Valid(t, d)
                \/ rtab' = [rtab EXCEPT ![n] = gone]
      BY <1>7 DEF RouteRequestTimerExpire, StopSearch, gone
    <2> HIDE DEF t
    <2>2. CASE UNCHANGED queue /\ SendRequest(n, d, t, deferred, timers)
      <3>1. /\ timers \in SUBSET Node /\ reqTimer[n] \subseteq timers \cup {d}
            /\ \A x, y \in Node : x # n \/ y # d =>
                 /\ deferred[x][y] > 0 => deferred[x][y] > 0
                 /\ queue'[x][y] > 0 => queue[x][y] > 0
        BY <1>2, <2>2
      <3> HIDE DEF timers
      <3> QED
        BY <1>1, <1>2, <2>2, <3>1, SendRequestTable
    <2>3. CASE /\ reqTimer' = [reqTimer EXCEPT ![n] = @ \ {d}]
               /\ queue' = Emptied(queue, n, d) /\ UNCHANGED deferred
               /\ \/ rtab' = [rtab EXCEPT ![n] = t] /\ Valid(t, d)
                  \/ rtab' = [rtab EXCEPT ![n] = gone]
      <3>1. PICK u : /\ SoundTable(u) /\ Searches(u) \subseteq Searches(rtab[n]) \ {d}
                     /\ rtab' = [rtab EXCEPT ![n] = u]
        <4>1. Valid(t, d) => d \notin Searches(t)
          BY DEF Valid, Searches
        <4> QED
          BY <1>1, <2>3, <4>1
      <3>2. \A x, y \in Node : x # n \/ y # d =>
              /\ queue'[x][y] > 0 => queue[x][y] > 0
              /\ y \in reqTimer[x] => y \in reqTimer'[x]
              /\ deferred[x][y] > 0 => deferred'[x][y] > 0
        BY <1>2, <2>3, CountValues
      <3>3. ASSUME OneWayTraffic, NEW y \in Node, <<n, y>> \in Flow,
                   queue'[n][y] > 0 \/ y \in Searches(u)
            PROVE  y \in reqTimer'[n] \/ deferred'[n][y] > 0
        <4>1. y # d
          <5>1. queue'[n][d] = 0
            BY <1>2, <2>3, CountValues
          <5> QED
            BY <3>1, <3>3, <5>1
        <4>2. Sought(n, y)
          BY <3>3 DEF UseInv
        <4> QED
          BY <3>1, <3>2, <3>3, <4>1, <4>2 DEF Sought, Searches
      <3> QED
        BY <3>1, <3>2, <3>3, TableStep
    <2> QED
      BY <2>1, <2>2, <2>3
  <1>8. CASE DeferredRevRequest(n, d)
    <2> DEFINE pending == Take(deferredRev, n, d)
    <2>1. /\ deferredRev[n][d] > 0 /\ UNCHANGED <<reqTimer, deferred, queue>>
          /\ SendRevRequest(n, d, t, pending, idCache[n], msgs)
      BY <1>8 DEF DeferredRevRequest
    <2> HIDE DEF pending, t
    <2> QED
      BY <1>1, <1>2, <2>1, SendRevRequestTable
  <1> QED
    BY <1>4, <1>5, <1>6, <1>7, <1>8

(* A request arrives.  Its reverse route has one hop only if it comes from *)
(* its originator.                                                         *)
LEMMA RecvRequestTables ==
  ASSUME IInv, UseInv, FloodInv, NetDiameter > 1, NEW m \in msgs, RecvRequest(m)
  PROVE  UseInv'
  <1> DEFINE n == m.to
             h == m.hdr
             t0 == Received(m)
             t1 == RouteToOrigin(t0, h.origin, h.originSeq, h.hop + 1, m.from)
             t == RouteToRreqSender(t1, m.from, h.originSeq)
             u == LinkReplyPrecursors(t, h.dst, h.origin)
             cache == idCache[n] \cup {<<h.origin, h.id>>}
             in == msgs \ {m}
             old == Searches(rtab[n])
  <1>1. n \in Node /\ h \in Header /\ m.from \in Node
    BY ReceivedGood
  <1>2. /\ h.type = "RREQ"
        /\ \/ UNCHANGED deferredRev /\ \E x, out : /\ Handled(m, x, out)
                                                   /\ x = t0 \/ x = t \/ x = u
           \/ SendRevRequest(n, h.origin, t, deferredRev, cache, in) /\ n = h.dst
        /\ UNCHANGED <<reqTimer, deferred, queue>>
    BY DEF RecvRequest
  <1>3. /\ h.origin \in Node /\ h.dst \in Node /\ h.originSeq \in Nat
        /\ h.hop \in Nat
    BY <1>1, <1>2, HeaderFields
  <1>4. /\ <<h.origin, h.dst>> \in Flow
        /\ h.hop = 0 => m.from = h.origin
    BY <1>2 DEF FloodInv, Straight, IsFlood
  <1>5. /\ h.hop + 1 \in Nat /\ h.hop + 1 >= 1
        /\ h.hop + 1 = 1 => h.origin = m.from
    BY <1>3, <1>4
  <1>6. /\ SoundTable(t0) /\ Searches(t0) \subseteq old
        /\ Present(t0, m.from) /\ Real(t0[m.from])
    BY StartsSound
  <1> HIDE DEF n, h, t0
  <1>7. /\ SoundTable(t1) /\ Searches(t1) \subseteq old
        /\ Present(t1, m.from) /\ Real(t1[m.from])
    BY <1>1, <1>3, <1>5, <1>6, RouteToOriginSound
  <1> HIDE DEF t1
  <1>8. SoundTable(t) /\ Searches(t) \subseteq old
    BY <1>1, <1>3, <1>7, SenderRouteSound
  <1> HIDE DEF t
  <1>9. SoundTable(u) /\ Searches(u) \subseteq old
    BY <1>3, <1>8, LinkPrecursorsSound
  <1> HIDE DEF u
  <1>10. ASSUME NEW x, NEW out, Handled(m, x, out), x = t0 \/ x = t \/ x = u
         PROVE  UseInv'
    <2>1. SoundTable(x) /\ Searches(x) \subseteq Searches(rtab[m.to])
      BY <1>6, <1>8, <1>9, <1>10 DEF n
    <2>2. \A y, z \in Node : queue'[y][z] > 0 => queue[y][z] > 0
      BY <1>2
    <2> QED
      BY <1>2, <1>10, <2>1, <2>2, HandledTable
  <1>11. CASE SendRevRequest(n, h.origin, t, deferredRev, cache, in) /\ n = h.dst
    <2> HIDE DEF cache, in
    <2> QED
      BY <1>1, <1>2, <1>3, <1>4, <1>8, <1>11, SendRevRequestTable
  <1> QED
    BY <1>2, <1>10, <1>11

(* A reverse request arrives: packets may leave.                           *)
LEMMA RecvRevRequestTables ==
  ASSUME IInv, UseInv, FloodInv, NEW m \in msgs, RecvRevRequest(m)
  PROVE  UseInv'
  <1> DEFINE n == m.to
             h == m.hdr
             t0 == Received(m)
             there == RouteToReplier(t0, h.origin, h.originSeq, h.hop + 1, m.from)
             onPath == RouteToOrigin(t0, h.origin, h.originSeq, h.hop + 1, m.from)
             old == Searches(rtab[n])
  <1>1. n \in Node /\ h \in Header /\ m.from \in Node
    BY ReceivedGood
  <1>2. /\ h.type = "REV_RREQ"
        /\ \E x, out : /\ Handled(m, x, out)
                       /\ x = t0 \/ x = there \/ x = onPath
        /\ UNCHANGED <<reqTimer, deferred>>
        /\ UNCHANGED queue \/ queue' = Emptied(queue, n, h.origin)
    BY DEF RecvRevRequest
  <1>3. h.origin \in Node /\ h.originSeq \in Nat /\ h.hop \in Nat
    BY <1>1, <1>2, HeaderFields
  <1>4. h.hop = 0 => m.from = h.origin
    BY <1>2 DEF FloodInv, Straight, IsFlood
  <1>5. /\ h.hop + 1 \in Nat /\ h.hop + 1 >= 1
        /\ h.hop + 1 = 1 => h.origin = m.from
    BY <1>3, <1>4
  <1>6. /\ SoundTable(t0) /\ Searches(t0) \subseteq old
        /\ Present(t0, m.from) /\ Real(t0[m.from])
    BY StartsSound
  <1> HIDE DEF n, h, t0
  <1>7. SoundTable(onPath) /\ Searches(onPath) \subseteq old
    BY <1>1, <1>3, <1>5, <1>6, RouteToOriginSound
  <1>8. SoundTable(there) /\ Searches(there) \subseteq old
    BY <1>1, <1>3, <1>5, <1>6, RouteToReplierSound
  <1> HIDE DEF there, onPath
  <1>9. \A y, z \in Node : queue'[y][z] > 0 => queue[y][z] > 0
    <2>1. queue \in Count
      BY Parts DEF RestOK
    <2> QED
      BY <1>1, <1>2, <1>3, <2>1, CountPositive
  <1>10. ASSUME NEW x, NEW out, Handled(m, x, out),
                x = t0 \/ x = there \/ x = onPath
         PROVE  UseInv'
    <2>1. SoundTable(x) /\ Searches(x) \subseteq Searches(rtab[m.to])
      BY <1>6, <1>7, <1>8, <1>10 DEF n
    <2> QED
      BY <1>2, <1>9, <1>10, <2>1, HandledTable
  <1> QED
    BY <1>2, <1>10

(* The routes of a reply at its destination and on its way: the second     *)
(* entry, which ends a search, is VALID.                                   *)
LEMMA ReplyRoutes ==
  ASSUME NEW t0, SoundTable(t0), NEW d \in Node, NEW s \in Nat, NEW hop \in Nat,
         NEW from \in Node
  PROVE  LET t == ForwardRoute(t0, d, s, hop + 1, from)
             found == Update(t, d, NewEntry(TRUE, s, hop + 1, from))
         IN  /\ SoundTable(t) /\ Searches(t) \subseteq Searches(t0)
             /\ SoundTable(found) /\ Searches(found) \subseteq Searches(t0)
             /\ Present(t0, d) => d \notin Searches(found)
  <1> DEFINE k == hop + 1
             t == ForwardRoute(t0, d, s, k, from)
             fresh == NewEntry(TRUE, s, k, from)
             found == Update(t, d, fresh)
  <1>1. k \in Nat /\ k >= 1
    OBVIOUS
  <1> HIDE DEF k
  <1>2. /\ SoundTable(t) /\ Searches(t) \subseteq Searches(t0)
        /\ Present(t0, d) => Update(t0, d, fresh)[d].flag = "VALID"
    BY <1>1, ForwardRouteSound
  <1>3. Present(t0, d) => Present(t, d)
    <2>1. Present(t0, d) => t = t0 \/ t = Update(t0, d, fresh)
      BY DEF ForwardRoute
    <2> HIDE DEF t, fresh
    <2> QED
      BY <1>2, <2>1 DEF Present
  <1> HIDE DEF t
  <1>4. /\ SoundTable(found) /\ Searches(found) \subseteq Searches(t)
        /\ Present(t, d) => found[d].flag = "VALID"
    BY <1>1, <1>2, ForwardRouteSound
  <1>5. Present(t0, d) => d \notin Searches(found)
    BY <1>3, <1>4 DEF Searches
  <1> QED
    BY <1>2, <1>4, <1>5 DEF k, t

(* A reply arrives.  The search it ends has a VALID route, and packets     *)
(* leave; on the path it only settles routes.                              *)
LEMMA RecvReplyTables ==
  ASSUME IInv, UseInv, NEW m \in msgs, RecvReply(m)
  PROVE  UseInv'
  <1> DEFINE n == m.to
             h == m.hdr
             t0 == Received(m)
             t == ForwardRoute(t0, h.dst, h.dstSeq, h.hop + 1, m.from)
             fresh == NewEntry(TRUE, h.dstSeq, h.hop + 1, m.from)
             found == Update(t, h.dst, fresh)
             t1 == Update(t, h.origin, [t[h.origin] EXCEPT !.live = TRUE])
             t2 == LinkPrecursors(t1, h.dst, h.origin)
             searching == t0[h.dst].flag = "IN_SEARCH"
             old == Searches(rtab[n])
  <1>1. n \in Node /\ h \in Header /\ m.from \in Node
    BY ReceivedGood
  <1>2. h.type = "RREP" /\ UNCHANGED deferred
        /\ (ReplyArrives(m, t) \/ ReplyPasses(m, t))
    BY DEF RecvReply
  <1>3. h.dst \in Node /\ h.origin \in Node /\ h.dstSeq \in Nat /\ h.hop \in Nat
    BY <1>1, <1>2, HeaderFields
  <1>4. SoundTable(t0) /\ Searches(t0) \subseteq old
    BY StartsSound
  <1>5. queue \in Count /\ reqTimer \in [Node -> SUBSET Node]
    BY Parts DEF RestOK
  <1>6. ReplyArrives(m, t) =>
          \E out : /\ Handled(m, IF searching THEN found ELSE t, out)
                   /\ queue' = Emptied(queue, n, h.dst)
                   /\ reqTimer' = [reqTimer EXCEPT ![n] =
                                     IF searching THEN @ \ {h.dst} ELSE @]
    BY DEF ReplyArrives
  <1>7. ReplyPasses(m, t) =>
          /\ UNCHANGED <<queue, reqTimer>>
          /\ \E x, out : Handled(m, x, out) /\ (x = t \/ x = t1 \/ x = t2)
    BY DEF ReplyPasses
  <1> HIDE DEF n, h, t0
  <1>8. /\ SoundTable(t) /\ Searches(t) \subseteq old
        /\ SoundTable(found) /\ Searches(found) \subseteq old
        /\ searching => h.dst \notin Searches(found)
    <2>1. /\ SoundTable(t) /\ Searches(t) \subseteq Searches(t0)
          /\ SoundTable(found) /\ Searches(found) \subseteq Searches(t0)
          /\ Present(t0, h.dst) => h.dst \notin Searches(found)
      BY <1>1, <1>3, <1>4, ReplyRoutes
    <2>2. searching => Present(t0, h.dst)
      BY DEF Present
    <2> HIDE DEF t, found, searching
    <2> QED
      BY <1>4, <2>1, <2>2
  <1> HIDE DEF t, found, searching
  <1>9. SoundTable(t1) /\ Searches(t1) \subseteq old
    <2>1. t[h.origin] \in Entry /\ Sound(t[h.origin]) /\ h.origin \in Address
      BY <1>3, <1>8 DEF SoundTable, Table, Address
    <2> QED
      BY <1>3, <1>8, <2>1, UpdatePrecursorSound
  <1> HIDE DEF t1
  <1>10. SoundTable(t2) /\ Searches(t2) \subseteq old
    BY <1>3, <1>9, LinkPrecursorsSound
  <1> HIDE DEF t2
  <1>11. ASSUME NEW x, NEW out, Handled(m, x, out), SoundTable(x),
                Searches(x) \subseteq old, UNCHANGED reqTimer,
                UNCHANGED queue \/ queue' = Emptied(queue, n, h.dst)
         PROVE  UseInv'
    <2>1. \A y, z \in Node : queue'[y][z] > 0 => queue[y][z] > 0
      BY <1>1, <1>3, <1>5, <1>11, CountPositive
    <2> QED
      BY <1>2, <1>11, <2>1, HandledTable DEF n
  <1>12. CASE ReplyPasses(m, t)
    BY <1>7, <1>8, <1>9, <1>10, <1>11, <1>12
  <1>13. CASE ReplyArrives(m, t) /\ ~searching
    BY <1>5, <1>6, <1>8, <1>11, <1>13
  <1>14. CASE ReplyArrives(m, t) /\ searching
    <2>1. /\ rtab' = [rtab EXCEPT ![n] = found]
          /\ queue' = Emptied(queue, n, h.dst)
          /\ reqTimer' = [reqTimer EXCEPT ![n] = @ \ {h.dst}]
      BY <1>6, <1>14 DEF Handled, n
    <2>2. \A x, y \in Node : x # n \/ y # h.dst =>
            /\ queue'[x][y] > 0 => queue[x][y] > 0
            /\ y \in reqTimer[x] => y \in reqTimer'[x]
            /\ deferred[x][y] > 0 => deferred'[x][y] > 0
      BY <1>1, <1>2, <1>3, <1>5, <2>1, CountValues
    <2>3. ASSUME OneWayTraffic, NEW y \in Node, <<n, y>> \in Flow,
                 queue'[n][y] > 0 \/ y \in Searches(found)
          PROVE  y \in reqTimer'[n] \/ deferred'[n][y] > 0
      <3>1. y # h.dst
        <4>1. queue'[n][h.dst] = 0
          BY <1>1, <1>3, <1>5, <2>1, CountValues
        <4> QED
          BY <1>8, <1>14, <2>3, <4>1
      <3>2. Sought(n, y)
        BY <1>1, <2>3 DEF UseInv
      <3> QED
        BY <1>1, <1>8, <2>2, <2>3, <3>1, <3>2 DEF Sought, Searches
    <2> QED
      BY <1>1, <1>8, <2>1, <2>2, <2>3, TableStep
  <1> QED
    BY <1>2, <1>12, <1>13, <1>14

(* The other messages mark nothing, and no packet leaves the buffer.       *)
LEMMA QuietHandlerTables ==
  ASSUME IInv, UseInv, FloodInv, NEW m \in msgs,
         ProcessHello(m) \/ RecvReplyAck(m) \/ RecvError(m) \/ RouteInput(m)
  PROVE  UseInv'
  <1> DEFINE n == m.to
             h == m.hdr
             t == Received(m)
             old == Searches(rtab[n])
  <1>1. n \in Node /\ h \in Header /\ m.from \in Node
    BY ReceivedGood
  <1>2. UNCHANGED <<queue, reqTimer, deferred>>
    BY DEF ProcessHello, RecvReplyAck, RecvError, RouteInput
  <1>3. /\ SoundTable(t) /\ Searches(t) \subseteq old
        /\ Present(t, m.from) /\ Real(t[m.from])
        /\ SoundTable(Purged(rtab[n])) /\ Searches(Purged(rtab[n])) \subseteq old
        /\ SoundTable(rtab[n])
    BY <1>1, StartsSound
  <1>4. ASSUME NEW x, NEW out, Handled(m, x, out), SoundTable(x),
               Searches(x) \subseteq old
        PROVE  UseInv'
    <2>1. \A y, z \in Node : queue'[y][z] > 0 => queue[y][z] > 0
      BY <1>2
    <2> QED
      BY <1>2, <1>4, <2>1, HandledTable
  <1>5. CASE ProcessHello(m)
    <2>1. /\ h.type = "RREP" /\ h.dst = h.origin
          /\ \E out : Handled(m, RouteFromHello(t, h.dst, h.dstSeq), out)
      BY <1>5 DEF ProcessHello
    <2>2. h.dst = m.from
      BY <2>1 DEF FloodInv, Straight
    <2>3. h.dstSeq \in Nat
      BY <1>1, <2>1, HeaderFields
    <2> HIDE DEF h, t, n
    <2>4. /\ SoundTable(RouteFromHello(t, h.dst, h.dstSeq))
          /\ Searches(RouteFromHello(t, h.dst, h.dstSeq)) \subseteq old
      BY <1>1, <1>3, <2>2, <2>3, SenderRouteSound
    <2> QED
      BY <1>4, <2>1, <2>4
  <1>6. CASE RecvReplyAck(m)
    <2>1. \E out : Handled(m, RouteAcked(t, m.from), out)
      BY <1>6 DEF RecvReplyAck
    <2> HIDE DEF t, n
    <2>2. 0 \in Nat
      OBVIOUS
    <2>3. /\ SoundTable(RouteAcked(t, m.from))
          /\ Searches(RouteAcked(t, m.from)) \subseteq old
      BY <1>1, <1>3, <2>2, SenderRouteSound
    <2> QED
      BY <1>4, <2>1, <2>3
  <1>7. CASE RecvError(m)
    <2> DEFINE D == h.unreachable \cap DestinationsWithNextHop(t, m.from)
    <2>1. \E out : Handled(m, InvalidateRoutesWithDst(t, D), out)
      BY <1>7 DEF RecvError
    <2> HIDE DEF t, n, D
    <2>2. /\ SoundTable(InvalidateRoutesWithDst(t, D))
          /\ Searches(InvalidateRoutesWithDst(t, D)) \subseteq old
      BY <1>3, ShrinkSound
    <2> QED
      BY <1>4, <2>1, <2>2
  <1>8. CASE RouteInput(m)
    <2> DEFINE p == Purged(rtab[n])
    <2>1. \E x, out : Handled(m, x, out) /\ (x = rtab[n] \/ x = p)
      BY <1>8 DEF RouteInput
    <2>2. Searches(rtab[n]) \subseteq old
      OBVIOUS
    <2> HIDE DEF t, n
    <2> QED
      BY <1>3, <1>4, <2>1, <2>2
  <1> QED
    BY <1>5, <1>6, <1>7, <1>8

(* Broken links, lapsed routes and the timers.                             *)
LEMMA BackgroundTables ==
  ASSUME IInv, UseInv, NEW n \in Node,
         \/ RreqRateLimitTimerExpire(n) \/ RerrRateLimitTimerExpire(n)
         \/ HelloTimerExpire(n)
         \/ \E d \in Node : \/ SendRerrWhenBreaksLinkToNextHop(n, d)
                            \/ Lapse(n, d) \/ LinkBreaks(n, d)
  PROVE  UseInv'
  <1>1. UNCHANGED <<queue, reqTimer, deferred>>
    BY DEF RreqRateLimitTimerExpire, RerrRateLimitTimerExpire, HelloTimerExpire,
       SendRerrWhenBreaksLinkToNextHop, Lapse, LinkBreaks, nodeVars
  <1>2. CASE UNCHANGED rtab
    BY <1>1, <1>2 DEF UseInv, Sought
  <1>3. ASSUME NEW u, SoundTable(u), Searches(u) \subseteq Searches(rtab[n]),
               rtab' = [rtab EXCEPT ![n] = u]
        PROVE  UseInv'
    BY <1>1, <1>3, QuietTable
  <1>4. ASSUME NEW d \in Node, SendRerrWhenBreaksLinkToNextHop(n, d)
        PROVE  UseInv'
    <2> DEFINE t == Purged(rtab[n])
               D == {d} \cup DestinationsWithNextHop(t, d)
               u == InvalidateRoutesWithDst(t, D)
    <2>1. rtab' = [rtab EXCEPT ![n] = u] \/ rtab' = [rtab EXCEPT ![n] = t]
      BY <1>4 DEF SendRerrWhenBreaksLinkToNextHop
    <2>2. SoundTable(t) /\ Searches(t) \subseteq Searches(rtab[n])
      BY StartsSound
    <2> HIDE DEF t, D
    <2>3. SoundTable(u) /\ Searches(u) \subseteq Searches(rtab[n])
      BY <2>2, ShrinkSound
    <2> HIDE DEF u
    <2> QED
      BY <1>3, <2>1, <2>2, <2>3
  <1>5. ASSUME NEW d \in Node, Lapse(n, d) PROVE UseInv'
    <2> DEFINE u == [rtab[n] EXCEPT ![d].live = FALSE]
    <2>1. rtab' = [rtab EXCEPT ![n] = u]
      BY <1>5, Parts DEF Lapse, TablesOK
    <2>2. SoundTable(rtab[n])
      BY StartsSound
    <2>3. u = [rtab[n] EXCEPT ![d] = [@ EXCEPT !.live = FALSE]]
      BY <2>2 DEF SoundTable, Table
    <2>4. ASSUME NEW x \in Node
          PROVE  u[x] \in Entry /\ Sound(u[x]) /\ u[x].flag = rtab[n][x].flag
      <3>1. rtab[n][x] \in Entry /\ Sound(rtab[n][x])
        BY <2>2 DEF SoundTable, Table
      <3>2. u[x] = rtab[n][x] \/ u[x] = [rtab[n][x] EXCEPT !.live = FALSE]
        BY <2>2, <2>3 DEF SoundTable, Table
      <3> HIDE DEF u
      <3> QED
        BY <3>1, <3>2 DEF Entry, Sound, Real
    <2>5. u \in Table
      BY <2>2, <2>3, <2>4 DEF SoundTable, Table
    <2> HIDE DEF u
    <2>6. SoundTable(u) /\ Searches(u) \subseteq Searches(rtab[n])
      BY <2>4, <2>5 DEF SoundTable, Searches
    <2> QED
      BY <1>3, <2>1, <2>6
  <1> QED
    BY <1>2, <1>4, <1>5 DEF RreqRateLimitTimerExpire, RerrRateLimitTimerExpire,
       HelloTimerExpire, LinkBreaks, nodeVars

(* Every step keeps the tables sound and what is sought sought.            *)
LEMMA NextTables ==
  ASSUME NetDiameter > 1, IInv, FloodInv, TrafficInv, UseInv, [Next]_vars
  PROVE  UseInv'
  <1>1. ASSUME NEW m \in msgs,
               \/ RecvRequest(m) \/ RecvRevRequest(m) \/ RecvReply(m)
               \/ ProcessHello(m) \/ RecvReplyAck(m) \/ RecvError(m)
               \/ RouteInput(m)
        PROVE  UseInv'
    BY <1>1, RecvRequestTables, RecvRevRequestTables, RecvReplyTables,
       QuietHandlerTables
  <1>2. ASSUME NEW n \in Node,
               \/ RreqRateLimitTimerExpire(n) \/ RerrRateLimitTimerExpire(n)
               \/ HelloTimerExpire(n)
        PROVE  UseInv'
    BY <1>2, BackgroundTables
  <1>3. ASSUME NEW n \in Node, NEW d \in Node,
               \/ RouteOutput(n, d) \/ DeferredRouteOutput(n, d)
               \/ DeferredRequest(n, d) \/ DeferredRevRequest(n, d)
               \/ RouteRequestTimerExpire(n, d)
        PROVE  UseInv'
    BY <1>3, SenderTables
  <1>4. ASSUME NEW n \in Node, NEW d \in Node,
               \/ SendRerrWhenBreaksLinkToNextHop(n, d)
               \/ Lapse(n, d) \/ LinkBreaks(n, d)
        PROVE  UseInv'
    BY <1>4, BackgroundTables
  <1>5. CASE UNCHANGED vars
    BY <1>5 DEF vars, UseInv, Sought, OneWayTraffic
  <1> QED
    BY <1>1, <1>2, <1>3, <1>4, <1>5 DEF Next

(* At the start there is no entry and nothing is buffered.                 *)
LEMMA InitTables == Init => UseInv
  <1> SUFFICES ASSUME Init PROVE UseInv
    OBVIOUS
  <1>1. SoundTable(EmptyTable) /\ \A d \in Node : EmptyTable[d].flag = "NONE"
    BY NewEntrySound, EmptyTableType DEF EmptyTable, SoundTable
  <1> QED
    BY <1>1 DEF Init, UseInv, Sought, NoPackets

(* The tables are sound for ever.                                          *)
LEMMA UseInvariance == NetDiameter > 1 => (Spec => [](IInv /\ TrafficInv /\ UseInv))
  <1> SUFFICES ASSUME NetDiameter > 1
               PROVE  Spec => [](IInv /\ TrafficInv /\ UseInv)
    OBVIOUS
  <1>1. IInv /\ FloodInv /\ TrafficInv /\ UseInv /\ [Next]_vars => UseInv'
    BY NextTables
  <1> QED
    BY <1>1, FloodInvariance, InitTables, PTL DEF Spec

(* A VALID route has a next hop, a source address and an interface, if the *)
(* network is configured wider than one hop.  In one of a single hop TLC   *)
(* finds it false: a repeated search marks an entry with one hop whose     *)
(* sequence number RecvRequest has filled in, UpdateRouteToNeighbor leaves *)
(* it alone, and a hello makes it VALID with no source address.            *)
THEOREM ValidRoutesUsable == NetDiameter > 1 => (Spec => []ValidRouteIsUsable)
  <1>1. IInv /\ UseInv => ValidRouteIsUsable
    BY DEF UseInv, SoundTable, Sound, Real, ValidRouteIsUsable
  <1> QED
    BY <1>1, UseInvariance, PTL

(* While packets are buffered their destination is searched for: a retry   *)
(* timer runs or a put-off request will start one, if no two nodes send to *)
(* each other.  (The other hypothesis is that of the sound tables, which   *)
(* the argument uses to say what every handler marks.)                     *)
THEOREM BufferedSought ==
  NetDiameter > 1 /\ OneWayTraffic => (Spec => []BufferedIsSought)
  <1> SUFFICES ASSUME NetDiameter > 1, OneWayTraffic PROVE Spec => []BufferedIsSought
    OBVIOUS
  <1>1. IInv /\ TrafficInv /\ UseInv => BufferedIsSought
    BY TrafficParts DEF UseInv, Sought, BufferedIsSought
  <1> QED
    BY <1>1, UseInvariance, PTL

-----------------------------------------------------------------------------
(***************************************************************************)
(* No loops where the radio links make no circle.  There every node has    *)
(* one way towards each destination, Up[d][n].  Whatever requests, replies *)
(* and hellos cross each other, break or come twice, a next hop is on that *)
(* way: a flood that a node acts on comes from its originator's side, and  *)
(* a reply from its destination's side.                                    *)
(***************************************************************************)
Up == [d \in Node |-> CHOOSE up \in [Node -> Node] : Leads(d, up, Link0)]

Home(n) == [d \in Node \ {n} |-> Up[d][n]]

AtHome(n, t) == KeepsWay(t, Home(n))

(* A copy of a flood that comes to a node from elsewhere than the side of  *)
(* its originator finds it noted already, and a reverse request does not   *)
(* come back from the node it is for.                                      *)
FloodOutward(m, cache) ==
  /\ Name(m) \in cache[m.from]
  /\ \/ m.to # m.hdr.origin /\ Up[m.hdr.origin][m.to] = m.from
     \/ Name(m) \in cache[m.to] /\ (m.hdr.type = "REV_RREQ" => m.to # m.hdr.dst)
  /\ m.hdr.type = "REV_RREQ" => m.from # m.hdr.dst

(* A reply moves away from its destination, and not on the spot back to    *)
(* where it came from.                                                     *)
ReplyOutward(m) ==
  /\ m.to # m.hdr.dst /\ Up[m.hdr.dst][m.to] = m.from
  /\ m.to # m.hdr.origin => Up[m.hdr.origin][m.to] # m.from

Outward(m, cache) ==
  /\ <<m.from, m.to>> \in Link0
  /\ IsFlood(m) => FloodOutward(m, cache)
  /\ m.hdr.type = "RREP" /\ m.hdr.dst # m.hdr.origin => ReplyOutward(m)

ForestInv ==
  /\ links \subseteq Link0
  /\ \A n \in Node : AtHome(n, rtab[n])
  /\ \A m \in msgs : Outward(m, idCache)

(* The chosen way towards a destination is one that leads there.           *)
LEMMA UpLeads ==
  ASSUME Forest(Link0), NEW d \in Node
  PROVE  Up[d] \in [Node -> Node] /\ Leads(d, Up[d], Link0)
  <1> DEFINE c == CHOOSE up \in [Node -> Node] : Leads(d, up, Link0)
  <1>1. \E up \in [Node -> Node] : Leads(d, up, Link0)
    BY DEF Forest
  <1>2. c \in [Node -> Node] /\ Leads(d, c, Link0)
    BY <1>1
  <1>3. Up[d] = c
    BY DEF Up
  <1> QED
    BY <1>2, <1>3

(* The ways of a forest: one of the ends of a link is nearer, of a link to *)
(* the destination the other one, and no two nodes choose each other.      *)
LEMMA Ways ==
  ASSUME Forest(Link0)
  PROVE  /\ \A d, n \in Node : Up[d][n] \in Node
         /\ \A d, n, x \in Node :
              <<n, x>> \in Link0 => \/ n # d /\ Up[d][n] = x
                                    \/ x # d /\ Up[d][x] = n
         /\ \A d, n \in Node : <<n, d>> \in Link0 => n # d /\ Up[d][n] = d
         /\ \A d, n, x \in Node :
              n # d /\ x # d /\ Up[d][n] = x => Up[d][x] # n
  <1>1. \A d, n \in Node : Up[d][n] \in Node
    BY UpLeads
  <1>2. ASSUME NEW d \in Node, NEW n \in Node, NEW x \in Node, <<n, x>> \in Link0
        PROVE  \/ n # d /\ Up[d][n] = x
               \/ x # d /\ Up[d][x] = n
    <2> DEFINE p == <<n, x>>
    <2>1. p \in Link0 /\ p[1] = n /\ p[2] = x
      BY <1>2
    <2> HIDE DEF p
    <2> QED
      BY <2>1, UpLeads DEF Leads
  <1>3. ASSUME NEW d \in Node, NEW n \in Node, <<n, d>> \in Link0
        PROVE  n # d /\ Up[d][n] = d
    <2>1. n # d
      BY <1>3, RaodvAssumption
    <2> QED
      BY <1>2, <1>3, <2>1
  <1>4. ASSUME NEW d \in Node, NEW n \in Node, NEW x \in Node, n # d, x # d,
               Up[d][n] = x
        PROVE  Up[d][x] # n
    <2> DEFINE S == {n, x}
    <2>1. S \in (SUBSET Node) \ {{}}
      OBVIOUS
    <2>2. PICK y \in S : y = d \/ Up[d][y] \notin S
      BY <2>1, UpLeads DEF Leads
    <2> QED
      BY <1>4, <2>2
  <1> QED
    BY <1>1, <1>2, <1>3, <1>4

(* A node between two destinations that lie in different directions: what  *)
(* it sends towards the one moves away from the other.                     *)
LEMMA Turning ==
  ASSUME Forest(Link0), NEW a \in Node, NEW b \in Node, NEW n \in Node,
         NEW x \in Node, <<n, x>> \in Link0, n # a, n # b,
         Up[a][n] # x, Up[b][n] = x
  PROVE  x # a /\ Up[a][x] = n /\ (x # b => Up[b][x] # n)
  <1>1. x # a /\ Up[a][x] = n
    BY Ways
  <1>2. x # b => Up[b][x] # n
    BY Ways
  <1> QED
    BY <1>1, <1>2

-----------------------------------------------------------------------------
(* What keeps the next hops of node n on the way.                          *)
LEMMA HomeWay ==
  ASSUME Forest(Link0), NEW n \in Node
  PROVE  /\ Home(n) \in [Node \ {n} -> Node]
         /\ \A d \in Node \ {n} : Home(n)[d] = Up[d][n]
  BY Ways DEF Home

(* What a node writes of the neighbour it hears keeps it on the way, and   *)
(* that neighbour's entry has a next hop.                                  *)
LEMMA HomeNeighbor ==
  ASSUME Forest(Link0), NEW n \in Node, NEW t, AtHome(n, t),
         NEW from \in Node, <<n, from>> \in Link0, NEW s \in Nat
  PROVE  /\ AtHome(n, UpdateRouteToNeighbor(t, from))
         /\ UpdateRouteToNeighbor(t, from)[from].nextHop \in Node
         /\ AtHome(n, RouteToRreqSender(t, from, s))
         /\ AtHome(n, RouteFromHello(t, from, s))
         /\ t[from].nextHop \in Node => AtHome(n, RouteAcked(t, from))
  <1> DEFINE D == Node \ {n}
             way == Home(n)
  <1>1. /\ D \in SUBSET Node /\ way \in [D -> Node] /\ from \in D
        /\ way[from] = from /\ KeepsWay(t, way)
    <2>1. from # n /\ Up[from][n] = from
      BY Ways
    <2>2. D \in SUBSET Node /\ way \in [D -> Node] /\ KeepsWay(t, way)
      BY HomeWay DEF AtHome
    <2>3. from \in D /\ way[from] = from
      BY <2>1, HomeWay
    <2> QED
      BY <2>2, <2>3
  <1> HIDE DEF D, way
  <1>2. /\ KeepsWay(UpdateRouteToNeighbor(t, from), way)
        /\ UpdateRouteToNeighbor(t, from)[from].nextHop \in Node
        /\ KeepsWay(RouteToRreqSender(t, from, s), way)
        /\ KeepsWay(RouteFromHello(t, from, s), way)
    BY <1>1, NeighborWay
  <1>3. t[from].nextHop \in Node => KeepsWay(RouteAcked(t, from), way)
    BY <1>1, AckedWay
  <1> QED
    BY <1>2, <1>3 DEF AtHome, way

(* What a node learns of d from the side of d keeps it on the way.         *)
LEMMA HomeLearned ==
  ASSUME Forest(Link0), NEW n \in Node, NEW t, AtHome(n, t),
         NEW d \in Node, NEW from \in Node, d # n => Up[d][n] = from,
         NEW s \in Nat, NEW hop \in Nat
  PROVE  /\ AtHome(n, RouteToOrigin(t, d, s, hop, from))
         /\ AtHome(n, RouteToReplier(t, d, s, hop, from))
         /\ AtHome(n, ForwardRoute(t, d, s, hop, from))
         /\ AtHome(n, Update(t, d, NewEntry(TRUE, s, hop, from)))
  <1> DEFINE D == Node \ {n}
             way == Home(n)
  <1>1. /\ D \in SUBSET Node /\ way \in [D -> Node]
        /\ d \in D => way[d] = from
        /\ KeepsWay(t, way)
    BY HomeWay DEF AtHome
  <1> HIDE DEF D, way
  <1>2. /\ KeepsWay(RouteToOrigin(t, d, s, hop, from), way)
        /\ KeepsWay(RouteToReplier(t, d, s, hop, from), way)
        /\ KeepsWay(ForwardRoute(t, d, s, hop, from), way)
        /\ KeepsWay(Update(t, d, NewEntry(TRUE, s, hop, from)), way)
    BY <1>1, LearnedWay
  <1> QED
    BY <1>2 DEF AtHome, way

(* So do purging, deleting, invalidating, searching, noting precursors and *)
(* a changed lifetime.                                                     *)
LEMMA HomeKept ==
  ASSUME Forest(Link0), NEW n \in Node, NEW t, AtHome(n, t)
  PROVE  /\ AtHome(n, Purged(t))
         /\ \A d \in Node : AtHome(n, DeleteRoute(t, d))
         /\ \A C : AtHome(n, InvalidateRoutesWithDst(t, C))
         /\ \A d, o \in Node : /\ AtHome(n, LinkPrecursors(t, d, o))
                               /\ AtHome(n, LinkReplyPrecursors(t, d, o))
         /\ \A d \in Node, ttl, k \in Nat :
              /\ AtHome(n, Update(t, d, InSearch(t[d], ttl, k)))
              /\ AtHome(n, AddRoute(t, d, DummyEntry(ttl, k)))
         /\ \A d \in Node, b \in BOOLEAN :
              /\ AtHome(n, Update(t, d, [t[d] EXCEPT !.live = b]))
              /\ AtHome(n, [t EXCEPT ![d] = [@ EXCEPT !.live = b]])
  <1> DEFINE D == Node \ {n}
             way == Home(n)
  <1>1. D \in SUBSET Node /\ way \in [D -> Node] /\ KeepsWay(t, way)
    BY HomeWay DEF AtHome
  <1> HIDE DEF D, way
  <1>2. /\ KeepsWay(Purged(t), way)
        /\ \A d \in Node : KeepsWay(DeleteRoute(t, d), way)
        /\ \A C : KeepsWay(InvalidateRoutesWithDst(t, C), way)
    BY <1>1, ShrinkWay
  <1>3. \A d, o \in Node : /\ KeepsWay(LinkPrecursors(t, d, o), way)
                           /\ KeepsWay(LinkReplyPrecursors(t, d, o), way)
    BY <1>1, PrecursorsWay
  <1>4. \A d \in Node, ttl, k \in Nat :
          /\ KeepsWay(Update(t, d, InSearch(t[d], ttl, k)), way)
          /\ KeepsWay(AddRoute(t, d, DummyEntry(ttl, k)), way)
    BY <1>1, SearchWay
  <1>5. ASSUME NEW d \in Node, NEW b \in BOOLEAN
        PROVE  /\ KeepsWay(Update(t, d, [t[d] EXCEPT !.live = b]), way)
               /\ KeepsWay([t EXCEPT ![d] = [@ EXCEPT !.live = b]], way)
    <2> DEFINE e == [t[d] EXCEPT !.live = b]
    <2>1. t \in Table /\ t[d] \in Entry /\ (d \in D => OnWay(t[d], way[d]))
      BY <1>1 DEF KeepsWay, Table
    <2>2. e \in Entry
      BY <2>1 DEF Entry
    <2>3. d \in D => OnWay(e, way[d])
      BY <2>1, EntryWay
    <2>4. [t EXCEPT ![d] = [@ EXCEPT !.live = b]] = [t EXCEPT ![d] = e]
      BY <2>1 DEF Table
    <2> HIDE DEF e
    <2>5. KeepsWay(Update(t, d, e), way) /\ KeepsWay([t EXCEPT ![d] = e], way)
      BY <1>1, <2>2, <2>3, UpdateWay
    <2> QED
      BY <2>4, <2>5 DEF e
  <1> QED
    BY <1>2, <1>3, <1>4, <1>5 DEF AtHome, way

-----------------------------------------------------------------------------
(* What is on the radio goes over a link of the forest.                    *)
LEMMA RadioLinks ==
  ASSUME links \subseteq Link0, NEW n \in Node, NEW ttl, NEW h
  PROVE  /\ \A m \in Broadcast(n, ttl, h) :
              m.from = n /\ m.hdr = h /\ m.to \in Node /\ <<n, m.to>> \in Link0
         /\ \A x : \A m \in Unicast(n, x, ttl, h) :
              m.from = n /\ m.hdr = h /\ m.to = x /\ x \in Node /\ <<n, x>> \in Link0
  <1>1. \A x \in Neighbors(n) : x \in Node /\ <<n, x>> \in Link0
    BY DEF Neighbors
  <1>2. ASSUME NEW m \in Broadcast(n, ttl, h)
        PROVE  m.from = n /\ m.hdr = h /\ m.to \in Node /\ <<n, m.to>> \in Link0
    <2>1. PICK x \in Neighbors(n) : m = [from |-> n, to |-> x, ttl |-> ttl, hdr |-> h]
      BY DEF Broadcast
    <2>2. m.from = n /\ m.hdr = h /\ m.to = x
      BY <2>1
    <2> QED
      BY <1>1, <2>2
  <1>3. ASSUME NEW x, NEW m \in Unicast(n, x, ttl, h)
        PROVE  /\ m.from = n /\ m.hdr = h /\ m.to = x
               /\ x \in Node /\ <<n, x>> \in Link0
    <2>1. PICK y \in Neighbors(n) \cap {x} :
            m = [from |-> n, to |-> y, ttl |-> ttl, hdr |-> h]
      BY DEF Unicast
    <2>2. m.from = n /\ m.hdr = h /\ m.to = y /\ y = x /\ y \in Neighbors(n)
      BY <2>1
    <2> QED
      BY <1>1, <2>2
  <1> QED
    BY <1>2, <1>3

(* Data, errors and acknowledgments say nothing of routes.                 *)
LEMMA PlainOutward ==
  ASSUME links \subseteq Link0, NEW n \in Node, NEW cache, NEW ttl, NEW h,
         h.type \notin {"RREQ", "REV_RREQ"}, h.type = "RREP" => h.dst = h.origin
  PROVE  /\ \A m \in Broadcast(n, ttl, h) : Outward(m, cache)
         /\ \A x : \A m \in Unicast(n, x, ttl, h) : Outward(m, cache)
  <1>1. \A m : m.hdr = h /\ <<m.from, m.to>> \in Link0 => Outward(m, cache)
    BY DEF Outward, IsFlood
  <1>2. ASSUME NEW m \in Broadcast(n, ttl, h) PROVE Outward(m, cache)
    <2>1. m.from = n /\ m.hdr = h /\ <<n, m.to>> \in Link0
      BY RadioLinks
    <2> QED
      BY <1>1, <2>1
  <1>3. ASSUME NEW x, NEW m \in Unicast(n, x, ttl, h) PROVE Outward(m, cache)
    <2>1. m.from = n /\ m.hdr = h /\ m.to = x /\ <<n, x>> \in Link0
      BY RadioLinks
    <2> QED
      BY <1>1, <2>1
  <1> QED
    BY <1>2, <1>3

(* The data a node sends, forwarded or from its queue.                     *)
LEMMA DataOutward ==
  ASSUME links \subseteq Link0, NEW n \in Node, NEW cache, NEW d, NEW e
  PROVE  /\ \A m \in Data(n, d, e) : Outward(m, cache)
         /\ \A m \in FromQueue(n, d, e) : Outward(m, cache)
  <1> DEFINE h == [type |-> "DATA", src |-> IF e.source THEN n ELSE NoNode,
                   dst |-> d]
  <1>1. h.type = "DATA"
    OBVIOUS
  <1>2. Data(n, d, e) = Unicast(n, e.nextHop, 0, h)
    BY DEF Data
  <1> HIDE DEF h
  <1>3. \A m \in Data(n, d, e) : Outward(m, cache)
    BY <1>1, <1>2, PlainOutward
  <1> QED
    BY <1>3 DEF FromQueue

(* The route errors a node sends.                                          *)
LEMMA RerrOutward ==
  ASSUME links \subseteq Link0, NEW n \in Node, NEW cache, NEW t, NEW P, NEW D
  PROVE  /\ \A m \in RerrMessages(n, t, P, D) : Outward(m, cache)
         /\ \A src, dst : \A m \in RerrToSource(n, t, src, dst) : Outward(m, cache)
  <1>1. \A C : /\ \A m \in Broadcast(n, 1, Rerr(C)) : Outward(m, cache)
               /\ \A x : \A m \in Unicast(n, x, 1, Rerr(C)) : Outward(m, cache)
    BY PlainOutward DEF Rerr
  <1>2. \A m \in RerrMessages(n, t, P, D) : Outward(m, cache)
    BY <1>1 DEF RerrMessages
  <1>3. \A src, dst : \A m \in RerrToSource(n, t, src, dst) : Outward(m, cache)
    BY <1>1 DEF RerrToSource
  <1> QED
    BY <1>2, <1>3

(* A flood at its originator: its neighbours are on its far side.          *)
LEMMA OwnFloodOutward ==
  ASSUME Forest(Link0), links \subseteq Link0, NEW n \in Node, NEW cache,
         NEW ttl, NEW h, h.type \in {"RREQ", "REV_RREQ"}, h.origin = n,
         <<n, h.id>> \in cache[n], h.type = "REV_RREQ" => h.dst # n
  PROVE  \A m \in Broadcast(n, ttl, h) : Outward(m, cache)
  <1> SUFFICES ASSUME NEW m \in Broadcast(n, ttl, h) PROVE Outward(m, cache)
    OBVIOUS
  <1>1. m.from = n /\ m.hdr = h /\ m.to \in Node /\ <<n, m.to>> \in Link0
    BY RadioLinks
  <1>2. m.to # n /\ Up[n][m.to] = n
    BY <1>1, Ways, RaodvAssumption
  <1> QED
    BY <1>1, <1>2 DEF Outward, FloodOutward, IsFlood, Name

(* A flood passed on goes outward, or back to a node that has noted it.    *)
LEMMA RelayOutward ==
  ASSUME Forest(Link0), IInv, ForestInv, NEW m \in msgs, IsFlood(m),
         ~IsDuplicate(m.to, m.hdr),
         m.hdr.type = "REV_RREQ" => m.to # m.hdr.dst,
         NEW ttl, NEW g, g.type = m.hdr.type, g.origin = m.hdr.origin,
         g.id = m.hdr.id, g.dst = m.hdr.dst,
         NEW cache, \A x \in Node : idCache[x] \subseteq cache[x],
         Name(m) \in cache[m.to]
  PROVE  \A x \in Forwarded(m.to, ttl, g) : Outward(x, cache)
  <1> SUFFICES ASSUME NEW x \in Forwarded(m.to, ttl, g) PROVE Outward(x, cache)
    OBVIOUS
  <1> DEFINE n == m.to
             o == m.hdr.origin
  <1>1. n \in Node /\ m.from \in Node /\ m.hdr \in Header
    BY ReceivedGood
  <1>2. o \in Node
    BY <1>1, HeaderFields DEF IsFlood
  <1>3. /\ FloodOutward(m, idCache) /\ links \subseteq Link0
        /\ Name(m) \notin idCache[n]
    BY DEF ForestInv, Outward, IsDuplicate, Name
  <1>4. /\ n # o /\ Up[o][n] = m.from
        /\ Name(m) \in cache[m.from]
        /\ m.hdr.type = "REV_RREQ" => m.from # m.hdr.dst
    BY <1>1, <1>3 DEF FloodOutward
  <1>5. x.from = n /\ x.hdr = g /\ x.to \in Node /\ <<n, x.to>> \in Link0
    <2>1. \E k : x \in Broadcast(n, k, g)
      BY DEF Forwarded
    <2> QED
      BY <1>1, <1>3, <2>1, RadioLinks
  <1>6. IsFlood(x) /\ Name(x) = Name(m) /\ x.hdr.type # "RREP"
    BY <1>5 DEF IsFlood, Name
  <1>7. x.to = m.from \/ (x.to # o /\ Up[o][x.to] = n)
    BY <1>1, <1>2, <1>4, <1>5, Ways
  <1> QED
    BY <1>4, <1>5, <1>6, <1>7 DEF Outward, FloodOutward

(* A reply sent on towards b says what is known of a.                      *)
LEMMA ReplyOutwardSent ==
  ASSUME Forest(Link0), links \subseteq Link0, NEW n \in Node, NEW cache,
         NEW ttl, NEW h, h.type = "RREP", h.dst \in Node, h.origin \in Node,
         n # h.dst, n # h.origin, NEW to, to \in Node => Up[h.origin][n] = to,
         Up[h.dst][n] # to
  PROVE  \A m \in Unicast(n, to, ttl, h) : Outward(m, cache)
  <1> SUFFICES ASSUME NEW m \in Unicast(n, to, ttl, h) PROVE Outward(m, cache)
    OBVIOUS
  <1>1. m.from = n /\ m.hdr = h /\ m.to = to /\ to \in Node /\ <<n, to>> \in Link0
    BY RadioLinks
  <1>2. to # h.dst /\ Up[h.dst][to] = n /\ (to # h.origin => Up[h.origin][to] # n)
    BY <1>1, Turning
  <1> QED
    BY <1>1, <1>2 DEF Outward, ReplyOutward, IsFlood

(* A message stays outward when more floods are noted.                     *)
LEMMA OutwardGrows ==
  ASSUME NEW m, m.from \in Node, m.to \in Node, NEW cache, NEW later,
         \A x \in Node : cache[x] \subseteq later[x], Outward(m, cache)
  PROVE  Outward(m, later)
  BY DEF Outward, FloodOutward

(* A step of one node: its table, its cache, its messages.                 *)
LEMMA ForestStep ==
  ASSUME IInv, ForestInv, NEW n \in Node, NEW u, AtHome(n, u),
         rtab' = [rtab EXCEPT ![n] = u], links' \subseteq links,
         \A x \in Node : idCache[x] \subseteq idCache'[x],
         \A m \in msgs' \ msgs : Outward(m, idCache')
  PROVE  ForestInv'
  <1>1. rtab'[n] = u /\ \A x \in Node \ {n} : rtab'[x] = rtab[x]
    BY Parts DEF TablesOK
  <1>2. \A x \in Node : AtHome(x, rtab'[x])
    BY <1>1 DEF ForestInv
  <1>3. ASSUME NEW m \in msgs' PROVE Outward(m, idCache')
    <2>1. CASE m \in msgs
      <3>1. m.from \in Node /\ m.to \in Node /\ Outward(m, idCache)
        BY <2>1, ReceivedGood DEF ForestInv
      <3> QED
        BY <3>1, OutwardGrows
    <2>2. CASE m \notin msgs
      BY <2>2
    <2> QED
      BY <2>1, <2>2
  <1>4. links' \subseteq Link0
    BY DEF ForestInv
  <1> QED
    BY <1>2, <1>3, <1>4 DEF ForestInv

(* A handler that changes the receiver's table.                            *)
LEMMA HandledForest ==
  ASSUME IInv, ForestInv, NEW m \in msgs, NEW t, NEW out, Handled(m, t, out),
         AtHome(m.to, t), UNCHANGED links,
         \A x \in Node : idCache[x] \subseteq idCache'[x],
         \A x \in out : Outward(x, idCache')
  PROVE  ForestInv'
  <1>1. m.to \in Node /\ rtab' = [rtab EXCEPT ![m.to] = t]
    BY ReceivedGood DEF Handled
  <1>2. \A x \in msgs' \ msgs : Outward(x, idCache')
    BY DEF Handled
  <1> QED
    BY <1>1, <1>2, ForestStep

(* The tables that actions start from.                                     *)
LEMMA StartsHome ==
  ASSUME Forest(Link0), IInv, ForestInv
  PROVE  /\ \A n \in Node : AtHome(n, rtab[n]) /\ AtHome(n, Purged(rtab[n]))
         /\ \A m \in msgs :
              /\ <<m.to, m.from>> \in Link0
              /\ AtHome(m.to, Received(m))
              /\ Received(m)[m.from].nextHop \in Node
  <1>1. \A n \in Node : AtHome(n, rtab[n]) /\ AtHome(n, Purged(rtab[n]))
    BY HomeKept DEF ForestInv
  <1>2. ASSUME NEW m \in msgs
        PROVE  /\ <<m.to, m.from>> \in Link0
               /\ AtHome(m.to, Received(m))
               /\ Received(m)[m.from].nextHop \in Node
    <2>1. m.to \in Node /\ m.from \in Node
      BY ReceivedGood
    <2>2. <<m.to, m.from>> \in Link0
      <3>1. <<m.from, m.to>> \in Link0
        BY DEF ForestInv, Outward
      <3> QED
        BY <3>1, RaodvAssumption
    <2>3. 0 \in Nat
      OBVIOUS
    <2> QED
      BY <1>1, <2>1, <2>2, <2>3, HomeNeighbor DEF Received
  <1> QED
    BY <1>1, <1>2

-----------------------------------------------------------------------------
(* SendRequest, from a table on the way.                                   *)
LEMMA SendRequestForest ==
  ASSUME Forest(Link0), IInv, ForestInv, NEW n \in Node, NEW d \in Node,
         NEW t, AtHome(n, t), NEW pending, NEW timers, UNCHANGED links,
         SendRequest(n, d, t, pending, timers)
  PROVE  ForestInv'
  <1>1. idCache \in [Node -> SUBSET (Node \X Nat)] /\ links \subseteq Link0
    BY Parts DEF RestOK, ForestInv
  <1>2. CASE rreqCount[n] = RreqRateLimit
    <2>1. rtab' = [rtab EXCEPT ![n] = t] /\ UNCHANGED <<idCache, msgs>>
      BY <1>2 DEF SendRequest
    <2> QED
      BY <2>1, ForestStep
  <1>3. CASE rreqCount[n] # RreqRateLimit
    <2> DEFINE h == RreqHeader(n, d, t)
               u == SearchEntry(t, d)
               ttl == RequestTtl(t[d])
    <2>1. /\ rtab' = [rtab EXCEPT ![n] = u]
          /\ idCache' = [idCache EXCEPT ![n] = @ \cup {<<n, requestId[n] + 1>>}]
          /\ msgs' \ msgs \subseteq Broadcast(n, ttl, h)
      BY <1>3 DEF SendRequest
    <2>2. h.type = "RREQ" /\ h.origin = n /\ h.id = requestId[n] + 1
      BY DEF RreqHeader
    <2>3. AtHome(n, u)
      <3>1. t[d] \in Entry
        BY DEF AtHome, KeepsWay, Table
      <3>2. ttl \in Nat /\ NetDiameter \in Nat
        BY <3>1, ConstantTypes, RingTtlType DEF RequestTtl
      <3> HIDE DEF ttl
      <3>3. /\ AtHome(n, Update(t, d, InSearch(t[d], ttl, NetDiameter)))
            /\ AtHome(n, AddRoute(t, d, DummyEntry(ttl, NetDiameter)))
        BY <3>2, HomeKept
      <3> QED
        BY <3>3 DEF SearchEntry, ttl
    <2>4. /\ \A x \in Node : idCache[x] \subseteq idCache'[x]
          /\ <<n, h.id>> \in idCache'[n]
      BY <1>1, <2>1, <2>2
    <2> HIDE DEF h, u, ttl
    <2> DEFINE later == idCache'
    <2>5. <<n, h.id>> \in later[n] /\ (h.type = "REV_RREQ" => h.dst # n)
      BY <2>2, <2>4
    <2>6. h.type \in {"RREQ", "REV_RREQ"} /\ h.origin = n
      BY <2>2
    <2> HIDE DEF later
    <2>7. \A m \in Broadcast(n, ttl, h) : Outward(m, later)
      BY <1>1, <2>5, <2>6, OwnFloodOutward
    <2>8. \A m \in msgs' \ msgs : Outward(m, idCache')
      BY <2>1, <2>7 DEF later
    <2> QED
      BY <2>1, <2>3, <2>4, <2>8, ForestStep
  <1> QED
    BY <1>2, <1>3

(* SendRevRequest, which is for another node.                              *)
LEMMA SendRevRequestForest ==
  ASSUME Forest(Link0), IInv, ForestInv, NEW n \in Node, NEW o \in Node, n # o,
         NEW t, AtHome(n, t), NEW pending, NEW cache, idCache[n] \subseteq cache,
         NEW in, in \subseteq msgs, UNCHANGED links,
         SendRevRequest(n, o, t, pending, cache, in)
  PROVE  ForestInv'
  <1>1. idCache \in [Node -> SUBSET (Node \X Nat)] /\ links \subseteq Link0
    BY Parts DEF RestOK, ForestInv
  <1>2. CASE rreqCount[n] = RreqRateLimit
    <2>1. /\ rtab' = [rtab EXCEPT ![n] = t] /\ msgs' = in
          /\ idCache' = [idCache EXCEPT ![n] = cache]
      BY <1>2 DEF SendRevRequest
    <2>2. \A x \in Node : idCache[x] \subseteq idCache'[x]
      BY <1>1, <2>1
    <2> QED
      BY <2>1, <2>2, ForestStep
  <1>3. CASE rreqCount[n] # RreqRateLimit
    <2> DEFINE h == RevRequestHeader(n, o)
               ttl == RingTtl(t[o], TtlIncrement, TtlThreshold, NetDiameter)
               u == Update(t, o, InSearch(t[o], ttl, NetDiameter))
    <2>1. /\ rtab' = [rtab EXCEPT ![n] = u]
          /\ idCache' = [idCache EXCEPT ![n] = cache \cup {<<n, requestId[n] + 1>>}]
          /\ msgs' \ msgs \subseteq Broadcast(n, ttl, h)
      BY <1>3 DEF SendRevRequest, FloodRevRequest
    <2>2. /\ h.type = "REV_RREQ" /\ h.origin = n /\ h.id = requestId[n] + 1
          /\ h.dst = o
      BY DEF RevRequestHeader
    <2>3. AtHome(n, u)
      <3>1. t[o] \in Entry
        BY DEF AtHome, KeepsWay, Table
      <3>2. ttl \in Nat /\ NetDiameter \in Nat
        BY <3>1, ConstantTypes, RingTtlType
      <3> HIDE DEF ttl
      <3> QED
        BY <3>2, HomeKept
    <2>4. /\ \A x \in Node : idCache[x] \subseteq idCache'[x]
          /\ <<n, h.id>> \in idCache'[n]
      BY <1>1, <2>1, <2>2
    <2> HIDE DEF h, u, ttl
    <2> DEFINE later == idCache'
    <2>5. <<n, h.id>> \in later[n] /\ (h.type = "REV_RREQ" => h.dst # n)
      BY <2>2, <2>4
    <2>6. h.type \in {"RREQ", "REV_RREQ"} /\ h.origin = n
      BY <2>2
    <2> HIDE DEF later
    <2>7. \A m \in Broadcast(n, ttl, h) : Outward(m, later)
      BY <1>1, <2>5, <2>6, OwnFloodOutward
    <2>8. \A m \in msgs' \ msgs : Outward(m, idCache')
      BY <2>1, <2>7 DEF later
    <2> QED
      BY <2>1, <2>3, <2>4, <2>8, ForestStep
  <1> QED
    BY <1>2, <1>3

(* The sender's own actions.                                               *)
LEMMA SenderForest ==
  ASSUME Forest(Link0), IInv, TrafficInv, ForestInv, NEW n \in Node, NEW d \in Node,
         \/ RouteOutput(n, d) \/ DeferredRouteOutput(n, d)
         \/ DeferredRequest(n, d) \/ RouteRequestTimerExpire(n, d)
         \/ DeferredRevRequest(n, d)
  PROVE  ForestInv'
  <1> DEFINE t == Purged(rtab[n])
             gone == DeleteRoute(t, d)
  <1>1. AtHome(n, t) /\ links \subseteq Link0
    BY StartsHome DEF ForestInv
  <1>2. AtHome(n, gone)
    <2> HIDE DEF t
    <2> QED
      BY <1>1, HomeKept
  <1>3. \A e : /\ \A m \in Data(n, d, e) : Outward(m, idCache)
               /\ \A m \in FromQueue(n, d, e) : Outward(m, idCache)
    BY <1>1, DataOutward
  <1>4. UNCHANGED links
    BY DEF RouteOutput, DeferredRouteOutput, DeferredRequest,
       RouteRequestTimerExpire, DeferredRevRequest
  <1>5. ASSUME NEW pending, NEW timers, SendRequest(n, d, t, pending, timers)
        PROVE  ForestInv'
    <2> HIDE DEF t
    <2> QED
      BY <1>1, <1>4, <1>5, SendRequestForest
  <1>6. ASSUME NEW u, u = t \/ u = gone, rtab' = [rtab EXCEPT ![n] = u],
               UNCHANGED idCache, NEW e,
               msgs' \ msgs \subseteq Data(n, d, e) \cup FromQueue(n, d, e)
        PROVE  ForestInv'
    <2>1. AtHome(n, u)
      BY <1>1, <1>2, <1>6
    <2>2. \A m \in msgs' \ msgs : Outward(m, idCache')
      BY <1>3, <1>6
    <2> QED
      BY <1>4, <1>6, <2>1, <2>2, ForestStep
  <1>7. CASE RouteOutput(n, d)
    <2>1. /\ rtab' = [rtab EXCEPT ![n] = t] /\ UNCHANGED idCache
          /\ msgs' \ msgs \subseteq Data(n, d, t[d]) \cup FromQueue(n, d, t[d])
      BY <1>7 DEF RouteOutput
    <2> HIDE DEF t, gone
    <2> QED
      BY <1>6, <2>1
  <1>8. CASE DeferredRouteOutput(n, d)
    <2>1. \/ SendRequest(n, d, t, deferred, reqTimer[n])
          \/ /\ rtab' = [rtab EXCEPT ![n] = t] /\ UNCHANGED idCache
             /\ msgs' \ msgs \subseteq Data(n, d, t[d]) \cup FromQueue(n, d, t[d])
      BY <1>8 DEF DeferredRouteOutput
    <2> HIDE DEF t, gone
    <2> QED
      BY <1>5, <1>6, <2>1
  <1>9. CASE DeferredRequest(n, d)
    BY <1>5, <1>9 DEF DeferredRequest
  <1>10. CASE RouteRequestTimerExpire(n, d)
    <2>1. \/ SendRequest(n, d, t, deferred, reqTimer[n] \ {d})
          \/ /\ rtab' = [rtab EXCEPT ![n] = t] \/ rtab' = [rtab EXCEPT ![n] = gone]
             /\ UNCHANGED idCache
             /\ msgs' \ msgs \subseteq Data(n, d, t[d]) \cup FromQueue(n, d, t[d])
      BY <1>10 DEF RouteRequestTimerExpire, StopSearch
    <2> HIDE DEF t, gone
    <2> QED
      BY <1>5, <1>6, <2>1
  <1>11. CASE DeferredRevRequest(n, d)
    <2> DEFINE pending == Take(deferredRev, n, d)
    <2>1. /\ deferredRev[n][d] > 0
          /\ SendRevRequest(n, d, t, pending, idCache[n], msgs)
      BY <1>11 DEF DeferredRevRequest
    <2>2. n # d
      BY <2>1, TrafficParts, RaodvAssumption
    <2> HIDE DEF t, pending
    <2> QED
      BY <1>1, <1>4, <2>1, <2>2, SendRevRequestForest
  <1> QED
    BY <1>7, <1>8, <1>9, <1>10, <1>11

(* The answer of a node on the path: it lies between two nodes in          *)
(* different directions, or it would not answer.                           *)
LEMMA RepliesOutward ==
  ASSUME Forest(Link0), links \subseteq Link0, NEW n \in Node, NEW cache,
         NEW h, NEW t, AtHome(n, t), h.dst \in Node, h.origin \in Node,
         n # h.dst, n # h.origin, Valid(t, h.dst),
         t[h.dst].nextHop # Up[h.origin][n]
  PROVE  \A m \in Replies(n, h, t) : Outward(m, cache)
  <1> DEFINE toDst    == t[h.dst]
             toOrigin == t[h.origin]
             r == [type |-> "RREP", dst |-> h.dst, dstSeq |-> toDst.seqNo,
                   origin |-> h.origin, hop |-> toDst.hop, ack |-> toDst.hop = 1]
             g == [type |-> "RREP", dst |-> h.origin, dstSeq |-> toOrigin.seqNo,
                   origin |-> h.dst, hop |-> toOrigin.hop, ack |-> FALSE]
  <1>1. /\ r.type = "RREP" /\ r.dst = h.dst /\ r.origin = h.origin
        /\ g.type = "RREP" /\ g.dst = h.origin /\ g.origin = h.dst
    OBVIOUS
  <1>2. Replies(n, h, t) \subseteq
          Unicast(n, toOrigin.nextHop, toOrigin.hop, r)
          \cup Unicast(n, toDst.nextHop, toDst.hop, g)
    BY DEF Replies
  <1>3. /\ toDst.nextHop \in Node /\ toDst.nextHop = Up[h.dst][n]
        /\ toOrigin.nextHop \in Node => toOrigin.nextHop = Up[h.origin][n]
    <2>1. \A d \in Node \ {n} : OnWay(t[d], Up[d][n])
      BY HomeWay DEF AtHome, KeepsWay
    <2> QED
      BY <2>1, NodeAssumption DEF OnWay, Linked, Valid
  <1> HIDE DEF toDst, toOrigin, r, g
  <1>4. \A m \in Unicast(n, toOrigin.nextHop, toOrigin.hop, r) : Outward(m, cache)
    <2> DEFINE to == toOrigin.nextHop
    <2>1. /\ to \in Node => Up[r.origin][n] = to
          /\ to \in Node => Up[r.dst][n] # to
      BY <1>1, <1>3 DEF toDst
    <2>2. to \notin Node => Unicast(n, to, toOrigin.hop, r) = {}
      BY DEF Unicast, Neighbors
    <2> HIDE DEF to
    <2>3. to \in Node => \A m \in Unicast(n, to, toOrigin.hop, r) : Outward(m, cache)
      BY <1>1, <2>1, ReplyOutwardSent
    <2> QED
      BY <2>2, <2>3 DEF to
  <1>5. \A m \in Unicast(n, toDst.nextHop, toDst.hop, g) : Outward(m, cache)
    <2> DEFINE to == toDst.nextHop
    <2>1. Up[g.origin][n] = to /\ Up[g.dst][n] # to
      BY <1>1, <1>3 DEF toDst
    <2> HIDE DEF to
    <2>2. \A m \in Unicast(n, to, toDst.hop, g) : Outward(m, cache)
      BY <1>1, <2>1, ReplyOutwardSent
    <2> QED
      BY <2>2 DEF to
  <1> QED
    BY <1>2, <1>4, <1>5

(* A flood that a node acts on comes from its originator's side.           *)
LEMMA FloodArrives ==
  ASSUME Forest(Link0), IInv, FloodInv, ForestInv, NEW m \in msgs, IsFlood(m),
         ~IsDuplicate(m.to, m.hdr) \/ (m.hdr.type = "REV_RREQ" /\ m.to = m.hdr.dst)
  PROVE  m.to # m.hdr.origin /\ Up[m.hdr.origin][m.to] = m.from
  BY DEF ForestInv, Outward, FloodOutward, IsDuplicate, Name

(* A request arrives.                                                      *)
LEMMA RecvRequestForest ==
  ASSUME Forest(Link0), IInv, FloodInv, ForestInv, NEW m \in msgs, RecvRequest(m)
  PROVE  ForestInv'
  <1> DEFINE n == m.to
             h == m.hdr
             t0 == Received(m)
             t1 == RouteToOrigin(t0, h.origin, h.originSeq, h.hop + 1, m.from)
             t == RouteToRreqSender(t1, m.from, h.originSeq)
             u == LinkReplyPrecursors(t, h.dst, h.origin)
             e == t[h.dst]
             cache == idCache[n] \cup {<<h.origin, h.id>>}
             in == msgs \ {m}
             g == ForwardedRreq(h, e)
             nothing == {}
  <1>1. /\ n \in Node /\ h \in Header /\ m.from \in Node
        /\ idCache \in [Node -> SUBSET (Node \X Nat)]
    BY ReceivedGood, Parts DEF RestOK
  <1>2. /\ h.type = "RREQ" /\ UNCHANGED links
        /\ \/ UNCHANGED idCache /\ Handled(m, t0, nothing)
           \/ /\ ~IsDuplicate(n, h) /\ n = h.dst
              /\ SendRevRequest(n, h.origin, t, deferredRev, cache, in)
           \/ /\ ~IsDuplicate(n, h) /\ n # h.dst
              /\ idCache' = [idCache EXCEPT ![n] = cache]
              /\ \/ /\ ~LoopsBack(e, m.from) /\ Valid(t, h.dst)
                    /\ Handled(m, u, Replies(n, h, t))
                 \/ Handled(m, t, Forwarded(n, m.ttl, g))
                 \/ Handled(m, t, nothing)
    BY DEF RecvRequest
  <1>3. /\ h.origin \in Node /\ h.dst \in Node /\ h.originSeq \in Nat
        /\ h.hop \in Nat
    BY <1>1, <1>2, HeaderFields
  <1>4. h.hop + 1 \in Nat
    BY <1>3
  <1>5. IsFlood(m) /\ <<h.origin, h.dst>> \in Flow
    BY <1>2 DEF IsFlood, FloodInv, Straight
  <1>6. h.origin # h.dst
    BY <1>5, RaodvAssumption
  <1>7. <<n, m.from>> \in Link0 /\ AtHome(n, t0) /\ links \subseteq Link0
    BY StartsHome DEF ForestInv
  <1>8. \A x \in nothing : Outward(x, idCache')
    OBVIOUS
  <1>9. CASE UNCHANGED idCache /\ Handled(m, t0, nothing)
    <2>1. \A x \in Node : idCache[x] \subseteq idCache'[x]
      BY <1>9
    <2> HIDE DEF t0, nothing
    <2> QED
      BY <1>2, <1>7, <1>8, <1>9, <2>1, HandledForest
  <1>10. CASE ~IsDuplicate(n, h)
    <2>1. n # h.origin /\ Up[h.origin][n] = m.from
      BY <1>5, <1>10, FloodArrives
    <2> HIDE DEF h, n, t0
    <2>2. AtHome(n, t1)
      BY <1>1, <1>3, <1>4, <1>7, <2>1, HomeLearned
    <2> HIDE DEF t1
    <2>3. AtHome(n, t)
      BY <1>1, <1>3, <1>7, <2>2, HomeNeighbor
    <2> HIDE DEF t
    <2>4. AtHome(n, u)
      BY <1>1, <1>3, <2>3, HomeKept
    <2> HIDE DEF u
    <2>5. CASE n = h.dst /\ SendRevRequest(n, h.origin, t, deferredRev, cache, in)
      <3>1. idCache[n] \subseteq cache /\ in \subseteq msgs
        OBVIOUS
      <3> HIDE DEF cache, in
      <3> QED
        BY <1>1, <1>2, <1>3, <2>1, <2>3, <2>5, <3>1, SendRevRequestForest
    <2>6. ASSUME n # h.dst, idCache' = [idCache EXCEPT ![n] = cache]
          PROVE  /\ \A x \in Node : idCache[x] \subseteq idCache'[x]
                 /\ Name(m) \in idCache'[m.to]
      BY <1>1, <2>6 DEF Name, n, h
    <2>7. ASSUME n # h.dst, idCache' = [idCache EXCEPT ![n] = cache],
                 ~LoopsBack(e, m.from), Valid(t, h.dst)
          PROVE  \A x \in Replies(n, h, t) : Outward(x, idCache')
      <3>1. e.nextHop # Up[h.origin][n]
        BY <2>1, <2>7 DEF LoopsBack, Valid
      <3> QED
        BY <1>1, <1>3, <1>7, <2>1, <2>3, <2>7, <3>1, RepliesOutward
    <2>8. ASSUME n # h.dst, idCache' = [idCache EXCEPT ![n] = cache]
          PROVE  \A x \in Forwarded(n, m.ttl, g) : Outward(x, idCache')
      <3>1. /\ g.type = h.type /\ g.origin = h.origin /\ g.id = h.id
            /\ g.dst = h.dst
        BY <1>1, <1>2, ForwardedRreqFields
      <3> HIDE DEF g, cache
      <3>2. /\ \A x \in Node : idCache[x] \subseteq idCache'[x]
            /\ Name(m) \in idCache'[m.to]
        BY <2>6, <2>8
      <3>3. m.hdr.type = "RREQ" /\ ~IsDuplicate(m.to, m.hdr)
        BY <1>2, <1>10 DEF h, n
      <3>4. /\ g.type = m.hdr.type /\ g.origin = m.hdr.origin /\ g.id = m.hdr.id
            /\ g.dst = m.hdr.dst
        BY <3>1 DEF h
      <3>5. \A x \in Forwarded(m.to, m.ttl, g) : Outward(x, idCache')
        BY <1>5, <3>2, <3>3, <3>4, RelayOutward
      <3> QED
        BY <3>5 DEF n
    <2>9. ASSUME n # h.dst, idCache' = [idCache EXCEPT ![n] = cache],
                 NEW x, AtHome(n, x), NEW out, Handled(m, x, out),
                 \A y \in out : Outward(y, idCache')
          PROVE  ForestInv'
      <3>1. \A y \in Node : idCache[y] \subseteq idCache'[y]
        BY <2>6, <2>9
      <3>2. AtHome(m.to, x)
        BY <2>9 DEF n
      <3> QED
        BY <1>2, <2>9, <3>1, <3>2, HandledForest
    <2> HIDE DEF g, e, nothing, cache, in
    <2> QED
      BY <1>2, <1>8, <1>9, <2>3, <2>4, <2>5, <2>7, <2>8, <2>9
  <1> QED
    BY <1>2, <1>9, <1>10

(* A reverse request arrives.                                              *)
LEMMA RecvRevRequestForest ==
  ASSUME Forest(Link0), IInv, FloodInv, ForestInv, NEW m \in msgs,
         RecvRevRequest(m)
  PROVE  ForestInv'
  <1> DEFINE n == m.to
             h == m.hdr
             t0 == Received(m)
             there == RouteToReplier(t0, h.origin, h.originSeq, h.hop + 1, m.from)
             onPath == RouteToOrigin(t0, h.origin, h.originSeq, h.hop + 1, m.from)
             flushed == FromQueue(n, h.origin, there[h.origin])
             g == [h EXCEPT !.hop = @ + 1]
             onward == Forwarded(n, m.ttl, g)
             nothing == {}
  <1>1. /\ n \in Node /\ h \in Header /\ m.from \in Node
        /\ idCache \in [Node -> SUBSET (Node \X Nat)]
    BY ReceivedGood, Parts DEF RestOK
  <1>2. /\ h.type = "REV_RREQ" /\ UNCHANGED links
        /\ idCache' = [idCache EXCEPT ![n] = @ \cup {<<h.origin, h.id>>}]
        /\ \/ n = h.dst /\ Handled(m, there, flushed)
           \/ Handled(m, t0, nothing)
           \/ /\ n # h.dst /\ ~IsDuplicate(n, h)
              /\ Handled(m, onPath, onward)
    BY DEF RecvRevRequest
  <1>3. /\ h.origin \in Node /\ h.originSeq \in Nat /\ h.hop \in Nat
        /\ g.type = h.type /\ g.origin = h.origin /\ g.id = h.id
        /\ g.dst = h.dst
    <2>1. h \in [type : {"REV_RREQ"}, origin : Node, id : Nat, dst : Node,
                originSeq : Nat, hop : Nat]
      BY <1>1, <1>2, HeaderFields
    <2> HIDE DEF h
    <2> QED
      BY <2>1
  <1>4. h.hop + 1 \in Nat
    BY <1>3
  <1>5. IsFlood(m)
    BY <1>2 DEF IsFlood
  <1>6. AtHome(n, t0) /\ links \subseteq Link0
    BY StartsHome DEF ForestInv
  <1>7. /\ \A x \in Node : idCache[x] \subseteq idCache'[x]
        /\ Name(m) \in idCache'[m.to]
    BY <1>1, <1>2 DEF Name
  <1>8. n = h.dst \/ ~IsDuplicate(n, h) =>
          AtHome(n, there) /\ AtHome(n, onPath)
    <2>1. n = h.dst \/ ~IsDuplicate(n, h) =>
            n # h.origin /\ Up[h.origin][n] = m.from
      BY <1>2, <1>5, FloodArrives
    <2> HIDE DEF n, h, t0
    <2> QED
      BY <1>1, <1>3, <1>4, <1>6, <2>1, HomeLearned
  <1>9. \A x \in flushed : Outward(x, idCache')
    BY <1>1, <1>6, DataOutward
  <1>10. n # h.dst /\ ~IsDuplicate(n, h) => \A x \in onward : Outward(x, idCache')
    <2> HIDE DEF g
    <2> QED
      BY <1>3, <1>5, <1>7, RelayOutward
  <1>11. \A x \in nothing : Outward(x, idCache')
    OBVIOUS
  <1> HIDE DEF t0, there, onPath, flushed, onward, nothing
  <1> QED
    BY <1>2, <1>6, <1>7, <1>8, <1>9, <1>10, <1>11, HandledForest

(* A reply arrives, from its destination's side.                           *)
LEMMA RecvReplyForest ==
  ASSUME Forest(Link0), IInv, ForestInv, NEW m \in msgs, RecvReply(m)
  PROVE  ForestInv'
  <1> DEFINE n == m.to
             h == m.hdr
             t0 == Received(m)
             t == ForwardRoute(t0, h.dst, h.dstSeq, h.hop + 1, m.from)
             found == Update(t, h.dst, NewEntry(TRUE, h.dstSeq, h.hop + 1, m.from))
             t1 == Update(t, h.origin, [t[h.origin] EXCEPT !.live = TRUE])
             t2 == IF Valid(t1, h.dst) THEN LinkPrecursors(t1, h.dst, h.origin)
                   ELSE t1
             onward == [h EXCEPT !.hop = @ + 1, !.ack = FALSE]
             sent == Unicast(n, t2[h.origin].nextHop, m.ttl - 1, onward)
  <1>1. n \in Node /\ h \in Header /\ m.from \in Node
    BY ReceivedGood
  <1>2. /\ h.type = "RREP" /\ h.dst # h.origin /\ UNCHANGED <<links, idCache>>
        /\ \/ \E x, e : /\ Handled(m, x, ReplyAck(m) \cup FromQueue(n, h.dst, e))
                        /\ x = t \/ x = found
           \/ Handled(m, t, ReplyAck(m))
           \/ /\ n # h.origin
              /\ \/ Handled(m, t2, ReplyAck(m) \cup sent)
                 \/ Handled(m, t2, ReplyAck(m) \cup {})
    <2>1. /\ h.type = "RREP" /\ h.dst # h.origin /\ UNCHANGED <<links, idCache>>
          /\ IF n = h.origin THEN ReplyArrives(m, t) ELSE ReplyPasses(m, t)
      BY DEF RecvReply
    <2>2. ReplyArrives(m, t) =>
            \E x, e : /\ Handled(m, x, ReplyAck(m) \cup FromQueue(n, h.dst, e))
                      /\ x = t \/ x = found
      BY DEF ReplyArrives
    <2>3. ReplyPasses(m, t) =>
            \/ Handled(m, t, ReplyAck(m))
            \/ Handled(m, t2, ReplyAck(m) \cup sent)
            \/ Handled(m, t2, ReplyAck(m) \cup {})
      BY DEF ReplyPasses
    <2> QED
      BY <2>1, <2>2, <2>3
  <1>3. /\ h.dst \in Node /\ h.origin \in Node /\ h.dstSeq \in Nat /\ h.hop \in Nat
        /\ onward.type = "RREP" /\ onward.dst = h.dst /\ onward.origin = h.origin
    <2>1. h \in [type : {"RREP"}, dst : Node, dstSeq : Nat, origin : Node,
                hop : Nat, ack : BOOLEAN]
      BY <1>1, <1>2, HeaderFields
    <2> HIDE DEF h
    <2> QED
      BY <2>1
  <1>4. h.hop + 1 \in Nat
    BY <1>3
  <1>5. /\ n # h.dst /\ Up[h.dst][n] = m.from
        /\ n # h.origin => Up[h.origin][n] # m.from
    BY <1>2 DEF ForestInv, Outward, ReplyOutward
  <1>6. AtHome(n, t0) /\ links \subseteq Link0
    BY StartsHome DEF ForestInv
  <1>7. \A x \in ReplyAck(m) : Outward(x, idCache)
    <2> DEFINE a == [type |-> "RREP_ACK"]
    <2>1. a.type = "RREP_ACK"
      OBVIOUS
    <2> HIDE DEF a
    <2>2. \A x \in Unicast(n, m.from, 1, a) : Outward(x, idCache)
      BY <1>1, <1>6, <2>1, PlainOutward
    <2> QED
      BY <2>2 DEF ReplyAck, a
  <1>8. \A e : \A x \in FromQueue(n, h.dst, e) : Outward(x, idCache)
    BY <1>1, <1>6, DataOutward
  <1>9. ASSUME NEW x, AtHome(n, x), NEW out, Handled(m, x, out),
               \A y \in out : Outward(y, idCache)
        PROVE  ForestInv'
    <2>1. /\ \A y \in Node : idCache[y] \subseteq idCache'[y]
          /\ \A y \in out : Outward(y, idCache')
          /\ AtHome(m.to, x)
      BY <1>2, <1>9
    <2> QED
      BY <1>2, <1>9, <2>1, HandledForest
  <1> HIDE DEF n, h, t0, onward
  <1>10. AtHome(n, t)
    BY <1>1, <1>3, <1>4, <1>5, <1>6, HomeLearned
  <1> HIDE DEF t
  <1>11. AtHome(n, found) /\ AtHome(n, t1)
    <2>1. AtHome(n, found)
      BY <1>1, <1>3, <1>4, <1>5, <1>10, HomeLearned
    <2>2. AtHome(n, t1)
      BY <1>1, <1>3, <1>10, HomeKept
    <2> QED
      BY <2>1, <2>2
  <1> HIDE DEF found, t1
  <1>12. AtHome(n, t2)
    BY <1>1, <1>3, <1>11, HomeKept
  <1> HIDE DEF t2
  <1>13. n # h.origin => \A x \in sent : Outward(x, idCache)
    <2> DEFINE to == t2[h.origin].nextHop
    <2>1. n # h.origin /\ to \in Node => Up[h.origin][n] = to
      <3>1. n # h.origin => OnWay(t2[h.origin], Up[h.origin][n])
        BY <1>1, <1>3, <1>12, HomeWay DEF AtHome, KeepsWay
      <3> QED
        BY <3>1, NodeAssumption DEF OnWay
    <2>2. to \notin Node => sent = {}
      BY DEF Unicast, Neighbors
    <2> HIDE DEF to
    <2>3. n # h.origin /\ to \in Node =>
            \A x \in Unicast(n, to, m.ttl - 1, onward) : Outward(x, idCache)
      BY <1>1, <1>3, <1>5, <1>6, <2>1, ReplyOutwardSent
    <2> QED
      BY <2>2, <2>3 DEF to
  <1> HIDE DEF sent
  <1> DEFINE ack == ReplyAck(m)
  <1>14. \A x \in ack : Outward(x, idCache)
    BY <1>7
  <1> HIDE DEF ack
  <1>15. ASSUME NEW x, AtHome(n, x), NEW out, \A y \in out : Outward(y, idCache),
                Handled(m, x, ack \cup out)
         PROVE  ForestInv'
    <2>1. \A y \in ack \cup out : Outward(y, idCache)
      BY <1>14, <1>15
    <2> QED
      BY <1>9, <1>15, <2>1
  <1>16. CASE \E x, e : /\ Handled(m, x, ack \cup FromQueue(n, h.dst, e))
                        /\ x = t \/ x = found
    BY <1>8, <1>10, <1>11, <1>15, <1>16
  <1>17. CASE Handled(m, t, ack)
    BY <1>9, <1>10, <1>14, <1>17
  <1>18. CASE n # h.origin /\ Handled(m, t2, ack \cup sent)
    BY <1>12, <1>13, <1>15, <1>18
  <1>19. CASE Handled(m, t2, ack \cup {})
    <2>1. \A y \in ack \cup {} : Outward(y, idCache)
      BY <1>14
    <2> QED
      BY <1>9, <1>12, <1>19, <2>1
  <1> QED
    BY <1>2, <1>16, <1>17, <1>18, <1>19 DEF ack

(* Hellos, acknowledgments, errors and data.                               *)
LEMMA QuietHandlerForest ==
  ASSUME Forest(Link0), IInv, FloodInv, ForestInv, NEW m \in msgs,
         ProcessHello(m) \/ RecvReplyAck(m) \/ RecvError(m) \/ RouteInput(m)
  PROVE  ForestInv'
  <1> DEFINE n == m.to
             h == m.hdr
             t == Received(m)
             p == Purged(rtab[n])
  <1>1. n \in Node /\ h \in Header /\ m.from \in Node
    BY ReceivedGood
  <1>2. UNCHANGED <<links, idCache>>
    BY DEF ProcessHello, RecvReplyAck, RecvError, RouteInput
  <1>3. /\ AtHome(n, t) /\ AtHome(n, rtab[n]) /\ AtHome(n, p)
        /\ <<n, m.from>> \in Link0 /\ t[m.from].nextHop \in Node
        /\ links \subseteq Link0
    BY <1>1, StartsHome DEF ForestInv
  <1>4. ASSUME NEW x, AtHome(n, x), NEW out, Handled(m, x, out),
               \A y \in out : Outward(y, idCache)
        PROVE  ForestInv'
    <2>1. /\ \A y \in Node : idCache[y] \subseteq idCache'[y]
          /\ \A y \in out : Outward(y, idCache')
      BY <1>2, <1>4
    <2> QED
      BY <1>2, <1>4, <2>1, HandledForest
  <1>5. CASE ProcessHello(m)
    <2>1. /\ h.type = "RREP" /\ h.dst = h.origin
          /\ Handled(m, RouteFromHello(t, h.dst, h.dstSeq), {})
      BY <1>5 DEF ProcessHello
    <2>2. h.dst = m.from
      BY <2>1 DEF FloodInv, Straight
    <2>3. h.dstSeq \in Nat
      BY <1>1, <2>1, HeaderFields
    <2> HIDE DEF h, t, n
    <2>4. AtHome(n, RouteFromHello(t, h.dst, h.dstSeq))
      BY <1>1, <1>3, <2>2, <2>3, HomeNeighbor
    <2> QED
      BY <1>4, <2>1, <2>4
  <1>6. CASE RecvReplyAck(m)
    <2>1. Handled(m, RouteAcked(t, m.from), {})
      BY <1>6 DEF RecvReplyAck
    <2> HIDE DEF t, n
    <2>2. 0 \in Nat
      OBVIOUS
    <2>3. AtHome(n, RouteAcked(t, m.from))
      BY <1>1, <1>3, <2>2, HomeNeighbor
    <2> QED
      BY <1>4, <2>1, <2>3
  <1>7. CASE RecvError(m)
    <2> DEFINE D == h.unreachable \cap DestinationsWithNextHop(t, m.from)
               P == PrecursorsOf(t, D)
    <2>1. Handled(m, InvalidateRoutesWithDst(t, D), RerrMessages(n, t, P, D))
      BY <1>7 DEF RecvError
    <2> HIDE DEF t, n, D, P
    <2>2. AtHome(n, InvalidateRoutesWithDst(t, D))
      BY <1>1, <1>3, HomeKept
    <2>3. \A x \in RerrMessages(n, t, P, D) : Outward(x, idCache)
      BY <1>1, <1>3, RerrOutward
    <2> QED
      BY <1>4, <2>1, <2>2, <2>3
  <1>8. CASE RouteInput(m)
    <2>1. h.type = "DATA"
      BY <1>8 DEF RouteInput
    <2>2. \E x, out : /\ Handled(m, x, out)
                      /\ x = rtab[n] \/ x = p
                      /\ \/ out = {}
                         \/ \E y : out = Unicast(n, y, 0, h)
                         \/ \E c : out = RerrToSource(n, c, h.src, h.dst)
      BY <1>8 DEF RouteInput
    <2> HIDE DEF t, n, h, p
    <2>3. \A y : \A x \in Unicast(n, y, 0, h) : Outward(x, idCache)
      BY <1>1, <1>3, <2>1, PlainOutward
    <2>4. \A c : \A x \in RerrToSource(n, c, h.src, h.dst) : Outward(x, idCache)
      BY <1>1, <1>3, RerrOutward
    <2> QED
      BY <1>3, <1>4, <2>2, <2>3, <2>4
  <1> QED
    BY <1>5, <1>6, <1>7, <1>8

(* Broken links, lapsed routes and the timers.                             *)
LEMMA BackgroundForest ==
  ASSUME Forest(Link0), IInv, ForestInv, NEW n \in Node,
         \/ RreqRateLimitTimerExpire(n) \/ RerrRateLimitTimerExpire(n)
         \/ HelloTimerExpire(n)
         \/ \E d \in Node : \/ SendRerrWhenBreaksLinkToNextHop(n, d)
                            \/ Lapse(n, d) \/ LinkBreaks(n, d)
  PROVE  ForestInv'
  <1>1. UNCHANGED idCache /\ links' \subseteq links
    BY DEF RreqRateLimitTimerExpire, RerrRateLimitTimerExpire, HelloTimerExpire,
       SendRerrWhenBreaksLinkToNextHop, Lapse, LinkBreaks, nodeVars
  <1>2. links \subseteq Link0
    BY DEF ForestInv
  <1>3. ASSUME UNCHANGED rtab, \A m \in msgs' \ msgs : Outward(m, idCache)
        PROVE  ForestInv'
    <2>1. \A m \in msgs' : Outward(m, idCache)
      BY <1>3 DEF ForestInv
    <2> QED
      BY <1>1, <1>3, <2>1 DEF ForestInv
  <1>4. ASSUME NEW u, AtHome(n, u), rtab' = [rtab EXCEPT ![n] = u],
               \A m \in msgs' \ msgs : Outward(m, idCache)
        PROVE  ForestInv'
    <2>1. /\ \A x \in Node : idCache[x] \subseteq idCache'[x]
          /\ \A m \in msgs' \ msgs : Outward(m, idCache')
      BY <1>1, <1>4
    <2> QED
      BY <1>1, <1>4, <2>1, ForestStep
  <1>5. CASE HelloTimerExpire(n)
    <2> DEFINE h == [type |-> "RREP", dst |-> n, dstSeq |-> seqNo[n],
                     origin |-> n, hop |-> 0, ack |-> FALSE]
    <2>1. UNCHANGED rtab /\ msgs' \ msgs \subseteq Broadcast(n, 1, h)
      BY <1>5 DEF HelloTimerExpire
    <2>2. h.type = "RREP" /\ h.dst = h.origin
      OBVIOUS
    <2> HIDE DEF h
    <2>3. \A m \in Broadcast(n, 1, h) : Outward(m, idCache)
      BY <1>2, <2>2, PlainOutward
    <2> QED
      BY <1>3, <2>1, <2>3
  <1>6. ASSUME NEW d \in Node, SendRerrWhenBreaksLinkToNextHop(n, d)
        PROVE  ForestInv'
    <2> DEFINE t == Purged(rtab[n])
               D == {d} \cup DestinationsWithNextHop(t, d)
               P == PrecursorsOf(t, D)
               u == InvalidateRoutesWithDst(t, D)
    <2>1. \E x : /\ x = t \/ x = u
                 /\ rtab' = [rtab EXCEPT ![n] = x]
                 /\ msgs' \ msgs \subseteq RerrMessages(n, t, P, D)
      BY <1>6 DEF SendRerrWhenBreaksLinkToNextHop
    <2>2. AtHome(n, t)
      BY StartsHome
    <2> HIDE DEF t, D, P
    <2>3. AtHome(n, u)
      BY <2>2, HomeKept
    <2>4. \A m \in RerrMessages(n, t, P, D) : Outward(m, idCache)
      BY <1>2, RerrOutward
    <2> HIDE DEF u
    <2> QED
      BY <1>4, <2>1, <2>2, <2>3, <2>4
  <1>7. ASSUME NEW d \in Node, Lapse(n, d) PROVE ForestInv'
    <2> DEFINE t == rtab[n]
               u == [t EXCEPT ![d].live = FALSE]
    <2>1. rtab' = [rtab EXCEPT ![n] = u] /\ UNCHANGED msgs
      BY <1>7, Parts DEF Lapse, TablesOK
    <2>2. AtHome(n, t)
      BY StartsHome
    <2>3. u = [t EXCEPT ![d] = [@ EXCEPT !.live = FALSE]]
      <3>1. t \in Table
        BY <2>2 DEF AtHome, KeepsWay
      <3> QED
        BY <3>1 DEF Table
    <2> HIDE DEF t, u
    <2>4. AtHome(n, [t EXCEPT ![d] = [@ EXCEPT !.live = FALSE]])
      BY <2>2, HomeKept
    <2> QED
      BY <1>4, <2>1, <2>3, <2>4
  <1>8. CASE UNCHANGED <<rtab, msgs>>
    BY <1>3, <1>8
  <1> QED
    BY <1>5, <1>6, <1>7, <1>8 DEF RreqRateLimitTimerExpire,
       RerrRateLimitTimerExpire, LinkBreaks, nodeVars

(* Every step keeps the next hops and the messages on the way.             *)
LEMMA NextForest ==
  ASSUME Forest(Link0), IInv, FloodInv, TrafficInv, ForestInv, [Next]_vars
  PROVE  ForestInv'
  <1>1. ASSUME NEW m \in msgs,
               \/ RecvRequest(m) \/ RecvRevRequest(m) \/ RecvReply(m)
               \/ ProcessHello(m) \/ RecvReplyAck(m) \/ RecvError(m)
               \/ RouteInput(m)
        PROVE  ForestInv'
    BY <1>1, RecvRequestForest, RecvRevRequestForest, RecvReplyForest,
       QuietHandlerForest
  <1>2. ASSUME NEW n \in Node,
               \/ RreqRateLimitTimerExpire(n) \/ RerrRateLimitTimerExpire(n)
               \/ HelloTimerExpire(n)
        PROVE  ForestInv'
    BY <1>2, BackgroundForest
  <1>3. ASSUME NEW n \in Node, NEW d \in Node,
               \/ RouteOutput(n, d) \/ DeferredRouteOutput(n, d)
               \/ DeferredRequest(n, d) \/ DeferredRevRequest(n, d)
               \/ RouteRequestTimerExpire(n, d)
        PROVE  ForestInv'
    BY <1>3, SenderForest
  <1>4. ASSUME NEW n \in Node, NEW d \in Node,
               \/ SendRerrWhenBreaksLinkToNextHop(n, d)
               \/ Lapse(n, d) \/ LinkBreaks(n, d)
        PROVE  ForestInv'
    BY <1>4, BackgroundForest
  <1>5. CASE UNCHANGED vars
    BY <1>5 DEF vars, ForestInv
  <1> QED
    BY <1>1, <1>2, <1>3, <1>4, <1>5 DEF Next

(* At the start there are no routes and no messages.                       *)
LEMMA InitForest == Forest(Link0) /\ Init => ForestInv
  <1> SUFFICES ASSUME Forest(Link0), Init PROVE ForestInv
    OBVIOUS
  <1>1. ASSUME NEW n \in Node PROVE AtHome(n, EmptyTable)
    <2>1. \A d \in Node \ {n} : OnWay(EmptyTable[d], Home(n)[d])
      <3>1. \A x : OnWay(NoEntry, x)
        BY EntryTypes, EntryWay
      <3>2. \A d \in Node : EmptyTable[d] = NoEntry
        BY DEF EmptyTable
      <3> QED
        BY <3>1, <3>2
    <2> QED
      BY <2>1, HomeWay, EmptyTableType DEF AtHome, KeepsWay
  <1> QED
    BY <1>1 DEF Init, ForestInv

(* Next hops and messages are on the way for ever.                         *)
LEMMA ForestInvariance == Forest(Link0) => (Spec => [](IInv /\ ForestInv))
  <1> SUFFICES ASSUME Forest(Link0) PROVE Spec => [](IInv /\ ForestInv)
    OBVIOUS
  <1>1. IInv /\ FloodInv /\ TrafficInv /\ ForestInv /\ [Next]_vars => ForestInv'
    BY NextForest
  <1>2. Init => ForestInv
    BY InitForest
  <1> QED
    BY <1>1, <1>2, FloodInvariance, PTL DEF Spec

(* Where the radio links make no circle no packet goes round in one, for   *)
(* any number of nodes, any traffic and any configuration, while links     *)
(* break, routes lapse and messages are lost or come late.  With a circle  *)
(* of links TLC finds a loop.                                              *)
THEOREM NoLoopInForests == Forest(Link0) => (Spec => []NoLoop)
  <1> SUFFICES ASSUME Forest(Link0) PROVE Spec => []NoLoop
    OBVIOUS
  <1>1. IInv /\ ForestInv => NoLoop
    <2> SUFFICES ASSUME IInv, ForestInv, NEW d \in Node,
                        NEW S \in (SUBSET (Node \ {d})) \ {{}}
                 PROVE  \E n \in S : ~Valid(rtab[n], d) \/ rtab[n][d].nextHop \notin S
      BY DEF NoLoop
    <2>1. S \in (SUBSET Node) \ {{}}
      OBVIOUS
    <2>2. PICK n \in S : n = d \/ Up[d][n] \notin S
      BY <2>1, UpLeads DEF Leads
    <2>3. n \in Node /\ n # d /\ d \in Node \ {n} /\ Up[d][n] \notin S
      BY <2>2
    <2>4. OnWay(rtab[n][d], Up[d][n])
      BY <2>3, HomeWay DEF ForestInv, AtHome, KeepsWay
    <2>5. rtab[n][d].nextHop \in S => rtab[n][d].nextHop \in Node
      OBVIOUS
    <2>6. rtab[n][d].nextHop \in Node => rtab[n][d].nextHop = Up[d][n]
      BY <2>4, NodeAssumption DEF OnWay
    <2> QED
      BY <2>2, <2>3, <2>5, <2>6
  <1> QED
    BY <1>1, ForestInvariance, PTL

-----------------------------------------------------------------------------
(***************************************************************************)
(* Retries.  The count of an entry is zero unless it is searched for, and  *)
(* for a destination of the node's own traffic it is at most RreqRetries:  *)
(* the retry timer asks again only below that, and the first request of a  *)
(* search starts from an entry that is not searched for.  Two things break *)
(* this: a request that the rate limit put off goes out whatever the count *)
(* has become, and a reverse request for a node that this one sends to     *)
(* counts on the same entry.                                               *)
(***************************************************************************)
NothingPutOff == \A n, d \in Node : deferred[n][d] = 0

Allowed(n) ==
  [d \in Node |-> IF <<n, d>> \in Flow THEN 0 .. RreqRetries ELSE Nat]

CountInv == \A n \in Node : KeepsCount(rtab[n], Allowed(n))

(* The first request is always allowed.                                    *)
LEMMA AllowedCounts ==
  ASSUME NEW n \in Node, NEW d \in Node
  PROVE  /\ Allowed(n)[d] \subseteq Nat /\ 0 \in Allowed(n)[d]
         /\ \A k \in Nat : k < RreqRetries \/ <<n, d>> \notin Flow =>
              k + 1 \in Allowed(n)[d]
         /\ <<n, d>> \in Flow => \A k \in Allowed(n)[d] : k <= RreqRetries
         /\ RreqRetries \in Nat /\ 0 < RreqRetries
  <1>1. RreqRetries \in Nat /\ 0 < RreqRetries
    BY RaodvAssumption
  <1>2. Allowed(n)[d] = IF <<n, d>> \in Flow THEN 0 .. RreqRetries ELSE Nat
    BY DEF Allowed
  <1> QED
    BY <1>1, <1>2

(* A step that changes the table of one node.                              *)
LEMMA CountStep ==
  ASSUME IInv, CountInv, NEW n \in Node, NEW u, KeepsCount(u, Allowed(n)),
         rtab' = [rtab EXCEPT ![n] = u]
  PROVE  CountInv'
  <1>1. rtab'[n] = u /\ \A x \in Node \ {n} : rtab'[x] = rtab[x]
    BY Parts DEF TablesOK
  <1> QED
    BY <1>1 DEF CountInv

(* The tables that actions start from.                                     *)
LEMMA StartsCounted ==
  ASSUME IInv, CountInv
  PROVE  /\ \A n \in Node : /\ KeepsCount(rtab[n], Allowed(n))
                            /\ KeepsCount(Purged(rtab[n]), Allowed(n))
         /\ \A m \in msgs : KeepsCount(Received(m), Allowed(m.to))
  <1>1. \A n \in Node : /\ KeepsCount(rtab[n], Allowed(n))
                        /\ KeepsCount(Purged(rtab[n]), Allowed(n))
    BY ShrinkCount DEF CountInv
  <1>2. ASSUME NEW m \in msgs PROVE KeepsCount(Received(m), Allowed(m.to))
    <2>1. m.to \in Node /\ m.from \in Node /\ 0 \in Nat
      BY ReceivedGood
    <2> QED
      BY <1>1, <2>1, RewrittenCount DEF Received
  <1> QED
    BY <1>1, <1>2

(* The TTL of a request is a number.                                       *)
LEMMA TtlTypes ==
  ASSUME NEW t \in Table, NEW d \in Node
  PROVE  /\ RequestTtl(t[d]) \in Nat /\ NetDiameter \in Nat
         /\ RingTtl(t[d], TtlIncrement, TtlThreshold, NetDiameter) \in Nat
  <1>1. t[d] \in Entry
    BY DEF Table
  <1> QED
    BY <1>1, ConstantTypes, RingTtlType DEF RequestTtl

(* SendRequest, while fewer requests are counted than are allowed.         *)
LEMMA SendRequestCount ==
  ASSUME IInv, CountInv, NEW n \in Node, NEW d \in Node, NEW t,
         KeepsCount(t, Allowed(n)), t[d].reqCnt < RreqRetries,
         NEW pending, NEW timers, SendRequest(n, d, t, pending, timers)
  PROVE  CountInv'
  <1> DEFINE ttl == RequestTtl(t[d])
             u == SearchEntry(t, d)
  <1>1. t \in Table /\ t[d].reqCnt \in Nat
    BY DEF KeepsCount, Table, Entry
  <1>2. ttl \in Nat /\ NetDiameter \in Nat /\ t[d].reqCnt + 1 \in Allowed(n)[d]
    BY <1>1, TtlTypes, AllowedCounts
  <1>3. u = IF Present(t, d) THEN Update(t, d, InSearch(t[d], ttl, NetDiameter))
            ELSE AddRoute(t, d, DummyEntry(ttl, NetDiameter))
    BY DEF SearchEntry
  <1>4. rtab' = [rtab EXCEPT ![n] = t] \/ rtab' = [rtab EXCEPT ![n] = u]
    BY DEF SendRequest
  <1> HIDE DEF ttl, u
  <1>5. KeepsCount(u, Allowed(n))
    BY <1>2, <1>3, SearchCount
  <1> QED
    BY <1>4, <1>5, CountStep

(* SendRevRequest, for a node that this one does not send to.              *)
LEMMA SendRevRequestCount ==
  ASSUME IInv, CountInv, OneWayTraffic, NEW n \in Node, NEW o \in Node,
         <<o, n>> \in Flow, NEW t, KeepsCount(t, Allowed(n)),
         NEW pending, NEW cache, NEW in,
         SendRevRequest(n, o, t, pending, cache, in)
  PROVE  CountInv'
  <1> DEFINE ttl == RingTtl(t[o], TtlIncrement, TtlThreshold, NetDiameter)
             u == Update(t, o, InSearch(t[o], ttl, NetDiameter))
  <1>1. t \in Table /\ t[o].reqCnt \in Nat
    BY DEF KeepsCount, Table, Entry
  <1>2. <<n, o>> \notin Flow
    <2> DEFINE f == <<o, n>>
    <2>1. f \in Flow /\ f[1] = o /\ f[2] = n
      OBVIOUS
    <2> HIDE DEF f
    <2> QED
      BY <2>1 DEF OneWayTraffic
  <1>3. ttl \in Nat /\ NetDiameter \in Nat /\ t[o].reqCnt + 1 \in Allowed(n)[o]
    BY <1>1, <1>2, TtlTypes, AllowedCounts
  <1>4. rtab' = [rtab EXCEPT ![n] = t] \/ rtab' = [rtab EXCEPT ![n] = u]
    BY DEF SendRevRequest, FloodRevRequest
  <1> HIDE DEF ttl
  <1>5. KeepsCount(u, Allowed(n))
    BY <1>3, SearchCount
  <1> HIDE DEF u
  <1> QED
    BY <1>4, <1>5, CountStep

(* The sender's own actions.                                               *)
LEMMA SenderCount ==
  ASSUME IInv, TrafficInv, CountInv, OneWayTraffic, NothingPutOff,
         NEW n \in Node, NEW d \in Node,
         \/ RouteOutput(n, d) \/ DeferredRouteOutput(n, d)
         \/ DeferredRequest(n, d) \/ RouteRequestTimerExpire(n, d)
         \/ DeferredRevRequest(n, d)
  PROVE  CountInv'
  <1> DEFINE t == Purged(rtab[n])
             gone == DeleteRoute(t, d)
  <1>1. KeepsCount(t, Allowed(n))
    BY StartsCounted
  <1>2. KeepsCount(gone, Allowed(n))
    <2> HIDE DEF t
    <2> QED
      BY <1>1, ShrinkCount
  <1>3. RreqRetries \in Nat /\ 0 < RreqRetries /\ t[d].reqCnt \in Nat
    BY <1>1, AllowedCounts DEF KeepsCount, Table, Entry
  <1>4. t[d].flag # "IN_SEARCH" => t[d].reqCnt = 0
    <2> HIDE DEF t
    <2> QED
      BY <1>1 DEF KeepsCount, Counted
  <1>5. d \in reqTimer[n] => t[d].reqCnt <= RreqRetries
    <2>1. d \in reqTimer[n] => <<n, d>> \in Flow
      BY TrafficParts
    <2>2. t[d].reqCnt \in Allowed(n)[d]
      <3> HIDE DEF t
      <3> QED
        BY <1>1 DEF KeepsCount, Counted
    <2> QED
      BY <2>1, <2>2, AllowedCounts
  <1> HIDE DEF t, gone
  <1>6. ASSUME t[d].reqCnt < RreqRetries, NEW pending, NEW timers,
               SendRequest(n, d, t, pending, timers)
        PROVE  CountInv'
    BY <1>1, <1>6, SendRequestCount
  <1>7. ASSUME rtab' = [rtab EXCEPT ![n] = t] \/ rtab' = [rtab EXCEPT ![n] = gone]
        PROVE  CountInv'
    BY <1>1, <1>2, <1>7, CountStep
  <1>8. CASE RouteOutput(n, d)
    BY <1>7, <1>8 DEF RouteOutput, t
  <1>9. CASE DeferredRouteOutput(n, d)
    <2>1. \/ t[d].flag # "IN_SEARCH" /\ SendRequest(n, d, t, deferred, reqTimer[n])
          \/ rtab' = [rtab EXCEPT ![n] = t]
      BY <1>9 DEF DeferredRouteOutput, t
    <2> QED
      BY <1>3, <1>4, <1>6, <1>7, <2>1
  <1>10. CASE DeferredRequest(n, d)
    BY <1>10 DEF DeferredRequest, NothingPutOff
  <1>11. CASE RouteRequestTimerExpire(n, d)
    <2>1. /\ d \in reqTimer[n]
          /\ \/ /\ t[d].reqCnt # RreqRetries
                /\ SendRequest(n, d, t, deferred, reqTimer[n] \ {d})
             \/ rtab' = [rtab EXCEPT ![n] = t]
             \/ rtab' = [rtab EXCEPT ![n] = gone]
      BY <1>11 DEF RouteRequestTimerExpire, StopSearch, GivesUp, t, gone
    <2> QED
      BY <1>3, <1>5, <1>6, <1>7, <2>1
  <1>12. CASE DeferredRevRequest(n, d)
    <2> DEFINE pending == Take(deferredRev, n, d)
    <2>1. /\ deferredRev[n][d] > 0
          /\ SendRevRequest(n, d, t, pending, idCache[n], msgs)
      BY <1>12 DEF DeferredRevRequest, t
    <2>2. <<d, n>> \in Flow
      BY <2>1, TrafficParts
    <2> HIDE DEF pending
    <2> QED
      BY <1>1, <2>1, <2>2, SendRevRequestCount
  <1> QED
    BY <1>8, <1>9, <1>10, <1>11, <1>12

(* Requests and reverse requests.                                          *)
LEMMA FloodHandlerCount ==
  ASSUME IInv, FloodInv, CountInv, OneWayTraffic, NEW m \in msgs,
         RecvRequest(m) \/ RecvRevRequest(m)
  PROVE  CountInv'
  <1> DEFINE n == m.to
             h == m.hdr
             t0 == Received(m)
             t1 == RouteToOrigin(t0, h.origin, h.originSeq, h.hop + 1, m.from)
             t2 == RouteToReplier(t0, h.origin, h.originSeq, h.hop + 1, m.from)
             t == RouteToRreqSender(t1, m.from, h.originSeq)
             u == LinkReplyPrecursors(t, h.dst, h.origin)
             cache == idCache[n] \cup {<<h.origin, h.id>>}
             in == msgs \ {m}
  <1>1. n \in Node /\ h \in Header /\ m.from \in Node
    BY ReceivedGood
  <1>2. IsFlood(m)
    BY DEF RecvRequest, RecvRevRequest, IsFlood
  <1>3. /\ h.origin \in Node /\ h.dst \in Node /\ h.originSeq \in Nat
        /\ h.hop + 1 \in Nat
    <2>1. h.origin \in Node /\ h.dst \in Node /\ h.originSeq \in Nat /\ h.hop \in Nat
      BY <1>1, <1>2, HeaderFields DEF IsFlood
    <2> QED
      BY <2>1
  <1>4. KeepsCount(t0, Allowed(n))
    BY StartsCounted
  <1> HIDE DEF t0
  <1>5. KeepsCount(t1, Allowed(n)) /\ KeepsCount(t2, Allowed(n))
    BY <1>1, <1>3, <1>4, RewrittenCount
  <1> HIDE DEF t1, t2
  <1>6. KeepsCount(t, Allowed(n))
    BY <1>1, <1>3, <1>5, RewrittenCount
  <1> HIDE DEF t
  <1>7. KeepsCount(u, Allowed(n))
    BY <1>3, <1>6, PrecursorsCount
  <1> HIDE DEF u
  <1>8. ASSUME NEW x, x \in {t0, t1, t2, t, u}, rtab' = [rtab EXCEPT ![n] = x]
        PROVE  CountInv'
    BY <1>1, <1>4, <1>5, <1>6, <1>7, <1>8, CountStep
  <1>9. CASE RecvRequest(m)
    <2>1. \/ \E x \in {t0, t, u} : rtab' = [rtab EXCEPT ![n] = x]
          \/ /\ n = h.dst /\ h.type = "RREQ"
             /\ SendRevRequest(n, h.origin, t, deferredRev, cache, in)
      BY <1>9 DEF RecvRequest, Handled, t0, t1, t, u
    <2>2. CASE \E x \in {t0, t, u} : rtab' = [rtab EXCEPT ![n] = x]
      BY <1>8, <2>2
    <2>3. CASE /\ n = h.dst /\ h.type = "RREQ"
               /\ SendRevRequest(n, h.origin, t, deferredRev, cache, in)
      <3>1. <<h.origin, n>> \in Flow
        BY <2>3 DEF FloodInv, Straight
      <3> HIDE DEF n, h, cache, in
      <3> QED
        BY <1>1, <1>3, <1>6, <2>3, <3>1, SendRevRequestCount
    <2> QED
      BY <2>1, <2>2, <2>3
  <1>10. CASE RecvRevRequest(m)
    <2>1. \E x \in {t0, t1, t2} : rtab' = [rtab EXCEPT ![n] = x]
      BY <1>10 DEF RecvRevRequest, Handled, t0, t1, t2
    <2> QED
      BY <1>8, <2>1
  <1> QED
    BY <1>9, <1>10

(* Replies.                                                                *)
LEMMA RecvReplyCount ==
  ASSUME IInv, CountInv, NEW m \in msgs, RecvReply(m)
  PROVE  CountInv'
  <1> DEFINE n == m.to
             h == m.hdr
             t0 == Received(m)
             t == ForwardRoute(t0, h.dst, h.dstSeq, h.hop + 1, m.from)
             found == Update(t, h.dst, NewEntry(TRUE, h.dstSeq, h.hop + 1, m.from))
             e == [t[h.origin] EXCEPT !.live = TRUE]
             t1 == Update(t, h.origin, e)
             t2 == LinkPrecursors(t1, h.dst, h.origin)
  <1>1. n \in Node /\ h \in Header /\ m.from \in Node
    BY ReceivedGood
  <1>2. h.type = "RREP" /\ \E x \in {t, found, t1, t2} : rtab' = [rtab EXCEPT ![n] = x]
    <2>1. /\ h.type = "RREP"
          /\ IF n = h.origin THEN ReplyArrives(m, t) ELSE ReplyPasses(m, t)
      BY DEF RecvReply
    <2>2. ReplyArrives(m, t) => \E x \in {t, found} : rtab' = [rtab EXCEPT ![n] = x]
      BY DEF ReplyArrives, Handled
    <2>3. ReplyPasses(m, t) => \E x \in {t, t1, t2} : rtab' = [rtab EXCEPT ![n] = x]
      BY DEF ReplyPasses, Handled
    <2> QED
      BY <2>1, <2>2, <2>3
  <1>3. /\ h.dst \in Node /\ h.origin \in Node /\ h.dstSeq \in Nat
        /\ h.hop + 1 \in Nat
    <2>1. h.dst \in Node /\ h.origin \in Node /\ h.dstSeq \in Nat /\ h.hop \in Nat
      BY <1>1, <1>2, HeaderFields
    <2> QED
      BY <2>1
  <1>4. KeepsCount(t0, Allowed(n))
    BY StartsCounted
  <1> HIDE DEF n, h, t0
  <1>5. KeepsCount(t, Allowed(n))
    BY <1>1, <1>3, <1>4, RewrittenCount
  <1> HIDE DEF t
  <1>6. KeepsCount(found, Allowed(n))
    BY <1>1, <1>3, <1>5, RewrittenCount
  <1>7. KeepsCount(t1, Allowed(n))
    <2>1. t[h.origin] \in Entry /\ t[h.origin].reqCnt \in Allowed(n)[h.origin]
      BY <1>3, <1>5 DEF KeepsCount, Counted, Table
    <2>2. e \in Entry /\ e.reqCnt = t[h.origin].reqCnt
      BY <2>1 DEF Entry
    <2> HIDE DEF e
    <2> QED
      BY <1>3, <1>5, <2>1, <2>2, UpdateCount
  <1> HIDE DEF found, t1
  <1>8. KeepsCount(t2, Allowed(n))
    BY <1>3, <1>7, PrecursorsCount
  <1> HIDE DEF t2
  <1> QED
    BY <1>1, <1>2, <1>5, <1>6, <1>7, <1>8, CountStep

(* Hellos, acknowledgments, errors and data.                               *)
LEMMA QuietHandlerCount ==
  ASSUME IInv, CountInv, NEW m \in msgs,
         ProcessHello(m) \/ RecvReplyAck(m) \/ RecvError(m) \/ RouteInput(m)
  PROVE  CountInv'
  <1> DEFINE n == m.to
             h == m.hdr
             t == Received(m)
             p == Purged(rtab[n])
             D == h.unreachable \cap DestinationsWithNextHop(t, m.from)
  <1>1. n \in Node /\ h \in Header /\ m.from \in Node /\ 0 \in Nat
    BY ReceivedGood
  <1>2. /\ KeepsCount(t, Allowed(n)) /\ KeepsCount(p, Allowed(n))
        /\ KeepsCount(rtab[n], Allowed(n))
    BY <1>1, StartsCounted
  <1>3. CASE ProcessHello(m)
    <2>1. /\ h.type = "RREP"
          /\ rtab' = [rtab EXCEPT ![n] = RouteFromHello(t, h.dst, h.dstSeq)]
      BY <1>3 DEF ProcessHello, Handled
    <2>2. h.dst \in Node /\ h.dstSeq \in Nat
      BY <1>1, <2>1, HeaderFields
    <2> HIDE DEF n, h, t
    <2>3. KeepsCount(RouteFromHello(t, h.dst, h.dstSeq), Allowed(n))
      BY <1>1, <1>2, <2>2, RewrittenCount
    <2> QED
      BY <1>1, <2>1, <2>3, CountStep
  <1>4. CASE RecvReplyAck(m)
    <2>1. rtab' = [rtab EXCEPT ![n] = RouteAcked(t, m.from)]
      BY <1>4 DEF RecvReplyAck, Handled
    <2> HIDE DEF n, t
    <2>2. KeepsCount(RouteAcked(t, m.from), Allowed(n))
      BY <1>1, <1>2, RewrittenCount
    <2> QED
      BY <1>1, <2>1, <2>2, CountStep
  <1>5. CASE RecvError(m)
    <2>1. rtab' = [rtab EXCEPT ![n] = InvalidateRoutesWithDst(t, D)]
      BY <1>5 DEF RecvError, Handled
    <2> HIDE DEF n, t, D
    <2>2. KeepsCount(InvalidateRoutesWithDst(t, D), Allowed(n))
      BY <1>2, ShrinkCount
    <2> QED
      BY <1>1, <2>1, <2>2, CountStep
  <1>6. CASE RouteInput(m)
    <2>1. rtab' = [rtab EXCEPT ![n] = rtab[n]] \/ rtab' = [rtab EXCEPT ![n] = p]
      BY <1>6 DEF RouteInput, Handled
    <2> HIDE DEF n, p
    <2> QED
      BY <1>1, <1>2, <2>1, CountStep
  <1> QED
    BY <1>3, <1>4, <1>5, <1>6

(* Broken links, lapsed routes and the timers.                             *)
LEMMA BackgroundCount ==
  ASSUME IInv, CountInv, NEW n \in Node,
         \/ RreqRateLimitTimerExpire(n) \/ RerrRateLimitTimerExpire(n)
         \/ HelloTimerExpire(n)
         \/ \E d \in Node : \/ SendRerrWhenBreaksLinkToNextHop(n, d)
                            \/ Lapse(n, d) \/ LinkBreaks(n, d)
  PROVE  CountInv'
  <1>1. CASE UNCHANGED rtab
    BY <1>1 DEF CountInv
  <1>2. ASSUME NEW d \in Node, SendRerrWhenBreaksLinkToNextHop(n, d)
        PROVE  CountInv'
    <2> DEFINE t == Purged(rtab[n])
               D == {d} \cup DestinationsWithNextHop(t, d)
               u == InvalidateRoutesWithDst(t, D)
    <2>1. rtab' = [rtab EXCEPT ![n] = u] \/ rtab' = [rtab EXCEPT ![n] = t]
      BY <1>2 DEF SendRerrWhenBreaksLinkToNextHop
    <2>2. KeepsCount(t, Allowed(n))
      BY StartsCounted
    <2> HIDE DEF t, D
    <2>3. KeepsCount(u, Allowed(n))
      BY <2>2, ShrinkCount
    <2> HIDE DEF u
    <2> QED
      BY <2>1, <2>2, <2>3, CountStep
  <1>3. ASSUME NEW d \in Node, Lapse(n, d) PROVE CountInv'
    <2> DEFINE t == rtab[n]
               e == [t[d] EXCEPT !.live = FALSE]
               u == [t EXCEPT ![d] = e]
    <2>1. KeepsCount(t, Allowed(n)) /\ t \in Table
      BY StartsCounted DEF KeepsCount
    <2>2. rtab' = [rtab EXCEPT ![n] = u]
      BY <1>3, <2>1, Parts DEF Lapse, TablesOK, Table
    <2>3. t[d] \in Entry /\ t[d].reqCnt \in Allowed(n)[d]
      BY <2>1 DEF KeepsCount, Counted, Table
    <2>4. e \in Entry /\ e.flag = t[d].flag /\ e.reqCnt = t[d].reqCnt
      BY <2>3 DEF Entry
    <2> HIDE DEF t, e
    <2>5. KeepsCount(u, Allowed(n))
      BY <2>1, <2>3, <2>4, UpdateCount
    <2> HIDE DEF u
    <2> QED
      BY <2>2, <2>5, CountStep
  <1> QED
    BY <1>1, <1>2, <1>3 DEF RreqRateLimitTimerExpire, RerrRateLimitTimerExpire,
       HelloTimerExpire, LinkBreaks, nodeVars

(* Every step keeps the counts, as long as no request is put off.          *)
LEMMA NextCount ==
  ASSUME OneWayTraffic, IInv, FloodInv, TrafficInv, CountInv, NothingPutOff,
         [Next]_vars
  PROVE  CountInv'
  <1>1. ASSUME NEW m \in msgs,
               \/ RecvRequest(m) \/ RecvRevRequest(m) \/ RecvReply(m)
               \/ ProcessHello(m) \/ RecvReplyAck(m) \/ RecvError(m)
               \/ RouteInput(m)
        PROVE  CountInv'
    BY <1>1, FloodHandlerCount, RecvReplyCount, QuietHandlerCount
  <1>2. ASSUME NEW n \in Node,
               \/ RreqRateLimitTimerExpire(n) \/ RerrRateLimitTimerExpire(n)
               \/ HelloTimerExpire(n)
        PROVE  CountInv'
    BY <1>2, BackgroundCount
  <1>3. ASSUME NEW n \in Node, NEW d \in Node,
               \/ RouteOutput(n, d) \/ DeferredRouteOutput(n, d)
               \/ DeferredRequest(n, d) \/ DeferredRevRequest(n, d)
               \/ RouteRequestTimerExpire(n, d)
        PROVE  CountInv'
    BY <1>3, SenderCount
  <1>4. ASSUME NEW n \in Node, NEW d \in Node,
               \/ SendRerrWhenBreaksLinkToNextHop(n, d)
               \/ Lapse(n, d) \/ LinkBreaks(n, d)
        PROVE  CountInv'
    BY <1>4, BackgroundCount
  <1>5. CASE UNCHANGED vars
    BY <1>5 DEF vars, CountInv
  <1> QED
    BY <1>1, <1>2, <1>3, <1>4, <1>5 DEF Next

(* At the start nothing is counted.                                        *)
LEMMA InitCount == Init => CountInv
  <1> SUFFICES ASSUME Init PROVE CountInv
    OBVIOUS
  <1>1. ASSUME NEW n \in Node PROVE KeepsCount(EmptyTable, Allowed(n))
    <2>1. \A d \in Node : /\ 0 \in Allowed(n)[d]
                          /\ EmptyTable[d].flag = "NONE" /\ EmptyTable[d].reqCnt = 0
      BY AllowedCounts DEF EmptyTable, NoEntry
    <2> QED
      BY <2>1, EmptyTableType DEF KeepsCount, Counted
  <1> QED
    BY <1>1 DEF Init, CountInv

(* A search makes at most RreqRetries requests at full diameter, if no two *)
(* nodes send to each other and the rate limit puts no request off.  TLC   *)
(* finds it false without either: a call put off asks again whatever the   *)
(* count has become, and so does a reverse request for a node that this    *)
(* one searches for.                                                       *)
THEOREM RetriesBounded ==
  OneWayTraffic => (Spec /\ []NothingPutOff => []RetriesAreBounded)
  <1> SUFFICES ASSUME OneWayTraffic
               PROVE  Spec /\ []NothingPutOff => []RetriesAreBounded
    OBVIOUS
  <1>1. IInv /\ FloodInv /\ TrafficInv /\ CountInv /\ NothingPutOff /\ [Next]_vars
          => CountInv'
    BY NextCount
  <1>2. IInv /\ TrafficInv /\ CountInv => RetriesAreBounded
    <2> SUFFICES ASSUME IInv, TrafficInv, CountInv, NEW n \in Node, NEW d \in Node,
                        d \in reqTimer[n]
                 PROVE  rtab[n][d].reqCnt <= RreqRetries
      BY DEF RetriesAreBounded
    <2>1. <<n, d>> \in Flow
      BY TrafficParts
    <2>2. rtab[n][d].reqCnt \in Allowed(n)[d]
      BY DEF CountInv, KeepsCount, Counted
    <2> QED
      BY <2>1, <2>2, AllowedCounts
  <1> QED
    BY <1>1, <1>2, FloodInvariance, InitCount, PTL DEF Spec
=============================================================================
