---------------------------- MODULE RaodvProofs -----------------------------
(***************************************************************************)
(* Proofs about Raodv for every network, traffic and configuration: every  *)
(* variable keeps its type, and no sequence number is ever ahead of its    *)
(* owner's.  The two are proved together, since the handlers build their   *)
(* messages and entries from each other's.                                 *)
(***************************************************************************)
EXTENDS Raodv, RouteProofs

(* A table, and a message, that say nothing the owners of the sequence     *)
(* numbers in own have not said.                                           *)
Good(t, own) == t \in Table /\ Fresh(t, own)

FreshHdr(h, own) ==
  /\ h.type \in {"RREQ", "REV_RREQ"} => h.originSeq <= own[h.origin]
  /\ h.type = "RREQ" => h.unknownSeq \/ h.dstSeq <= own[h.dst]
  /\ h.type = "RREP" => h.dstSeq <= own[h.dst]

GoodMsg(m, own) == m \in Message /\ FreshHdr(m.hdr, own)

(* The inductive invariant, and its parts.                                 *)
IInv == TypeOK /\ SeqNoComesFromOwner

TablesOK == DOMAIN rtab = Node /\ rtab = [n \in Node |-> rtab[n]]
            /\ \A n \in Node : Good(rtab[n], seqNo)

MsgsOK == \A m \in msgs : GoodMsg(m, seqNo)

RestOK ==
  /\ seqNo \in [Node -> Nat] /\ requestId \in [Node -> Nat]
  /\ rreqCount \in [Node -> Nat] /\ rerrCount \in [Node -> Nat]
  /\ idCache \in [Node -> SUBSET (Node \X Nat)]
  /\ reqTimer \in [Node -> SUBSET Node]
  /\ deferred \in Count /\ deferredRev \in Count
  /\ loopback \in Count /\ queue \in Count
  /\ nb \in [Node -> SUBSET Node]
  /\ links \subseteq Node \X Node
  /\ used \in [Inputs -> Nat]

(* What the handlers must show of the current state.                       *)
LEMMA Parts == IInv <=> TablesOK /\ MsgsOK /\ RestOK
  <1>1. SeqNoComesFromOwner <=> /\ \A n \in Node : Fresh(rtab[n], seqNo)
                                /\ \A m \in msgs : FreshHdr(m.hdr, seqNo)
    BY DEF SeqNoComesFromOwner, FreshTables, FreshHeader, Fresh, FreshHdr
  <1>2. TypeOK <=> /\ rtab \in [Node -> Table] /\ msgs \subseteq Message
                   /\ RestOK
    BY DEF TypeOK, RestOK
  <1> QED
    BY <1>1, <1>2 DEF IInv, TablesOK, MsgsOK, Good, GoodMsg

(* And of the next one.                                                    *)
LEMMA PartsPrime == IInv' <=> TablesOK' /\ MsgsOK' /\ RestOK'
  <1>1. SeqNoComesFromOwner' <=> /\ \A n \in Node : Fresh(rtab'[n], seqNo')
                                 /\ \A m \in msgs' : FreshHdr(m.hdr, seqNo')
    BY DEF SeqNoComesFromOwner, FreshTables, FreshHeader, Fresh, FreshHdr
  <1>2. TypeOK' <=> /\ rtab' \in [Node -> Table] /\ msgs' \subseteq Message
                    /\ RestOK'
    BY DEF TypeOK, RestOK
  <1> QED
    BY <1>1, <1>2 DEF IInv, TablesOK, MsgsOK, Good, GoodMsg

-----------------------------------------------------------------------------
(* The constants that the nodes compute with are numbers.                  *)
LEMMA ConstantTypes ==
  /\ RreqRetries \in Nat /\ TtlStart \in Nat /\ TtlIncrement \in Nat
  /\ NetDiameter \in Nat /\ TtlThreshold \in Nat
  /\ RreqRateLimit \in Nat /\ RerrRateLimit \in Nat
  /\ MaxSent \in Nat /\ MaxLapses \in Nat /\ MaxBreaks \in Nat
  /\ MaxHellos \in Nat
  BY RaodvAssumption

(* The fields of a header, by its type.                                    *)
LEMMA HeaderFields ==
  ASSUME NEW h \in Header
  PROVE  /\ h.type = "RREQ" =>
              h \in [type : {"RREQ"}, origin : Node, id : Nat, dst : Node,
                     originSeq : Nat, unknownSeq : BOOLEAN, dstSeq : Nat,
                     hop : Nat]
         /\ h.type = "REV_RREQ" =>
              h \in [type : {"REV_RREQ"}, origin : Node, id : Nat, dst : Node,
                     originSeq : Nat, hop : Nat]
         /\ h.type = "RREP" =>
              h \in [type : {"RREP"}, dst : Node, dstSeq : Nat, origin : Node,
                     hop : Nat, ack : BOOLEAN]
         /\ h.type = "RERR" => h \in [type : {"RERR"}, unreachable : SUBSET Node]
         /\ h.type = "DATA" => h \in [type : {"DATA"}, src : Address, dst : Node]
  BY DEF Header, RreqHeaders, RevRreqHeaders, RrepHeaders,
           RrepAckHeaders, RerrHeaders, DataHeaders

(* A message stays true when the owners' numbers grow.                     *)
LEMMA GoodMsgMonotone ==
  ASSUME NEW own \in [Node -> Nat], NEW later \in [Node -> Nat],
         \A d \in Node : own[d] <= later[d],
         NEW m, GoodMsg(m, own)
  PROVE  GoodMsg(m, later)
  <1> DEFINE h == m.hdr
  <1>1. m \in Message /\ h \in Header /\ FreshHdr(h, own)
    BY DEF GoodMsg, Message
  <1> HIDE DEF h
  <1>2. FreshHdr(h, later)
    <2>1. h.type \in {"RREQ", "REV_RREQ"} =>
            /\ h.originSeq \in Nat /\ h.origin \in Node
            /\ h.originSeq <= own[h.origin]
      BY <1>1, HeaderFields DEF FreshHdr
    <2>2. h.type = "RREQ" =>
            /\ h.dstSeq \in Nat /\ h.dst \in Node
            /\ h.unknownSeq \/ h.dstSeq <= own[h.dst]
      BY <1>1, HeaderFields DEF FreshHdr
    <2>3. h.type = "RREP" =>
            /\ h.dstSeq \in Nat /\ h.dst \in Node /\ h.dstSeq <= own[h.dst]
      BY <1>1, HeaderFields DEF FreshHdr
    <2>4. \A k \in Nat, d \in Node : k <= own[d] => k <= later[d]
      OBVIOUS
    <2> QED
      BY <2>1, <2>2, <2>3, <2>4 DEF FreshHdr
  <1> QED
    BY <1>1, <1>2 DEF GoodMsg, h

(* What is put on the radio is as good as its header.                      *)
LEMMA RadioMsgs ==
  ASSUME NEW own, NEW n \in Node, NEW ttl \in Nat,
         NEW h \in Header, FreshHdr(h, own)
  PROVE  /\ \A m \in Broadcast(n, ttl, h) : GoodMsg(m, own)
         /\ \A x : \A m \in Unicast(n, x, ttl, h) : GoodMsg(m, own)
  <1>1. ASSUME NEW x \in Node
        PROVE  GoodMsg([from |-> n, to |-> x, ttl |-> ttl, hdr |-> h], own)
    BY DEF GoodMsg, Message
  <1>2. \A m \in Broadcast(n, ttl, h) : GoodMsg(m, own)
    BY <1>1 DEF Broadcast, Neighbors
  <1>3. ASSUME NEW x, NEW m \in Unicast(n, x, ttl, h)
        PROVE  GoodMsg(m, own)
    BY <1>1 DEF Unicast, Neighbors
  <1> QED
    BY <1>2, <1>3

(* So is what leaves the queue.                                            *)
LEMMA DataMsgs ==
  ASSUME NEW own, NEW n \in Node, NEW d \in Node, NEW e
  PROVE  /\ \A m \in Data(n, d, e) : GoodMsg(m, own)
         /\ \A m \in FromQueue(n, d, e) : GoodMsg(m, own)
  <1> DEFINE h == [type |-> "DATA", src |-> IF e.source THEN n ELSE NoNode,
                   dst |-> d]
  <1>1. h \in Header /\ FreshHdr(h, own)
    BY DEF Header, RreqHeaders, RevRreqHeaders, RrepHeaders,
           RrepAckHeaders, RerrHeaders, DataHeaders, FreshHdr, Address
  <1>2. \A m \in Data(n, d, e) : GoodMsg(m, own)
    BY <1>1, RadioMsgs DEF Data
  <1> QED
    BY <1>2 DEF FromQueue

(* Counting packets and calls.                                             *)
LEMMA CountTypes ==
  ASSUME NEW c \in Count, NEW n \in Node, NEW d \in Node
  PROVE  /\ Add(c, n, d) \in Count
         /\ Emptied(c, n, d) \in Count
         /\ c[n][d] > 0 => Take(c, n, d) \in Count
  BY DEF Count, Add, Emptied, Take

(* The table a handler starts from, and the message it handles.            *)
LEMMA ReceivedGood ==
  ASSUME IInv, NEW m \in msgs
  PROVE  /\ m.from \in Node /\ m.to \in Node /\ m.ttl \in Nat
         /\ m.hdr \in Header /\ FreshHdr(m.hdr, seqNo)
         /\ Good(rtab[m.to], seqNo)
         /\ Good(Purged(rtab[m.to]), seqNo)
         /\ Good(Received(m), seqNo)
  <1>1. /\ m.from \in Node /\ m.to \in Node /\ m.ttl \in Nat
        /\ m.hdr \in Header /\ FreshHdr(m.hdr, seqNo)
    BY Parts DEF MsgsOK, GoodMsg, Message
  <1>2. Good(rtab[m.to], seqNo) /\ seqNo \in [Node -> Nat]
    BY <1>1, Parts DEF TablesOK, RestOK
  <1>3. Good(Purged(rtab[m.to]), seqNo)
    BY <1>2, ShrinkTable DEF Good
  <1>4. Good(Received(m), seqNo)
    BY <1>1, <1>2, <1>3, UpdateRouteToNeighborTable DEF Good, Received
  <1> QED
    BY <1>1, <1>2, <1>3, <1>4

(* A node's table, purged.                                                 *)
LEMMA PurgedGood ==
  ASSUME IInv, NEW n \in Node
  PROVE  Good(rtab[n], seqNo) /\ Good(Purged(rtab[n]), seqNo)
  <1>1. Good(rtab[n], seqNo) /\ seqNo \in [Node -> Nat]
    BY Parts DEF TablesOK, RestOK
  <1> QED
    BY <1>1, ShrinkTable DEF Good

(* A handler that changes one table and consumes one message.              *)
LEMMA HandledKeeps ==
  ASSUME IInv, NEW m \in msgs, NEW t, NEW out, Good(t, seqNo),
         \A x \in out : GoodMsg(x, seqNo),
         Handled(m, t, out), UNCHANGED seqNo
  PROVE  TablesOK' /\ MsgsOK'
  <1>1. TablesOK /\ MsgsOK /\ m.to \in Node
    BY Parts, ReceivedGood
  <1>2. TablesOK'
    BY <1>1 DEF TablesOK, Handled
  <1>3. MsgsOK'
    BY <1>1 DEF MsgsOK, Handled
  <1> QED
    BY <1>2, <1>3

(* A timer or scheduled function of n that changes one table and sends.    *)
LEMMA TableChangeKeeps ==
  ASSUME IInv, NEW n \in Node, NEW t, NEW out, Good(t, seqNo),
         \A x \in out : GoodMsg(x, seqNo),
         rtab' = [rtab EXCEPT ![n] = t], msgs' = msgs \cup out,
         UNCHANGED seqNo
  PROVE  TablesOK' /\ MsgsOK'
  <1>1. TablesOK /\ MsgsOK
    BY Parts
  <1>2. TablesOK'
    BY <1>1 DEF TablesOK
  <1>3. MsgsOK'
    BY <1>1 DEF MsgsOK
  <1> QED
    BY <1>2, <1>3

(* The same for one that sends nothing.                                    *)
LEMMA QuietChangeKeeps ==
  ASSUME IInv, NEW n \in Node, NEW t, Good(t, seqNo),
         rtab' = [rtab EXCEPT ![n] = t], UNCHANGED <<msgs, seqNo>>
  PROVE  TablesOK' /\ MsgsOK'
  <1>1. TablesOK'
    BY Parts DEF TablesOK
  <1>2. MsgsOK'
    BY Parts DEF MsgsOK
  <1> QED
    BY <1>1, <1>2

(* The same for a node that also takes a new sequence number.              *)
LEMMA FloodKeeps ==
  ASSUME IInv, NEW n \in Node, NEW t, NEW in, NEW out, Good(t, seqNo),
         in \subseteq msgs, \A x \in out : GoodMsg(x, seqNo'),
         seqNo' = [seqNo EXCEPT ![n] = @ + 1],
         rtab' = [rtab EXCEPT ![n] = t], msgs' = in \cup out
  PROVE  TablesOK' /\ MsgsOK' /\ seqNo' \in [Node -> Nat]
  <1>1. /\ seqNo \in [Node -> Nat] /\ seqNo' \in [Node -> Nat]
        /\ \A d \in Node : seqNo[d] <= seqNo'[d]
    BY Parts DEF RestOK
  <1>2. ASSUME NEW u, Good(u, seqNo) PROVE Good(u, seqNo')
    BY <1>1, <1>2, FreshMonotone DEF Good
  <1>3. TablesOK'
    BY <1>2, Parts DEF TablesOK
  <1>4. MsgsOK'
    BY <1>1, GoodMsgMonotone, Parts DEF MsgsOK
  <1> QED
    BY <1>1, <1>3, <1>4

-----------------------------------------------------------------------------
(***************************************************************************)
(* One lemma per action.                                                   *)
(***************************************************************************)

(* The entry and the header of a request.                                  *)
LEMMA RequestGood ==
  ASSUME NEW n \in Node, NEW d \in Node, NEW t, Good(t, seqNo),
         seqNo \in [Node -> Nat], requestId \in [Node -> Nat]
  PROVE  /\ RequestTtl(t[d]) \in Nat
         /\ Good(SearchEntry(t, d), seqNo)
         /\ RreqHeader(n, d, t) \in Header
         /\ FreshHdr(RreqHeader(n, d, t), [seqNo EXCEPT ![n] = @ + 1])
  <1>1. t \in Table /\ t[d] \in Entry
        /\ (t[d].validSeqNo => t[d].seqNo <= seqNo[d])
    BY DEF Good, Table, Fresh
  <1>2. RequestTtl(t[d]) \in Nat
    BY <1>1, ConstantTypes, RingTtlType DEF RequestTtl
  <1>3. Good(SearchEntry(t, d), seqNo)
    <2> DEFINE ttl == RequestTtl(t[d])
               e == InSearch(t[d], ttl, NetDiameter)
               f == DummyEntry(ttl, NetDiameter)
    <2>0. ttl \in Nat /\ NetDiameter \in Nat /\ t[d] \in Entry
      BY <1>1, <1>2, ConstantTypes
    <2> HIDE DEF ttl
    <2>1. /\ e \in Entry
          /\ e.validSeqNo = t[d].validSeqNo /\ e.seqNo = t[d].seqNo
      BY <2>0, InSearchType
    <2>2. f \in Entry /\ ~f.validSeqNo
      <3>1. NoEntry \in Entry /\ ~NoEntry.validSeqNo
        BY EntryTypes DEF NoEntry
      <3>2. f = InSearch(NoEntry, ttl, NetDiameter)
        BY DEF DummyEntry
      <3> HIDE DEF f
      <3> QED
        BY <2>0, <3>1, <3>2, InSearchType
    <2>3. SearchEntry(t, d) =
            IF Present(t, d) THEN Update(t, d, e) ELSE AddRoute(t, d, f)
      BY DEF SearchEntry, ttl
    <2> HIDE DEF e, f
    <2> QED
      BY <1>1, <2>1, <2>2, <2>3, UpdateTable DEF Good
  <1>4. RreqHeader(n, d, t) \in Header
    <2> DEFINE b == ~t[d].validSeqNo
               q == IF t[d].validSeqNo THEN t[d].seqNo ELSE 0
    <2>1. b \in BOOLEAN /\ q \in Nat
      BY <1>1 DEF Entry
    <2>2. RreqHeader(n, d, t) =
            [type |-> "RREQ", origin |-> n, id |-> requestId[n] + 1, dst |-> d,
             originSeq |-> seqNo[n] + 1, unknownSeq |-> b, dstSeq |-> q,
             hop |-> 0]
      BY DEF RreqHeader
    <2>3. requestId[n] + 1 \in Nat /\ seqNo[n] + 1 \in Nat
      OBVIOUS
    <2> HIDE DEF b, q
    <2>4. RreqHeader(n, d, t) \in
            [type : {"RREQ"}, origin : Node, id : Nat, dst : Node,
             originSeq : Nat, unknownSeq : BOOLEAN, dstSeq : Nat, hop : Nat]
      BY <2>1, <2>2, <2>3
    <2> QED
      BY <2>4 DEF Header, RreqHeaders, RevRreqHeaders, RrepHeaders,
           RrepAckHeaders, RerrHeaders, DataHeaders
  <1>5. FreshHdr(RreqHeader(n, d, t), [seqNo EXCEPT ![n] = @ + 1])
    BY <1>1 DEF RreqHeader, FreshHdr, Entry
  <1> QED
    BY <1>2, <1>3, <1>4, <1>5

(* SendRequest.                                                            *)
LEMMA SendRequestKeeps ==
  ASSUME IInv, NEW n \in Node, NEW d \in Node, NEW t, Good(t, seqNo),
         NEW pending \in Count, NEW timers \in SUBSET Node,
         SendRequest(n, d, t, pending, timers)
  PROVE  /\ TablesOK' /\ MsgsOK'
         /\ seqNo' \in [Node -> Nat] /\ requestId' \in [Node -> Nat]
         /\ rreqCount' \in [Node -> Nat]
         /\ idCache' \in [Node -> SUBSET (Node \X Nat)]
         /\ reqTimer' \in [Node -> SUBSET Node] /\ deferred' \in Count
  <1>1. RestOK
    BY Parts
  <1>2. CASE rreqCount[n] = RreqRateLimit
    <2>1. /\ deferred' = Add(pending, n, d)
          /\ rtab' = [rtab EXCEPT ![n] = t]
          /\ reqTimer' = [reqTimer EXCEPT ![n] = timers]
          /\ msgs' = msgs \cup {}
          /\ UNCHANGED <<seqNo, requestId, rreqCount, idCache>>
      BY <1>2 DEF SendRequest
    <2>2. TablesOK' /\ MsgsOK'
      BY <2>1, Parts DEF TablesOK, MsgsOK
    <2>3. deferred' \in Count
      BY <2>1, CountTypes
    <2> QED
      BY <1>1, <2>1, <2>2, <2>3 DEF RestOK
  <1>3. CASE rreqCount[n] # RreqRateLimit
    <2> DEFINE h == RreqHeader(n, d, t)
               out == Broadcast(n, RequestTtl(t[d]), h)
    <2>1. /\ seqNo' = [seqNo EXCEPT ![n] = @ + 1]
          /\ rtab' = [rtab EXCEPT ![n] = SearchEntry(t, d)]
          /\ msgs' = msgs \cup out
          /\ deferred' = pending
          /\ rreqCount' = [rreqCount EXCEPT ![n] = @ + 1]
          /\ requestId' = [requestId EXCEPT ![n] = @ + 1]
          /\ idCache' = [idCache EXCEPT ![n] = @ \cup {<<n, requestId[n] + 1>>}]
          /\ reqTimer' = [reqTimer EXCEPT ![n] = timers \cup {d}]
      BY <1>3 DEF SendRequest
    <2>2. /\ RequestTtl(t[d]) \in Nat /\ Good(SearchEntry(t, d), seqNo)
          /\ h \in Header /\ FreshHdr(h, seqNo')
      BY <1>1, <2>1, RequestGood DEF RestOK
    <2>3. \A x \in out : GoodMsg(x, seqNo')
      BY <2>2, RadioMsgs
    <2> HIDE DEF h, out
    <2>4. TablesOK' /\ MsgsOK' /\ seqNo' \in [Node -> Nat]
      BY <2>1, <2>2, <2>3, FloodKeeps
    <2> QED
      BY <1>1, <2>1, <2>4 DEF RestOK
  <1> QED
    BY <1>2, <1>3

(* SendRevRequest.                                                         *)
LEMMA SendRevRequestKeeps ==
  ASSUME IInv, NEW n \in Node, NEW origin \in Node, NEW t, Good(t, seqNo),
         NEW pending \in Count, NEW cache \in SUBSET (Node \X Nat), NEW in,
         in \subseteq msgs, SendRevRequest(n, origin, t, pending, cache, in)
  PROVE  /\ TablesOK' /\ MsgsOK'
         /\ seqNo' \in [Node -> Nat] /\ requestId' \in [Node -> Nat]
         /\ rreqCount' \in [Node -> Nat]
         /\ idCache' \in [Node -> SUBSET (Node \X Nat)]
         /\ deferredRev' \in Count
  <1>1. RestOK
    BY Parts
  <1>2. CASE rreqCount[n] = RreqRateLimit
    <2>1. /\ deferredRev' = Add(pending, n, origin)
          /\ rtab' = [rtab EXCEPT ![n] = t]
          /\ idCache' = [idCache EXCEPT ![n] = cache]
          /\ msgs' = in
          /\ UNCHANGED <<seqNo, requestId, rreqCount>>
      BY <1>2 DEF SendRevRequest
    <2>2. TablesOK'
      BY <2>1, Parts DEF TablesOK
    <2>3. MsgsOK'
      BY <2>1, Parts DEF MsgsOK
    <2>4. deferredRev' \in Count
      BY <2>1, CountTypes
    <2> QED
      BY <1>1, <2>1, <2>2, <2>3, <2>4 DEF RestOK
  <1>3. CASE rreqCount[n] # RreqRateLimit
    <2> DEFINE ttl == RingTtl(t[origin], TtlIncrement, TtlThreshold, NetDiameter)
               h == RevRequestHeader(n, origin)
               u == Update(t, origin, InSearch(t[origin], ttl, NetDiameter))
               out == Broadcast(n, ttl, h)
    <2>1. /\ seqNo' = [seqNo EXCEPT ![n] = @ + 1]
          /\ rtab' = [rtab EXCEPT ![n] = u]
          /\ msgs' = in \cup out
          /\ deferredRev' = pending
          /\ rreqCount' = [rreqCount EXCEPT ![n] = @ + 1]
          /\ requestId' = [requestId EXCEPT ![n] = @ + 1]
          /\ idCache' = [idCache EXCEPT ![n] =
                           cache \cup {<<n, requestId[n] + 1>>}]
      BY <1>3 DEF SendRevRequest, FloodRevRequest
    <2>2. t \in Table /\ t[origin] \in Entry
          /\ (t[origin].validSeqNo => t[origin].seqNo <= seqNo[origin])
      BY DEF Good, Table, Fresh
    <2>3. ttl \in Nat
      BY <2>2, ConstantTypes, RingTtlType
    <2>4. Good(u, seqNo)
      <3> DEFINE e == InSearch(t[origin], ttl, NetDiameter)
      <3> HIDE DEF ttl
      <3>0. NetDiameter \in Nat
        BY ConstantTypes
      <3>1. /\ e \in Entry /\ e.validSeqNo = t[origin].validSeqNo
            /\ e.seqNo = t[origin].seqNo
        BY <2>2, <2>3, <3>0, InSearchType
      <3> HIDE DEF e
      <3> QED
        BY <1>1, <2>2, <3>1, UpdateTable DEF Good, RestOK, e
    <2>5. h \in Header
      <3>1. h \in [type : {"REV_RREQ"}, origin : Node, id : Nat, dst : Node,
                   originSeq : Nat, hop : Nat]
        <4>1. requestId[n] + 1 \in Nat /\ seqNo[n] + 1 \in Nat
          BY <1>1 DEF RestOK
        <4> QED
          BY <4>1 DEF RevRequestHeader
      <3> QED
        BY <3>1 DEF Header, RreqHeaders, RevRreqHeaders, RrepHeaders,
           RrepAckHeaders, RerrHeaders, DataHeaders
    <2>6. FreshHdr(h, seqNo')
      BY <1>1, <2>1 DEF RevRequestHeader, FreshHdr, RestOK
    <2>7. \A x \in out : GoodMsg(x, seqNo')
      BY <2>3, <2>5, <2>6, RadioMsgs
    <2> HIDE DEF ttl, h, u, out
    <2>8. TablesOK' /\ MsgsOK' /\ seqNo' \in [Node -> Nat]
      BY <2>1, <2>4, <2>7, FloodKeeps
    <2> QED
      BY <1>1, <2>1, <2>8 DEF RestOK
  <1> QED
    BY <1>2, <1>3

(* What the handlers that leave the node's own counters alone must still   *)
(* show.                                                                   *)
LEMMA RestKeeps ==
  ASSUME RestOK,
         UNCHANGED <<seqNo, requestId, rreqCount, deferred, deferredRev>>,
         rerrCount' \in [Node -> Nat],
         idCache' \in [Node -> SUBSET (Node \X Nat)],
         reqTimer' \in [Node -> SUBSET Node],
         loopback' \in Count, queue' \in Count,
         nb' \in [Node -> SUBSET Node],
         links' \subseteq Node \X Node, used' \in [Inputs -> Nat]
  PROVE  RestOK'
  BY DEF RestOK

(* One more input of the environment.                                      *)
LEMMA SpendType ==
  ASSUME RestOK, NEW k \in Inputs, NEW bound, Spend(k, bound)
  PROVE  used' \in [Inputs -> Nat]
  BY DEF RestOK, Spend

(* Hearing of neighbours.                                                  *)
LEMMA HeardType ==
  ASSUME RestOK, NEW n \in Node, NEW these
  PROVE  Heard(n, these) \in [Node -> SUBSET Node]
  BY DEF RestOK, Heard

(* An application hands down a packet.                                     *)
LEMMA RouteOutputKeeps ==
  ASSUME IInv, NEW n \in Node, NEW d \in Node, RouteOutput(n, d)
  PROVE  IInv'
  <1> DEFINE t == Purged(rtab[n])
             out == Data(n, d, t[d])
  <1>1. Good(t, seqNo) /\ RestOK /\ \A m \in out : GoodMsg(m, seqNo)
    BY Parts, PurgedGood, DataMsgs
  <1>2. /\ Spend("sent", MaxSent)
        /\ rtab' = [rtab EXCEPT ![n] = t]
        /\ UNCHANGED <<seqNo, requestId, rreqCount, rerrCount, idCache, reqTimer,
                       deferred, deferredRev, queue, nb, links>>
    BY DEF RouteOutput
  <1>3. \/ msgs' = msgs \cup out /\ UNCHANGED loopback
        \/ UNCHANGED msgs /\ loopback' = Add(loopback, n, d)
    BY DEF RouteOutput
  <1> HIDE DEF t, out
  <1>4. ASSUME msgs' = msgs \cup out PROVE TablesOK' /\ MsgsOK'
    BY <1>1, <1>2, <1>4, TableChangeKeeps
  <1>5. ASSUME UNCHANGED msgs PROVE TablesOK' /\ MsgsOK'
    BY <1>1, <1>2, <1>5, QuietChangeKeeps
  <1>6. TablesOK' /\ MsgsOK'
    BY <1>3, <1>4, <1>5
  <1>7. loopback' \in Count
    BY <1>1, <1>3, CountTypes DEF RestOK
  <1>8. used' \in [Inputs -> Nat]
    BY <1>1, <1>2, SpendType DEF Inputs
  <1>9. RestOK'
    BY <1>1, <1>2, <1>7, <1>8 DEF RestOK
  <1> QED
    BY <1>6, <1>9, PartsPrime

(* A packet comes back from the loopback device.                           *)
LEMMA DeferredRouteOutputKeeps ==
  ASSUME IInv, NEW n \in Node, NEW d \in Node, DeferredRouteOutput(n, d)
  PROVE  IInv'
  <1> DEFINE t == Purged(rtab[n])
  <1>1. Good(t, seqNo) /\ RestOK
    BY Parts, PurgedGood
  <1>2. /\ loopback[n][d] > 0
        /\ loopback' = Take(loopback, n, d)
        /\ queue' = Add(queue, n, d)
        /\ UNCHANGED <<rerrCount, deferredRev, nb, links, used>>
    BY DEF DeferredRouteOutput
  <1>3. \/ SendRequest(n, d, t, deferred, reqTimer[n])
        \/ /\ rtab' = [rtab EXCEPT ![n] = t]
           /\ UNCHANGED <<seqNo, requestId, rreqCount, idCache, reqTimer, deferred,
                          msgs>>
    BY DEF DeferredRouteOutput
  <1> HIDE DEF t
  <1>4. loopback' \in Count /\ queue' \in Count
    BY <1>1, <1>2, CountTypes DEF RestOK
  <1>5. CASE SendRequest(n, d, t, deferred, reqTimer[n])
    <2>1. deferred \in Count /\ reqTimer[n] \in SUBSET Node
      BY <1>1 DEF RestOK
    <2>2. /\ TablesOK' /\ MsgsOK'
          /\ seqNo' \in [Node -> Nat] /\ requestId' \in [Node -> Nat]
          /\ rreqCount' \in [Node -> Nat]
          /\ idCache' \in [Node -> SUBSET (Node \X Nat)]
          /\ reqTimer' \in [Node -> SUBSET Node] /\ deferred' \in Count
      BY <1>1, <1>5, <2>1, SendRequestKeeps
    <2>3. RestOK'
      BY <1>1, <1>2, <1>4, <2>2 DEF RestOK
    <2> QED
      BY <2>2, <2>3, PartsPrime
  <1>6. CASE /\ rtab' = [rtab EXCEPT ![n] = t]
             /\ UNCHANGED <<seqNo, requestId, rreqCount, idCache, reqTimer,
                            deferred, msgs>>
    <2>1. TablesOK' /\ MsgsOK'
      BY <1>1, <1>6, QuietChangeKeeps
    <2>2. RestOK'
      BY <1>1, <1>2, <1>4, <1>6 DEF RestOK
    <2> QED
      BY <2>1, <2>2, PartsPrime
  <1> QED
    BY <1>3, <1>5, <1>6

(* A request that the rate limit put off.                                  *)
LEMMA DeferredRequestKeeps ==
  ASSUME IInv, NEW n \in Node, NEW d \in Node, DeferredRequest(n, d)
  PROVE  IInv'
  <1> DEFINE t == Purged(rtab[n])
             pending == Take(deferred, n, d)
  <1>1. Good(t, seqNo) /\ RestOK
    BY Parts, PurgedGood
  <1>2. /\ deferred[n][d] > 0
        /\ SendRequest(n, d, t, pending, reqTimer[n])
        /\ UNCHANGED <<rerrCount, deferredRev, loopback, queue, nb, links, used>>
    BY DEF DeferredRequest
  <1>3. pending \in Count /\ reqTimer[n] \in SUBSET Node
    BY <1>1, <1>2, CountTypes DEF RestOK
  <1> HIDE DEF t, pending
  <1>4. /\ TablesOK' /\ MsgsOK'
        /\ seqNo' \in [Node -> Nat] /\ requestId' \in [Node -> Nat]
        /\ rreqCount' \in [Node -> Nat]
        /\ idCache' \in [Node -> SUBSET (Node \X Nat)]
        /\ reqTimer' \in [Node -> SUBSET Node] /\ deferred' \in Count
    BY <1>1, <1>2, <1>3, SendRequestKeeps
  <1>5. RestOK'
    BY <1>1, <1>2, <1>4 DEF RestOK
  <1> QED
    BY <1>4, <1>5, PartsPrime

(* A reverse request that the rate limit put off.                          *)
LEMMA DeferredRevRequestKeeps ==
  ASSUME IInv, NEW n \in Node, NEW d \in Node, DeferredRevRequest(n, d)
  PROVE  IInv'
  <1> DEFINE t == Purged(rtab[n])
             pending == Take(deferredRev, n, d)
  <1>1. Good(t, seqNo) /\ RestOK
    BY Parts, PurgedGood
  <1>2. /\ deferredRev[n][d] > 0
        /\ SendRevRequest(n, d, t, pending, idCache[n], msgs)
        /\ UNCHANGED <<rerrCount, reqTimer, deferred, loopback, queue, nb, links, used>>
    BY DEF DeferredRevRequest
  <1>3. pending \in Count /\ idCache[n] \in SUBSET (Node \X Nat)
    BY <1>1, <1>2, CountTypes DEF RestOK
  <1> HIDE DEF t, pending
  <1>4. /\ TablesOK' /\ MsgsOK'
        /\ seqNo' \in [Node -> Nat] /\ requestId' \in [Node -> Nat]
        /\ rreqCount' \in [Node -> Nat]
        /\ idCache' \in [Node -> SUBSET (Node \X Nat)]
        /\ deferredRev' \in Count
    BY <1>1, <1>2, <1>3, SendRevRequestKeeps
  <1>5. RestOK'
    BY <1>1, <1>2, <1>4 DEF RestOK
  <1> QED
    BY <1>4, <1>5, PartsPrime

(* A retry timer: the queue is flushed, the search is given up, or it goes *)
(* on.                                                                     *)
LEMMA RouteRequestTimerExpireKeeps ==
  ASSUME IInv, NEW n \in Node, NEW d \in Node, RouteRequestTimerExpire(n, d)
  PROVE  IInv'
  <1> DEFINE t == Purged(rtab[n])
             settles == /\ reqTimer' = [reqTimer EXCEPT ![n] = @ \ {d}]
                        /\ queue' = Emptied(queue, n, d)
                        /\ UNCHANGED <<seqNo, requestId, rreqCount, idCache,
                                       deferred>>
             flushes == /\ settles
                        /\ rtab' = [rtab EXCEPT ![n] = t]
                        /\ msgs' = msgs \cup FromQueue(n, d, t[d])
             stops   == /\ settles
                        /\ rtab' = [rtab EXCEPT ![n] = DeleteRoute(t, d)]
                        /\ UNCHANGED msgs
             goesOn  == /\ SendRequest(n, d, t, deferred, reqTimer[n] \ {d})
                        /\ UNCHANGED queue
  <1>1. Good(t, seqNo) /\ RestOK
    BY Parts, PurgedGood
  <1>2. UNCHANGED <<rerrCount, deferredRev, loopback, nb, links, used>>
    BY DEF RouteRequestTimerExpire
  <1>3. flushes \/ stops \/ goesOn
    BY DEF RouteRequestTimerExpire, StopSearch
  <1>4. ASSUME settles PROVE RestOK'
    <2>1. queue' \in Count
      BY <1>1, <1>4, CountTypes DEF RestOK
    <2> QED
      BY <1>1, <1>2, <1>4, <2>1 DEF RestOK
  <1>5. CASE flushes
    <2>1. \A m \in FromQueue(n, d, t[d]) : GoodMsg(m, seqNo)
      BY DataMsgs
    <2>2. RestOK'
      BY <1>4, <1>5
    <2> HIDE DEF t
    <2>3. TablesOK' /\ MsgsOK'
      BY <1>1, <1>5, <2>1, TableChangeKeeps
    <2> QED
      BY <2>2, <2>3, PartsPrime
  <1>6. CASE stops
    <2>1. RestOK'
      BY <1>4, <1>6
    <2> HIDE DEF t
    <2>2. Good(DeleteRoute(t, d), seqNo)
      BY <1>1, ShrinkTable DEF Good, RestOK
    <2>3. TablesOK' /\ MsgsOK'
      BY <1>6, <2>2, QuietChangeKeeps
    <2> QED
      BY <2>1, <2>3, PartsPrime
  <1>7. CASE goesOn
    <2> DEFINE timers == reqTimer[n] \ {d}
    <2>1. deferred \in Count /\ timers \in SUBSET Node
      BY <1>1 DEF RestOK
    <2>2. SendRequest(n, d, t, deferred, timers) /\ UNCHANGED queue
      BY <1>7
    <2> HIDE DEF t, timers
    <2>3. /\ TablesOK' /\ MsgsOK'
          /\ seqNo' \in [Node -> Nat] /\ requestId' \in [Node -> Nat]
          /\ rreqCount' \in [Node -> Nat]
          /\ idCache' \in [Node -> SUBSET (Node \X Nat)]
          /\ reqTimer' \in [Node -> SUBSET Node] /\ deferred' \in Count
      BY <1>1, <2>1, <2>2, SendRequestKeeps
    <2>4. RestOK'
      BY <1>1, <1>2, <2>2, <2>3 DEF RestOK
    <2> QED
      BY <2>3, <2>4, PartsPrime
  <1> QED
    BY <1>3, <1>5, <1>6, <1>7

(* The rate limits restart.                                                *)
LEMMA RateLimitTimersKeep ==
  ASSUME IInv, NEW n \in Node,
         RreqRateLimitTimerExpire(n) \/ RerrRateLimitTimerExpire(n)
  PROVE  IInv'
  <1>1. /\ UNCHANGED <<rtab, seqNo, requestId, idCache, reqTimer, deferred,
                       deferredRev, loopback, queue, msgs, nb, links, used>>
        /\ \/ rreqCount' = [rreqCount EXCEPT ![n] = 0] /\ UNCHANGED rerrCount
           \/ rerrCount' = [rerrCount EXCEPT ![n] = 0] /\ UNCHANGED rreqCount
    BY DEF RreqRateLimitTimerExpire, RerrRateLimitTimerExpire
  <1>2. TablesOK /\ MsgsOK /\ RestOK
    BY Parts
  <1>3. TablesOK' /\ MsgsOK'
    BY <1>1, <1>2 DEF TablesOK, MsgsOK
  <1>4. RestOK'
    BY <1>1, <1>2 DEF RestOK
  <1> QED
    BY <1>3, <1>4, PartsPrime

(* A hello says of its sender what is true now.                            *)
LEMMA HelloTimerExpireKeeps ==
  ASSUME IInv, NEW n \in Node, HelloTimerExpire(n)
  PROVE  IInv'
  <1> DEFINE h == [type |-> "RREP", dst |-> n, dstSeq |-> seqNo[n],
                   origin |-> n, hop |-> 0, ack |-> FALSE]
             out == Broadcast(n, 1, h)
  <1>1. RestOK /\ TablesOK /\ MsgsOK
    BY Parts
  <1>2. h \in Header /\ FreshHdr(h, seqNo)
    <2>1. seqNo[n] \in Nat
      BY <1>1 DEF RestOK
    <2>2. h \in [type : {"RREP"}, dst : Node, dstSeq : Nat, origin : Node,
                 hop : Nat, ack : BOOLEAN]
      BY <2>1
    <2>3. FreshHdr(h, seqNo)
      BY <2>1 DEF FreshHdr
    <2> QED
      BY <2>2, <2>3 DEF Header, RreqHeaders, RevRreqHeaders, RrepHeaders,
           RrepAckHeaders, RerrHeaders, DataHeaders
  <1>3. /\ Spend("hellos", MaxHellos)
        /\ msgs' = msgs \cup out
        /\ UNCHANGED <<rtab, seqNo, requestId, rreqCount, rerrCount, idCache,
                       reqTimer, deferred, deferredRev, loopback, queue, nb, links>>
    BY DEF HelloTimerExpire
  <1> HIDE DEF h
  <1>4. \A m \in out : GoodMsg(m, seqNo)
    BY <1>2, RadioMsgs
  <1> HIDE DEF out
  <1>5. MsgsOK'
    BY <1>1, <1>3, <1>4 DEF MsgsOK
  <1>6. TablesOK'
    BY <1>1, <1>3 DEF TablesOK
  <1>7. used' \in [Inputs -> Nat]
    BY <1>1, <1>3, SpendType DEF Inputs
  <1>8. RestOK'
    BY <1>1, <1>3, <1>7, RestKeeps DEF RestOK
  <1> QED
    BY <1>5, <1>6, <1>8, PartsPrime

(* A route's lifetime passes.                                              *)
LEMMA LapseKeeps ==
  ASSUME IInv, NEW n \in Node, NEW d \in Node, Lapse(n, d)
  PROVE  IInv'
  <1> DEFINE t == [rtab[n] EXCEPT ![d].live = FALSE]
  <1>1. RestOK /\ TablesOK /\ Good(rtab[n], seqNo)
    BY Parts DEF TablesOK
  <1>2. Good(t, seqNo)
    BY <1>1 DEF Good, Table, Entry, Fresh
  <1>3. /\ Spend("lapses", MaxLapses)
        /\ rtab' = [rtab EXCEPT ![n] = t]
        /\ UNCHANGED <<seqNo, requestId, rreqCount, rerrCount, idCache, reqTimer,
                       deferred, deferredRev, loopback, queue, msgs, nb, links>>
    BY <1>1 DEF Lapse, TablesOK
  <1> HIDE DEF t
  <1>4. TablesOK' /\ MsgsOK'
    BY <1>2, <1>3, QuietChangeKeeps
  <1>5. used' \in [Inputs -> Nat]
    BY <1>1, <1>3, SpendType DEF Inputs
  <1>6. RestOK'
    BY <1>1, <1>3, <1>5, RestKeeps DEF RestOK
  <1> QED
    BY <1>4, <1>6, PartsPrime

(* A link breaks.                                                          *)
LEMMA LinkBreaksKeeps ==
  ASSUME IInv, NEW n \in Node, NEW d \in Node, LinkBreaks(n, d)
  PROVE  IInv'
  <1>1. /\ Spend("breaks", MaxBreaks)
        /\ links' \subseteq links
        /\ UNCHANGED <<rtab, seqNo, requestId, rreqCount, rerrCount, idCache,
                       reqTimer, deferred, deferredRev, loopback, queue, nb, msgs>>
    BY DEF LinkBreaks, nodeVars
  <1>2. TablesOK /\ MsgsOK /\ RestOK
    BY Parts
  <1>3. TablesOK' /\ MsgsOK'
    BY <1>1, <1>2 DEF TablesOK, MsgsOK
  <1>4. used' \in [Inputs -> Nat]
    BY <1>1, <1>2, SpendType DEF Inputs
  <1>5. RestOK'
    BY <1>1, <1>2, <1>4, RestKeeps DEF RestOK
  <1> QED
    BY <1>3, <1>5, PartsPrime

(* A hello arrives.                                                        *)
LEMMA ProcessHelloKeeps ==
  ASSUME IInv, NEW m \in msgs, ProcessHello(m)
  PROVE  IInv'
  <1> DEFINE h == m.hdr
             t == RouteFromHello(Received(m), h.dst, h.dstSeq)
             out == {}
  <1>1. /\ m.hdr \in Header /\ FreshHdr(m.hdr, seqNo) /\ m.to \in Node
        /\ Good(Received(m), seqNo) /\ RestOK
    BY ReceivedGood, Parts
  <1>2. /\ m.hdr.type = "RREP" /\ Handled(m, t, out)
        /\ nb' = Heard(m.to, {m.hdr.dst})
        /\ UNCHANGED <<seqNo, requestId, rreqCount, rerrCount, idCache, reqTimer,
                       deferred, deferredRev, loopback, queue, links, used>>
    BY DEF ProcessHello
  <1>3. h.dst \in Node /\ h.dstSeq \in Nat /\ h.dstSeq <= seqNo[h.dst]
    BY <1>1, <1>2, HeaderFields DEF FreshHdr
  <1> HIDE DEF h
  <1>4. Good(t, seqNo)
    BY <1>1, <1>3, RouteFromHelloTable DEF Good, RestOK
  <1>5. \A x \in out : GoodMsg(x, seqNo)
    OBVIOUS
  <1> HIDE DEF t, out
  <1>6. TablesOK' /\ MsgsOK'
    BY <1>2, <1>4, <1>5, HandledKeeps
  <1>7. nb' \in [Node -> SUBSET Node]
    BY <1>1, <1>2, HeardType
  <1>8. RestOK'
    BY <1>1, <1>2, <1>7, RestKeeps DEF RestOK
  <1> QED
    BY <1>6, <1>8, PartsPrime

(* An acknowledgment arrives.                                              *)
LEMMA RecvReplyAckKeeps ==
  ASSUME IInv, NEW m \in msgs, RecvReplyAck(m)
  PROVE  IInv'
  <1> DEFINE t == RouteAcked(Received(m), m.from)
             out == {}
  <1>1. m.from \in Node /\ Good(Received(m), seqNo) /\ RestOK
    BY ReceivedGood, Parts
  <1>2. /\ Handled(m, t, out)
        /\ UNCHANGED <<seqNo, requestId, rreqCount, rerrCount, idCache, reqTimer,
                       deferred, deferredRev, loopback, queue, nb, links, used>>
    BY DEF RecvReplyAck
  <1>3. Good(t, seqNo)
    BY <1>1, RouteAckedTable DEF Good, RestOK
  <1>4. \A x \in out : GoodMsg(x, seqNo)
    OBVIOUS
  <1> HIDE DEF t, out
  <1>5. TablesOK' /\ MsgsOK'
    BY <1>2, <1>3, <1>4, HandledKeeps
  <1>6. RestOK'
    BY <1>1, <1>2, RestKeeps DEF RestOK
  <1> QED
    BY <1>5, <1>6, PartsPrime

(* Route errors: what is put on the radio, and the count.                  *)
LEMMA RerrMsgs ==
  ASSUME NEW own, NEW n \in Node, NEW t, NEW P, NEW D \in SUBSET Node
  PROVE  \A m \in RerrMessages(n, t, P, D) : GoodMsg(m, own)
  <1> DEFINE h == Rerr(D)
  <1>1. h \in Header /\ FreshHdr(h, own)
    <2>1. h \in [type : {"RERR"}, unreachable : SUBSET Node]
      BY DEF Rerr
    <2>2. FreshHdr(h, own)
      BY DEF FreshHdr, Rerr
    <2> QED
      BY <2>1, <2>2 DEF Header, RreqHeaders, RevRreqHeaders, RrepHeaders,
           RrepAckHeaders, RerrHeaders, DataHeaders
  <1> HIDE DEF h
  <1>2. /\ \A m \in Broadcast(n, 1, h) : GoodMsg(m, own)
        /\ \A p : \A m \in Unicast(n, p, 1, h) : GoodMsg(m, own)
    BY <1>1, RadioMsgs
  <1> QED
    BY <1>2 DEF RerrMessages, h

(* The count of route errors stays a number.                               *)
LEMMA RerrCountType ==
  ASSUME RestOK, NEW n \in Node, NEW t, NEW P, CountRerr(n, t, P)
  PROVE  rerrCount' \in [Node -> Nat]
  BY DEF RestOK, CountRerr

(* The link to a neighbour breaks under a route.                           *)
LEMMA SendRerrWhenBreaksLinkToNextHopKeeps ==
  ASSUME IInv, NEW n \in Node, NEW d \in Node,
         SendRerrWhenBreaksLinkToNextHop(n, d)
  PROVE  IInv'
  <1> DEFINE t == Purged(rtab[n])
             D == {d} \cup DestinationsWithNextHop(t, d)
             P == PrecursorsOf(t, D)
             u == InvalidateRoutesWithDst(t, D)
             out == RerrMessages(n, t, P, D)
  <1>1. Good(t, seqNo) /\ RestOK
    BY Parts, PurgedGood
  <1>2. /\ nb' = [nb EXCEPT ![n] = @ \ {d}]
        /\ Spend("lapses", MaxLapses) \/ UNCHANGED used
        /\ \/ /\ rtab' = [rtab EXCEPT ![n] = u]
              /\ msgs' = msgs \cup out
              /\ CountRerr(n, t, P)
           \/ /\ rtab' = [rtab EXCEPT ![n] = t]
              /\ UNCHANGED <<msgs, rerrCount>>
        /\ UNCHANGED <<seqNo, requestId, rreqCount, idCache, reqTimer, deferred,
                       deferredRev, loopback, queue, links>>
    BY DEF SendRerrWhenBreaksLinkToNextHop
  <1>3. D \in SUBSET Node
    BY DEF DestinationsWithNextHop
  <1> HIDE DEF t, D, P
  <1>4. \A m \in out : GoodMsg(m, seqNo)
    BY <1>3, RerrMsgs
  <1>5. Good(u, seqNo)
    BY <1>1, ShrinkTable DEF Good, RestOK
  <1> HIDE DEF u, out
  <1>6. ASSUME rtab' = [rtab EXCEPT ![n] = u], msgs' = msgs \cup out
        PROVE  TablesOK' /\ MsgsOK'
    BY <1>2, <1>4, <1>5, <1>6, TableChangeKeeps
  <1>7. ASSUME rtab' = [rtab EXCEPT ![n] = t], UNCHANGED msgs
        PROVE  TablesOK' /\ MsgsOK'
    BY <1>1, <1>2, <1>7, QuietChangeKeeps
  <1>8. TablesOK' /\ MsgsOK'
    BY <1>2, <1>6, <1>7
  <1>9. rerrCount' \in [Node -> Nat]
    BY <1>1, <1>2, RerrCountType DEF RestOK
  <1>10. used' \in [Inputs -> Nat]
    BY <1>1, <1>2, SpendType DEF Inputs, RestOK
  <1>11. RestOK'
    BY <1>1, <1>2, <1>9, <1>10, RestKeeps DEF RestOK
  <1> QED
    BY <1>8, <1>11, PartsPrime

(* A route error arrives.                                                  *)
LEMMA RecvErrorKeeps ==
  ASSUME IInv, NEW m \in msgs, RecvError(m)
  PROVE  IInv'
  <1> DEFINE n == m.to
             t == Received(m)
             D == m.hdr.unreachable \cap DestinationsWithNextHop(t, m.from)
             P == PrecursorsOf(t, D)
             u == InvalidateRoutesWithDst(t, D)
             out == RerrMessages(n, t, P, D)
  <1>1. Good(t, seqNo) /\ RestOK /\ n \in Node
    BY Parts, ReceivedGood
  <1>2. /\ Handled(m, u, out)
        /\ CountRerr(n, t, P)
        /\ UNCHANGED <<seqNo, requestId, rreqCount, idCache, reqTimer, deferred,
                       deferredRev, loopback, queue, nb, links, used>>
    BY DEF RecvError
  <1>3. D \in SUBSET Node
    BY DEF DestinationsWithNextHop
  <1> HIDE DEF n, t, D, P
  <1>4. \A x \in out : GoodMsg(x, seqNo)
    BY <1>1, <1>3, RerrMsgs
  <1>5. Good(u, seqNo)
    BY <1>1, ShrinkTable DEF Good, RestOK
  <1> HIDE DEF u, out
  <1>6. TablesOK' /\ MsgsOK'
    BY <1>2, <1>4, <1>5, HandledKeeps
  <1>7. rerrCount' \in [Node -> Nat]
    BY <1>1, <1>2, RerrCountType
  <1>8. RestOK'
    BY <1>1, <1>2, <1>7, RestKeeps DEF RestOK
  <1> QED
    BY <1>6, <1>8, PartsPrime

(* A data packet arrives.                                                  *)
LEMMA RouteInputKeeps ==
  ASSUME IInv, NEW m \in msgs, RouteInput(m)
  PROVE  IInv'
  <1> DEFINE n == m.to
             h == m.hdr
             t == Purged(rtab[n])
             onward == Unicast(n, t[h.dst].nextHop, 0, h)
             error == RerrToSource(n, t, h.src, h.dst)
             nothing == {}
  <1>1. /\ Good(t, seqNo) /\ Good(rtab[n], seqNo) /\ RestOK /\ n \in Node
        /\ h \in Header /\ FreshHdr(h, seqNo)
    BY Parts, ReceivedGood
  <1>2. /\ h.type = "DATA"
        /\ \/ Handled(m, rtab[n], nothing) \/ Handled(m, t, nothing)
           \/ Handled(m, t, onward) \/ Handled(m, t, error)
        /\ UNCHANGED nb \/ \E these : nb' = Heard(n, these)
        /\ UNCHANGED <<seqNo, requestId, rreqCount, rerrCount, idCache, reqTimer,
                       deferred, deferredRev, loopback, queue, links, used>>
    BY DEF RouteInput
  <1>3. h.dst \in Node
    BY <1>1, <1>2, HeaderFields
  <1> HIDE DEF n, h, t
  <1>4. \A x \in error : GoodMsg(x, seqNo)
    <2> DEFINE r == Rerr({h.dst})
    <2>1. r \in Header /\ FreshHdr(r, seqNo)
      <3>1. r \in [type : {"RERR"}, unreachable : SUBSET Node]
        BY <1>3 DEF Rerr
      <3>2. FreshHdr(r, seqNo)
        BY DEF FreshHdr, Rerr
      <3> QED
        BY <3>1, <3>2 DEF Header, RreqHeaders, RevRreqHeaders, RrepHeaders,
           RrepAckHeaders, RerrHeaders, DataHeaders
    <2> HIDE DEF r
    <2>2. /\ \A x \in Broadcast(n, 1, r) : GoodMsg(x, seqNo)
          /\ \A p : \A x \in Unicast(n, p, 1, r) : GoodMsg(x, seqNo)
      BY <1>1, <2>1, RadioMsgs
    <2> QED
      BY <2>2 DEF RerrToSource, r
  <1>5. \A x \in onward : GoodMsg(x, seqNo)
    BY <1>1, RadioMsgs
  <1>6. \A x \in nothing : GoodMsg(x, seqNo)
    OBVIOUS
  <1> HIDE DEF onward, error, nothing
  <1>7. TablesOK' /\ MsgsOK'
    BY <1>1, <1>2, <1>4, <1>5, <1>6, HandledKeeps
  <1>8. nb' \in [Node -> SUBSET Node]
    BY <1>1, <1>2, HeardType DEF RestOK
  <1>9. RestOK'
    BY <1>1, <1>2, <1>8, RestKeeps DEF RestOK
  <1> QED
    BY <1>7, <1>9, PartsPrime

(* A message of a flood is passed on with the same origin and number.      *)
LEMMA ForwardedMsgs ==
  ASSUME NEW own, NEW n \in Node, NEW ttl \in Nat,
         NEW h \in Header, FreshHdr(h, own)
  PROVE  \A m \in Forwarded(n, ttl, h) : GoodMsg(m, own)
  <1> SUFFICES ASSUME ttl >= 2
               PROVE  \A m \in Broadcast(n, ttl - 1, h) : GoodMsg(m, own)
    BY DEF Forwarded
  <1>1. ttl - 1 \in Nat
    OBVIOUS
  <1> QED
    BY <1>1, RadioMsgs

(* A RREQ passed on vouches for what it did, or for what the node knows.   *)
LEMMA ForwardedRreqGood ==
  ASSUME NEW own \in [Node -> Nat], NEW t, Good(t, own),
         NEW h \in Header, h.type = "RREQ", FreshHdr(h, own)
  PROVE  /\ ForwardedRreq(h, t[h.dst]) \in Header
         /\ FreshHdr(ForwardedRreq(h, t[h.dst]), own)
  <1> DEFINE e == t[h.dst]
             g == ForwardedRreq(h, e)
             Rreq == [type : {"RREQ"}, origin : Node, id : Nat, dst : Node,
                      originSeq : Nat, unknownSeq : BOOLEAN, dstSeq : Nat,
                      hop : Nat]
  <1>1. /\ h \in Rreq
        /\ h.originSeq <= own[h.origin]
        /\ h.unknownSeq \/ h.dstSeq <= own[h.dst]
    BY HeaderFields DEF FreshHdr
  <1>2. e \in Entry /\ (e.validSeqNo => e.seqNo <= own[h.dst])
    BY <1>1 DEF Good, Table, Fresh
  <1>3. \/ /\ g = [h EXCEPT !.hop = @ + 1, !.dstSeq = e.seqNo,
                           !.unknownSeq = FALSE]
           /\ e.validSeqNo
        \/ g = [h EXCEPT !.hop = @ + 1]
    BY DEF ForwardedRreq, KnowsBetter
  <1>4. e.seqNo \in Nat
    BY <1>2 DEF Entry
  <1> HIDE DEF e, g
  <1>5. g \in Rreq
    <2>1. h.hop + 1 \in Nat /\ FALSE \in BOOLEAN
      BY <1>1
    <2>2. CASE g = [h EXCEPT !.hop = @ + 1]
      BY <1>1, <2>1, <2>2
    <2>3. CASE g = [h EXCEPT !.hop = @ + 1, !.dstSeq = e.seqNo,
                             !.unknownSeq = FALSE]
      BY <1>1, <1>4, <2>1, <2>3
    <2> QED
      BY <1>3, <2>2, <2>3
  <1>6. g.origin = h.origin /\ g.originSeq = h.originSeq /\ g.dst = h.dst
        /\ (g.unknownSeq \/ g.dstSeq <= own[h.dst])
    BY <1>1, <1>2, <1>3
  <1>7. FreshHdr(g, own)
    BY <1>1, <1>5, <1>6 DEF FreshHdr
  <1> QED
    BY <1>5, <1>7 DEF Header, RreqHeaders, RevRreqHeaders, RrepHeaders,
           RrepAckHeaders, RerrHeaders, DataHeaders, e, g

(* The replies of a node on the path vouch for what its table vouches for; *)
(* its number for the originator may be the one the RREQ came with.        *)
LEMMA RepliesGood ==
  ASSUME NEW own \in [Node -> Nat], NEW n \in Node, NEW t, Good(t, own),
         NEW h \in Header, h.type = "RREQ",
         t[h.dst].validSeqNo, t[h.origin].seqNo <= own[h.origin]
  PROVE  \A m \in Replies(n, h, t) : GoodMsg(m, own)
  <1> DEFINE Rrep == [type : {"RREP"}, dst : Node, dstSeq : Nat, origin : Node,
                      hop : Nat, ack : BOOLEAN]
             toDst    == t[h.dst]
             toOrigin == t[h.origin]
             r == [type |-> "RREP", dst |-> h.dst, dstSeq |-> toDst.seqNo,
                   origin |-> h.origin, hop |-> toDst.hop, ack |-> toDst.hop = 1]
             g == [type |-> "RREP", dst |-> h.origin, dstSeq |-> toOrigin.seqNo,
                   origin |-> h.dst, hop |-> toOrigin.hop, ack |-> FALSE]
  <1>1. h.dst \in Node /\ h.origin \in Node
    BY HeaderFields
  <1>2. /\ toDst.seqNo \in Nat /\ toDst.hop \in Nat
        /\ toOrigin.seqNo \in Nat /\ toOrigin.hop \in Nat
        /\ toDst.seqNo <= own[h.dst]
    BY <1>1 DEF Good, Table, Entry, Fresh
  <1>3. r \in Header /\ FreshHdr(r, own)
    <2>1. r \in Rrep
      BY <1>1, <1>2
    <2>2. FreshHdr(r, own)
      BY <1>2 DEF FreshHdr
    <2> QED
      BY <2>1, <2>2 DEF Header, RreqHeaders, RevRreqHeaders, RrepHeaders,
           RrepAckHeaders, RerrHeaders, DataHeaders
  <1>4. g \in Header /\ FreshHdr(g, own)
    <2>1. g \in Rrep
      BY <1>1, <1>2
    <2>2. FreshHdr(g, own)
      BY <1>2 DEF FreshHdr
    <2> QED
      BY <2>1, <2>2 DEF Header, RreqHeaders, RevRreqHeaders, RrepHeaders,
           RrepAckHeaders, RerrHeaders, DataHeaders
  <1>5. Replies(n, h, t) \subseteq
          Unicast(n, toOrigin.nextHop, toOrigin.hop, r)
          \cup Unicast(n, toDst.nextHop, toDst.hop, g)
    BY DEF Replies
  <1>6. /\ \A x : \A m \in Unicast(n, x, toOrigin.hop, r) : GoodMsg(m, own)
        /\ \A x : \A m \in Unicast(n, x, toDst.hop, g) : GoodMsg(m, own)
    <2> HIDE DEF r, g
    <2> QED
      BY <1>2, <1>3, <1>4, RadioMsgs
  <1> HIDE DEF r, g
  <1> QED
    BY <1>5, <1>6

(* A request arrives: it is dropped, answered by its destination or by a   *)
(* node on the path, or passed on.                                         *)
LEMMA RecvRequestKeeps ==
  ASSUME IInv, NEW m \in msgs, RecvRequest(m)
  PROVE  IInv'
  <1> DEFINE n == m.to
             h == m.hdr
             t0 == Received(m)
             t1 == RouteToOrigin(t0, h.origin, h.originSeq, h.hop + 1, m.from)
             t == RouteToRreqSender(t1, m.from, h.originSeq)
             cache == idCache[n] \cup {<<h.origin, h.id>>}
             u == LinkReplyPrecursors(t, h.dst, h.origin)
             replies == Replies(n, h, t)
             onward == Forwarded(n, m.ttl, ForwardedRreq(h, t[h.dst]))
             nothing == {}
             in == msgs \ {m}
  <1>1. /\ m.from \in Node /\ n \in Node /\ m.ttl \in Nat /\ h \in Header
        /\ FreshHdr(h, seqNo) /\ Good(t0, seqNo) /\ RestOK
    BY ReceivedGood, Parts
  <1>2. /\ h.type = "RREQ"
        /\ UNCHANGED nb \/ nb' = Heard(n, {m.from})
        /\ UNCHANGED <<rerrCount, reqTimer, deferred, loopback, queue, links, used>>
    BY DEF RecvRequest
  <1>3. \/ /\ Handled(m, t0, nothing)
           /\ UNCHANGED <<seqNo, requestId, rreqCount, idCache, deferredRev>>
        \/ SendRevRequest(n, h.origin, t, deferredRev, cache, in)
        \/ /\ \/ Handled(m, u, replies) /\ KnowsBetter(h, t[h.dst])
              \/ Handled(m, t, onward)
              \/ Handled(m, t, nothing)
           /\ idCache' = [idCache EXCEPT ![n] = cache]
           /\ UNCHANGED <<seqNo, requestId, rreqCount, deferredRev>>
    BY DEF RecvRequest
  <1>4. /\ h.origin \in Node /\ h.dst \in Node /\ h.originSeq \in Nat
        /\ h.id \in Nat /\ h.hop + 1 \in Nat
        /\ h.originSeq <= seqNo[h.origin]
    BY <1>1, <1>2, HeaderFields DEF FreshHdr
  <1>5. cache \in SUBSET (Node \X Nat)
    BY <1>1, <1>4 DEF RestOK
  <1>6. seqNo \in [Node -> Nat]
    BY <1>1 DEF RestOK
  <1> HIDE DEF n, h, t0, cache
  <1>7. Good(t1, seqNo) /\ t1[h.origin].validSeqNo
    BY <1>1, <1>4, <1>6, RouteToOriginTable DEF Good
  <1> HIDE DEF t1
  <1>8. /\ Good(t, seqNo) /\ t[m.from].seqNo = h.originSeq
        /\ \A d \in Node \ {m.from} : t[d] = t1[d]
    <2>1. t1 \in Table /\ Fresh(t1, seqNo)
      BY <1>7 DEF Good
    <2>2. /\ t \in Table /\ Fresh(t, seqNo)
          /\ t[m.from].seqNo = h.originSeq
          /\ \A d \in Node \ {m.from} : t[d] = t1[d]
      <3> DEFINE from == m.from
                 k == h.originSeq
      <3>1. from \in Node /\ k \in Nat
        BY <1>1, <1>4
      <3> HIDE DEF from, k
      <3>2. LET v == RouteToRreqSender(t1, from, k)
            IN  /\ v \in Table /\ Fresh(v, seqNo) /\ v[from].seqNo = k
                /\ \A d \in Node \ {from} : v[d] = t1[d]
        BY <1>6, <2>1, <3>1, RouteToRreqSenderTable
      <3> QED
        BY <3>2 DEF from, k
    <2> QED
      BY <2>2 DEF Good
  <1>9. t[h.origin].seqNo <= seqNo[h.origin]
    <2>1. CASE h.origin = m.from
      BY <2>1, <1>4, <1>8
    <2>2. CASE h.origin # m.from
      BY <2>2, <1>4, <1>7, <1>8 DEF Good, Fresh
    <2> QED
      BY <2>1, <2>2
  <1> HIDE DEF t
  <1>10. Good(u, seqNo)
    BY <1>4, <1>6, <1>8, LinkPrecursorsTable DEF Good
  <1>11. ASSUME KnowsBetter(h, t[h.dst])
         PROVE  \A x \in replies : GoodMsg(x, seqNo)
    <2>1. t[h.dst].validSeqNo
      BY <1>11 DEF KnowsBetter
    <2> QED
      BY <1>1, <1>2, <1>6, <1>8, <1>9, <2>1, RepliesGood
  <1>12. \A x \in onward : GoodMsg(x, seqNo)
    <2> DEFINE g == ForwardedRreq(h, t[h.dst])
    <2>1. g \in Header /\ FreshHdr(g, seqNo)
      BY <1>1, <1>2, <1>6, <1>8, ForwardedRreqGood
    <2> HIDE DEF g
    <2> QED
      BY <1>1, <2>1, ForwardedMsgs DEF g
  <1>13. \A x \in nothing : GoodMsg(x, seqNo)
    OBVIOUS
  <1> HIDE DEF u, replies, onward, nothing
  <1>14. nb' \in [Node -> SUBSET Node]
    BY <1>1, <1>2, HeardType DEF RestOK
  <1>15. CASE /\ Handled(m, t0, nothing)
              /\ UNCHANGED <<seqNo, requestId, rreqCount, idCache, deferredRev>>
    <2>1. TablesOK' /\ MsgsOK'
      BY <1>1, <1>13, <1>15, HandledKeeps
    <2>2. RestOK'
      BY <1>1, <1>2, <1>15, <1>14, RestKeeps DEF RestOK
    <2> QED
      BY <2>1, <2>2, PartsPrime
  <1>16. CASE SendRevRequest(n, h.origin, t, deferredRev, cache, in)
    <2>1. in \subseteq msgs /\ deferredRev \in Count
      BY <1>1 DEF RestOK
    <2> HIDE DEF in
    <2>2. /\ TablesOK' /\ MsgsOK'
          /\ seqNo' \in [Node -> Nat] /\ requestId' \in [Node -> Nat]
          /\ rreqCount' \in [Node -> Nat]
          /\ idCache' \in [Node -> SUBSET (Node \X Nat)]
          /\ deferredRev' \in Count
      BY <1>1, <1>4, <1>5, <1>8, <1>16, <2>1, SendRevRequestKeeps
    <2>3. RestOK'
      BY <1>1, <1>2, <1>14, <2>2 DEF RestOK
    <2> QED
      BY <2>2, <2>3, PartsPrime
  <1>17. CASE /\ \/ Handled(m, u, replies) /\ KnowsBetter(h, t[h.dst])
                 \/ Handled(m, t, onward)
                 \/ Handled(m, t, nothing)
              /\ idCache' = [idCache EXCEPT ![n] = cache]
              /\ UNCHANGED <<seqNo, requestId, rreqCount, deferredRev>>
    <2>1. idCache' \in [Node -> SUBSET (Node \X Nat)]
      BY <1>1, <1>5, <1>17 DEF RestOK
    <2>2. RestOK'
      BY <1>1, <1>2, <1>17, <1>14, <2>1, RestKeeps DEF RestOK
    <2>3. ASSUME Handled(m, u, replies), KnowsBetter(h, t[h.dst])
          PROVE  TablesOK' /\ MsgsOK'
      BY <1>10, <1>11, <1>17, <2>3, HandledKeeps
    <2>4. ASSUME Handled(m, t, onward) PROVE TablesOK' /\ MsgsOK'
      BY <1>8, <1>12, <1>17, <2>4, HandledKeeps
    <2>5. ASSUME Handled(m, t, nothing) PROVE TablesOK' /\ MsgsOK'
      BY <1>8, <1>13, <1>17, <2>5, HandledKeeps
    <2> QED
      BY <1>17, <2>2, <2>3, <2>4, <2>5, PartsPrime
  <1> QED
    BY <1>3, <1>15, <1>16, <1>17

(* A reverse request arrives: it is taken by the node it is for, dropped,  *)
(* or passed on.                                                           *)
LEMMA RecvRevRequestKeeps ==
  ASSUME IInv, NEW m \in msgs, RecvRevRequest(m)
  PROVE  IInv'
  <1> DEFINE n == m.to
             h == m.hdr
             t0 == Received(m)
             there == RouteToReplier(t0, h.origin, h.originSeq, h.hop + 1, m.from)
             onPath == RouteToOrigin(t0, h.origin, h.originSeq, h.hop + 1, m.from)
             flushed == FromQueue(n, h.origin, there[h.origin])
             onward == Forwarded(n, m.ttl, [h EXCEPT !.hop = @ + 1])
             nothing == {}
             cache == idCache[n] \cup {<<h.origin, h.id>>}
  <1>1. /\ m.from \in Node /\ n \in Node /\ m.ttl \in Nat /\ h \in Header
        /\ FreshHdr(h, seqNo) /\ Good(t0, seqNo) /\ RestOK
    BY ReceivedGood, Parts
  <1>2. /\ h.type = "REV_RREQ"
        /\ UNCHANGED <<seqNo, requestId, rreqCount, rerrCount, reqTimer, deferred,
                       deferredRev, loopback, nb, links, used>>
        /\ idCache' = [idCache EXCEPT ![n] = cache]
        /\ \/ Handled(m, there, flushed) /\ queue' = Emptied(queue, n, h.origin)
           \/ /\ Handled(m, t0, nothing) \/ Handled(m, onPath, onward)
              /\ UNCHANGED queue
    BY DEF RecvRevRequest
  <1>3. /\ h.origin \in Node /\ h.dst \in Node /\ h.originSeq \in Nat
        /\ h.id \in Nat /\ h.hop + 1 \in Nat
        /\ h.originSeq <= seqNo[h.origin]
    BY <1>1, <1>2, HeaderFields DEF FreshHdr
  <1>4. cache \in SUBSET (Node \X Nat) /\ seqNo \in [Node -> Nat]
    BY <1>1, <1>3 DEF RestOK
  <1>5. \A x \in onward : GoodMsg(x, seqNo)
    <2> DEFINE g == [h EXCEPT !.hop = @ + 1]
               RevRreq == [type : {"REV_RREQ"}, origin : Node, id : Nat,
                           dst : Node, originSeq : Nat, hop : Nat]
    <2>1. h \in RevRreq
      BY <1>1, <1>2, HeaderFields
    <2> HIDE DEF h
    <2>2. g \in RevRreq /\ g.type = "REV_RREQ"
          /\ g.origin = h.origin /\ g.originSeq = h.originSeq
      BY <2>1
    <2> HIDE DEF g
    <2>3. g \in Header
      BY <2>2 DEF Header, RreqHeaders, RevRreqHeaders, RrepHeaders,
           RrepAckHeaders, RerrHeaders, DataHeaders
    <2>4. FreshHdr(g, seqNo)
      BY <1>3, <2>2 DEF FreshHdr
    <2> QED
      BY <1>1, <2>3, <2>4, ForwardedMsgs DEF g
  <1>6. \A x \in flushed : GoodMsg(x, seqNo)
    BY <1>1, <1>3, DataMsgs
  <1>7. \A x \in nothing : GoodMsg(x, seqNo)
    OBVIOUS
  <1> HIDE DEF n, h, t0, cache, flushed, onward, nothing
  <1>8. Good(there, seqNo) /\ Good(onPath, seqNo)
    BY <1>1, <1>3, <1>4, RouteToReplierTable, RouteToOriginTable DEF Good
  <1> HIDE DEF there, onPath
  <1>9. ASSUME Handled(m, there, flushed) PROVE TablesOK' /\ MsgsOK'
    BY <1>2, <1>6, <1>8, <1>9, HandledKeeps
  <1>10. ASSUME Handled(m, t0, nothing) PROVE TablesOK' /\ MsgsOK'
    BY <1>1, <1>2, <1>7, <1>10, HandledKeeps
  <1>11. ASSUME Handled(m, onPath, onward) PROVE TablesOK' /\ MsgsOK'
    BY <1>2, <1>5, <1>8, <1>11, HandledKeeps
  <1>12. queue' \in Count
    BY <1>1, <1>2, <1>3, CountTypes DEF RestOK
  <1>13. idCache' \in [Node -> SUBSET (Node \X Nat)]
    BY <1>1, <1>2, <1>4 DEF RestOK
  <1>14. RestOK'
    BY <1>1, <1>2, <1>12, <1>13, RestKeeps DEF RestOK
  <1> QED
    BY <1>2, <1>9, <1>10, <1>11, <1>14, PartsPrime

(* The acknowledgment of a RREP.                                           *)
LEMMA ReplyAckMsgs ==
  ASSUME NEW own, NEW m, m.to \in Node
  PROVE  \A x \in ReplyAck(m) : GoodMsg(x, own)
  <1> DEFINE h == [type |-> "RREP_ACK"]
  <1>1. h \in Header /\ FreshHdr(h, own)
    BY DEF Header, RreqHeaders, RevRreqHeaders, RrepHeaders,
           RrepAckHeaders, RerrHeaders, DataHeaders, FreshHdr
  <1> HIDE DEF h
  <1>2. \A x \in Unicast(m.to, m.from, 1, h) : GoodMsg(x, own)
    BY <1>1, RadioMsgs
  <1> QED
    BY <1>2 DEF ReplyAck, h

(* A reply reaches the originator.                                         *)
LEMMA ReplyArrivesKeeps ==
  ASSUME IInv, NEW m \in msgs, NEW t, Good(t, seqNo),
         m.hdr.dst \in Node, m.hdr.dstSeq \in Nat, m.hdr.hop + 1 \in Nat,
         m.hdr.dstSeq <= seqNo[m.hdr.dst],
         UNCHANGED seqNo, ReplyArrives(m, t)
  PROVE  /\ TablesOK' /\ MsgsOK' /\ queue' \in Count
         /\ reqTimer' \in [Node -> SUBSET Node]
  <1> DEFINE n == m.to
             h == m.hdr
             searching == Received(m)[h.dst].flag = "IN_SEARCH"
             t2 == Update(t, h.dst, NewEntry(TRUE, h.dstSeq, h.hop + 1, m.from))
             t1 == IF searching THEN t2 ELSE t
             flushed == FromQueue(n, h.dst, t1[h.dst])
             out == ReplyAck(m) \cup flushed
  <1>1. RestOK /\ m.from \in Node /\ n \in Node
    BY Parts, ReceivedGood
  <1>2. /\ Handled(m, t1, out)
        /\ queue' = Emptied(queue, n, h.dst)
        /\ reqTimer' = [reqTimer EXCEPT ![n] =
                          IF searching THEN @ \ {h.dst} ELSE @]
    BY DEF ReplyArrives
  <1>3. Good(t1, seqNo)
    <2> DEFINE from == m.from
               hop == h.hop + 1
    <2>1. t \in Table /\ Fresh(t, seqNo) /\ seqNo \in [Node -> Nat]
          /\ from \in Node /\ hop \in Nat /\ h.dst \in Node
          /\ h.dstSeq \in Nat /\ h.dstSeq <= seqNo[h.dst]
      BY <1>1 DEF Good, RestOK
    <2> HIDE DEF from, hop, h
    <2>2. LET v == Update(t, h.dst, NewEntry(TRUE, h.dstSeq, hop, from))
          IN  v \in Table /\ Fresh(v, seqNo)
      BY <2>1, ForwardRouteTable
    <2>3. Good(t2, seqNo)
      BY <2>2 DEF Good, from, hop
    <2> HIDE DEF t2
    <2> QED
      BY <2>3
  <1>4. \A x \in flushed : GoodMsg(x, seqNo)
    BY <1>1, DataMsgs
  <1>5. \A x \in ReplyAck(m) : GoodMsg(x, seqNo)
    BY <1>1, ReplyAckMsgs
  <1> HIDE DEF t1, flushed
  <1>6. \A x \in out : GoodMsg(x, seqNo)
    BY <1>4, <1>5
  <1> HIDE DEF out
  <1>7. TablesOK' /\ MsgsOK'
    BY <1>2, <1>3, <1>6, HandledKeeps
  <1>8. queue' \in Count
    BY <1>1, <1>2, CountTypes DEF RestOK
  <1>9. reqTimer' \in [Node -> SUBSET Node]
    BY <1>1, <1>2 DEF RestOK
  <1> QED
    BY <1>7, <1>8, <1>9

(* A reply passes through a node.                                          *)
LEMMA ReplyPassesKeeps ==
  ASSUME IInv, NEW m \in msgs, NEW t, Good(t, seqNo), m.hdr.type = "RREP",
         UNCHANGED seqNo, ReplyPasses(m, t)
  PROVE  TablesOK' /\ MsgsOK' /\ UNCHANGED <<queue, reqTimer>>
  <1> DEFINE n == m.to
             h == m.hdr
             onward == [h EXCEPT !.hop = @ + 1, !.ack = FALSE]
             e == [t[h.origin] EXCEPT !.live = TRUE]
             t1 == Update(t, h.origin, e)
             t2 == IF Valid(t1, h.dst) THEN LinkPrecursors(t1, h.dst, h.origin)
                   ELSE t1
             ack == ReplyAck(m)
             passed == IF m.ttl < 2 THEN {}
                       ELSE Unicast(n, t2[h.origin].nextHop, m.ttl - 1, onward)
             out == ack \cup passed
  <1>1. /\ seqNo \in [Node -> Nat] /\ n \in Node /\ m.ttl \in Nat
        /\ h \in Header /\ FreshHdr(h, seqNo)
        /\ t \in Table /\ Fresh(t, seqNo)
    BY Parts, ReceivedGood DEF RestOK, Good
  <1>2. /\ Handled(m, t, ack) \/ Handled(m, t2, out)
        /\ UNCHANGED <<queue, reqTimer>>
    BY DEF ReplyPasses
  <1>3. h \in [type : {"RREP"}, dst : Node, dstSeq : Nat, origin : Node,
              hop : Nat, ack : BOOLEAN]
    BY <1>1, HeaderFields
  <1>4. h.origin \in Node /\ h.dst \in Node /\ h.dstSeq <= seqNo[h.dst]
    BY <1>1, <1>3 DEF FreshHdr
  <1> HIDE DEF n, h, ack
  <1>5. e \in Entry /\ (e.validSeqNo => e.seqNo <= seqNo[h.origin])
    BY <1>1, <1>4 DEF Table, Entry, Fresh
  <1>6. t1 \in Table /\ Fresh(t1, seqNo)
    <2> HIDE DEF e
    <2> QED
      BY <1>1, <1>4, <1>5, UpdateTable
  <1> HIDE DEF e, t1
  <1>7. Good(t2, seqNo)
    BY <1>1, <1>4, <1>6, LinkPrecursorsTable DEF Good
  <1>8. onward \in Header /\ FreshHdr(onward, seqNo)
    <2>1. onward \in [type : {"RREP"}, dst : Node, dstSeq : Nat, origin : Node,
                      hop : Nat, ack : BOOLEAN]
      <3>1. h.hop + 1 \in Nat /\ FALSE \in BOOLEAN
        BY <1>3
      <3> QED
        BY <1>3, <3>1
    <2>2. onward.type = "RREP" /\ onward.dst = h.dst
          /\ onward.dstSeq = h.dstSeq
      BY <1>3
    <2> HIDE DEF onward
    <2>3. FreshHdr(onward, seqNo)
      BY <1>4, <2>2 DEF FreshHdr
    <2> QED
      BY <2>1, <2>3 DEF Header, RreqHeaders, RevRreqHeaders, RrepHeaders,
           RrepAckHeaders, RerrHeaders, DataHeaders
  <1>9. \A x \in passed : GoodMsg(x, seqNo)
    <2> HIDE DEF onward, t2
    <2> SUFFICES ASSUME ~(m.ttl < 2)
                 PROVE  \A x \in Unicast(n, t2[h.origin].nextHop, m.ttl - 1, onward) :
                          GoodMsg(x, seqNo)
      OBVIOUS
    <2>1. m.ttl - 1 \in Nat
      BY <1>1
    <2> QED
      BY <1>1, <1>8, <2>1, RadioMsgs
  <1>10. \A x \in ack : GoodMsg(x, seqNo)
    BY <1>1, ReplyAckMsgs DEF ack, n
  <1> HIDE DEF t2, passed
  <1>11. \A x \in out : GoodMsg(x, seqNo)
    BY <1>9, <1>10
  <1> HIDE DEF out
  <1>12. ASSUME Handled(m, t, ack) PROVE TablesOK' /\ MsgsOK'
    BY <1>10, <1>12, HandledKeeps
  <1>13. ASSUME Handled(m, t2, out) PROVE TablesOK' /\ MsgsOK'
    BY <1>7, <1>11, <1>13, HandledKeeps
  <1> QED
    BY <1>2, <1>12, <1>13

(* A reply arrives.                                                        *)
LEMMA RecvReplyKeeps ==
  ASSUME IInv, NEW m \in msgs, RecvReply(m)
  PROVE  IInv'
  <1> DEFINE h == m.hdr
             from == m.from
             hop == h.hop + 1
             t == ForwardRoute(Received(m), h.dst, h.dstSeq, hop, from)
  <1>1. /\ RestOK /\ seqNo \in [Node -> Nat] /\ from \in Node /\ h \in Header
        /\ FreshHdr(h, seqNo)
        /\ Received(m) \in Table /\ Fresh(Received(m), seqNo)
    BY Parts, ReceivedGood DEF RestOK, Good
  <1>2. /\ h.type = "RREP"
        /\ ReplyArrives(m, t) \/ ReplyPasses(m, t)
        /\ UNCHANGED <<seqNo, requestId, rreqCount, rerrCount, idCache, deferred,
                       deferredRev, loopback, nb, links, used>>
    BY DEF RecvReply
  <1>3. /\ h.dst \in Node /\ h.dstSeq \in Nat /\ hop \in Nat
        /\ h.dstSeq <= seqNo[h.dst]
    BY <1>1, <1>2, HeaderFields DEF FreshHdr
  <1>4. Good(t, seqNo)
    <2> HIDE DEF from, hop, h
    <2>1. t \in Table /\ Fresh(t, seqNo)
      BY <1>1, <1>3, ForwardRouteTable
    <2> QED
      BY <2>1 DEF Good
  <1> HIDE DEF t
  <1>5. ASSUME ReplyArrives(m, t)
        PROVE  /\ TablesOK' /\ MsgsOK' /\ queue' \in Count
               /\ reqTimer' \in [Node -> SUBSET Node]
    BY <1>2, <1>3, <1>4, <1>5, ReplyArrivesKeeps
  <1>6. ASSUME ReplyPasses(m, t)
        PROVE  /\ TablesOK' /\ MsgsOK' /\ queue' \in Count
               /\ reqTimer' \in [Node -> SUBSET Node]
    <2>1. TablesOK' /\ MsgsOK' /\ UNCHANGED <<queue, reqTimer>>
      BY <1>2, <1>4, <1>6, ReplyPassesKeeps
    <2> QED
      BY <1>1, <2>1 DEF RestOK
  <1>7. /\ TablesOK' /\ MsgsOK' /\ queue' \in Count
        /\ reqTimer' \in [Node -> SUBSET Node]
    BY <1>2, <1>5, <1>6
  <1>8. RestOK'
    BY <1>1, <1>2, <1>7, RestKeeps DEF RestOK
  <1> QED
    BY <1>7, <1>8, PartsPrime

-----------------------------------------------------------------------------
(* At the start nobody knows anything.                                     *)
LEMMA InitOK == Init => IInv
  <1> SUFFICES ASSUME Init PROVE IInv
    OBVIOUS
  <1>1. seqNo \in [Node -> Nat] /\ \A n \in Node : seqNo[n] = 0
    BY DEF Init
  <1>2. EmptyTable \in Table /\ Fresh(EmptyTable, seqNo)
    BY EmptyTableType DEF EmptyTable, NoEntry, Fresh
  <1>3. TablesOK
    <2>1. rtab = [n \in Node |-> EmptyTable]
      BY DEF Init
    <2> QED
      BY <1>2, <2>1 DEF TablesOK, Good
  <1>4. MsgsOK
    BY DEF Init, MsgsOK
  <1>5. NoPackets \in Count
    BY DEF NoPackets, Count
  <1>6. links \subseteq Node \X Node
    BY RaodvAssumption DEF Init
  <1>7. RestOK
    BY <1>5, <1>6 DEF Init, RestOK
  <1> QED
    BY <1>3, <1>4, <1>7, Parts

(* Every step of the network keeps the invariant.                          *)
LEMMA NextOK == IInv /\ [Next]_vars => IInv'
  <1> SUFFICES ASSUME IInv, [Next]_vars PROVE IInv'
    OBVIOUS
  <1>1. ASSUME NEW m \in msgs,
               \/ RecvRequest(m) \/ RecvRevRequest(m) \/ RecvReply(m)
               \/ ProcessHello(m) \/ RecvReplyAck(m) \/ RecvError(m)
               \/ RouteInput(m)
        PROVE  IInv'
    BY <1>1, RecvRequestKeeps, RecvRevRequestKeeps, RecvReplyKeeps,
       ProcessHelloKeeps, RecvReplyAckKeeps, RecvErrorKeeps, RouteInputKeeps
  <1>2. ASSUME NEW n \in Node,
               \/ RreqRateLimitTimerExpire(n) \/ RerrRateLimitTimerExpire(n)
               \/ HelloTimerExpire(n)
        PROVE  IInv'
    BY <1>2, RateLimitTimersKeep, HelloTimerExpireKeeps
  <1>3. ASSUME NEW n \in Node, NEW d \in Node,
               \/ RouteOutput(n, d) \/ DeferredRouteOutput(n, d)
               \/ DeferredRequest(n, d) \/ DeferredRevRequest(n, d)
               \/ RouteRequestTimerExpire(n, d)
               \/ SendRerrWhenBreaksLinkToNextHop(n, d)
               \/ Lapse(n, d) \/ LinkBreaks(n, d)
        PROVE  IInv'
    BY <1>3, RouteOutputKeeps, DeferredRouteOutputKeeps, DeferredRequestKeeps,
       DeferredRevRequestKeeps, RouteRequestTimerExpireKeeps,
       SendRerrWhenBreaksLinkToNextHopKeeps, LapseKeeps, LinkBreaksKeeps
  <1>4. CASE UNCHANGED vars
    <2>1. TablesOK /\ MsgsOK /\ RestOK
      BY Parts
    <2>2. TablesOK' /\ MsgsOK' /\ RestOK'
      BY <1>4, <2>1 DEF vars, TablesOK, MsgsOK, RestOK
    <2> QED
      BY <2>2, PartsPrime
  <1> QED
    BY <1>1, <1>2, <1>3, <1>4 DEF Next

(* The invariant holds for ever.                                           *)
LEMMA Invariance == Spec => []IInv
  BY InitOK, NextOK, PTL DEF Spec

(* Every variable keeps its type, whatever the network, the traffic and    *)
(* the configuration: tables stay tables over Node, counters stay numbers, *)
(* and every message in flight is one of the six kinds the nodes send,     *)
(* from a node to a node.                                                  *)
THEOREM TypeCorrect == Spec => []TypeOK
  <1>1. IInv => TypeOK
    BY DEF IInv
  <1> QED
    BY <1>1, Invariance, PTL

(* No table entry marked valid, and no message in flight, is ahead of the  *)
(* node whose sequence number it carries: only the owner's SendRequest and *)
(* SendRevRequest make a new one, and every handler copies.                *)
THEOREM SeqNoOwned == Spec => []SeqNoComesFromOwner
  <1>1. IInv => SeqNoComesFromOwner
    BY DEF IInv
  <1> QED
    BY <1>1, Invariance, PTL
=============================================================================
