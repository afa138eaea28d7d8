---------------------------- MODULE RouteUpdates ----------------------------
(***************************************************************************)
(* What the message handlers of RoutingProtocol do to the receiving node's *)
(* own routing table (model/aodv-routing-protocol.cc), as functions from a *)
(* purged table to a table.  "from" is the neighbour that sent the         *)
(* message.                                                                *)
(***************************************************************************)
EXTENDS RoutingTable

Larger(a, b) == IF a >= b THEN a ELSE b
Smaller(a, b) == IF a <= b THEN a ELSE b

(***************************************************************************)
(* UpdateRouteToNeighbor, on every AODV message.  A one-hop entry with a   *)
(* valid sequence number is left alone: its new lifetime is set on a copy  *)
(* that is not written back.  Any other entry is replaced, and with it its *)
(* sequence number and its precursors.                                     *)
(***************************************************************************)
UpdateRouteToNeighbor(t, from) ==
  LET fresh == NewEntry(FALSE, 0, 1, from)
  IN  IF ~Present(t, from) THEN AddRoute(t, from, fresh)
      ELSE IF t[from].validSeqNo /\ t[from].hop = 1 THEN t
      ELSE Update(t, from, fresh)

(* The toOrigin entry of RecvRequest and RecvRevRequest with a RREQ's data *)
(* copied into it; the flag is left as it was.                             *)
OriginEntry(e, originSeq, hop, from) ==
  [e EXCEPT !.seqNo = IF e.validSeqNo THEN Larger(originSeq, @) ELSE originSeq,
            !.validSeqNo = TRUE, !.nextHop = from, !.hop = hop,
            !.iface = TRUE, !.live = TRUE]

(* The reverse route to the originator of a RREQ, created or updated.      *)
RouteToOrigin(t, origin, originSeq, hop, from) ==
  IF Present(t, origin)
  THEN Update(t, origin, OriginEntry(t[origin], originSeq, hop, from))
  ELSE AddRoute(t, origin, NewEntry(TRUE, originSeq, hop, from))

(* Mutant: the sequence number is taken for the neighbour's own.           *)
RouteToRreqSenderTrusted(t, from, originSeq) ==
  IF Present(t, from)
  THEN Update(t, from, [t[from] EXCEPT
                          !.flag = "VALID", !.validSeqNo = TRUE,
                          !.seqNo = originSeq, !.hop = 1, !.nextHop = from,
                          !.iface = TRUE, !.live = TRUE])
  ELSE AddRoute(t, from, NewEntry(FALSE, originSeq, 1, from))

(* The route to the neighbour a RREQ came from.  It gets the originator's  *)
(* sequence number, marked as not valid.                                   *)
RouteToRreqSender(t, from, originSeq) ==
  IF Present(t, from)
  THEN Update(t, from, [t[from] EXCEPT
                          !.flag = "VALID", !.validSeqNo = FALSE,
                          !.seqNo = originSeq, !.hop = 1, !.nextHop = from,
                          !.iface = TRUE, !.live = TRUE])
  ELSE AddRoute(t, from, NewEntry(FALSE, originSeq, 1, from))

(* Mutant: the existing entry is only switched to VALID.                   *)
RouteToReplierSwitchedOn(t, origin, originSeq, hop, from) ==
  IF Present(t, origin)
  THEN [t EXCEPT ![origin].nextHop = from, ![origin].flag = "VALID"]
  ELSE AddRoute(t, origin, NewEntry(TRUE, originSeq, hop, from))

(***************************************************************************)
(* The route to the originator of a reverse request, at the node the       *)
(* reverse request is for.  The code calls AddRoute, which does not touch  *)
(* an existing entry, but SetNextHop has already written through to the    *)
(* Ipv4Route that the copy shares with the entry.                          *)
(***************************************************************************)
RouteToReplier(t, origin, originSeq, hop, from) ==
  IF Present(t, origin)
  THEN [t EXCEPT ![origin].nextHop = from]
  ELSE AddRoute(t, origin, NewEntry(TRUE, originSeq, hop, from))

-----------------------------------------------------------------------------
(* RecvReply: may an existing entry be replaced by what the RREP says?     *)
Supersedes(dstSeq, hop, e) ==
  \/ ~e.validSeqNo
  \/ dstSeq > e.seqNo
  \/ dstSeq = e.seqNo /\ e.flag # "VALID"
  \/ dstSeq = e.seqNo /\ hop < e.hop

(* RecvReply: the forward route to the destination of a RREP.              *)
ForwardRoute(t, dst, dstSeq, hop, from) ==
  LET fresh == NewEntry(TRUE, dstSeq, hop, from)
  IN  IF ~Present(t, dst) THEN AddRoute(t, dst, fresh)
      ELSE IF Supersedes(dstSeq, hop, t[dst]) THEN Update(t, dst, fresh)
      ELSE t

(***************************************************************************)
(* RecvReply at a node on the path, when its route to dst is VALID: each   *)
(* of the two routes, and each of their next hops, gets a precursor.  The  *)
(* copy of the entry for origin is taken first and written back last but   *)
(* one, over whatever the other updates did to that entry.                 *)
(***************************************************************************)
LinkPrecursors(t, dst, origin) ==
  LET toDst    == t[dst]
      toOrigin == t[origin]
      t1 == Update(t, dst, InsertPrecursor(toDst, toOrigin.nextHop))
      t2 == IF toDst.nextHop \in Node
            THEN Update(t1, toDst.nextHop,
                        InsertPrecursor(t1[toDst.nextHop], toOrigin.nextHop))
            ELSE t1
      t3 == Update(t2, origin, InsertPrecursor(toOrigin, toDst.nextHop))
  IN  IF toOrigin.nextHop \in Node
      THEN Update(t3, toOrigin.nextHop,
                  InsertPrecursor(t3[toOrigin.nextHop], toDst.nextHop))
      ELSE t3

(* SendReplyByIntermediateNode: the two routes become each other's         *)
(* precursors.                                                             *)
LinkReplyPrecursors(t, dst, origin) ==
  LET t1 == Update(t, dst, InsertPrecursor(t[dst], t[origin].nextHop))
  IN  Update(t1, origin, InsertPrecursor(t[origin], t[dst].nextHop))

(* ProcessHello: the neighbour's entry takes the hello's sequence number.  *)
RouteFromHello(t, dst, dstSeq) ==
  IF Present(t, dst)
  THEN Update(t, dst, [t[dst] EXCEPT
                         !.flag = "VALID", !.validSeqNo = TRUE,
                         !.seqNo = dstSeq, !.hop = 1, !.nextHop = dst,
                         !.iface = TRUE, !.live = TRUE])
  ELSE AddRoute(t, dst, NewEntry(TRUE, dstSeq, 1, dst))

(* RecvReplyAck: the neighbour's entry is VALID, whatever it was.          *)
RouteAcked(t, from) == Update(t, from, [t[from] EXCEPT !.flag = "VALID"])

-----------------------------------------------------------------------------
(* The TTL of the next RREQ for a destination with entry e: the ring grows *)
(* by TtlIncrement, and jumps to the network diameter past the threshold.  *)
RingTtl(e, increment, threshold, diameter) ==
  IF e.flag # "IN_SEARCH" THEN Smaller(e.hop + increment, diameter)
  ELSE IF e.hop + increment > threshold THEN diameter
  ELSE e.hop + increment

(* The entry of a destination for which a request with this TTL goes out.  *)
InSearch(e, ttl, diameter) ==
  [e EXCEPT !.flag = "IN_SEARCH", !.hop = ttl, !.live = TRUE,
            !.reqCnt = IF ttl = diameter THEN @ + 1 ELSE @]

(* The dummy entry SendRequest adds for a destination it knows nothing of. *)
DummyEntry(ttl, diameter) == InSearch(NoEntry, ttl, diameter)
=============================================================================
