---------------------------- MODULE RouteProofs -----------------------------
(***************************************************************************)
(* What the operations on a routing table preserve, for any set of nodes:  *)
(* the result is a routing table, it is no fresher than the sequence       *)
(* numbers the destinations have given out, its entries can be used once   *)
(* they are VALID, its next hops stay on a given way and its counts of     *)
(* requests within given sets.                                             *)
(***************************************************************************)
EXTENDS RouteUpdates, TLAPS

(* Nothing that t holds as valid is ahead of own, the owners' own numbers. *)
Fresh(t, own) == \A d \in Node : t[d].validSeqNo => t[d].seqNo <= own[d]

-----------------------------------------------------------------------------
(* The entries that the code builds are entries.                           *)
LEMMA EntryTypes ==
  /\ NoEntry \in Entry
  /\ \A v \in BOOLEAN, s, h \in Nat, nh \in Address :
       NewEntry(v, s, h, nh) \in Entry
  BY DEF NoEntry, NewEntry, Entry, Flag, Address

(* A table before anything is known is a table.                            *)
LEMMA EmptyTableType == EmptyTable \in Table
  BY EntryTypes DEF EmptyTable, Table

(* Settling, invalidating or purging an entry, and noting a precursor in   *)
(* it, give an entry that vouches for no more than before.                 *)
LEMMA EntryUpdates ==
  ASSUME NEW e \in Entry
  PROVE  /\ Settled(e) \in Entry
         /\ Settled(e).validSeqNo = e.validSeqNo /\ Settled(e).seqNo = e.seqNo
         /\ Invalidate(e) \in Entry
         /\ Invalidate(e).validSeqNo = e.validSeqNo
         /\ Invalidate(e).seqNo = e.seqNo
         /\ PurgedEntry(e) \in Entry
         /\ PurgedEntry(e).validSeqNo =>
              e.validSeqNo /\ PurgedEntry(e).seqNo = e.seqNo
  <1>1. Settled(e) \in Entry /\ Settled(e).validSeqNo = e.validSeqNo
        /\ Settled(e).seqNo = e.seqNo
    BY DEF Settled, Entry, Flag
  <1>2. Invalidate(e) \in Entry /\ Invalidate(e).validSeqNo = e.validSeqNo
        /\ Invalidate(e).seqNo = e.seqNo
    BY DEF Invalidate, Entry, Flag
  <1>3. PurgedEntry(e) \in {e, Invalidate(e), NoEntry}
    BY DEF PurgedEntry, Entry, Flag
  <1>4. NoEntry.validSeqNo = FALSE
    BY DEF NoEntry
  <1> QED
    BY <1>1, <1>2, <1>3, <1>4, EntryTypes

(* Noting a precursor changes nothing but the precursors.                  *)
LEMMA InsertPrecursorType ==
  ASSUME NEW e \in Entry, NEW p \in Address
  PROVE  /\ InsertPrecursor(e, p) \in Entry
         /\ InsertPrecursor(e, p).validSeqNo = e.validSeqNo
         /\ InsertPrecursor(e, p).seqNo = e.seqNo
  BY DEF InsertPrecursor, Entry

-----------------------------------------------------------------------------
(* Update and AddRoute: a table with at most one entry changed, to what    *)
(* was passed in.                                                          *)
LEMMA UpdateTable ==
  ASSUME NEW t \in Table, NEW d \in Node, NEW e \in Entry,
         NEW own \in [Node -> Nat], Fresh(t, own),
         e.validSeqNo => e.seqNo <= own[d]
  PROVE  /\ Update(t, d, e) \in Table /\ Fresh(Update(t, d, e), own)
         /\ AddRoute(t, d, e) \in Table /\ Fresh(AddRoute(t, d, e), own)
  <1> DEFINE u == [t EXCEPT ![d] = Settled(e)]
  <1>1. u \in Table
    BY EntryUpdates DEF Table
  <1>2. Fresh(u, own)
    BY EntryUpdates DEF Fresh, Table
  <1> QED
    BY <1>1, <1>2 DEF Update, AddRoute

(* Deleting a route, purging, and invalidating routes.                     *)
LEMMA ShrinkTable ==
  ASSUME NEW t \in Table, NEW own \in [Node -> Nat], Fresh(t, own)
  PROVE  /\ \A d \in Node : DeleteRoute(t, d) \in Table
                            /\ Fresh(DeleteRoute(t, d), own)
         /\ Purged(t) \in Table /\ Fresh(Purged(t), own)
         /\ \A D : InvalidateRoutesWithDst(t, D) \in Table
                   /\ Fresh(InvalidateRoutesWithDst(t, D), own)
  <1>1. ASSUME NEW d \in Node
        PROVE  DeleteRoute(t, d) \in Table /\ Fresh(DeleteRoute(t, d), own)
    BY EntryTypes DEF DeleteRoute, Table, Fresh, NoEntry
  <1>2. Purged(t) \in Table
    BY EntryUpdates DEF Purged, Table
  <1>3. Fresh(Purged(t), own)
    BY EntryUpdates DEF Purged, Table, Fresh
  <1>4. ASSUME NEW D
        PROVE  InvalidateRoutesWithDst(t, D) \in Table
               /\ Fresh(InvalidateRoutesWithDst(t, D), own)
    BY EntryUpdates DEF InvalidateRoutesWithDst, Table, Fresh
  <1> QED
    BY <1>1, <1>2, <1>3, <1>4

(* Owners' numbers only grow, which keeps a table fresh.                   *)
LEMMA FreshMonotone ==
  ASSUME NEW t \in Table, NEW own \in [Node -> Nat], NEW later \in [Node -> Nat],
         Fresh(t, own), \A d \in Node : own[d] <= later[d]
  PROVE  Fresh(t, later)
  BY DEF Fresh, Table, Entry

(* What has been invalidated is not VALID.                                 *)
LEMMA InvalidatedNotValid ==
  ASSUME NEW t \in Table, NEW D \in SUBSET Node
  PROVE  \A d \in D : ~Valid(InvalidateRoutesWithDst(t, D), d)
  <1>1. \A d \in Node : Invalidate(t[d]).flag = "INVALID"
    BY DEF Invalidate, Table, Entry, Flag
  <1> QED
    BY <1>1 DEF InvalidateRoutesWithDst, Valid

-----------------------------------------------------------------------------
(***************************************************************************)
(* The table updates of the message handlers.                              *)
(***************************************************************************)

(* Hearing from a neighbour vouches for nothing.                           *)
LEMMA UpdateRouteToNeighborTable ==
  ASSUME NEW t \in Table, NEW own \in [Node -> Nat], Fresh(t, own),
         NEW from \in Node
  PROVE  /\ UpdateRouteToNeighbor(t, from) \in Table
         /\ Fresh(UpdateRouteToNeighbor(t, from), own)
  <1> DEFINE fresh == NewEntry(FALSE, 0, 1, from)
  <1>1. fresh \in Entry /\ ~fresh.validSeqNo
    BY EntryTypes DEF Address, NewEntry
  <1> HIDE DEF fresh
  <1>2. /\ Update(t, from, fresh) \in Table /\ Fresh(Update(t, from, fresh), own)
        /\ AddRoute(t, from, fresh) \in Table
        /\ Fresh(AddRoute(t, from, fresh), own)
    BY <1>1, UpdateTable
  <1> QED
    BY <1>2 DEF UpdateRouteToNeighbor, fresh

(* The route to an originator vouches for what the message said, or for    *)
(* what was known before.                                                  *)
LEMMA RouteToOriginTable ==
  ASSUME NEW t \in Table, NEW own \in [Node -> Nat], Fresh(t, own),
         NEW origin \in Node, NEW originSeq \in Nat, NEW hop \in Nat,
         NEW from \in Node, originSeq <= own[origin]
  PROVE  /\ RouteToOrigin(t, origin, originSeq, hop, from) \in Table
         /\ Fresh(RouteToOrigin(t, origin, originSeq, hop, from), own)
         /\ RouteToOrigin(t, origin, originSeq, hop, from)[origin].validSeqNo
  <1> DEFINE e == OriginEntry(t[origin], originSeq, hop, from)
             f == NewEntry(TRUE, originSeq, hop, from)
  <1>1. t[origin] \in Entry
    BY DEF Table
  <1>2. e \in Entry /\ e.validSeqNo
    BY <1>1 DEF OriginEntry, Entry, Address, Larger
  <1>3. e.seqNo <= own[origin]
    BY <1>1 DEF OriginEntry, Entry, Larger, Fresh
  <1>4. f \in Entry /\ f.validSeqNo /\ f.seqNo = originSeq
    BY EntryTypes DEF Address, NewEntry
  <1>5. Settled(e).validSeqNo /\ Settled(f).validSeqNo
    BY <1>2, <1>4, EntryUpdates
  <1> HIDE DEF e, f
  <1>6. /\ Update(t, origin, e) \in Table /\ Fresh(Update(t, origin, e), own)
        /\ AddRoute(t, origin, f) \in Table
        /\ Fresh(AddRoute(t, origin, f), own)
    BY <1>2, <1>3, <1>4, UpdateTable
  <1>7. /\ Present(t, origin) => Update(t, origin, e)[origin].validSeqNo
        /\ ~Present(t, origin) => AddRoute(t, origin, f)[origin].validSeqNo
    BY <1>5 DEF Update, AddRoute, Table
  <1> QED
    BY <1>6, <1>7 DEF RouteToOrigin, e, f

(* The route to the sender of a RREQ carries the originator's number, and  *)
(* does not vouch for it.                                                  *)
LEMMA RouteToRreqSenderTable ==
  ASSUME NEW t \in Table, NEW own \in [Node -> Nat], Fresh(t, own),
         NEW from \in Node, NEW originSeq \in Nat
  PROVE  /\ RouteToRreqSender(t, from, originSeq) \in Table
         /\ Fresh(RouteToRreqSender(t, from, originSeq), own)
         /\ RouteToRreqSender(t, from, originSeq)[from].seqNo = originSeq
         /\ \A d \in Node \ {from} :
              RouteToRreqSender(t, from, originSeq)[d] = t[d]
  <1> DEFINE e == [t[from] EXCEPT !.flag = "VALID", !.validSeqNo = FALSE,
                                  !.seqNo = originSeq, !.hop = 1,
                                  !.nextHop = from, !.iface = TRUE,
                                  !.live = TRUE]
             f == NewEntry(FALSE, originSeq, 1, from)
  <1>1. t[from] \in Entry
    BY DEF Table
  <1>2. e \in Entry /\ ~e.validSeqNo /\ e.seqNo = originSeq
    BY <1>1 DEF Entry, Address, Flag
  <1>3. f \in Entry /\ ~f.validSeqNo /\ f.seqNo = originSeq
    BY EntryTypes DEF Address, NewEntry
  <1>4. Settled(e).seqNo = originSeq /\ Settled(f).seqNo = originSeq
    BY <1>2, <1>3, EntryUpdates
  <1>5. RouteToRreqSender(t, from, originSeq) =
          IF Present(t, from) THEN Update(t, from, e) ELSE AddRoute(t, from, f)
    BY DEF RouteToRreqSender
  <1> HIDE DEF e, f
  <1>6. /\ Update(t, from, e) \in Table /\ Fresh(Update(t, from, e), own)
        /\ AddRoute(t, from, f) \in Table /\ Fresh(AddRoute(t, from, f), own)
    BY <1>2, <1>3, UpdateTable
  <1>7. RouteToRreqSender(t, from, originSeq)[from].seqNo = originSeq
    BY <1>4, <1>5 DEF Update, AddRoute, Table
  <1>8. \A d \in Node \ {from} : RouteToRreqSender(t, from, originSeq)[d] = t[d]
    BY <1>5 DEF Update, AddRoute, Table
  <1> QED
    BY <1>5, <1>6, <1>7, <1>8

(* The route to the node that answers with a reverse request.              *)
LEMMA RouteToReplierTable ==
  ASSUME NEW t \in Table, NEW own \in [Node -> Nat], Fresh(t, own),
         NEW origin \in Node, NEW originSeq \in Nat, NEW hop \in Nat,
         NEW from \in Node, originSeq <= own[origin]
  PROVE  /\ RouteToReplier(t, origin, originSeq, hop, from) \in Table
         /\ Fresh(RouteToReplier(t, origin, originSeq, hop, from), own)
  <1> DEFINE u == [t EXCEPT ![origin].nextHop = from]
             f == NewEntry(TRUE, originSeq, hop, from)
  <1>1. u \in Table /\ Fresh(u, own)
    BY DEF Table, Entry, Address, Fresh
  <1>2. f \in Entry /\ f.seqNo = originSeq
    BY EntryTypes DEF Address, NewEntry
  <1> HIDE DEF f
  <1>3. AddRoute(t, origin, f) \in Table /\ Fresh(AddRoute(t, origin, f), own)
    BY <1>2, UpdateTable
  <1> QED
    BY <1>1, <1>3 DEF RouteToReplier, f

(* The forward route of a RREP.                                            *)
LEMMA ForwardRouteTable ==
  ASSUME NEW t \in Table, NEW own \in [Node -> Nat], Fresh(t, own),
         NEW dst \in Node, NEW dstSeq \in Nat, NEW hop \in Nat,
         NEW from \in Node, dstSeq <= own[dst]
  PROVE  LET fresh == NewEntry(TRUE, dstSeq, hop, from)
         IN  /\ ForwardRoute(t, dst, dstSeq, hop, from) \in Table
             /\ Fresh(ForwardRoute(t, dst, dstSeq, hop, from), own)
             /\ Update(t, dst, fresh) \in Table
             /\ Fresh(Update(t, dst, fresh), own)
  <1> DEFINE f == NewEntry(TRUE, dstSeq, hop, from)
  <1>1. f \in Entry /\ f.seqNo = dstSeq
    BY EntryTypes DEF Address, NewEntry
  <1> HIDE DEF f
  <1>2. /\ Update(t, dst, f) \in Table /\ Fresh(Update(t, dst, f), own)
        /\ AddRoute(t, dst, f) \in Table /\ Fresh(AddRoute(t, dst, f), own)
    BY <1>1, UpdateTable
  <1> QED
    BY <1>2 DEF ForwardRoute, f

(* Writing back an entry with one more precursor.                          *)
LEMMA UpdatePrecursorTable ==
  ASSUME NEW t \in Table, NEW own \in [Node -> Nat], Fresh(t, own),
         NEW d \in Node, NEW e \in Entry, e.validSeqNo => e.seqNo <= own[d],
         NEW p \in Address
  PROVE  /\ Update(t, d, InsertPrecursor(e, p)) \in Table
         /\ Fresh(Update(t, d, InsertPrecursor(e, p)), own)
  BY InsertPrecursorType, UpdateTable

(* A RREP on its way links the two routes by their precursors.             *)
LEMMA LinkPrecursorsTable ==
  ASSUME NEW t \in Table, NEW own \in [Node -> Nat], Fresh(t, own),
         NEW dst \in Node, NEW origin \in Node
  PROVE  /\ LinkPrecursors(t, dst, origin) \in Table
         /\ Fresh(LinkPrecursors(t, dst, origin), own)
         /\ LinkReplyPrecursors(t, dst, origin) \in Table
         /\ Fresh(LinkReplyPrecursors(t, dst, origin), own)
  <1> DEFINE p  == t[origin].nextHop
             q  == t[dst].nextHop
             t1 == Update(t, dst, InsertPrecursor(t[dst], p))
             t2 == IF q \in Node THEN Update(t1, q, InsertPrecursor(t1[q], p))
                   ELSE t1
             t3 == Update(t2, origin, InsertPrecursor(t[origin], q))
             t4 == IF p \in Node THEN Update(t3, p, InsertPrecursor(t3[p], q))
                   ELSE t3
             r1 == Update(t1, origin, InsertPrecursor(t[origin], q))
  <1>1. /\ p \in Address /\ q \in Address
        /\ t[dst] \in Entry /\ t[origin] \in Entry
        /\ t[dst].validSeqNo => t[dst].seqNo <= own[dst]
        /\ t[origin].validSeqNo => t[origin].seqNo <= own[origin]
    BY DEF Table, Entry, Fresh
  <1>2. t1 \in Table /\ Fresh(t1, own)
    BY <1>1, UpdatePrecursorTable
  <1>3. t2 \in Table /\ Fresh(t2, own)
    <2> HIDE DEF t1
    <2> SUFFICES ASSUME q \in Node PROVE t2 \in Table /\ Fresh(t2, own)
      BY <1>2
    <2>1. t1[q] \in Entry /\ (t1[q].validSeqNo => t1[q].seqNo <= own[q])
      BY <1>2 DEF Table, Fresh
    <2> QED
      BY <1>1, <1>2, <2>1, UpdatePrecursorTable
  <1>4. t3 \in Table /\ Fresh(t3, own)
    <2> HIDE DEF t2
    <2> QED BY <1>1, <1>3, UpdatePrecursorTable
  <1>5. t4 \in Table /\ Fresh(t4, own)
    <2> HIDE DEF t3
    <2> SUFFICES ASSUME p \in Node PROVE t4 \in Table /\ Fresh(t4, own)
      BY <1>4
    <2>1. t3[p] \in Entry /\ (t3[p].validSeqNo => t3[p].seqNo <= own[p])
      BY <1>4 DEF Table, Fresh
    <2> QED
      BY <1>1, <1>4, <2>1, UpdatePrecursorTable
  <1>6. r1 \in Table /\ Fresh(r1, own)
    <2> HIDE DEF t1
    <2> QED BY <1>1, <1>2, UpdatePrecursorTable
  <1>7. LinkPrecursors(t, dst, origin) = t4
    BY DEF LinkPrecursors
  <1>8. LinkReplyPrecursors(t, dst, origin) = r1
    BY DEF LinkReplyPrecursors
  <1> QED
    BY <1>5, <1>6, <1>7, <1>8

(* A hello vouches for its sender's own number.                            *)
LEMMA RouteFromHelloTable ==
  ASSUME NEW t \in Table, NEW own \in [Node -> Nat], Fresh(t, own),
         NEW dst \in Node, NEW dstSeq \in Nat, dstSeq <= own[dst]
  PROVE  /\ RouteFromHello(t, dst, dstSeq) \in Table
         /\ Fresh(RouteFromHello(t, dst, dstSeq), own)
  <1> DEFINE e == [t[dst] EXCEPT !.flag = "VALID", !.validSeqNo = TRUE,
                                 !.seqNo = dstSeq, !.hop = 1, !.nextHop = dst,
                                 !.iface = TRUE, !.live = TRUE]
             f == NewEntry(TRUE, dstSeq, 1, dst)
  <1>1. e \in Entry /\ e.seqNo = dstSeq
    BY DEF Table, Entry, Address, Flag
  <1>2. f \in Entry /\ f.seqNo = dstSeq
    BY EntryTypes DEF Address, NewEntry
  <1>3. RouteFromHello(t, dst, dstSeq) =
          IF Present(t, dst) THEN Update(t, dst, e) ELSE AddRoute(t, dst, f)
    BY DEF RouteFromHello
  <1> HIDE DEF e, f
  <1> QED
    BY <1>1, <1>2, <1>3, UpdateTable

(* An acknowledgment changes no number.                                    *)
LEMMA RouteAckedTable ==
  ASSUME NEW t \in Table, NEW own \in [Node -> Nat], Fresh(t, own),
         NEW from \in Node
  PROVE  /\ RouteAcked(t, from) \in Table
         /\ Fresh(RouteAcked(t, from), own)
  <1> DEFINE e == [t[from] EXCEPT !.flag = "VALID"]
  <1>1. e \in Entry /\ (e.validSeqNo => e.seqNo <= own[from])
    BY DEF Table, Entry, Flag, Fresh
  <1> HIDE DEF e
  <1> QED
    BY <1>1, UpdateTable DEF RouteAcked, e

-----------------------------------------------------------------------------
(* The TTL of a request is a number.                                       *)
LEMMA RingTtlType ==
  ASSUME NEW e \in Entry, NEW increment \in Nat, NEW threshold \in Nat,
         NEW diameter \in Nat
  PROVE  RingTtl(e, increment, threshold, diameter) \in Nat
  BY DEF RingTtl, Smaller, Entry

(* Marking an entry as searched for changes no number.                     *)
LEMMA InSearchType ==
  ASSUME NEW e \in Entry, NEW ttl \in Nat, NEW diameter \in Nat
  PROVE  /\ InSearch(e, ttl, diameter) \in Entry
         /\ InSearch(e, ttl, diameter).validSeqNo = e.validSeqNo
         /\ InSearch(e, ttl, diameter).seqNo = e.seqNo
  <1> DEFINE c == IF ttl = diameter THEN e.reqCnt + 1 ELSE e.reqCnt
  <1>1. c \in Nat
    BY DEF Entry
  <1>2. InSearch(e, ttl, diameter) =
          [e EXCEPT !.flag = "IN_SEARCH", !.hop = ttl, !.live = TRUE,
                    !.reqCnt = c]
    BY DEF InSearch
  <1> HIDE DEF c
  <1> QED
    BY <1>1, <1>2 DEF Entry, Flag
-----------------------------------------------------------------------------
(***************************************************************************)
(* Routes that can be used.  An entry made IN_SEARCH has neither next hop  *)
(* nor source address; handlers patch it, and some set VALID without       *)
(* looking.                                                                *)
(***************************************************************************)
Real(e) == e.nextHop \in Node /\ e.source /\ e.iface

(* What an entry must be for the handlers never to make it VALID too soon: *)
(* the last conjunct is for UpdateRouteToNeighbor, which leaves an entry   *)
(* of one hop with a valid sequence number alone, even one IN_SEARCH.      *)
Sound(e) ==
  /\ e.flag # "NONE" => e.hop >= 1
  /\ e.flag \in {"VALID", "INVALID"} => Real(e)
  /\ e.flag = "IN_SEARCH" /\ e.validSeqNo /\ e.hop = 1 => Real(e)

SoundTable(t) == t \in Table /\ \A d \in Node : Sound(t[d])

(* The destinations that t marks as searched for.                          *)
Searches(t) == {d \in Node : t[d].flag = "IN_SEARCH"}

(* The entries the code builds on a real interface, and the absent one.    *)
LEMMA NewEntrySound ==
  /\ Sound(NoEntry) /\ NoEntry.flag = "NONE"
  /\ \A v \in BOOLEAN, s, h \in Nat, from \in Node :
       /\ NewEntry(v, s, h, from) \in Entry
       /\ Real(NewEntry(v, s, h, from)) /\ NewEntry(v, s, h, from).flag = "VALID"
       /\ h >= 1 => Sound(NewEntry(v, s, h, from))
  <1>1. Sound(NoEntry) /\ NoEntry.flag = "NONE"
    BY DEF Sound, NoEntry
  <1>2. ASSUME NEW v \in BOOLEAN, NEW s \in Nat, NEW h \in Nat, NEW from \in Node
        PROVE  /\ NewEntry(v, s, h, from) \in Entry
               /\ Real(NewEntry(v, s, h, from))
               /\ NewEntry(v, s, h, from).flag = "VALID"
               /\ h >= 1 => Sound(NewEntry(v, s, h, from))
    BY EntryTypes DEF NewEntry, Real, Sound, Address
  <1> QED
    BY <1>1, <1>2

(* Settling and purging an entry, and noting a precursor in it.            *)
LEMMA EntrySound ==
  ASSUME NEW e \in Entry
  PROVE  /\ Sound(e) => Sound(Settled(e))
         /\ Real(Settled(e)) <=> Real(e)
         /\ Settled(e).flag = e.flag
         /\ Sound(e) => Sound(PurgedEntry(e))
         /\ PurgedEntry(e).flag = "IN_SEARCH" <=> e.flag = "IN_SEARCH"
         /\ e.flag = "VALID" /\ Sound(e) => Sound(Invalidate(e))
         /\ Invalidate(e).flag = "INVALID"
  <1>1. /\ Sound(e) => Sound(Settled(e))
        /\ Real(Settled(e)) <=> Real(e)
        /\ Settled(e).flag = e.flag
    BY DEF Settled, Entry, Flag, Sound, Real
  <1>2. e.flag = "VALID" /\ Sound(e) => Sound(Invalidate(e))
    BY DEF Invalidate, Entry, Flag, Sound, Real
  <1>3. Invalidate(e).flag = "INVALID"
    BY DEF Invalidate, Entry, Flag
  <1>4. /\ PurgedEntry(e) \in {e, NoEntry} \/ (e.flag = "VALID" /\ PurgedEntry(e) = Invalidate(e))
        /\ PurgedEntry(e) = NoEntry => e.flag # "IN_SEARCH"
    BY NewEntrySound DEF PurgedEntry, Entry, Flag
  <1>5. e.flag = "IN_SEARCH" => PurgedEntry(e) = e
    BY DEF PurgedEntry
  <1> QED
    BY <1>1, <1>2, <1>3, <1>4, <1>5, NewEntrySound

(* Update and AddRoute keep the rest, and what they write is what they     *)
(* were given.                                                             *)
LEMMA UpdateSound ==
  ASSUME NEW t, SoundTable(t), NEW d \in Node, NEW e \in Entry
  PROVE  /\ (Present(t, d) => Sound(e)) => SoundTable(Update(t, d, e))
         /\ (~Present(t, d) => Sound(e)) => SoundTable(AddRoute(t, d, e))
         /\ \A x \in Node \ {d} : Update(t, d, e)[x] = t[x]
                                  /\ AddRoute(t, d, e)[x] = t[x]
         /\ Present(t, d) => /\ Update(t, d, e)[d] = Settled(e)
                             /\ AddRoute(t, d, e) = t
         /\ ~Present(t, d) => /\ AddRoute(t, d, e)[d] = Settled(e)
                              /\ Update(t, d, e) = t
  <1> DEFINE u == [t EXCEPT ![d] = Settled(e)]
  <1>1. t \in Table
    BY DEF SoundTable
  <1>2. u \in Table /\ u[d] = Settled(e) /\ \A x \in Node \ {d} : u[x] = t[x]
    BY <1>1, EntryUpdates DEF Table
  <1>3. Sound(e) => SoundTable(u)
    BY <1>2, EntrySound DEF SoundTable
  <1> QED
    BY <1>1, <1>2, <1>3 DEF Update, AddRoute

(* What is searched for after an update was searched for before, or is     *)
(* what the update marks.                                                  *)
LEMMA UpdateSearches ==
  ASSUME NEW t, SoundTable(t), NEW d \in Node, NEW e \in Entry,
         e.flag = "IN_SEARCH" => t[d].flag = "IN_SEARCH"
  PROVE  /\ Searches(Update(t, d, e)) \subseteq Searches(t)
         /\ Searches(AddRoute(t, d, e)) \subseteq Searches(t)
  <1>1. Settled(e).flag = e.flag
    BY EntrySound
  <1> QED
    BY <1>1, UpdateSound DEF Searches

(* Purging, deleting, invalidating.                                        *)
LEMMA ShrinkSound ==
  ASSUME NEW t, SoundTable(t)
  PROVE  /\ SoundTable(Purged(t)) /\ Searches(Purged(t)) = Searches(t)
         /\ \A d \in Node : /\ SoundTable(DeleteRoute(t, d))
                            /\ Searches(DeleteRoute(t, d)) \subseteq Searches(t)
                            /\ DeleteRoute(t, d)[d].flag = "NONE"
         /\ \A D : /\ SoundTable(InvalidateRoutesWithDst(t, D))
                   /\ Searches(InvalidateRoutesWithDst(t, D)) \subseteq Searches(t)
  <1>1. t \in Table /\ \A d \in Node : t[d] \in Entry /\ Sound(t[d])
    BY DEF SoundTable, Table
  <1>2. SoundTable(Purged(t)) /\ Searches(Purged(t)) = Searches(t)
    <2>1. \A d \in Node : /\ PurgedEntry(t[d]) \in Entry /\ Sound(PurgedEntry(t[d]))
                          /\ PurgedEntry(t[d]).flag = "IN_SEARCH"
                             <=> t[d].flag = "IN_SEARCH"
      BY <1>1, EntrySound, EntryUpdates
    <2> QED
      BY <2>1 DEF Purged, SoundTable, Searches, Table
  <1>3. ASSUME NEW d \in Node
        PROVE  /\ SoundTable(DeleteRoute(t, d))
               /\ Searches(DeleteRoute(t, d)) \subseteq Searches(t)
               /\ DeleteRoute(t, d)[d].flag = "NONE"
    BY <1>1, NewEntrySound, EntryTypes DEF DeleteRoute, SoundTable, Searches, Table
  <1>4. ASSUME NEW D
        PROVE  /\ SoundTable(InvalidateRoutesWithDst(t, D))
               /\ Searches(InvalidateRoutesWithDst(t, D)) \subseteq Searches(t)
    <2> DEFINE u == InvalidateRoutesWithDst(t, D)
    <2>1. \A d \in Node : u[d] = IF d \in D /\ Valid(t, d) THEN Invalidate(t[d])
                                 ELSE t[d]
      BY DEF InvalidateRoutesWithDst
    <2>2. u \in Table
      BY <1>1, EntryUpdates DEF InvalidateRoutesWithDst, Table
    <2>3. ASSUME NEW d \in Node, d \in D, Valid(t, d)
          PROVE  u[d] = Invalidate(t[d]) /\ Sound(u[d]) /\ u[d].flag = "INVALID"
      BY <1>1, <2>1, <2>3, EntrySound DEF Valid
    <2>4. ASSUME NEW d \in Node, ~(d \in D /\ Valid(t, d))
          PROVE  u[d] = t[d] /\ Sound(u[d])
      BY <1>1, <2>1, <2>4
    <2> HIDE DEF u
    <2>5. SoundTable(u)
      BY <2>2, <2>3, <2>4 DEF SoundTable
    <2>6. Searches(u) \subseteq Searches(t)
      BY <2>3, <2>4 DEF Searches
    <2> QED
      BY <2>5, <2>6 DEF u
  <1> QED
    BY <1>2, <1>3, <1>4

(* Hearing from a neighbour leaves a real route to it, whatever was known  *)
(* before.                                                                 *)
LEMMA UpdateRouteToNeighborSound ==
  ASSUME NEW t, SoundTable(t), NEW from \in Node
  PROVE  LET u == UpdateRouteToNeighbor(t, from)
         IN  /\ SoundTable(u) /\ Searches(u) \subseteq Searches(t)
             /\ Present(u, from) /\ Real(u[from])
             /\ \A d \in Node \ {from} : u[d] = t[d]
  <1> DEFINE f == NewEntry(FALSE, 0, 1, from)
             u == UpdateRouteToNeighbor(t, from)
  <1>1. f \in Entry /\ Real(f) /\ f.flag = "VALID" /\ Sound(f)
    <2>1. f \in Entry
      BY EntryTypes DEF Address
    <2>2. Real(f) /\ f.flag = "VALID" /\ Sound(f)
      BY DEF NewEntry, Real, Sound
    <2> QED
      BY <2>1, <2>2
  <1>2. u = IF ~Present(t, from) THEN AddRoute(t, from, f)
            ELSE IF t[from].validSeqNo /\ t[from].hop = 1 THEN t
            ELSE Update(t, from, f)
    BY DEF UpdateRouteToNeighbor
  <1> HIDE DEF f, u
  <1>3. SoundTable(u) /\ Searches(u) \subseteq Searches(t)
        /\ \A d \in Node \ {from} : u[d] = t[d]
    BY <1>1, <1>2, UpdateSound, UpdateSearches
  <1>4. ASSUME u = t PROVE Present(u, from) /\ Real(u[from])
    <2>1. \/ Present(t, from) /\ t[from].validSeqNo /\ t[from].hop = 1
          \/ u[from] = Settled(f)
      BY <1>1, <1>2, UpdateSound
    <2>2. Sound(t[from]) /\ t[from].flag \in Flag
      BY DEF SoundTable, Table, Entry
    <2>3. Settled(f).flag = "VALID" /\ Real(Settled(f))
      BY <1>1, EntrySound
    <2> QED
      BY <1>3, <1>4, <2>1, <2>2, <2>3 DEF Sound, Present, Flag
  <1>5. ASSUME u # t PROVE Present(u, from) /\ Real(u[from])
    <2>1. u[from] = Settled(f)
      BY <1>1, <1>2, <1>5, UpdateSound
    <2> QED
      BY <1>1, <2>1, EntrySound DEF Present
  <1> QED
    BY <1>3, <1>4, <1>5 DEF u

(* The route to an originator may stay IN_SEARCH, but it has one hop only  *)
(* if the originator is the sender, to which there is a real route.        *)
LEMMA RouteToOriginSound ==
  ASSUME NEW t, SoundTable(t), NEW origin \in Node, NEW originSeq \in Nat,
         NEW hop \in Nat, hop >= 1, NEW from \in Node,
         Present(t, from), Real(t[from]), hop = 1 => origin = from
  PROVE  LET u == RouteToOrigin(t, origin, originSeq, hop, from)
         IN  /\ SoundTable(u) /\ Searches(u) \subseteq Searches(t)
             /\ Present(u, from) /\ Real(u[from])
  <1> DEFINE e == OriginEntry(t[origin], originSeq, hop, from)
             f == NewEntry(TRUE, originSeq, hop, from)
             u == RouteToOrigin(t, origin, originSeq, hop, from)
  <1>1. t[origin] \in Entry /\ Sound(t[origin]) /\ t[from] \in Entry
    BY DEF SoundTable, Table
  <1>2. e \in Entry /\ e.flag = t[origin].flag /\ e.hop = hop
        /\ (Real(t[origin]) => Real(e))
    BY <1>1 DEF OriginEntry, Entry, Address, Larger, Real
  <1>3. Sound(e)
    <2> HIDE DEF e
    <2> QED
      BY <1>1, <1>2 DEF Sound
  <1>4. f \in Entry /\ f.flag = "VALID" /\ Sound(f)
    BY NewEntrySound
  <1>5. u = IF Present(t, origin) THEN Update(t, origin, e)
            ELSE AddRoute(t, origin, f)
    BY DEF RouteToOrigin
  <1> HIDE DEF e, f, u
  <1>6. SoundTable(u) /\ Searches(u) \subseteq Searches(t)
    BY <1>2, <1>3, <1>4, <1>5, UpdateSound, UpdateSearches
  <1>7. Present(u, from) /\ Real(u[from])
    <2>1. CASE origin = from
      <3>1. u[from] = Settled(e) /\ Real(Settled(e)) /\ Settled(e).flag = e.flag
        BY <1>2, <1>3, <1>5, <2>1, UpdateSound, EntrySound
      <3> QED
        BY <1>2, <2>1, <3>1 DEF Present
    <2>2. CASE origin # from
      BY <1>2, <1>4, <1>5, <2>2, UpdateSound DEF Present
    <2> QED
      BY <2>1, <2>2
  <1> QED
    BY <1>6, <1>7 DEF u

(* Making the sender's entry VALID, when there is a real route to it.      *)
LEMMA MadeValidSound ==
  ASSUME NEW t, SoundTable(t), NEW from \in Node, Present(t, from),
         Real(t[from]), NEW v \in BOOLEAN, NEW s \in Nat
  PROVE  LET e == [t[from] EXCEPT !.flag = "VALID", !.validSeqNo = v,
                                  !.seqNo = s, !.hop = 1, !.nextHop = from,
                                  !.iface = TRUE, !.live = TRUE]
             f == [t[from] EXCEPT !.flag = "VALID"]
         IN  /\ SoundTable(Update(t, from, e))
             /\ Searches(Update(t, from, e)) \subseteq Searches(t)
             /\ SoundTable(Update(t, from, f))
             /\ Searches(Update(t, from, f)) \subseteq Searches(t)
  <1> DEFINE e == [t[from] EXCEPT !.flag = "VALID", !.validSeqNo = v,
                                  !.seqNo = s, !.hop = 1, !.nextHop = from,
                                  !.iface = TRUE, !.live = TRUE]
             f == [t[from] EXCEPT !.flag = "VALID"]
  <1>1. t[from] \in Entry /\ Sound(t[from]) /\ t[from].flag # "NONE"
    BY DEF SoundTable, Table, Present
  <1>2. e \in Entry /\ e.flag = "VALID" /\ Sound(e)
    <2>1. e \in Entry
      BY <1>1 DEF Entry, Flag, Address
    <2>2. e.flag = "VALID" /\ e.hop = 1 /\ Real(e)
      BY <1>1 DEF Entry, Real
    <2> HIDE DEF e
    <2> QED
      BY <2>1, <2>2 DEF Sound
  <1>3. f \in Entry /\ f.flag = "VALID" /\ Sound(f)
    BY <1>1 DEF Entry, Flag, Address, Sound, Real
  <1> HIDE DEF e, f
  <1>4. /\ SoundTable(Update(t, from, e))
        /\ Searches(Update(t, from, e)) \subseteq Searches(t)
        /\ SoundTable(Update(t, from, f))
        /\ Searches(Update(t, from, f)) \subseteq Searches(t)
    BY <1>2, <1>3, UpdateSound, UpdateSearches
  <1> QED
    BY <1>4 DEF e, f

(* The handlers that do so: a RREQ, a hello and an acknowledgment.         *)
LEMMA SenderRouteSound ==
  ASSUME NEW t, SoundTable(t), NEW from \in Node, Present(t, from),
         Real(t[from]), NEW s \in Nat
  PROVE  /\ SoundTable(RouteToRreqSender(t, from, s))
         /\ Searches(RouteToRreqSender(t, from, s)) \subseteq Searches(t)
         /\ SoundTable(RouteFromHello(t, from, s))
         /\ Searches(RouteFromHello(t, from, s)) \subseteq Searches(t)
         /\ SoundTable(RouteAcked(t, from))
         /\ Searches(RouteAcked(t, from)) \subseteq Searches(t)
  <1>1. /\ SoundTable(RouteToRreqSender(t, from, s))
        /\ Searches(RouteToRreqSender(t, from, s)) \subseteq Searches(t)
    BY MadeValidSound DEF RouteToRreqSender
  <1>2. /\ SoundTable(RouteFromHello(t, from, s))
        /\ Searches(RouteFromHello(t, from, s)) \subseteq Searches(t)
    BY MadeValidSound DEF RouteFromHello
  <1>3. /\ SoundTable(RouteAcked(t, from))
        /\ Searches(RouteAcked(t, from)) \subseteq Searches(t)
    BY MadeValidSound DEF RouteAcked
  <1> QED
    BY <1>1, <1>2, <1>3

(* The route to the node that answers: whatever entry there is gets a real *)
(* next hop.                                                               *)
LEMMA RouteToReplierSound ==
  ASSUME NEW t, SoundTable(t), NEW origin \in Node, NEW originSeq \in Nat,
         NEW hop \in Nat, hop >= 1, NEW from \in Node
  PROVE  /\ SoundTable(RouteToReplier(t, origin, originSeq, hop, from))
         /\ Searches(RouteToReplier(t, origin, originSeq, hop, from))
              \subseteq Searches(t)
  <1> DEFINE e == [t[origin] EXCEPT !.nextHop = from]
             v == [t EXCEPT ![origin] = e]
             f == NewEntry(TRUE, originSeq, hop, from)
             u == RouteToReplier(t, origin, originSeq, hop, from)
  <1>1. t \in Table /\ t[origin] \in Entry /\ Sound(t[origin])
    BY DEF SoundTable, Table
  <1>2. e \in Entry /\ Sound(e) /\ e.flag = t[origin].flag
    BY <1>1 DEF Entry, Address, Sound, Real
  <1>3. f \in Entry /\ f.flag = "VALID" /\ Sound(f)
    BY NewEntrySound
  <1>4. u = IF Present(t, origin) THEN v ELSE AddRoute(t, origin, f)
    BY <1>1 DEF RouteToReplier, Table
  <1> HIDE DEF e, f, u
  <1>5. SoundTable(v) /\ Searches(v) \subseteq Searches(t)
    BY <1>1, <1>2 DEF SoundTable, Table, Searches
  <1>6. /\ ~Present(t, origin) => SoundTable(AddRoute(t, origin, f))
        /\ Searches(AddRoute(t, origin, f)) \subseteq Searches(t)
    BY <1>3, UpdateSound, UpdateSearches
  <1> HIDE DEF v
  <1>7. SoundTable(u) /\ Searches(u) \subseteq Searches(t)
    BY <1>4, <1>5, <1>6
  <1> QED
    BY <1>7 DEF u

(* The forward route of a RREP is a new entry, or the old one.             *)
LEMMA ForwardRouteSound ==
  ASSUME NEW t, SoundTable(t), NEW dst \in Node, NEW dstSeq \in Nat,
         NEW hop \in Nat, hop >= 1, NEW from \in Node
  PROVE  /\ SoundTable(ForwardRoute(t, dst, dstSeq, hop, from))
         /\ Searches(ForwardRoute(t, dst, dstSeq, hop, from))
              \subseteq Searches(t)
         /\ SoundTable(Update(t, dst, NewEntry(TRUE, dstSeq, hop, from)))
         /\ Searches(Update(t, dst, NewEntry(TRUE, dstSeq, hop, from)))
              \subseteq Searches(t)
         /\ Present(t, dst) =>
              Update(t, dst, NewEntry(TRUE, dstSeq, hop, from))[dst].flag = "VALID"
  <1> DEFINE f == NewEntry(TRUE, dstSeq, hop, from)
  <1>1. f \in Entry /\ f.flag = "VALID" /\ Sound(f) /\ Settled(f).flag = "VALID"
    <2>1. f \in Entry /\ f.flag = "VALID" /\ Sound(f)
      BY NewEntrySound
    <2> QED
      BY <2>1, EntrySound
  <1> HIDE DEF f
  <1>2. /\ SoundTable(Update(t, dst, f)) /\ SoundTable(AddRoute(t, dst, f))
        /\ Searches(Update(t, dst, f)) \subseteq Searches(t)
        /\ Searches(AddRoute(t, dst, f)) \subseteq Searches(t)
        /\ Present(t, dst) => Update(t, dst, f)[dst].flag = "VALID"
    BY <1>1, UpdateSound, UpdateSearches
  <1> QED
    BY <1>2 DEF ForwardRoute, f

(* Writing back an entry with one more precursor, or with a new lifetime.  *)
LEMMA UpdatePrecursorSound ==
  ASSUME NEW t, SoundTable(t), NEW d \in Node, NEW e \in Entry, Sound(e),
         e.flag = "IN_SEARCH" => t[d].flag = "IN_SEARCH", NEW p \in Address
  PROVE  /\ SoundTable(Update(t, d, InsertPrecursor(e, p)))
         /\ Searches(Update(t, d, InsertPrecursor(e, p))) \subseteq Searches(t)
         /\ SoundTable(Update(t, d, [e EXCEPT !.live = TRUE]))
         /\ Searches(Update(t, d, [e EXCEPT !.live = TRUE])) \subseteq Searches(t)
  <1> DEFINE f == InsertPrecursor(e, p)
             g == [e EXCEPT !.live = TRUE]
  <1>1. f \in Entry /\ Sound(f) /\ f.flag = e.flag
    BY DEF InsertPrecursor, Entry, Sound, Real
  <1>2. g \in Entry /\ Sound(g) /\ g.flag = e.flag
    BY DEF Entry, Sound, Real
  <1> HIDE DEF f, g
  <1>3. /\ SoundTable(Update(t, d, f)) /\ SoundTable(Update(t, d, g))
        /\ Searches(Update(t, d, f)) \subseteq Searches(t)
        /\ Searches(Update(t, d, g)) \subseteq Searches(t)
    BY <1>1, <1>2, UpdateSound, UpdateSearches
  <1> QED
    BY <1>3 DEF f, g

(* An update that only settles entries and notes precursors changes no     *)
(* flag.                                                                   *)
LEMMA PrecursorFlags ==
  ASSUME NEW t, SoundTable(t), NEW d \in Node, NEW e \in Entry,
         e.flag = t[d].flag, NEW p \in Address
  PROVE  \A x \in Node : Update(t, d, InsertPrecursor(e, p))[x].flag = t[x].flag
  <1> DEFINE f == InsertPrecursor(e, p)
  <1>1. f \in Entry /\ f.flag = e.flag
    BY DEF InsertPrecursor, Entry
  <1> HIDE DEF f
  <1>2. Settled(f).flag = f.flag
    BY <1>1, EntrySound
  <1>3. \A x \in Node : Update(t, d, f)[x].flag = t[x].flag
    BY <1>1, <1>2, UpdateSound
  <1> QED
    BY <1>3 DEF f

(* Linking two routes by their precursors: entries taken as copies are     *)
(* written back over later ones, with the flags of before.                 *)
LEMMA LinkPrecursorsSound ==
  ASSUME NEW t, SoundTable(t), NEW dst \in Node, NEW origin \in Node
  PROVE  /\ SoundTable(LinkPrecursors(t, dst, origin))
         /\ Searches(LinkPrecursors(t, dst, origin)) \subseteq Searches(t)
         /\ SoundTable(LinkReplyPrecursors(t, dst, origin))
         /\ Searches(LinkReplyPrecursors(t, dst, origin)) \subseteq Searches(t)
  <1> DEFINE p  == t[origin].nextHop
             q  == t[dst].nextHop
             t1 == Update(t, dst, InsertPrecursor(t[dst], p))
             t2 == IF q \in Node THEN Update(t1, q, InsertPrecursor(t1[q], p))
                   ELSE t1
             t3 == Update(t2, origin, InsertPrecursor(t[origin], q))
             t4 == IF p \in Node THEN Update(t3, p, InsertPrecursor(t3[p], q))
                   ELSE t3
             r1 == Update(t1, origin, InsertPrecursor(t[origin], q))
             Same(u) == SoundTable(u) /\ \A x \in Node : u[x].flag = t[x].flag
  <1>1. /\ p \in Address /\ q \in Address
        /\ t[dst] \in Entry /\ t[origin] \in Entry
        /\ Sound(t[dst]) /\ Sound(t[origin]) /\ Same(t)
    BY DEF SoundTable, Table, Entry
  <1>2. ASSUME NEW u, Same(u), NEW d \in Node, NEW e \in Entry, Sound(e),
               e.flag = t[d].flag, NEW x \in Address
        PROVE  Same(Update(u, d, InsertPrecursor(e, x)))
    <2>1. SoundTable(u) /\ e.flag = u[d].flag /\ \A y \in Node : u[y].flag = t[y].flag
      BY <1>2
    <2>2. SoundTable(Update(u, d, InsertPrecursor(e, x)))
      BY <1>2, <2>1, UpdatePrecursorSound
    <2>3. \A y \in Node : Update(u, d, InsertPrecursor(e, x))[y].flag = u[y].flag
      BY <1>2, <2>1, PrecursorFlags
    <2> QED
      BY <2>1, <2>2, <2>3
  <1>3. ASSUME NEW u, Same(u), NEW d \in Node
        PROVE  u[d] \in Entry /\ Sound(u[d]) /\ u[d].flag = t[d].flag
    BY <1>3 DEF SoundTable, Table
  <1>4. ASSUME NEW u, Same(u) PROVE SoundTable(u) /\ Searches(u) = Searches(t)
    BY <1>4 DEF Searches
  <1> HIDE DEF p, q, Same
  <1>5. Same(t1)
    BY <1>1, <1>2
  <1> HIDE DEF t1
  <1>6. Same(t2) /\ Same(r1)
    BY <1>1, <1>2, <1>3, <1>5
  <1> HIDE DEF t2
  <1>7. Same(t3)
    BY <1>1, <1>2, <1>6
  <1> HIDE DEF t3
  <1>8. Same(t4)
    BY <1>1, <1>2, <1>3, <1>7
  <1>9. LinkPrecursors(t, dst, origin) = t4
    BY DEF LinkPrecursors, t3, t2, t1, p, q
  <1>10. LinkReplyPrecursors(t, dst, origin) = r1
    BY DEF LinkReplyPrecursors, t1, p, q
  <1> QED
    BY <1>4, <1>6, <1>8, <1>9, <1>10

(* The TTL of a repeated request is at least two, so that no search marks  *)
(* an entry with one hop, but for the dummy entry, whose sequence number   *)
(* is not valid.                                                           *)
LEMMA InSearchSound ==
  ASSUME NEW e \in Entry, Sound(e), e.flag # "NONE",
         NEW increment \in Nat, increment >= 1, NEW threshold \in Nat,
         NEW diameter \in Nat, diameter > 1
  PROVE  LET f == InSearch(e, RingTtl(e, increment, threshold, diameter), diameter)
         IN  f \in Entry /\ Sound(f) /\ f.flag = "IN_SEARCH"
  <1> DEFINE ttl == RingTtl(e, increment, threshold, diameter)
             f == InSearch(e, ttl, diameter)
  <1>1. ttl \in Nat /\ ttl >= 2
    <2>1. e.hop \in Nat /\ e.hop >= 1
      BY DEF Entry, Sound
    <2> QED
      BY <2>1 DEF RingTtl, Smaller
  <1> HIDE DEF ttl
  <1>2. f \in Entry
    BY <1>1, InSearchType
  <1>3. f.flag = "IN_SEARCH" /\ f.hop = ttl
    BY DEF InSearch, Entry
  <1> HIDE DEF f
  <1>4. f \in Entry /\ Sound(f) /\ f.flag = "IN_SEARCH"
    BY <1>1, <1>2, <1>3 DEF Sound
  <1> QED
    BY <1>4 DEF f, ttl

(* The dummy entry of a destination nothing is known of.                   *)
LEMMA DummyEntrySound ==
  ASSUME NEW ttl \in Nat, ttl >= 1, NEW diameter \in Nat
  PROVE  /\ DummyEntry(ttl, diameter) \in Entry /\ Sound(DummyEntry(ttl, diameter))
         /\ DummyEntry(ttl, diameter).flag = "IN_SEARCH"
  <1> DEFINE f == InSearch(NoEntry, ttl, diameter)
  <1>1. NoEntry \in Entry /\ NoEntry.validSeqNo = FALSE
    BY EntryTypes DEF NoEntry
  <1>2. f \in Entry /\ f.validSeqNo = FALSE
    BY <1>1, InSearchType
  <1>3. f.flag = "IN_SEARCH" /\ f.hop = ttl
    BY DEF InSearch, NoEntry
  <1> HIDE DEF f
  <1>4. f \in Entry /\ Sound(f) /\ f.flag = "IN_SEARCH"
    BY <1>2, <1>3 DEF Sound
  <1> QED
    BY <1>4 DEF f, DummyEntry
-----------------------------------------------------------------------------
(***************************************************************************)
(* Routes that keep to the way.  Let way[d] be the only next hop towards d *)
(* that makes sense.  A handler keeps every next hop on the way if what it *)
(* writes into an entry is.  An entry must have a next hop if it is or was *)
(* established, or if it has a sequence number: UpdateRouteToNeighbor      *)
(* leaves such an entry alone, and RecvReplyAck makes it VALID.            *)
(***************************************************************************)
Linked(e) ==
  e.flag \in {"VALID", "INVALID"} \/ e.validSeqNo => e.nextHop \in Node

OnWay(e, x) == Linked(e) /\ e.nextHop \in {NoNode, x}

KeepsWay(t, way) == t \in Table /\ \A d \in DOMAIN way : OnWay(t[d], way[d])

(* What the table's operations do to one entry.                            *)
LEMMA EntryWay ==
  ASSUME NEW e \in Entry, NEW x
  PROVE  /\ OnWay(NoEntry, x)
         /\ OnWay(e, x) => /\ OnWay(Settled(e), x)
                           /\ OnWay(PurgedEntry(e), x)
                           /\ \A b \in BOOLEAN : OnWay([e EXCEPT !.live = b], x)
                           /\ \A p : OnWay(InsertPrecursor(e, p), x)
         /\ OnWay(e, x) /\ e.flag = "VALID" => OnWay(Invalidate(e), x)
         /\ OnWay(e, x) => \A ttl, diameter : OnWay(InSearch(e, ttl, diameter), x)
  <1>1. OnWay(NoEntry, x)
    BY DEF OnWay, Linked, NoEntry
  <1>2. OnWay(e, x) => OnWay(Settled(e), x)
    BY DEF OnWay, Linked, Settled, Entry, Flag
  <1>3. OnWay(e, x) /\ e.flag = "VALID" => OnWay(Invalidate(e), x)
    BY DEF OnWay, Linked, Invalidate, Entry, Flag
  <1>4. OnWay(e, x) => OnWay(PurgedEntry(e), x)
    BY <1>1, <1>3 DEF PurgedEntry, Entry
  <1>5. OnWay(e, x) => \A b \in BOOLEAN : OnWay([e EXCEPT !.live = b], x)
    BY DEF OnWay, Linked, Entry, Flag
  <1>6. OnWay(e, x) => \A p : OnWay(InsertPrecursor(e, p), x)
    BY DEF OnWay, Linked, InsertPrecursor, Entry, Flag
  <1>7. ASSUME OnWay(e, x), NEW ttl, NEW diameter
        PROVE  OnWay(InSearch(e, ttl, diameter), x)
    <2> DEFINE f == InSearch(e, ttl, diameter)
    <2>1. /\ f.flag = "IN_SEARCH" /\ f.nextHop = e.nextHop
          /\ f.validSeqNo = e.validSeqNo
      BY DEF InSearch, Entry
    <2> HIDE DEF f
    <2>2. OnWay(f, x)
      BY <1>7, <2>1 DEF OnWay, Linked
    <2> QED
      BY <2>2 DEF f
  <1> QED
    BY <1>1, <1>2, <1>3, <1>4, <1>5, <1>6, <1>7

(* Writing an entry keeps the way if the entry is on it.                   *)
LEMMA UpdateWay ==
  ASSUME NEW D \in SUBSET Node, NEW way \in [D -> Node],
         NEW t, KeepsWay(t, way), NEW d \in Node, NEW e \in Entry,
         d \in D => OnWay(e, way[d])
  PROVE  /\ KeepsWay(Update(t, d, e), way)
         /\ KeepsWay(AddRoute(t, d, e), way)
         /\ KeepsWay([t EXCEPT ![d] = e], way)
  <1>1. ASSUME NEW f \in Entry, d \in D => OnWay(f, way[d])
        PROVE  KeepsWay([t EXCEPT ![d] = f], way)
    BY <1>1 DEF KeepsWay, Table
  <1>2. Settled(e) \in Entry /\ (d \in D => OnWay(Settled(e), way[d]))
    BY EntryUpdates, EntryWay
  <1> QED
    BY <1>1, <1>2 DEF Update, AddRoute

(* Purging, deleting and invalidating routes.                              *)
LEMMA ShrinkWay ==
  ASSUME NEW D \in SUBSET Node, NEW way \in [D -> Node], NEW t, KeepsWay(t, way)
  PROVE  /\ KeepsWay(Purged(t), way)
         /\ \A d \in Node : KeepsWay(DeleteRoute(t, d), way)
         /\ \A C : KeepsWay(InvalidateRoutesWithDst(t, C), way)
  <1>1. \A d \in Node : t[d] \in Entry
    BY DEF KeepsWay, Table
  <1>2. KeepsWay(Purged(t), way)
    <2>1. \A d \in Node : PurgedEntry(t[d]) \in Entry
      BY <1>1, EntryUpdates
    <2>2. \A d \in D : OnWay(PurgedEntry(t[d]), way[d])
      BY <1>1, EntryWay DEF KeepsWay
    <2> QED
      BY <2>1, <2>2 DEF KeepsWay, Purged, Table
  <1>3. ASSUME NEW d \in Node PROVE KeepsWay(DeleteRoute(t, d), way)
    <2>1. NoEntry \in Entry /\ \A x : OnWay(NoEntry, x)
      BY EntryTypes, EntryWay
    <2> QED
      BY <2>1, UpdateWay DEF DeleteRoute
  <1>4. ASSUME NEW C PROVE KeepsWay(InvalidateRoutesWithDst(t, C), way)
    <2>1. \A d \in Node : Invalidate(t[d]) \in Entry
      BY <1>1, EntryUpdates
    <2>2. \A d \in D : Valid(t, d) => OnWay(Invalidate(t[d]), way[d])
      BY <1>1, EntryWay DEF KeepsWay, Valid
    <2> QED
      BY <1>1, <2>1, <2>2 DEF KeepsWay, InvalidateRoutesWithDst, Table
  <1> QED
    BY <1>2, <1>3, <1>4

(* A new entry, or an existing one whose next hop is replaced.             *)
LEMMA NewEntryWay ==
  ASSUME NEW v \in BOOLEAN, NEW s \in Nat, NEW hop \in Nat, NEW from \in Node
  PROVE  NewEntry(v, s, hop, from) \in Entry /\ OnWay(NewEntry(v, s, hop, from), from)
  <1>1. NewEntry(v, s, hop, from) \in Entry
    BY EntryTypes DEF Address
  <1> QED
    BY <1>1 DEF NewEntry, OnWay, Linked

(* The route to the neighbour a message came from.                         *)
LEMMA NeighborWay ==
  ASSUME NEW D \in SUBSET Node, NEW way \in [D -> Node], NEW t, KeepsWay(t, way),
         NEW from \in Node, from \in D => way[from] = from, NEW s \in Nat
  PROVE  /\ KeepsWay(UpdateRouteToNeighbor(t, from), way)
         /\ from \in D => UpdateRouteToNeighbor(t, from)[from].nextHop \in Node
         /\ KeepsWay(RouteToRreqSender(t, from, s), way)
         /\ KeepsWay(RouteFromHello(t, from, s), way)
  <1> DEFINE f == NewEntry(FALSE, 0, 1, from)
             u == UpdateRouteToNeighbor(t, from)
             e(v) == [t[from] EXCEPT !.flag = "VALID", !.validSeqNo = v,
                                     !.seqNo = s, !.hop = 1, !.nextHop = from,
                                     !.iface = TRUE, !.live = TRUE]
  <1>1. t \in Table /\ t[from] \in Entry /\ (from \in D => OnWay(t[from], from))
    BY DEF KeepsWay, Table
  <1>2. \A v \in BOOLEAN, q \in Nat :
          NewEntry(v, q, 1, from) \in Entry /\ OnWay(NewEntry(v, q, 1, from), from)
    BY NewEntryWay
  <1>3. KeepsWay(u, way) /\ (from \in D => u[from].nextHop \in Node)
    <2>1. f \in Entry /\ OnWay(f, from) /\ f.flag = "VALID" /\ f.nextHop = from
      BY <1>2 DEF NewEntry
    <2> HIDE DEF f
    <2>2. u = t \/ u = AddRoute(t, from, f) \/ u = Update(t, from, f)
      BY DEF UpdateRouteToNeighbor, f
    <2>3. from \in D => u[from].nextHop \in Node
      <3>1. Settled(f).nextHop = from
        BY <2>1 DEF Settled, Entry
      <3>2. CASE ~Present(t, from)
        BY <1>1, <3>1, <3>2 DEF UpdateRouteToNeighbor, f, AddRoute, Table
      <3>3. CASE Present(t, from) /\ t[from].validSeqNo /\ t[from].hop = 1
        <4>1. from \in D => t[from].nextHop \in Node
          BY <1>1, <3>3 DEF OnWay, Linked, Present, Entry, Flag
        <4> QED
          BY <3>3, <4>1 DEF UpdateRouteToNeighbor
      <3>4. CASE Present(t, from) /\ ~(t[from].validSeqNo /\ t[from].hop = 1)
        BY <1>1, <3>1, <3>4 DEF UpdateRouteToNeighbor, f, Update, Table
      <3> QED
        BY <3>2, <3>3, <3>4
    <2>4. KeepsWay(AddRoute(t, from, f), way) /\ KeepsWay(Update(t, from, f), way)
      BY <2>1, UpdateWay
    <2> HIDE DEF u
    <2> QED
      BY <2>2, <2>3, <2>4
  <1>4. \A v \in BOOLEAN : e(v) \in Entry /\ OnWay(e(v), from)
    BY <1>1 DEF Entry, Flag, Address, OnWay, Linked
  <1> HIDE DEF e, f, u
  <1>5. ASSUME NEW v \in BOOLEAN
        PROVE  /\ KeepsWay(Update(t, from, e(v)), way)
               /\ KeepsWay(AddRoute(t, from, NewEntry(v, s, 1, from)), way)
    <2>1. e(v) \in Entry /\ (from \in D => OnWay(e(v), way[from]))
      BY <1>4
    <2>2. /\ NewEntry(v, s, 1, from) \in Entry
          /\ from \in D => OnWay(NewEntry(v, s, 1, from), way[from])
      BY <1>2
    <2> QED
      BY <2>1, <2>2, UpdateWay
  <1>6. KeepsWay(RouteToRreqSender(t, from, s), way)
    <2>1. RouteToRreqSender(t, from, s) =
            IF Present(t, from) THEN Update(t, from, e(FALSE))
            ELSE AddRoute(t, from, NewEntry(FALSE, s, 1, from))
      BY DEF RouteToRreqSender, e
    <2> QED
      BY <1>5, <2>1
  <1>7. KeepsWay(RouteFromHello(t, from, s), way)
    <2>1. RouteFromHello(t, from, s) =
            IF Present(t, from) THEN Update(t, from, e(TRUE))
            ELSE AddRoute(t, from, NewEntry(TRUE, s, 1, from))
      BY DEF RouteFromHello, e
    <2> QED
      BY <1>5, <2>1
  <1> QED
    BY <1>3, <1>6, <1>7 DEF u

(* The acknowledged neighbour's route, once it has a next hop.             *)
LEMMA AckedWay ==
  ASSUME NEW D \in SUBSET Node, NEW way \in [D -> Node], NEW t, KeepsWay(t, way),
         NEW from \in Node, from \in D => t[from].nextHop \in Node
  PROVE  KeepsWay(RouteAcked(t, from), way)
  <1> DEFINE e == [t[from] EXCEPT !.flag = "VALID"]
  <1>1. t[from] \in Entry /\ (from \in D => OnWay(t[from], way[from]))
    BY DEF KeepsWay, Table
  <1>2. e \in Entry /\ (from \in D => OnWay(e, way[from]))
    BY <1>1 DEF Entry, Flag, OnWay, Linked
  <1>3. RouteAcked(t, from) = Update(t, from, e)
    BY DEF RouteAcked
  <1> HIDE DEF e
  <1>4. KeepsWay(Update(t, from, e), way)
    BY <1>2, UpdateWay
  <1> QED
    BY <1>3, <1>4

(* The routes that a request, a reverse request and a reply leave.         *)
LEMMA LearnedWay ==
  ASSUME NEW D \in SUBSET Node, NEW way \in [D -> Node], NEW t, KeepsWay(t, way),
         NEW d \in Node, NEW from \in Node, d \in D => way[d] = from,
         NEW s \in Nat, NEW hop \in Nat
  PROVE  /\ KeepsWay(RouteToOrigin(t, d, s, hop, from), way)
         /\ KeepsWay(RouteToReplier(t, d, s, hop, from), way)
         /\ KeepsWay(ForwardRoute(t, d, s, hop, from), way)
         /\ KeepsWay(Update(t, d, NewEntry(TRUE, s, hop, from)), way)
  <1> DEFINE f == NewEntry(TRUE, s, hop, from)
             e == OriginEntry(t[d], s, hop, from)
             r == [t[d] EXCEPT !.nextHop = from]
  <1>1. t \in Table /\ t[d] \in Entry
    BY DEF KeepsWay, Table
  <1>2. f \in Entry /\ (d \in D => OnWay(f, way[d]))
    BY NewEntryWay
  <1>3. e \in Entry /\ (d \in D => OnWay(e, way[d]))
    <2> DEFINE q == IF t[d].validSeqNo THEN Larger(s, t[d].seqNo) ELSE s
    <2>1. q \in Nat
      BY <1>1 DEF Larger, Entry
    <2>2. e = [t[d] EXCEPT !.seqNo = q, !.validSeqNo = TRUE, !.nextHop = from,
                           !.hop = hop, !.iface = TRUE, !.live = TRUE]
      BY <1>1 DEF OriginEntry, Entry
    <2> HIDE DEF e, q
    <2> QED
      BY <1>1, <2>1, <2>2 DEF Entry, Address, OnWay, Linked
  <1>4. r \in Entry /\ (d \in D => OnWay(r, way[d]))
    BY <1>1 DEF Entry, Address, OnWay, Linked
  <1>5. /\ RouteToOrigin(t, d, s, hop, from) =
             IF Present(t, d) THEN Update(t, d, e) ELSE AddRoute(t, d, f)
        /\ RouteToReplier(t, d, s, hop, from) =
             IF Present(t, d) THEN [t EXCEPT ![d] = r] ELSE AddRoute(t, d, f)
        /\ ForwardRoute(t, d, s, hop, from) \in
             {t, AddRoute(t, d, f), Update(t, d, f)}
    <2>1. [t EXCEPT ![d].nextHop = from] = [t EXCEPT ![d] = r]
      BY <1>1 DEF Table
    <2> QED
      BY <2>1 DEF RouteToOrigin, RouteToReplier, ForwardRoute
  <1> HIDE DEF e, f, r
  <1>6. KeepsWay(Update(t, d, f), way) /\ KeepsWay(AddRoute(t, d, f), way)
    BY <1>2, UpdateWay
  <1>7. KeepsWay(Update(t, d, e), way) /\ KeepsWay([t EXCEPT ![d] = r], way)
    BY <1>3, <1>4, UpdateWay
  <1> QED
    BY <1>5, <1>6, <1>7 DEF f

(* The precursors of a reply change no next hop.                           *)
LEMMA PrecursorsWay ==
  ASSUME NEW D \in SUBSET Node, NEW way \in [D -> Node], NEW t, KeepsWay(t, way),
         NEW dst \in Node, NEW origin \in Node
  PROVE  /\ KeepsWay(LinkPrecursors(t, dst, origin), way)
         /\ KeepsWay(LinkReplyPrecursors(t, dst, origin), way)
  <1> DEFINE p  == t[origin].nextHop
             q  == t[dst].nextHop
             t1 == Update(t, dst, InsertPrecursor(t[dst], p))
             t2 == IF q \in Node THEN Update(t1, q, InsertPrecursor(t1[q], p))
                   ELSE t1
             t3 == Update(t2, origin, InsertPrecursor(t[origin], q))
             t4 == IF p \in Node THEN Update(t3, p, InsertPrecursor(t3[p], q))
                   ELSE t3
             r1 == Update(t1, origin, InsertPrecursor(t[origin], q))
  <1>1. ASSUME NEW u, KeepsWay(u, way), NEW d \in Node, NEW v, KeepsWay(v, way),
               NEW x \in Address
        PROVE  KeepsWay(Update(u, d, InsertPrecursor(v[d], x)), way)
    <2>1. v[d] \in Entry /\ (d \in D => OnWay(v[d], way[d]))
      BY <1>1 DEF KeepsWay, Table
    <2>2. /\ InsertPrecursor(v[d], x) \in Entry
          /\ d \in D => OnWay(InsertPrecursor(v[d], x), way[d])
      BY <2>1, EntryWay, InsertPrecursorType
    <2> QED
      BY <1>1, <2>2, UpdateWay
  <1>2. p \in Address /\ q \in Address
    BY DEF KeepsWay, Table, Entry
  <1> HIDE DEF p, q
  <1>3. KeepsWay(t1, way)
    BY <1>1, <1>2
  <1> HIDE DEF t1
  <1>4. KeepsWay(t2, way)
    BY <1>1, <1>2, <1>3
  <1> HIDE DEF t2
  <1>5. KeepsWay(t3, way)
    BY <1>1, <1>2, <1>4
  <1> HIDE DEF t3
  <1>6. KeepsWay(t4, way)
    BY <1>1, <1>2, <1>5
  <1>7. KeepsWay(r1, way)
    BY <1>1, <1>2, <1>3
  <1> QED
    BY <1>6, <1>7 DEF LinkPrecursors, LinkReplyPrecursors, p, q, t1, t2, t3

(* Marking a destination as searched for changes no next hop.              *)
LEMMA SearchWay ==
  ASSUME NEW D \in SUBSET Node, NEW way \in [D -> Node], NEW t, KeepsWay(t, way),
         NEW d \in Node, NEW ttl \in Nat, NEW diameter \in Nat
  PROVE  /\ KeepsWay(Update(t, d, InSearch(t[d], ttl, diameter)), way)
         /\ KeepsWay(AddRoute(t, d, DummyEntry(ttl, diameter)), way)
  <1>1. t[d] \in Entry /\ (d \in D => OnWay(t[d], way[d]))
    BY DEF KeepsWay, Table
  <1>2. NoEntry \in Entry /\ \A x : OnWay(NoEntry, x)
    BY EntryTypes, EntryWay
  <1>3. /\ InSearch(t[d], ttl, diameter) \in Entry
        /\ d \in D => OnWay(InSearch(t[d], ttl, diameter), way[d])
    BY <1>1, InSearchType, EntryWay
  <1>4. /\ DummyEntry(ttl, diameter) \in Entry
        /\ d \in D => OnWay(DummyEntry(ttl, diameter), way[d])
    BY <1>2, InSearchType, EntryWay DEF DummyEntry
  <1> QED
    BY <1>3, <1>4, UpdateWay
-----------------------------------------------------------------------------
(***************************************************************************)
(* Counts of requests.  Let most[d] be the counts that are allowed for d,  *)
(* zero among them.  A handler keeps every count allowed, and zero but for *)
(* a destination searched for: it rewrites an entry with the count as it   *)
(* was or a new one with none, and Update and AddRoute forget the count of *)
(* an entry that is no longer searched for.                                *)
(***************************************************************************)
Counted(e, C) == e.reqCnt \in C /\ (e.flag = "IN_SEARCH" \/ e.reqCnt = 0)

KeepsCount(t, most) ==
  t \in Table /\ \A d \in Node : 0 \in most[d] /\ Counted(t[d], most[d])

(* What the table's operations do to one entry.                            *)
LEMMA EntryCount ==
  ASSUME NEW e \in Entry, NEW C, 0 \in C
  PROVE  /\ Counted(NoEntry, C)
         /\ Counted(Invalidate(e), C) \/ ~Counted(e, C)
         /\ Counted(PurgedEntry(e), C) \/ ~Counted(e, C)
         /\ e.reqCnt \in C => Counted(Settled(e), C)
  <1>1. Counted(NoEntry, C)
    BY DEF Counted, NoEntry
  <1>2. Counted(Invalidate(e), C) \/ ~Counted(e, C)
    BY DEF Counted, Invalidate, Entry, Flag
  <1>3. Counted(PurgedEntry(e), C) \/ ~Counted(e, C)
    BY <1>1, <1>2 DEF PurgedEntry, Entry
  <1>4. e.reqCnt \in C => Counted(Settled(e), C)
    BY DEF Counted, Settled, Entry, Flag
  <1> QED
    BY <1>1, <1>2, <1>3, <1>4

(* Writing an entry whose count is allowed.                                *)
LEMMA UpdateCount ==
  ASSUME NEW most, NEW t, KeepsCount(t, most), NEW d \in Node, NEW e \in Entry,
         e.reqCnt \in most[d]
  PROVE  /\ KeepsCount(Update(t, d, e), most)
         /\ KeepsCount(AddRoute(t, d, e), most)
         /\ e.flag = t[d].flag /\ e.reqCnt = t[d].reqCnt =>
              KeepsCount([t EXCEPT ![d] = e], most)
  <1>1. ASSUME NEW f \in Entry, Counted(f, most[d])
        PROVE  KeepsCount([t EXCEPT ![d] = f], most)
    BY <1>1 DEF KeepsCount, Table
  <1>2. Settled(e) \in Entry /\ Counted(Settled(e), most[d])
    BY EntryUpdates, EntryCount DEF KeepsCount
  <1>3. e.flag = t[d].flag /\ e.reqCnt = t[d].reqCnt => Counted(e, most[d])
    BY DEF KeepsCount, Counted
  <1> QED
    BY <1>1, <1>2, <1>3 DEF Update, AddRoute

(* Purging, deleting and invalidating routes.                              *)
LEMMA ShrinkCount ==
  ASSUME NEW most, NEW t, KeepsCount(t, most)
  PROVE  /\ KeepsCount(Purged(t), most)
         /\ \A d \in Node : KeepsCount(DeleteRoute(t, d), most)
         /\ \A C : KeepsCount(InvalidateRoutesWithDst(t, C), most)
  <1>1. \A d \in Node : /\ t[d] \in Entry /\ 0 \in most[d]
                        /\ Counted(t[d], most[d])
    BY DEF KeepsCount, Table
  <1>2. \A d \in Node : /\ PurgedEntry(t[d]) \in Entry
                        /\ Counted(PurgedEntry(t[d]), most[d])
                        /\ Invalidate(t[d]) \in Entry
                        /\ Counted(Invalidate(t[d]), most[d])
                        /\ NoEntry \in Entry /\ Counted(NoEntry, most[d])
    BY <1>1, EntryUpdates, EntryCount, EntryTypes
  <1>3. KeepsCount(Purged(t), most)
    BY <1>1, <1>2 DEF KeepsCount, Purged, Table
  <1>4. \A d \in Node : KeepsCount(DeleteRoute(t, d), most)
    BY <1>1, <1>2 DEF KeepsCount, DeleteRoute, Table
  <1>5. \A C : KeepsCount(InvalidateRoutesWithDst(t, C), most)
    BY <1>1, <1>2 DEF KeepsCount, InvalidateRoutesWithDst, Table
  <1> QED
    BY <1>3, <1>4, <1>5

(* The routes that the handlers rewrite.                                   *)
LEMMA RewrittenCount ==
  ASSUME NEW most, NEW t, KeepsCount(t, most), NEW d \in Node, NEW from \in Node,
         NEW s \in Nat, NEW hop \in Nat
  PROVE  /\ KeepsCount(UpdateRouteToNeighbor(t, from), most)
         /\ KeepsCount(RouteToRreqSender(t, from, s), most)
         /\ KeepsCount(RouteFromHello(t, from, s), most)
         /\ KeepsCount(RouteAcked(t, from), most)
         /\ KeepsCount(RouteToOrigin(t, d, s, hop, from), most)
         /\ KeepsCount(RouteToReplier(t, d, s, hop, from), most)
         /\ KeepsCount(ForwardRoute(t, d, s, hop, from), most)
         /\ KeepsCount(Update(t, d, NewEntry(TRUE, s, hop, from)), most)
  <1> DEFINE e(v) == [t[from] EXCEPT !.flag = "VALID", !.validSeqNo = v,
                                     !.seqNo = s, !.hop = 1, !.nextHop = from,
                                     !.iface = TRUE, !.live = TRUE]
             a == [t[from] EXCEPT !.flag = "VALID"]
             o == OriginEntry(t[d], s, hop, from)
             r == [t[d] EXCEPT !.nextHop = from]
  <1>1. /\ t \in Table
        /\ \A x \in Node : t[x] \in Entry /\ 0 \in most[x] /\ t[x].reqCnt \in most[x]
    BY DEF KeepsCount, Counted, Table
  <1>2. ASSUME NEW x \in Node, NEW v \in BOOLEAN, NEW q \in Nat, NEW k \in Nat
        PROVE  /\ KeepsCount(Update(t, x, NewEntry(v, q, k, from)), most)
               /\ KeepsCount(AddRoute(t, x, NewEntry(v, q, k, from)), most)
    <2> DEFINE f == NewEntry(v, q, k, from)
    <2>1. f \in Entry /\ f.reqCnt = 0
      BY EntryTypes DEF NewEntry, Address
    <2> HIDE DEF f
    <2>2. f.reqCnt \in most[x]
      BY <1>1, <2>1
    <2>3. KeepsCount(Update(t, x, f), most) /\ KeepsCount(AddRoute(t, x, f), most)
      BY <2>1, <2>2, UpdateCount
    <2> QED
      BY <2>3 DEF f
  <1>3. /\ a \in Entry /\ a.reqCnt = t[from].reqCnt
        /\ r \in Entry /\ r.reqCnt = t[d].reqCnt /\ r.flag = t[d].flag
        /\ \A v \in BOOLEAN : e(v) \in Entry /\ e(v).reqCnt = t[from].reqCnt
    <2>1. a \in Entry /\ a.reqCnt = t[from].reqCnt
      BY <1>1 DEF Entry, Flag
    <2>2. r \in Entry /\ r.reqCnt = t[d].reqCnt /\ r.flag = t[d].flag
      BY <1>1 DEF Entry, Address
    <2>3. \A v \in BOOLEAN : e(v) \in Entry /\ e(v).reqCnt = t[from].reqCnt
      <3>1. t[from] \in Entry
        BY <1>1
      <3> QED
        BY <3>1 DEF Entry, Flag, Address
    <2> HIDE DEF a, r, e
    <2> QED
      BY <2>1, <2>2, <2>3
  <1>4. o \in Entry /\ o.reqCnt = t[d].reqCnt
    <2> DEFINE q == IF t[d].validSeqNo THEN Larger(s, t[d].seqNo) ELSE s
    <2>1. q \in Nat
      BY <1>1 DEF Larger, Entry
    <2>2. o = [t[d] EXCEPT !.seqNo = q, !.validSeqNo = TRUE, !.nextHop = from,
                           !.hop = hop, !.iface = TRUE, !.live = TRUE]
      BY <1>1 DEF OriginEntry, Entry
    <2> HIDE DEF o, q
    <2> QED
      BY <1>1, <2>1, <2>2 DEF Entry, Address
  <1>5. /\ RouteAcked(t, from) = Update(t, from, a)
        /\ RouteToRreqSender(t, from, s) \in
             {Update(t, from, e(FALSE)), AddRoute(t, from, NewEntry(FALSE, s, 1, from))}
        /\ RouteFromHello(t, from, s) \in
             {Update(t, from, e(TRUE)), AddRoute(t, from, NewEntry(TRUE, s, 1, from))}
        /\ RouteToOrigin(t, d, s, hop, from) \in
             {Update(t, d, o), AddRoute(t, d, NewEntry(TRUE, s, hop, from))}
        /\ RouteToReplier(t, d, s, hop, from) \in
             {[t EXCEPT ![d] = r], AddRoute(t, d, NewEntry(TRUE, s, hop, from))}
        /\ ForwardRoute(t, d, s, hop, from) \in
             {t, AddRoute(t, d, NewEntry(TRUE, s, hop, from)),
              Update(t, d, NewEntry(TRUE, s, hop, from))}
        /\ UpdateRouteToNeighbor(t, from) \in
             {t, AddRoute(t, from, NewEntry(FALSE, 0, 1, from)),
              Update(t, from, NewEntry(FALSE, 0, 1, from))}
    <2>1. [t EXCEPT ![d].nextHop = from] = [t EXCEPT ![d] = r]
      BY <1>1 DEF Table
    <2>2. RouteToReplier(t, d, s, hop, from) \in
             {[t EXCEPT ![d] = r], AddRoute(t, d, NewEntry(TRUE, s, hop, from))}
      BY <2>1 DEF RouteToReplier
    <2> QED
      BY <2>2 DEF RouteAcked, RouteToRreqSender, RouteFromHello, RouteToOrigin,
         ForwardRoute, UpdateRouteToNeighbor
  <1> HIDE DEF e, a, o, r
  <1>6. /\ KeepsCount(Update(t, from, a), most) /\ KeepsCount(Update(t, d, o), most)
        /\ KeepsCount([t EXCEPT ![d] = r], most)
        /\ \A v \in BOOLEAN : KeepsCount(Update(t, from, e(v)), most)
    BY <1>1, <1>3, <1>4, UpdateCount
  <1> QED
    BY <1>2, <1>5, <1>6

(* The precursors of a reply.                                              *)
LEMMA PrecursorsCount ==
  ASSUME NEW most, NEW t, KeepsCount(t, most), NEW dst \in Node, NEW origin \in Node
  PROVE  /\ KeepsCount(LinkPrecursors(t, dst, origin), most)
         /\ KeepsCount(LinkReplyPrecursors(t, dst, origin), most)
  <1> DEFINE p  == t[origin].nextHop
             q  == t[dst].nextHop
             t1 == Update(t, dst, InsertPrecursor(t[dst], p))
             t2 == IF q \in Node THEN Update(t1, q, InsertPrecursor(t1[q], p))
                   ELSE t1
             t3 == Update(t2, origin, InsertPrecursor(t[origin], q))
             t4 == IF p \in Node THEN Update(t3, p, InsertPrecursor(t3[p], q))
                   ELSE t3
             r1 == Update(t1, origin, InsertPrecursor(t[origin], q))
  <1>1. ASSUME NEW u, KeepsCount(u, most), NEW d \in Node, NEW v,
               KeepsCount(v, most), NEW x \in Address
        PROVE  KeepsCount(Update(u, d, InsertPrecursor(v[d], x)), most)
    <2>1. v[d] \in Entry /\ v[d].reqCnt \in most[d]
      BY <1>1 DEF KeepsCount, Counted, Table
    <2>2. /\ InsertPrecursor(v[d], x) \in Entry
          /\ InsertPrecursor(v[d], x).reqCnt = v[d].reqCnt
      BY <1>1, <2>1, InsertPrecursorType DEF InsertPrecursor, Entry
    <2> QED
      BY <1>1, <2>1, <2>2, UpdateCount
  <1>2. p \in Address /\ q \in Address
    BY DEF KeepsCount, Table, Entry
  <1> HIDE DEF p, q
  <1>3. KeepsCount(t1, most)
    BY <1>1, <1>2
  <1> HIDE DEF t1
  <1>4. KeepsCount(t2, most)
    BY <1>1, <1>2, <1>3
  <1> HIDE DEF t2
  <1>5. KeepsCount(t3, most)
    BY <1>1, <1>2, <1>4
  <1> HIDE DEF t3
  <1>6. KeepsCount(t4, most)
    BY <1>1, <1>2, <1>5
  <1>7. KeepsCount(r1, most)
    BY <1>1, <1>2, <1>3
  <1> QED
    BY <1>6, <1>7 DEF LinkPrecursors, LinkReplyPrecursors, p, q, t1, t2, t3

(* A request for d counts once more, if that many are allowed.             *)
LEMMA SearchCount ==
  ASSUME NEW most, NEW t, KeepsCount(t, most), NEW d \in Node,
         t[d].reqCnt + 1 \in most[d], NEW ttl \in Nat, NEW diameter \in Nat
  PROVE  /\ KeepsCount(Update(t, d, InSearch(t[d], ttl, diameter)), most)
         /\ ~Present(t, d) =>
              KeepsCount(AddRoute(t, d, DummyEntry(ttl, diameter)), most)
  <1>1. /\ t[d] \in Entry /\ t[d].reqCnt \in most[d]
        /\ ~Present(t, d) => t[d].reqCnt = 0
    BY DEF KeepsCount, Counted, Table, Present
  <1>2. ASSUME NEW e \in Entry, e.reqCnt \in most[d], e.reqCnt + 1 \in most[d]
        PROVE  /\ InSearch(e, ttl, diameter) \in Entry
               /\ InSearch(e, ttl, diameter).reqCnt \in most[d]
    <2>1. InSearch(e, ttl, diameter).reqCnt =
            IF ttl = diameter THEN e.reqCnt + 1 ELSE e.reqCnt
      BY DEF InSearch, Entry
    <2> QED
      BY <1>2, <2>1, InSearchType
  <1>3. KeepsCount(Update(t, d, InSearch(t[d], ttl, diameter)), most)
    BY <1>1, <1>2, UpdateCount
  <1>4. ASSUME ~Present(t, d)
        PROVE  KeepsCount(AddRoute(t, d, DummyEntry(ttl, diameter)), most)
    <2>1. NoEntry \in Entry /\ NoEntry.reqCnt = t[d].reqCnt
      BY <1>1, <1>4, EntryTypes DEF NoEntry
    <2>2. /\ DummyEntry(ttl, diameter) \in Entry
          /\ DummyEntry(ttl, diameter).reqCnt \in most[d]
      BY <1>1, <1>2, <2>1 DEF DummyEntry
    <2> QED
      BY <2>2, UpdateCount
  <1> QED
    BY <1>3, <1>4
=============================================================================
