---------------------------- MODULE RoutingTable ----------------------------
(***************************************************************************)
(* The routing table of one RAODV node (model/aodv-rtable.cc): what each   *)
(* operation of class RoutingTable does to the map from a destination to   *)
(* its RoutingTableEntry.  A table is a total function on Node; an absent  *)
(* entry is NoEntry.                                                       *)
(*                                                                         *)
(* Times are abstracted to one bit per entry: "live" says that m_lifeTime  *)
(* has not passed yet.  Whoever uses these operators clears it when time   *)
(* passes, and every operation that the code begins with Purge() expects a *)
(* Purged table.                                                           *)
(***************************************************************************)
EXTENDS Naturals

CONSTANTS Node,    \* the addresses of the nodes
          NoNode   \* Ipv4Address(), the address no node has

ASSUME NodeAssumption == NoNode \notin Node

Address == Node \cup {NoNode}

(* RouteFlags; "NONE" is the flag of a destination the map does not hold.  *)
Flag == {"NONE", "VALID", "INVALID", "IN_SEARCH"}

(***************************************************************************)
(* source: the shared Ipv4Route carries a real interface address (an entry *)
(*         built on Ipv4InterfaceAddress() carries 102.102.102.102 and     *)
(*         SetInterface never corrects the route).                         *)
(* iface:  m_iface is a real interface, so that                            *)
(*         FindSocketWithInterfaceAddress finds a socket.                  *)
(***************************************************************************)
Entry == [flag : Flag, validSeqNo : BOOLEAN, seqNo : Nat, hop : Nat,
          nextHop : Address, source : BOOLEAN, iface : BOOLEAN,
          reqCnt : Nat, live : BOOLEAN, precursors : SUBSET Address]

Table == [Node -> Entry]

(* What LookupRoute leaves in its output argument when it finds nothing,   *)
(* apart from the flag: the default RoutingTableEntry is VALID.            *)
NoEntry == [flag |-> "NONE", validSeqNo |-> FALSE, seqNo |-> 0, hop |-> 0,
            nextHop |-> NoNode, source |-> FALSE, iface |-> FALSE,
            reqCnt |-> 0, live |-> TRUE, precursors |-> {}]

EmptyTable == [d \in Node |-> NoEntry]

Present(t, d) == t[d].flag # "NONE"
Valid(t, d)   == t[d].flag = "VALID"

(* The RoutingTableEntry constructor, on a real interface.                 *)
NewEntry(validSeqNo, seqNo, hop, nextHop) ==
  [flag |-> "VALID", validSeqNo |-> validSeqNo, seqNo |-> seqNo, hop |-> hop,
   nextHop |-> nextHop, source |-> TRUE, iface |-> TRUE,
   reqCnt |-> 0, live |-> TRUE, precursors |-> {}]

-----------------------------------------------------------------------------
Invalidate(e) ==
  IF e.flag = "INVALID" THEN e
  ELSE [e EXCEPT !.flag = "INVALID", !.reqCnt = 0, !.live = TRUE]

PurgedEntry(e) ==
  CASE e.live \/ e.flag = "IN_SEARCH" -> e
    [] ~e.live /\ e.flag = "VALID"    -> Invalidate(e)
    [] OTHER                          -> NoEntry

(* Purge: an expired route that is INVALID is erased, one that is VALID    *)
(* becomes INVALID for another badLinkLifetime, one IN_SEARCH stays.       *)
Purged(t) == [d \in Node |-> PurgedEntry(t[d])]

(* AddRoute and Update forget the RREQ count of a settled entry.           *)
Settled(e) == IF e.flag = "IN_SEARCH" THEN e ELSE [e EXCEPT !.reqCnt = 0]

(* Update replaces an entry and never creates one.                         *)
Update(t, d, e) ==
  IF Present(t, d) THEN [t EXCEPT ![d] = Settled(e)] ELSE t

(* AddRoute is std::map::insert: it never replaces an entry.               *)
AddRoute(t, d, e) ==
  IF Present(t, d) THEN t ELSE [t EXCEPT ![d] = Settled(e)]

DeleteRoute(t, d) == [t EXCEPT ![d] = NoEntry]

(* The keys of GetListOfDestinationWithNextHop, whatever their flag.       *)
DestinationsWithNextHop(t, m) ==
  {d \in Node : Present(t, d) /\ t[d].nextHop = m}

(* Mutant: works on a copy of the table.                                   *)
InvalidateRoutesWithDstOfCopy(t, D) == t

InvalidateRoutesWithDst(t, D) ==
  [d \in Node |-> IF d \in D /\ Valid(t, d) THEN Invalidate(t[d]) ELSE t[d]]

InsertPrecursor(e, id) == [e EXCEPT !.precursors = @ \cup {id}]
=============================================================================
