------------------------------- MODULE Flood --------------------------------
(***************************************************************************)
(* How floods die: requests, reverse requests and broadcast data spread    *)
(* over the nodes, each remembering for a while what it has seen           *)
(* (model/aodv-id-cache.cc, model/aodv-dpd.cc).  In module Raodv an id is  *)
(* remembered for ever; here it is forgotten after its lifetime, on a      *)
(* clock, while copies may still be on their way.  A copy takes any time   *)
(* up to MaxDelay for a hop, the jitter of SendTo included, or is lost.    *)
(* Routes do not matter here: a node that knows one may answer a request   *)
(* instead of relaying it.  The rate limit of requests is not reached.     *)
(***************************************************************************)
EXTENDS Integers, FiniteSets, Bags

CONSTANTS
  Node,
  Everybody,       \* the broadcast address
  Nobody,          \* an address that no node has
  Link,            \* pairs of nodes, the second of which hears the first
  NetDiameter,     \* largest TTL of a request
  Ring,            \* the TTLs of requests
  DataTtl,         \* TTL of broadcast data
  MaxDelay,        \* longest time for a hop
  Lifetime,        \* PathDiscoveryTime, how long ids are remembered
  EnableBroadcast, \* is broadcast data relayed?
  MaxFloods,       \* bound on the requests and data packets started
  MaxTime          \* bound on the clock

(* The longest path of a flood that no node relays twice.                  *)
LongestPath ==
  LET ttl == IF DataTtl > NetDiameter THEN DataTtl ELSE NetDiameter
  IN  IF ttl < Cardinality(Node) THEN ttl ELSE Cardinality(Node)

(* PathDiscoveryTime is 4 * NetDiameter * NodeTraversalTime: a hop may     *)
(* take four times NodeTraversalTime in a net no wider than NetDiameter.   *)
ASSUME FloodAssumption ==
  /\ IsFiniteSet(Node) /\ {Everybody, Nobody} \cap Node = {}
  /\ Link \subseteq Node \X Node
  /\ {NetDiameter, DataTtl, MaxDelay, Lifetime} \subseteq Nat \ {0}
  /\ Ring \subseteq 1 .. NetDiameter
  /\ EnableBroadcast \in BOOLEAN
  /\ {MaxFloods, MaxTime} \subseteq Nat
  /\ LongestPath * MaxDelay <= Lifetime

VARIABLES
  now,       \* Simulator::Now()
  requestId, \* m_requestId, for requests and reverse requests
  uid,       \* the last packet uid
  cache,     \* m_rreqIdCache and m_dpd of every node
  flight,    \* the copies on their way
  handled,   \* history: the floods each node took for new, a bag
  started    \* the floods started, but for the answers

vars == <<now, requestId, uid, cache, flight, handled, started>>

Cache == {"rreqIdCache", "dpd"}
Id == [context : Node, id : Nat, expire : Nat]

Flood == [kind : {"RREQ", "REV_RREQ", "DATA"}, origin : Node, id : Nat,
          dst : Node \cup {Everybody, Nobody}]

TypeOK ==
  /\ {now, uid, started} \subseteq Nat
  /\ requestId \in [Node -> Nat]
  /\ cache \in [Node -> [Cache -> SUBSET Id]]
  /\ \A c \in flight : /\ c.flood \in Flood /\ c.to \in Node
                       /\ c.ttl \in Nat \ {0} /\ c.due \in now .. now + MaxDelay
  /\ \A n \in Node : IsABag(handled[n]) /\ BagToSet(handled[n]) \subseteq Flood

Init ==
  /\ now = 0 /\ uid = 0 /\ started = 0
  /\ requestId = [n \in Node |-> 0]
  /\ cache = [n \in Node |-> [k \in Cache |-> {}]]
  /\ flight = {}
  /\ handled = [n \in Node |-> EmptyBag]

-----------------------------------------------------------------------------
(***************************************************************************)
(* IdCache: what a cache holds after Purge, whether it has a flood, and    *)
(* what IsDuplicate leaves in it.                                          *)
(***************************************************************************)
(* Mutant: an id is forgotten the moment its lifetime is over.             *)
PurgedEarly(ids) == {e \in ids : e.expire > now}

Purged(ids) == {e \in ids : ~(e.expire < now)}

Knows(ids, f) == \E e \in Purged(ids) : e.context = f.origin /\ e.id = f.id

Noted(ids, f) ==
  Purged(ids) \cup
    (IF Knows(ids, f) THEN {}
     ELSE {[context |-> f.origin, id |-> f.id, expire |-> now + Lifetime]})

CacheFor(f) == IF f.kind = "DATA" THEN "dpd" ELSE "rreqIdCache"

IsDuplicate(n, f) == Knows(cache[n][CacheFor(f)], f)

Note(n, f) == cache' = [cache EXCEPT ![n][CacheFor(f)] = Noted(@, f)]

(* A broadcast is heard by every neighbour, some time or never.            *)
Broadcast(n, f, ttl) ==
  {[flood |-> f, to |-> x, ttl |-> ttl, due |-> now + MaxDelay] :
     x \in {y \in Node : <<n, y>> \in Link}}

(* Mutant: the TTL is not looked at.                                       *)
RelayForEver(n, c) == Broadcast(n, c.flood, c.ttl - 1)

Relay(n, c) == IF c.ttl < 2 THEN {} ELSE Broadcast(n, c.flood, c.ttl - 1)

-----------------------------------------------------------------------------
(* SendRequest: any ring of the search.  The node notes its own request.   *)
SendRequest(n, d) ==
  LET f == [kind |-> "RREQ", origin |-> n, id |-> requestId[n] + 1, dst |-> d]
  IN  /\ n # d /\ started < MaxFloods /\ started' = started + 1
      /\ requestId' = [requestId EXCEPT ![n] = @ + 1]
      /\ Note(n, f)
      /\ \E ttl \in Ring : flight' = flight \cup Broadcast(n, f, ttl)
      /\ UNCHANGED <<now, uid, handled>>

(* An application broadcasts a packet; its node does not note it.          *)
SendData(n) ==
  LET f == [kind |-> "DATA", origin |-> n, id |-> uid + 1, dst |-> Everybody]
  IN  /\ started < MaxFloods /\ started' = started + 1
      /\ uid' = uid + 1
      /\ flight' = flight \cup Broadcast(n, f, DataTtl)
      /\ UNCHANGED <<now, requestId, cache, handled>>

(* Mutant: the reverse request goes out under the id of the last request.  *)
RevRequestIdUsed(n) == requestId[n]

RevRequestId(n) == requestId[n] + 1

(* The flood of c is new to n, which counts it.                            *)
New(n, c) ==
  /\ ~IsDuplicate(n, c.flood)
  /\ handled' = [handled EXCEPT ![n] = @ (+) SetToBag({c.flood})]

(* RecvRequest at the destination: SendRevRequest floods an answer, any    *)
(* ring.  The node notes both floods.                                      *)
AnswerRequest(n, c) ==
  LET f == [kind |-> "REV_RREQ", origin |-> n, id |-> RevRequestId(n),
            dst |-> c.flood.origin]
  IN  /\ c.flood.kind = "RREQ" /\ c.flood.dst = n
      /\ New(n, c)
      /\ requestId' = [requestId EXCEPT ![n] = @ + 1]
      /\ cache' = [cache EXCEPT ![n]["rreqIdCache"] = Noted(Noted(@, c.flood), f)]
      /\ \E ttl \in Ring :
           flight' = (flight \ {c}) \cup Broadcast(n, f, ttl)
      /\ UNCHANGED <<now, uid, started>>

(* RecvRequest elsewhere: the node relays it.  One that knows a route and  *)
(* answers or drops it instead is one whose copies are all lost.           *)
RelayRequest(n, c) ==
  /\ c.flood.kind = "RREQ" /\ c.flood.dst # n
  /\ New(n, c) /\ Note(n, c.flood)
  /\ flight' = (flight \ {c}) \cup Relay(n, c)
  /\ UNCHANGED <<now, uid, requestId, started>>

(* RecvRevRequest: relayed, but for the node it is meant for, which takes  *)
(* every copy.                                                             *)
RelayRevRequest(n, c) ==
  /\ c.flood.kind = "REV_RREQ" /\ c.flood.dst # n
  /\ New(n, c) /\ Note(n, c.flood)
  /\ flight' = (flight \ {c}) \cup Relay(n, c)
  /\ UNCHANGED <<now, uid, requestId, started>>

TakeRevRequest(n, c) ==
  /\ c.flood.kind = "REV_RREQ" /\ c.flood.dst = n
  /\ Note(n, c.flood)
  /\ flight' = flight \ {c}
  /\ UNCHANGED <<now, uid, requestId, handled, started>>

(* RouteInput: broadcast data of another node is delivered and relayed.    *)
DeliverData(n, c) ==
  /\ c.flood.kind = "DATA" /\ c.flood.origin # n
  /\ New(n, c) /\ Note(n, c.flood)
  /\ flight' = (flight \ {c}) \cup (IF EnableBroadcast THEN Relay(n, c) ELSE {})
  /\ UNCHANGED <<now, uid, requestId, started>>

(* What the node knows is dropped, which purges its cache; its own data    *)
(* is dropped without asking.                                              *)
DropDuplicate(n, c) ==
  /\ \/ c.flood.kind = "RREQ"
     \/ c.flood.kind = "REV_RREQ" /\ c.flood.dst # n
     \/ c.flood.kind = "DATA" /\ c.flood.origin # n
  /\ IsDuplicate(n, c.flood) /\ Note(n, c.flood)
  /\ flight' = flight \ {c}
  /\ UNCHANGED <<now, uid, requestId, handled, started>>

(* A copy that nobody took in time was lost, or came from a neighbour on   *)
(* the blacklist, or was data of the node itself.                          *)
Tick ==
  /\ now < MaxTime
  /\ now' = now + 1
  /\ flight' = {c \in flight : c.due > now}
  /\ UNCHANGED <<requestId, uid, cache, handled, started>>

Receive(n, c) ==
  \/ AnswerRequest(n, c) \/ RelayRequest(n, c)
  \/ RelayRevRequest(n, c) \/ TakeRevRequest(n, c)
  \/ DeliverData(n, c) \/ DropDuplicate(n, c)

Next ==
  \/ \E n \in Node : SendData(n) \/ \E d \in Node \cup {Nobody} : SendRequest(n, d)
  \/ \E c \in flight : Receive(c.to, c)
  \/ Tick

Spec == Init /\ [][Next]_vars

-----------------------------------------------------------------------------
(***************************************************************************)
(* Properties.                                                             *)
(***************************************************************************)

(* A node relays, answers or delivers a flood at most once, and never one  *)
(* of its own, although it forgets what it has seen while copies are still *)
(* on their way: PathDiscoveryTime is long enough, to the tick.            *)
HandledOnce ==
  \A n \in Node : \A f \in BagToSet(handled[n]) :
    f.origin # n /\ handled[n][f] = 1

(* Requests and reverse requests share the numbers and the cache, and an   *)
(* entry names neither: still, a copy is taken for a duplicate only if the *)
(* node has seen that very flood.                                          *)
NoFalseDuplicates ==
  \A c \in flight :
    IsDuplicate(c.to, c.flood) /\ c.flood.dst # c.to =>
      c.flood.origin = c.to \/ c.flood \in BagToSet(handled[c.to])
=============================================================================
