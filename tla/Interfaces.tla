----------------------------- MODULE Interfaces -----------------------------
(***************************************************************************)
(* The interfaces of a RAODV node, and its neighbour list on top of them:  *)
(* NotifyInterfaceUp, NotifyInterfaceDown, NotifyAddAddress and            *)
(* NotifyRemoveAddress of model/aodv-routing-protocol.cc, which IP calls   *)
(* when an interface or its addresses change, composed with Neighbors.     *)
(* RAODV listens on the first address of every interface that is up, with  *)
(* one socket for the address and one for its subnet's broadcasts; the     *)
(* routes are told apart by the address they leave from.  All addresses    *)
(* are in different subnets.                                               *)
(***************************************************************************)
EXTENDS Neighbors, Sequences, FiniteSets

CONSTANTS
  Interface,   \* the interfaces of the node but for loopback
  OwnOf,       \* the addresses that each may be given
  MaxSockets   \* bounds on the broadcast sockets of each address

Own == UNION {OwnOf[i] : i \in Interface}

ASSUME InterfacesAssumption ==
  /\ MaxSockets \in [Own -> Nat]
  /\ \A i, j \in Interface : i # j => OwnOf[i] \cap OwnOf[j] = {}

VARIABLES
  up,          \* the interfaces that are up
  addrs,       \* their addresses, in the order IP keeps
  sockets,     \* the number of sockets in m_socketAddresses, per address
  bcast,       \* open sockets in m_socketSubnetBroadcastAddresses, per address
  stale,       \* closed sockets in that map, per address
  subnets,     \* addresses whose subnet broadcast has an entry in the table
  learned,     \* addresses over which the table has entries for other nodes
  lo,          \* the table has the entry for the loopback address
  hello,       \* m_htimer runs
  repeated     \* an interface was reported up again while it was up: history

ifvars == <<up, addrs, sockets, bcast, stale, subnets, learned, lo, hello, repeated>>
nodeVars == <<vars, ifvars>>

Listening == {i \in up : addrs[i] # <<>>}
First(i) == addrs[i][1]

(* The addresses that FindSocketWithInterfaceAddress finds a socket for.   *)
HasSocket == {a \in Own : sockets[a] > 0}

InterfacesTypeOK ==
  /\ up \subseteq Interface
  /\ addrs \in [Interface -> Seq(Own)]
  /\ \A i \in Interface : \A k \in DOMAIN addrs[i] : addrs[i][k] \in OwnOf[i]
  /\ sockets \in [Own -> Nat] /\ bcast \in [Own -> Nat] /\ stale \in [Own -> Nat]
  /\ subnets \subseteq Own /\ learned \subseteq Own
  /\ {lo, hello, repeated} \subseteq BOOLEAN

NodeTypeOK == TypeOK /\ InterfacesTypeOK

(* SetIpv4 adds the loopback entry; Start and DoInitialize run the timers  *)
(* if hellos are enabled.                                                  *)
NodeInit ==
  /\ Init
  /\ up = {} /\ addrs = [i \in Interface |-> <<>>]
  /\ subnets = {} /\ learned = {}
  /\ sockets = [a \in Own |-> 0]
  /\ bcast = [a \in Own |-> 0] /\ stale = [a \in Own |-> 0]
  /\ lo = TRUE /\ repeated = FALSE
  /\ hello = (timerAt # Off)

-----------------------------------------------------------------------------
(* Sockets for address a are opened and its broadcast entry is added.      *)
(* AddRoute keeps the entry if there is one.                               *)
Open(a, others, bcasts) ==
  /\ bcasts[a] + stale'[a] < MaxSockets[a]
  /\ sockets' = [others EXCEPT ![a] = @ + 1]
  /\ bcast' = [bcasts EXCEPT ![a] = @ + 1]

(* Mutant: only the routes to other nodes go.                              *)
DeleteLearnedRoutes(a) == subnets' = subnets /\ learned' = learned \ {a}

(* Every route that leaves from a goes.                                    *)
DeleteAllRoutesFromInterface(a) ==
  subnets' = subnets \ {a} /\ learned' = learned \ {a}

(* Mutant: the neighbours stay.                                            *)
NoInterfacesLeftQuietly ==
  /\ UNCHANGED vars
  /\ subnets' = {} /\ learned' = {} /\ lo' = FALSE /\ hello' = FALSE

(* The last socket is gone: no hellos, no neighbours, and no routes.       *)
NoInterfacesLeft ==
  /\ Clear
  /\ subnets' = {} /\ learned' = {} /\ lo' = FALSE /\ hello' = FALSE

(* The unicast socket found for a is closed and erased.                    *)
OneLess(a) == [sockets EXCEPT ![a] = @ - 1]

(* NotifyInterfaceUp.  IP calls it whenever an interface is set up, also   *)
(* if it is up already; then there are two sockets for one address.        *)
NotifyInterfaceUp(i) ==
  /\ addrs[i] # <<>>
  /\ up' = up \cup {i}
  /\ repeated' = (repeated \/ i \in up)
  /\ stale' = stale
  /\ Open(First(i), sockets, bcast)
  /\ subnets' = subnets \cup {First(i)}
  /\ UNCHANGED <<vars, addrs, learned, lo, hello>>

(* A broadcast socket of a is found in the map, open or not, closed and    *)
(* erased.                                                                 *)
CloseAndErase(a) ==
  \/ bcast[a] > 0 /\ bcast' = [bcast EXCEPT ![a] = @ - 1] /\ stale' = stale
  \/ stale[a] > 0 /\ stale' = [stale EXCEPT ![a] = @ - 1] /\ bcast' = bcast

(* NotifyInterfaceDown.  Both assertions must hold, or the program stops.  *)
NotifyInterfaceDown(i) ==
  /\ addrs[i] # <<>> /\ First(i) \in HasSocket
  /\ up' = up \ {i}
  /\ sockets' = OneLess(First(i))
  /\ CloseAndErase(First(i))
  /\ \/ HasSocket' = {} /\ NoInterfacesLeft
     \/ HasSocket' # {} /\ DeleteAllRoutesFromInterface(First(i))
                        /\ UNCHANGED <<vars, lo, hello>>
  /\ UNCHANGED <<addrs, repeated>>

(* Mutant: every address is listened on.                                   *)
NotifyAddAnyAddress(i, a) ==
  /\ a \in OwnOf[i] /\ \A k \in DOMAIN addrs[i] : addrs[i][k] # a
  /\ addrs' = [addrs EXCEPT ![i] = Append(@, a)]
  /\ stale' = stale
  /\ IF i \in up
     THEN Open(a, sockets, bcast) /\ subnets' = subnets \cup {a}
     ELSE UNCHANGED <<sockets, bcast, subnets>>
  /\ UNCHANGED <<vars, up, learned, lo, hello, repeated>>

(* NotifyAddAddress: only the first address of an interface that is up,    *)
(* and only if no socket for it is left over.                              *)
NotifyAddAddress(i, a) ==
  /\ a \in OwnOf[i] /\ \A k \in DOMAIN addrs[i] : addrs[i][k] # a
  /\ addrs' = [addrs EXCEPT ![i] = Append(@, a)]
  /\ stale' = stale
  /\ IF i \in up /\ addrs[i] = <<>> /\ a \notin HasSocket
     THEN Open(a, sockets, bcast) /\ subnets' = subnets \cup {a}
     ELSE UNCHANGED <<sockets, bcast, subnets>>
  /\ UNCHANGED <<vars, up, learned, lo, hello, repeated>>

(* A broadcast socket of a is found, open or not, and closed, but erased   *)
(* from the map of the unicast sockets, where it is not.                   *)
CloseOnly(a) ==
  \/ /\ bcast[a] > 0
     /\ stale' = [stale EXCEPT ![a] = @ + 1]
     /\ bcast' = [bcast EXCEPT ![a] = @ - 1]
  \/ stale[a] > 0 /\ UNCHANGED <<bcast, stale>>

(* The only address listened on by its interface is removed.               *)
RemoveOnly(a) ==
  /\ sockets' = OneLess(a)
  /\ CloseOnly(a)
  /\ IF HasSocket' = {} THEN NoInterfacesLeft
     ELSE DeleteAllRoutesFromInterface(a) /\ UNCHANGED <<vars, lo, hello>>

(* The address next, of the same interface, takes the place of a.          *)
Replace(a, next) ==
  /\ \/ /\ bcast[a] > 0
        /\ stale' = [stale EXCEPT ![a] = @ + 1]
        /\ Open(next, OneLess(a), [bcast EXCEPT ![a] = @ - 1])
     \/ /\ stale[a] > 0
        /\ stale' = stale
        /\ Open(next, OneLess(a), bcast)
  /\ learned' = learned \ {a}
  /\ UNCHANGED <<vars, lo, hello>>

(* Mutant: the next address gets sockets but no broadcast entry.           *)
RemoveListeningUnrouted(a, left) ==
  \/ left = <<>> /\ RemoveOnly(a)
  \/ left # <<>> /\ Replace(a, left[1]) /\ subnets' = subnets \ {a}

(* An address with a socket is removed.                                    *)
RemoveListening(a, left) ==
  \/ left = <<>> /\ RemoveOnly(a)
  \/ left # <<>> /\ Replace(a, left[1])
                 /\ subnets' = (subnets \ {a}) \cup {left[1]}

(* NotifyRemoveAddress.                                                    *)
NotifyRemoveAddress(i, k) ==
  LET a == addrs[i][k]
      left == [j \in 1 .. Len(addrs[i]) - 1 |-> addrs[i][IF j < k THEN j ELSE j + 1]]
  IN  /\ addrs' = [addrs EXCEPT ![i] = left]
      /\ IF a \in HasSocket
         THEN RemoveListening(a, left)
         ELSE UNCHANGED <<vars, sockets, bcast, stale, subnets, learned, lo, hello>>
      /\ UNCHANGED <<up, repeated>>

(* RecvAodv: a message comes in on a socket for a; its sender gets a route *)
(* over a, and is a neighbour.                                             *)
Receive(a, sender, life) ==
  /\ a \in HasSocket
  /\ learned' = learned \cup {a}
  /\ Update(sender, life)
  /\ UNCHANGED <<up, addrs, sockets, bcast, stale, subnets, lo, hello, repeated>>

(* The last entry over a is purged from the table.                         *)
Forget(a) ==
  /\ a \in learned
  /\ learned' = learned \ {a}
  /\ UNCHANGED <<vars, up, addrs, sockets, bcast, stale, subnets, lo, hello, repeated>>

(* The rest of the neighbour list's life goes on in any state.             *)
WatchOn ==
  /\ \/ \E a \in Address : ProcessTxError(a) \/ ArpChanges(a)
     \/ TimerExpire \/ Query \/ Tick
  /\ UNCHANGED ifvars

NodeNext ==
  \/ \E i \in Interface :
       \/ NotifyInterfaceUp(i)
       \/ NotifyInterfaceDown(i)
       \/ \E a \in OwnOf[i] : NotifyAddAddress(i, a)
       \/ \E k \in DOMAIN addrs[i] : NotifyRemoveAddress(i, k)
  \/ \E a \in Own : \/ Forget(a)
                    \/ \E n \in Address, life \in Lifetime : Receive(a, n, life)
  \/ WatchOn

NodeSpec == NodeInit /\ [][NodeNext]_nodeVars

-----------------------------------------------------------------------------
(***************************************************************************)
(* Properties.                                                             *)
(***************************************************************************)

(* Through any changes of interfaces and addresses, for any interface that *)
(* is up NotifyInterfaceDown finds both sockets it asserts, those of its   *)
(* first address.  Unless an interface was reported up twice, which leaves *)
(* a pair of sockets behind when it goes down, the node listens on no      *)
(* other address.                                                          *)
ListensOnFirst ==
  /\ \A i \in Listening :
       First(i) \in HasSocket /\ bcast[First(i)] + stale[First(i)] > 0
  /\ ~repeated => HasSocket = {First(i) : i \in Listening}

(* Wherever the node listens it also hears the broadcasts of the subnet    *)
(* and has the entry to forward them, although NotifyRemoveAddress leaves  *)
(* closed sockets in the map of the broadcast sockets and those may be     *)
(* found instead of the open one.  This takes every interface to be        *)
(* reported up once: a socket left over keeps NotifyAddAddress from        *)
(* opening the pair and adding the entry.                                  *)
BroadcastHeard ==
  ~repeated => \A a \in HasSocket : bcast[a] > 0 /\ a \in subnets

(* Nothing outlives the sockets it depends on: every route leaves from an  *)
(* address the node listens on, and a node without sockets watches nobody, *)
(* so that it reports no broken links, also when sockets are left over.    *)
RestsOnSockets ==
  /\ subnets \cup learned \subseteq HasSocket
  /\ HasSocket = {} => listed = {}
=============================================================================
