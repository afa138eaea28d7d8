----------------------------- MODULE Neighbors ------------------------------
(***************************************************************************)
(* The neighbour list of a RAODV node (model/aodv-neighbor.cc) on a clock: *)
(* who was heard of, until when that counts, and the single timer that     *)
(* finds out who fell silent.  Purge reports each neighbour it drops to    *)
(* SendRerrWhenBreaksLinkToNextHop.  In module Raodv the list is the set   *)
(* nb, and a neighbour may be dropped at any time; this module shows when. *)
(***************************************************************************)
EXTENDS Integers

CONSTANTS
  Address,   \* the addresses of the other nodes
  Delay,     \* m_ntimer's delay, HelloInterval
  Lifetime,  \* the times Update is called with
  MaxTime    \* bound on the clock

ASSUME NeighborsAssumption ==
  /\ Delay \in Nat \ {0}
  /\ Lifetime \subseteq Nat
  /\ MaxTime \in Nat

VARIABLES
  listed,    \* the addresses in m_nb
  expire,    \* their m_expireTime
  mac,       \* those whose m_hardwareAddress is known
  timerAt,   \* when m_ntimer expires, or Off
  arp,       \* the addresses the ARP cache can resolve
  now,       \* Simulator::Now()
  reported,  \* the neighbours reported by the last step
  closed     \* the neighbours to which the last step saw a transmission fail

vars == <<listed, expire, mac, timerAt, arp, now, reported, closed>>

Off == -1

TypeOK ==
  /\ listed \subseteq Address
  /\ mac \subseteq listed
  /\ expire \in [Address -> Nat]
  /\ timerAt \in Nat \cup {Off}
  /\ arp \subseteq Address
  /\ now \in Nat
  /\ reported \subseteq Address
  /\ closed \subseteq Address

(* Start schedules the timer if hellos are enabled.                        *)
Init ==
  /\ listed = {} /\ mac = {} /\ reported = {} /\ closed = {}
  /\ expire = [a \in Address |-> 0]
  /\ timerAt \in {Off, Delay}
  /\ arp = {}
  /\ now = 0

-----------------------------------------------------------------------------
(***************************************************************************)
(* Purge, of the neighbours "those" with times "until": drops whoever has  *)
(* expired or is in "gone", and schedules the timer again.  With nobody    *)
(* listed it returns at once, and the timer is not scheduled.              *)
(***************************************************************************)
(* Mutant: only a timer that is running is scheduled again.                *)
NextTimerIfRunning(those) ==
  IF those = {} \/ timerAt = Off THEN timerAt ELSE now + Delay

NextTimer(those) == IF those = {} THEN timerAt ELSE now + Delay

(* Mutant: a neighbour whose time is up this very moment is dropped.       *)
SilentEarly(those, until) == {a \in those : until[a] <= now}

Silent(those, until) == {a \in those : until[a] < now}

Purge(those, until, macs, gone) ==
  LET dropped == (Silent(those, until) \cup gone) \cap those
  IN  /\ listed' = those \ dropped
      /\ mac' = macs \ dropped
      /\ reported' = dropped
      /\ expire' = [a \in Address |-> IF a \in dropped THEN 0 ELSE until[a]]
      /\ timerAt' = NextTimer(those)

(* Mutant: the time that is left, as GetExpireTime computes it.            *)
TimeLeft(a, life) == expire[a] - now

(* The time of a listed neighbour heard of again.                          *)
Prolonged(a, life) == IF now + life > expire[a] THEN now + life ELSE expire[a]

(* Update: a neighbour not listed yet is added and the list purged; one    *)
(* listed only lives longer.  The hardware address is looked up when it is *)
(* not known.                                                              *)
Update(a, life) ==
  /\ \/ /\ a \in listed
        /\ expire' = [expire EXCEPT ![a] = Prolonged(a, life)]
        /\ mac' = mac \cup ({a} \cap arp)
        /\ reported' = {}
        /\ UNCHANGED <<listed, timerAt>>
     \/ /\ a \notin listed
        /\ Purge(listed \cup {a}, [expire EXCEPT ![a] = now + life],
                 mac \cup ({a} \cap arp), {})
  /\ closed' = {}
  /\ UNCHANGED <<arp, now>>

(* The timer expires.  Timers that are due run before time passes.         *)
TimerExpire ==
  /\ timerAt = now
  /\ IF listed = {}
     THEN timerAt' = Off /\ reported' = {} /\ UNCHANGED <<listed, expire, mac>>
     ELSE Purge(listed, expire, mac, {})
  /\ closed' = {}
  /\ UNCHANGED <<arp, now>>

(* ProcessTxError: the link layer gave up a frame to a's hardware address. *)
(* It means nothing if that address was not known when a was heard of.     *)
ProcessTxError(a) ==
  /\ Purge(listed, expire, mac, {a} \cap mac)
  /\ closed' = {a} \cap mac
  /\ UNCHANGED <<arp, now>>

(* IsNeighbor and GetExpireTime purge before they answer.                  *)
Query ==
  /\ listed # {}
  /\ Purge(listed, expire, mac, {})
  /\ closed' = {}
  /\ UNCHANGED <<arp, now>>

(* Clear, when the last interface goes down.                               *)
Clear ==
  /\ listed' = {} /\ mac' = {} /\ reported' = {} /\ closed' = {}
  /\ expire' = [a \in Address |-> 0]
  /\ UNCHANGED <<timerAt, arp, now>>

(* The ARP cache learns or forgets an address.                             *)
ArpChanges(a) ==
  /\ arp' = IF a \in arp THEN arp \ {a} ELSE arp \cup {a}
  /\ reported' = {} /\ closed' = {}
  /\ UNCHANGED <<listed, expire, mac, timerAt, now>>

Tick ==
  /\ now < MaxTime
  /\ timerAt # now
  /\ now' = now + 1
  /\ reported' = {} /\ closed' = {}
  /\ UNCHANGED <<listed, expire, mac, timerAt, arp>>

Next ==
  \/ \E a \in Address : \/ \E life \in Lifetime : Update(a, life)
                        \/ ProcessTxError(a)
                        \/ ArpChanges(a)
  \/ TimerExpire
  \/ Query
  \/ Clear
  \/ Tick

Spec == Init /\ [][Next]_vars

-----------------------------------------------------------------------------
(***************************************************************************)
(* Properties.                                                             *)
(***************************************************************************)

(* Silence is noticed within one timer delay: no neighbour stays listed    *)
(* longer than that past its time, although every purge pushes the only    *)
(* timer back and a purge of an empty list does not restart it.            *)
NoticedInTime == \A a \in listed : now <= expire[a] + Delay

(* A listed neighbour always has a timer that will find it silent.         *)
TimerRuns == listed # {} => now <= timerAt /\ timerAt <= now + Delay

(* What the routing protocol relies on, although one timer serves all and  *)
(* hearing of somebody, queries and failed transmissions keep pushing it   *)
(* back: a link failure is reported, with all the routes it takes down,    *)
(* only for a neighbour that has been silent longer than every message     *)
(* from it allowed, or to which a transmission failed; and then it is      *)
(* reported within a delay.                                                *)
Watch == INSTANCE NeighborWatch WITH
  Address <- Address, Delay <- Delay, Lifetime <- Lifetime, listed <- listed,
  expire <- expire, now <- now, reported <- reported, closed <- closed
WatchSpec == Watch!Spec
=============================================================================
