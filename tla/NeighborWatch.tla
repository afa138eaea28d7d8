--------------------------- MODULE NeighborWatch ----------------------------
(***************************************************************************)
(* What the neighbour list of a node promises to the routing protocol,     *)
(* without the timer that keeps the promise: whoever was heard of counts   *)
(* as a neighbour until its time is up; it is reported lost only when it   *)
(* has been silent past that time or a transmission to it failed; and the  *)
(* loss is reported no later than Delay after the time was up.  When       *)
(* exactly, and who is reported together, is left open.  Module Neighbors  *)
(* implements this.                                                        *)
(***************************************************************************)
EXTENDS Integers

CONSTANTS Address, Delay, Lifetime

VARIABLES listed, expire, now, reported, closed

watch == <<listed, expire, now, reported, closed>>

Init ==
  /\ listed = {} /\ reported = {} /\ closed = {}
  /\ expire = [a \in Address |-> 0]
  /\ now = 0

(* Those of the neighbours "those", due at "until", that may be reported.  *)
Overdue(those, until) == {a \in those : until[a] < now}

(* Of those neighbours, "lost" are reported and forgotten.                 *)
Report(those, until, lost) ==
  /\ listed' = those \ lost
  /\ expire' = [a \in Address |-> IF a \in lost THEN 0 ELSE until[a]]
  /\ reported' = lost
  /\ now' = now

(* A neighbour is heard of; time never runs backwards for it.              *)
Hear(a, life) ==
  LET until == [expire EXCEPT ![a] =
                  IF a \in listed /\ expire[a] > now + life THEN @ ELSE now + life]
  IN  /\ \E lost \in SUBSET Overdue(listed \cup {a}, until) :
           Report(listed \cup {a}, until, lost)
      /\ closed' = {}

(* Some are found silent, or a transmission to some failed.                *)
Lose ==
  /\ closed' \in SUBSET Address
  /\ \E lost \in SUBSET (listed \cap (Overdue(listed, expire) \cup closed')) :
       Report(listed, expire, lost)

(* The node leaves the network.                                            *)
Leave ==
  /\ listed' = {} /\ reported' = {} /\ closed' = {}
  /\ expire' = [a \in Address |-> 0]
  /\ now' = now

(* Time waits for a report that is due.                                    *)
Pass ==
  /\ \A a \in listed : now < expire[a] + Delay
  /\ now' = now + 1
  /\ reported' = {} /\ closed' = {}
  /\ UNCHANGED <<listed, expire>>

Next ==
  \/ \E a \in Address, life \in Lifetime : Hear(a, life)
  \/ Lose
  \/ Leave
  \/ Pass

Spec == Init /\ [][Next]_watch
=============================================================================
