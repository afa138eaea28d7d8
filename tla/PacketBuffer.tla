---------------------------- MODULE PacketBuffer ----------------------------
(***************************************************************************)
(* What the packet buffer of a node promises to the routing protocol,      *)
(* without the queue that keeps the promise: it holds a set of packets,    *)
(* and each leaves it once and with cause.  A packet is sent only in time  *)
(* and only to its destination; it is reported lost only when its time is  *)
(* up, when its destination is given up, or when the buffer is full and    *)
(* another needs the room.  When packets whose time is up are reported is  *)
(* left open.  Module RequestQueue implements this.                        *)
(***************************************************************************)
EXTENDS Naturals, FiniteSets

CONSTANTS Packet, Destination, DstOf, Limit, QueueTimeout

VARIABLES
  held, due,        \* the packets held, and until when each may be sent
  room,             \* how many packets there is room for
  now,
  accepted, sent, dropped, discarded  \* how often each packet was

buffer == <<held, due, room, now, accepted, sent, dropped, discarded>>

Never == [p \in Packet |-> 0]

Init ==
  /\ held = {} /\ due = Never
  /\ room \in Limit
  /\ now = 0
  /\ accepted = Never /\ sent = Never /\ dropped = Never /\ discarded = Never

Once(count, those) == [p \in Packet |-> IF p \in those THEN count[p] + 1 ELSE count[p]]

InTime  == {p \in held : now <= due[p]}
Overdue == held \ InTime
For(dst) == {p \in Packet : DstOf[p] = dst}

(* These leave the buffer, each in one way.                                *)
Leave(out, thrown, lost) ==
  /\ out \cap thrown = {} /\ (out \cup thrown) \cap lost = {}
  /\ held' = held \ (out \cup thrown \cup lost)
  /\ due' = [p \in Packet |-> IF p \in held' THEN due[p] ELSE 0]
  /\ sent' = Once(sent, out)
  /\ discarded' = Once(discarded, thrown)
  /\ dropped' = Once(dropped, lost)
  /\ UNCHANGED <<room, now, accepted>>

Forget == \E lost \in SUBSET Overdue : Leave({}, {}, lost)

(* A packet comes in; one other may have to make room for it.              *)
Accept(p, timeout) ==
  \E lost \in SUBSET Overdue, pushed \in SUBSET InTime :
    /\ p \notin held \ lost
    /\ pushed # {} => Cardinality(pushed) = 1 /\ Cardinality(held \ lost) = room
    /\ held' = (held \ (lost \cup pushed)) \cup {p}
    /\ due' = [q \in Packet |-> IF q = p THEN now + timeout
                                ELSE IF q \in held' THEN due[q] ELSE 0]
    /\ dropped' = Once(dropped, lost \cup pushed)
    /\ accepted' = Once(accepted, {p})
    /\ UNCHANGED <<room, now, sent, discarded>>

GiveUp(dst) ==
  \E lost \in SUBSET (Overdue \cup (held \cap For(dst))) :
    held \cap For(dst) \subseteq lost /\ Leave({}, {}, lost)

(* All that is in time goes to dst, or all up to one that is given up.     *)
HandOn(dst) ==
  \E out \in SUBSET (InTime \cap For(dst)), lost \in SUBSET Overdue :
    \/ out = InTime \cap For(dst) /\ Leave(out, {}, lost)
    \/ \E p \in InTime \cap For(dst) : Leave(out, {p}, lost)

SetRoom ==
  /\ room' \in Limit
  /\ UNCHANGED <<held, due, now, accepted, sent, dropped, discarded>>

Pass ==
  /\ now' = now + 1
  /\ UNCHANGED <<held, due, room, accepted, sent, dropped, discarded>>

Next ==
  \/ Forget
  \/ \E p \in Packet, timeout \in QueueTimeout : Accept(p, timeout)
  \/ \E dst \in Destination : GiveUp(dst) \/ HandOn(dst)
  \/ SetRoom
  \/ Pass

Spec == Init /\ [][Next]_buffer
=============================================================================
