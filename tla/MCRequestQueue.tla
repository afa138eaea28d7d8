--------------------------- MODULE MCRequestQueue ---------------------------
(* Four packets for two destinations.  One is bound to an interface, one   *)
(* may come in again, while it is buffered or later.                       *)
EXTENDS RequestQueue

CONSTANTS p1, p2, p3, p4, d1, d2, i1, i2

MCPacket == {p1, p2, p3, p4}
MCDestination == {d1, d2}
MCInterface == {i1, i2}
MCDstOf == [p \in MCPacket |-> IF p = p4 THEN d2 ELSE d1]
MCOifOf == [p \in MCPacket |-> IF p = p2 THEN i1 ELSE AnyInterface]
MCMaxHandedIn == [p \in MCPacket |-> IF p = p1 THEN 2 ELSE 1]
=============================================================================
