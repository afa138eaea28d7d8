------------------------------ MODULE MCFlood -------------------------------
(* A circle of three nodes, of which two hear each other: floods come back *)
(* to the node before and, around the circle, to their origin, there at    *)
(* the latest when their id is just about to be forgotten.                 *)
EXTENDS Flood

CONSTANTS n1, n2, n3

MCNode == {n1, n2, n3}
MCLink == {<<n1, n2>>, <<n2, n3>>, <<n3, n1>>, <<n2, n1>>}
=============================================================================
