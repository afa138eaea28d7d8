---------------------------- MODULE MCNeighbors -----------------------------
(* A node with an interface that has one address and one that may have     *)
(* two, and a neighbour heard of for one or two ticks of time.             *)
EXTENDS Interfaces, TLC

CONSTANTS peer, wifi, wire, p, q, r

MCInterface == {wifi, wire}
MCOwnOf == wifi :> {p, q} @@ wire :> {r}
MCMaxSockets == p :> 2 @@ q :> 2 @@ r :> 1
Either == Permutations({p, q})
=============================================================================
