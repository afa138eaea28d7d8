------------------------------ MODULE MCRaodv -------------------------------
(* Small networks and traffic patterns for model-checking Raodv.           *)
EXTENDS Raodv

CONSTANTS s, i, d

MCNode == {s, i, d}

Chain == {<<s, i>>, <<i, s>>, <<i, d>>, <<d, i>>}
Triangle == Chain \cup {<<s, d>>, <<d, s>>}

(* The hypothesis of NoLoopInForests tells the two apart.                  *)
ASSUME ChainIsForest == Forest(Chain) /\ ~Forest(Triangle)

OneWay == {<<s, d>>}
FromBoth == {<<s, d>>, <<i, d>>}
ToBoth == {<<s, i>>, <<s, d>>}
TwoWay == {<<s, d>>, <<d, s>>}
=============================================================================
