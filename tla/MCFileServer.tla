---------------------------- MODULE MCFileServer -----------------------------
(* Two uploads of any names, or two browsers with any requests.            *)
EXTENDS FileServer

CONSTANTS u1, u2, g1, g2

MCUpload == {u1, u2}
MCGet == {g1, g2}
MCChunks == [u \in MCUpload |-> 2]
MCScenario ==
  [made : {MCUpload}, names : [MCUpload -> Name], asks : {[g \in MCGet |-> "/"]}]
    \cup
  [made : {MCGet}, names : {[u \in MCUpload |-> "a.txt"]}, asks : [MCGet -> Request]]
=============================================================================
