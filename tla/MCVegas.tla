------------------------------- MODULE MCVegas -------------------------------
(* Segments of four bytes, so that thresholds fall between them.           *)
EXTENDS Vegas
=============================================================================
