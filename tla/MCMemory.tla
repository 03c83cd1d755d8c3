------------------------------ MODULE MCMemory ------------------------------
(* An instance of Memory for TLC: an arena of odd size, so that halving it *)
(* loses a unit, and requests between the sizes of the nodes.              *)
EXTENDS Memory

MCRequests == {1, 2, 3, 5}
=============================================================================
