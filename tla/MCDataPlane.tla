---------------------------- MODULE MCDataPlane -----------------------------
(* Instances of DataPlane for TLC: two or three descriptors in a ring, so  *)
(* that a ring fills up and its indices wrap.                              *)
EXTENDS DataPlane

TwoEach   == [k \in {"rx", "tx"} |-> 2]
ThreeEach == [k \in {"rx", "tx"} |-> 3]
OneEach   == [k \in {"rx", "tx"} |-> 1]
AllPorts  == 0 .. NumPorts - 1
NoPort    == {}
=============================================================================
