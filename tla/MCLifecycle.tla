---------------------------- MODULE MCLifecycle ----------------------------
(* Small instance of Lifecycle for TLC.                                    *)
EXTENDS Lifecycle

\* Neither the processes nor the PCI functions differ from one another.
Symmetry == Permutations(Device) \cup Permutations(Proc)
=============================================================================
