------------------------------ MODULE DescRing ------------------------------
(***************************************************************************)
(* Index arithmetic of a descriptor ring (struct ixmap_ring, lib/ixmap.h,  *)
(* and the helpers at the top of lib/driver.c).  A ring of n descriptors   *)
(* is shared by a producer, which fills the descriptor at next_to_use, and *)
(* a consumer, which takes back the one at next_to_clean.  One descriptor  *)
(* always stays unused, so equal indices mean an empty ring.               *)
(***************************************************************************)
EXTENDS Integers

(* The descriptor indices of a ring of n descriptors. *)
Desc(n) == 0 .. n - 1

(* The successor of an index: "(next < num_desc) ? next : 0". *)
NextIndex(d, n) == IF d + 1 < n THEN d + 1 ELSE 0

(* Mutant: no descriptor is kept back, so a full ring looks empty. *)
UnusedWithoutGap(next_to_clean, next_to_use, num_desc) ==
  IF next_to_clean > next_to_use
    THEN next_to_clean - next_to_use
    ELSE (num_desc - next_to_use) + next_to_clean

(* ixmap_desc_unused: how many descriptors the producer may still fill. *)
ixmap_desc_unused(next_to_clean, next_to_use, num_desc) ==
  IF next_to_clean > next_to_use
    THEN next_to_clean - next_to_use - 1
    ELSE (num_desc - next_to_use) + next_to_clean - 1

(* Number of steps that lead from index a to index b around the ring. *)
Dist(a, b, n) == IF b >= a THEN b - a ELSE b - a + n

(* The state of one ring of n descriptors: c, h, t and u are next_to_clean, *)
(* head, tail and next_to_use in this order around the ring, and the done   *)
(* bits of the filled descriptors are those the NIC has passed.             *)
RingOK(c, h, t, u, done, n) ==
  /\ Dist(c, h, n) <= Dist(c, t, n)
  /\ Dist(c, t, n) <= Dist(c, u, n)
  /\ \A d \in Desc(n) :
       Dist(c, d, n) < Dist(c, u, n) => (done[d] <=> Dist(c, d, n) < Dist(c, h, n))

=============================================================================
