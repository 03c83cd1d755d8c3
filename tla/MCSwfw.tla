------------------------------- MODULE MCSwfw -------------------------------
(* An instance of Swfw for TLC. *)
EXTENDS Swfw
=============================================================================
