---------------------------- MODULE MCEventLoop -----------------------------
(* Instances of EventLoop for TLC. *)
EXTENDS EventLoop

AllKinds    == Kind
Interrupts  == {"rx", "tx"}
=============================================================================
