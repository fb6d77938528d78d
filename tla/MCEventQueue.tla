---------------------------- MODULE MCEventQueue ----------------------------
(* EventQueue for TLC. *)
EXTENDS EventQueue
CONSTANTS p1, p2
=============================================================================
