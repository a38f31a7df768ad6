---------------------------- MODULE MCUserEvents ----------------------------
(* A finite instance of the user events for TLC. *)
EXTENDS UserEvents
=============================================================================
