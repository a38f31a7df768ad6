-------------------------- MODULE MCSharedCluster --------------------------
(* A finite instance of the shared cluster for TLC: every thread has a copy *)
(* of the pointer.                                                          *)
EXTENDS SharedCluster

(* Success, the default code of ToLvError and a code of the crate. *)
MCCode == {SUCCESS, BogusError, InvalidMgErrorCode}
MCVia == [t \in Thread |-> t]
=============================================================================
