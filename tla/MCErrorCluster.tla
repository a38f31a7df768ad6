--------------------------- MODULE MCErrorCluster ---------------------------
(* A finite instance of the error cluster for TLC. *)
EXTENDS ErrorCluster

(* Success, an MgError, the default code of ToLvError, a code of the crate, *)
(* and one of the user range.                                               *)
MCCode == {SUCCESS, 1, BogusError, InvalidMgErrorCode, -8000}
=============================================================================
