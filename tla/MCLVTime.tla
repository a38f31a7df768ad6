------------------------------ MODULE MCLVTime ------------------------------
(* Words of three bytes of two bits; doubles with five significant bits. *)
EXTENDS LVTime
=============================================================================
