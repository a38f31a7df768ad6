----------------------------- MODULE MCApiLoader -----------------------------
(* A finite instance of the loader for TLC. *)
EXTENDS ApiLoader
=============================================================================
