---------------------------- MODULE MCOwnedHandle ----------------------------
(* A finite instance of the handles for TLC. *)
EXTENDS OwnedHandleRefinement, TLC

CONSTANTS h1, h2, h3, h4, t1, t2, d1, d2

Symmetry == Permutations({h1, h2, h3, h4}) \cup Permutations({t1, t2}) \cup Permutations({d1, d2})
=============================================================================
