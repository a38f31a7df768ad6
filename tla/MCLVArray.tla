------------------------------ MODULE MCLVArray ------------------------------
(* A finite instance of the array for TLC: two dimensions from -1 to 3 and a  *)
(* 3-bit usize, so that 3 x 3 overflows, 2 x 3 fits usize but not the memory, *)
(* and 2 x 2 fits both.                                                       *)
EXTENDS LVArray
MCI32Min == -1
=============================================================================
