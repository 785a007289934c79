--------------------------- MODULE MCBinarySearch ---------------------------
(***************************************************************************)
(* Every sorted array of up to five of four values, with equal elements,   *)
(* searched for values inside it, between its elements and outside it.     *)
(***************************************************************************)
EXTENDS BinarySearch

MCValue == 0 .. 3
=============================================================================
