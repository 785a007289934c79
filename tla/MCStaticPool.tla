---------------------------- MODULE MCStaticPool ----------------------------
(***************************************************************************)
(* A pool of four bytes and four blocks: enough to use the pool up one by  *)
(* one, for a block that fits exactly, and for sizes that are negative.    *)
(* Integers have four bits, so that the space left can grow to its limit   *)
(* and the difference wrap.                                                *)
(***************************************************************************)
EXTENDS StaticPool

MCSizes == {-8, -1, 0, 1, 2, 4, 5}
=============================================================================
