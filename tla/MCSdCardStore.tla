---------------------------- MODULE MCSdCardStore ----------------------------
(***************************************************************************)
(* A ring of three slots, three dates and two faults: enough for used      *)
(* slots that turn at the end of the ring, a stop after a store or within  *)
(* a deletion, and a second fault after the restart.                       *)
(***************************************************************************)
EXTENDS SdCardStore

MCTime == 1 .. 3
MCSizes == {2, 3}
=============================================================================
