---------------------------- MODULE MCRamStorage ----------------------------
(***************************************************************************)
(* An array of six slots, storages of three and six elements and one that  *)
(* is too long, three dates.  Six slots are the fewest in which a period   *)
(* crosses the end of the ring with neither of its ends there while the    *)
(* newest element is not there either, so that a read misses as many       *)
(* elements as it ever does.                                               *)
(***************************************************************************)
EXTENDS RamStorage

MCCapacities == {3, 6, 7}
MCTime == 0 .. 2
MCBuffers == {2, 6}
=============================================================================
