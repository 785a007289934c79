------------------------------- MODULE MCCutTm -------------------------------
(***************************************************************************)
(* Parts of three bytes behind a header of one, two parts at most: sizes   *)
(* that fill the last part, that do not, none, and one that is too large   *)
(* for the array.  With two cuts and two faults a telemetry is rebuilt     *)
(* from an older file, from the file of an earlier program, and with an    *)
(* output_size that is too large, by little and by much.                   *)
(***************************************************************************)
EXTENDS CutTm

MCSizes == {0, 1, 3, 4, 5, 7}
=============================================================================
