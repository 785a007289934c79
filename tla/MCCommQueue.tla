----------------------------- MODULE MCCommQueue -----------------------------
(***************************************************************************)
(* Two kinds of item, rings of up to four slots and a small area, so that  *)
(* every refusal of create_queue, both wraps and both limits are reached.  *)
(***************************************************************************)
EXTENDS CommQueue

MCLengths == 0 .. 4
MCSizes == 0 .. 3
=============================================================================
