------------------------------- MODULE MCLane -------------------------------
(* Small instances of a lane for TLC. *)
EXTENDS LaneInv, TLC
=============================================================================
