--------------------------- MODULE MCGhostSlots ---------------------------
(* A small instance of GhostSlots for TLC. *)
EXTENDS GhostSlots
CONSTANTS c1, c2
MCTimes == {1, 2}
MCTracks == {1, 2}
===========================================================================
