-------------------------- MODULE MCGhostAutosave --------------------------
(* A small instance of GhostAutosave for TLC. *)
EXTENDS GhostAutosave

MCTimes == {1, 2}
\* A run of each time, with no samples after the goal but the first.
MCRun(t) == [finish_ms |-> t, goal_samples |-> 1, points |-> 2]
MCFirstFiles == {Absent, Corrupt} \cup {MCRun(t) : t \in MCTimes}
=============================================================================
