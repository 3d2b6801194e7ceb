---------------------------- MODULE MCTrajectory ----------------------------
(* Trajectory for TLC: the sessions are interchangeable, and a history is   *)
(* followed up to its bounds.                                               *)
EXTENDS Trajectory, TLC

Symmetry == Permutations(Sessions)
=============================================================================
