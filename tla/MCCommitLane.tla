----------------------------- MODULE MCCommitLane -----------------------------
(* Model-checking instance of CommitLane. *)
EXTENDS CommitLaneRefinement, TLC

===============================================================================
