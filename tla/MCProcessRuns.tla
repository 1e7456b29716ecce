--------------------------- MODULE MCProcessRuns ---------------------------
(* Instances of ProcessRuns for TLC: one process without child-process      *)
(* nodes, and one whose nodes call the process itself, so that runs nest as *)
(* deep as there are runs.                                                  *)
EXTENDS ProcessRuns, TLC

CONSTANTS p

NoChild == p :> NoProcess
SelfChild == p :> p

RunSymmetry == Permutations(Runs)
=============================================================================
