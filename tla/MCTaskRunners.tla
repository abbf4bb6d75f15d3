--------------------------- MODULE MCTaskRunners ---------------------------
(* Small instances of the task runners. *)
EXTENDS TaskRunners, TLC
CONSTANTS a1, a2
TwoAgents == {a1, a2}
Symmetric == Permutations(TwoAgents)
=============================================================================
