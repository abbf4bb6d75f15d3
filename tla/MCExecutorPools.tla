------------------------- MODULE MCExecutorPools -------------------------
(* Small instances of the executor pools. *)
EXTENDS ExecutorPools
CONSTANTS a1, a2, b1, b2
TwoAgents == {a1, a2}
TwoBlueprints == {b1, b2}
SharedProcess == {<<a1, b1>>, <<a1, b2>>, <<a2, b1>>}
=============================================================================
