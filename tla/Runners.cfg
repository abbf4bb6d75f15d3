SPECIFICATION Spec
CONSTANTS
    a1 = a1  a2 = a2
    Agents <- TwoAgents
    MaxPuts = 2
    MaxPauses = 1
    MaxStarts = 2
    MaxRemovals = 1
CHECK_DEADLOCK FALSE
INVARIANTS
    NeverStartsTwice
    JoinsOnlyStopped
    StoppedIsQuiet
    SuspendedIsQuiet
    FollowsDatabase
    NobodyJoinsSleeper
SYMMETRY Symmetric
