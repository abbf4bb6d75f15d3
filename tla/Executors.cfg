SPECIFICATION Spec
CONSTANTS
    a1 = a1  a2 = a2  b1 = b1  b2 = b2
    Agents <- TwoAgents
    Blueprints <- TwoBlueprints
    Ids <- SharedProcess
    Cap = 1
    MaxProcesses = 2
    MaxExecutors = 3
    MaxCrashes = 1

CHECK_DEADLOCK FALSE
INVARIANTS
    RunningIsTracked
    ProcessIsUsed
    CapRespected
    WorkIsNotInterrupted
    JoinedMeansStopped
    NoWaitCycle
