SPECIFICATION FairSpec
CONSTANTS
    full = full
    partial = partial
    Keys <- BothKeys
    RecoveryKey = full
    Kinds <- FullCompile
    InTransaction <- PartialCompile
    MaxRequests = 1
    MaxDisruptions = 1
CHECK_DEADLOCK FALSE
INVARIANT OneCompilePerEnvironment BlockersBeforeNextCompile HandledIsDelivered MergeLosesNothing QueueCountIsLength LocalStateIsCurrent
PROPERTY RequestsAreServed
