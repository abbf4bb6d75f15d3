SPECIFICATION Spec
CONSTANTS
    r1 = r1  r2 = r2  r3 = r3  h1 = h1  h2 = h2  ag1 = ag1  ag2 = ag2  None = None
    Resources <- MCResources
    Hashes <- MCHashes
    Agents = {ag1, ag2}
    AgentOf <- TwoAgents
    Releases <- EventReleases
    MaxVersions = 2
    Scopes = {{r1, r2, r3}}
    Reports = {"deployed", "skipped_for_dependency", "non_compliant"}
    AllowBatches = FALSE
    Senders = {r1, r2}
    Receivers = {r2, r3}
    PeriodicRepair = FALSE
    PeriodicDeploy = FALSE
    DbMayFail = FALSE

CHECK_DEADLOCK FALSE
INVARIANTS
    SkippedHasBadDependency
    DirtyIsComplete
PROPERTIES
    EventsNotLost
