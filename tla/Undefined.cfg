SPECIFICATION Spec
CONSTANTS
    r1 = r1  r2 = r2  r3 = r3  h1 = h1  h2 = h2  ag1 = ag1  ag2 = ag2  None = None
    Resources <- MCResources
    Hashes <- MCHashes
    Agents = {ag1, ag2}
    AgentOf <- TwoAgents
    Releases <- UndefinedReleases
    MaxVersions = 3
    Scopes = {}
    Reports = {"deployed", "unavailable"}
    AllowBatches = FALSE
    Senders = {}
    Receivers = {}
    PeriodicRepair = FALSE
    PeriodicDeploy = TRUE
    DbMayFail = FALSE

CHECK_DEADLOCK FALSE
INVARIANTS
    BlockedIsUndefined
    BlockedNotScheduled
