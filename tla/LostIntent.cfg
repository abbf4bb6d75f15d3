SPECIFICATION PersistenceSpec
CONSTANTS
    r1 = r1  r2 = r2  h1 = h1  h2 = h2  h3 = h3  ag1 = ag1  ag2 = ag2  None = None
    Resources <- Pair
    Hashes = {h1, h2, h3}
    Agents = {ag1, ag2}
    AgentOf <- PairAgents
    Releases <- UpdateReleases
    MaxVersions = 3
    Scopes = {}
    Reports = {"deployed"}
    AllowBatches = FALSE
    Senders = {}
    Receivers = {}
    PeriodicRepair = FALSE
    PeriodicDeploy = FALSE
    DbMayFail = FALSE
    MaxCrashes = 1
    ReadAfterFailure = TRUE

CHECK_DEADLOCK FALSE
INVARIANT NothingForgotten
