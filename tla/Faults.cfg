SPECIFICATION Spec
CONSTANTS
    r1 = r1  r2 = r2  h1 = h1  h2 = h2  ag1 = ag1  ag2 = ag2  None = None
    Resources <- Pair
    Hashes <- MCHashes
    Agents = {ag1, ag2}
    AgentOf <- PairAgents
    Releases <- PairReleases
    MaxVersions = 3
    Scopes = {{r2}}
    Reports = {"deployed", "failed"}
    AllowBatches = TRUE
    Senders = {r1}
    Receivers = {r2}
    PeriodicRepair = FALSE
    PeriodicDeploy = FALSE
    DbMayFail = TRUE

CHECK_DEADLOCK FALSE
INVARIANTS
    ComplianceInvariant
PROPERTIES
    ImplementsDesiredState
