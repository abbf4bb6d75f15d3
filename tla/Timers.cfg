SPECIFICATION ReportedSpec
CONSTANTS
    r1 = r1  r2 = r2  r3 = r3  h1 = h1  h2 = h2  ag1 = ag1  ag2 = ag2  None = None
    Resources <- MCResources
    Hashes <- MCHashes
    Agents = {ag1}
    AgentOf <- OneAgent
    Releases <- TimerReleases
    MaxVersions = 3
    Scopes = {}
    Reports = {"deployed", "failed"}
    AllowBatches = FALSE
    Senders = {}
    Receivers = {}
    PeriodicRepair = TRUE
    PeriodicDeploy = FALSE
    DbMayFail = FALSE

CHECK_DEADLOCK FALSE
INVARIANTS
    TimerCoverage
