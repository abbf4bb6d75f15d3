SPECIFICATION PersistenceSpec
CONSTANTS
    r1 = r1  r2 = r2  h1 = h1  h2 = h2  h3 = h3  ag1 = ag1  ag2 = ag2  None = None
    Resources <- Pair
    Hashes = {h1, h2, h3}
    Agents = {ag1, ag2}
    AgentOf <- PairAgents
    Releases <- PairReleases
    MaxVersions = 3
    Scopes = {}
    Reports = {"deployed", "skipped_for_dependency"}
    AllowBatches = FALSE
    Senders = {r1}
    Receivers = {r2}
    PeriodicRepair = FALSE
    PeriodicDeploy = FALSE
    DbMayFail = FALSE
    MaxCrashes = 2
    ReadAfterFailure = FALSE

CHECK_DEADLOCK FALSE
INVARIANTS
    NothingForgotten
    EventsSurvive
    RowsFollowModel
    RestartMissesNoUpdate
