\* The number of requests is bounded.
CHECK_DEADLOCK FALSE
SPECIFICATION ConnectorsSpec
CONSTANTS
    Creds = {"a", "b", "key"}
    SshKeys = {"key"}
    Facts = {"access", "f"}
    Servers = {"f"}
    Statuses = {"active", "unknown", "rotating", "revoked", "other"}
    Batches <- MCBatches
    Requests = {r1, r2}
    None = None
    MaxImports = 1
    MaxFaults = 1
    Repos = {"a", "b"}
    BuildApps = {"x", "y"}
    NoTarget = NoTarget
    NoAccount = NoAccount
    Access = "access"
    Configs <- MCConfigs
    PerPage = 1
    MaxSaves = 3
    MaxChanges = 1
INVARIANTS
    OkMeansImported
    InventoryIsOneImport
PROPERTY
    SyncKeepsTargets
SYMMETRY MCSymmetry
