\* Every push, build and report is bounded, so that the system comes to rest.
CHECK_DEADLOCK FALSE
SPECIFICATION Spec
CONSTANTS
    Configurations <- MCConfigurations
    NoApp = NoApp
    NoPush = NoPush
    Handlers = {h1, h2}
    CacheLimit = 1
    MaxRuns = 2
SYMMETRY MCSymmetry
INVARIANTS
    OneDeploymentPerBuild
    RedeliveryStartsNothing
    OnlyAffected
    AcceptedIsComplete
