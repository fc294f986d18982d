\* The number of deployments is bounded.
CHECK_DEADLOCK FALSE
SPECIFICATION Spec
CONSTANTS
    Images = {img}
    NoRef = NoRef
    Requests = {r1}
    MaxCommits = 2
    MaxDeployments = 3
    MaxFaults = 2
INVARIANTS
    RecordedIsBuilt
    RetryRepeats
    RollbackRestoresNamed
