CONSTANTS
  Applications = {a1}
  NoApplication = NoApplication
  Workers = {w1, w2}
  RecoveryLimit = 1
  MaxDeployments = 2
  MaxRestarts = 2
  MaxFaults = 1
SPECIFICATION Spec
SYMMETRY WorkerSymmetry
INVARIANTS
  OneInProgress
  OneWorkerPerDeployment
  RunsAtMostOnce
PROPERTIES
  ImplementsLifecycle
\* The bounded number of rows is used up and every worker waits in BLPOP.
CHECK_DEADLOCK FALSE
