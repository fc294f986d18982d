CONSTANTS
  Applications = {a1, a2}
  NoApplication = NoApplication
  Workers = {w1}
  RecoveryLimit = 2
  MaxDeployments = 2
  MaxRestarts = 2
  MaxFaults = 0
SPECIFICATION FairSpec
INVARIANTS
  NoneStranded
  WorkerOwnsRow
  AppStatusIsLastOutcome
PROPERTIES
  OutcomeIsFinal
  QueuedIsServed
  RunningEnds
\* The bounded number of rows is used up and every worker waits in BLPOP.
CHECK_DEADLOCK FALSE
