CONSTANTS
  NRoutes = 2
  MaxDeployments = 4
  MaxCrashes = 2
  MaxFaults = 2
SPECIFICATION Spec
INVARIANTS
  SlotsAreUnambiguous
  NoSingletonOverlap
  TrafficOnlyToChecked
  EveryRunSettles
\* The bounded number of deployments has been run.
CHECK_DEADLOCK FALSE
