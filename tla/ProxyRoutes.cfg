\* Saves and faults are bounded, and a server may simply keep its routes.
CHECK_DEADLOCK FALSE
CONSTANTS
  Colors = {blue, green}
  Domains = {"d1", "d2"}
  Requests = {r1}
  Worker = Worker
  MaxSaves = 2
  MaxFaults <- MCMaxFaults
SYMMETRY MCSymmetry
SPECIFICATION Spec
INVARIANTS AppliedIsLive NoOrphanRoute
