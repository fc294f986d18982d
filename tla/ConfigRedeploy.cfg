SPECIFICATION Spec
\* The bounds on rows and revisions end every behaviour.
CHECK_DEADLOCK FALSE
CONSTANTS
  Apps = {a1}
  Values = {none, v1}
  NoConfig = none
  NoState = nostate
  MaxDeployments = 3
  MaxEdits = 2
INVARIANTS FlagFollowsDrift CountersNeverAhead
PROPERTY RedeployKeepsArtifact
