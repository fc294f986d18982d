\* Every application may end up deleted, with nothing left to do.
CHECK_DEADLOCK FALSE
CONSTANTS
  Apps = {a1, a2}
  Names = {"web", "api", "web-blue"}
  NoName = NoName
  Slug <- MCSlug
  Domains = {d1}
  NoApp = NoApp
  MaxRequests = 3
SYMMETRY MCSymmetry
SPECIFICATION Spec
INVARIANTS NoOrphanStack NoOrphanRoute EachKeepsItsStack
