\* The number of requests and of ids is bounded.
CHECK_DEADLOCK FALSE
SPECIFICATION Spec
CONSTANTS
    Projects = {p1, p2}
    Envs = {e1, e2, e3}
    Apps = {a1, a2}
    Repos = {x}
    Services = {s}
    Requests = {r1, r2}
    None = None
    MaxRequests = 4
SYMMETRY MCSymmetry
INVARIANTS
    NothingDangles
    ProductionStays
    ServicesAreNotSwept
