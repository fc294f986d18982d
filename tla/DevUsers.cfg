\* The number of requests is bounded, so that the system comes to rest.
CHECK_DEADLOCK FALSE
SPECIFICATION UsersSpec
CONSTANTS
    Names = {u1, u2, u3, bad}
    Users = {u1, u2, u3}
    Seed = {u1}
    Callers = {r1, r2}
    MaxCalls = 3
    MaxFaults = 2
SYMMETRY MCSymmetry
INVARIANTS
    SettledAgrees
    AccessIsRevoked
