\* Four requests over one user and the administrator, tokens that live for a second of two ticks.
SPECIFICATION Spec
CONSTANTS
    User = {u1}
    Request = {r1, r2, r3, r4}
    None = None
    Ticks = 2
    AccessTtl = 1
    RefreshTtl = 1
    MaxClock = 3
    MaxFaults = 1
SYMMETRY RequestSymmetry
INVARIANTS
    TypeOK
    RevokedUntilExpiry
    WithdrawnIsRefused
PROPERTY
    DeactivationEndsTheChain
\* The clock stops at MaxClock.
CHECK_DEADLOCK FALSE
