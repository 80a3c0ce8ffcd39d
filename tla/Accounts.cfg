\* Four requests on three users with two addresses and a key, with one fault.
SPECIFICATION Spec
CONSTANTS
    k1 = k1
    e1 = e1
    e2 = e2
    r1 = r1
    r2 = r2
    r3 = r3
    r4 = r4
    None = None
    User = {1, 2, 3}
    Key = {k1}
    Email = {e1, e2}
    Request = {r1, r2, r3, r4}
    Limit = 1
    MaxNow = 1
    MaxFaults = 1
SYMMETRY AccountsSymmetry
INVARIANTS
    TypeOK
    OneAccountPerEmail
    DeletedOnce
    WalkListsEachOnce
\* A request that has been answered is over.
CHECK_DEADLOCK FALSE
