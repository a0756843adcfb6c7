CONSTANTS
    k1 = k1
    k2 = k2
    d1 = d1
    d2 = d2
    u1 = u1
    u2 = u2
    p1 = p1
    p2 = p2
    p3 = p3
    p4 = p4
    None = None
    Key = {k1}
    Specs = {d1, d2}
    SpecsOf <- OneOwner
    UAA = {u1, u2}
    UAAsOf <- Fixed
    Passwords = {p1, p2, p3, p4}
    Versions = {0, 1, 2, 3, 4, 5, 6}
    MaxFaults = 1
SPECIFICATION FairSpec
INVARIANTS
    TypeOK
    UsableUntilFault
    NoOrphanClient
    NoOrphanSecret
PROPERTIES
    ImplementsLifecycle
    Completes
CHECK_DEADLOCK FALSE
