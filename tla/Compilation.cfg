CONSTANTS
    k1 = k1
    s1 = s1
    s2 = s2
    s3 = s3
    d1 = d1
    d2 = d2
    None = None
    Key = {k1}
    Specs = {s1, s2, s3}
    SpecsOf <- Owners
    Directors = {d1, d2}
    DirectorOf <- MCDirectorOf
    Versions = {0, 1, 2, 3, 4, 5}
    MaxFaults = 1
SPECIFICATION FairSpec
INVARIANTS
    TypeOK
    ConfigIsClaimed
    SettledIsCurrent
PROPERTIES
    ImplementsLifecycle
    DeletionCompletes
CHECK_DEADLOCK FALSE
