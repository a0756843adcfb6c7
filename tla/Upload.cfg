CONSTANTS
    k1 = k1
    s1 = s1
    s2 = s2
    s3 = s3
    a1 = a1
    a2 = a2
    None = None
    Key = {k1}
    Specs <- MCSpecs
    SpecsOf <- OneOwner
    Artifacts <- MCArtifacts
    Declared <- MCDeclared
    Served <- MCDeclared
    Slow = {a2}
    Versions = {0, 1, 2, 3, 4, 5, 6}
    MaxFaults = 2
SPECIFICATION FairSpec
INVARIANTS
    TypeOK
    NoOrphan
    AvailableIsPresent
    SettledIsConverged
PROPERTIES
    OriginalIsFrozen
    DeletedOnDemand
    ImplementsLifecycle
    Completes
CHECK_DEADLOCK FALSE
