CONSTANTS
    k1 = k1
    r1 = r1
    r2 = r2
    c = c
    manual = manual
    Fields <- MCFields
    None = None
    Key = {k1}
    Specs <- MCSpecs
    SpecsOf <- Owners
    AZs = {1}
    Versions = {0, 1, 2, 3, 4, 5}
    MaxFaults = 1
SPECIFICATION FairSpec
INVARIANTS
    TypeOK
    ConfigIsOriginal
    SettledIsConverged
PROPERTIES
    OriginalIsSame
    ImplementsLifecycle
    CreationCompletes
CHECK_DEADLOCK FALSE
