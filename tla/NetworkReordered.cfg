CONSTANTS
    k1 = k1
    r1 = r1
    r2 = r2
    c = c
    manual = manual
    Fields <- MCFields
    None = None
    Key = {k1}
    Specs <- MCSpecs
    SpecsOf <- Owners
    AZs = {1}
    Versions = {0, 1, 2, 3, 4, 5}
    MaxFaults = 0
SPECIFICATION Spec
PROPERTY
    NetworkIsFrozen
CHECK_DEADLOCK FALSE
