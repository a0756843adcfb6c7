CONSTANTS
    k1 = k1
    k2 = k2
    s1 = s1
    s2 = s2
    a = a
    b = b
    c = c
    None = None
    Key = {k1, k2}
    Specs = {s1, s2}
    SpecsOf <- OneSpec
    Word = {a, b, c}
    NamespaceOf <- Namespaces
    NameOf <- Ambiguous
    Versions = {0, 1, 2, 3, 4}
    MaxFaults = 0
SPECIFICATION Spec
INVARIANT
    AvailableIsConfigured
CHECK_DEADLOCK FALSE
