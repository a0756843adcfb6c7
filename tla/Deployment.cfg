CONSTANTS
    k1 = k1
    w1 = w1
    w2 = w2
    r1 = r1
    r2 = r2
    e1 = e1
    e2 = e2
    img = img
    net = net
    c1 = c1
    c2 = c2
    c3 = c3
    Empty = Empty
    o1 = o1
    o2 = o2
    b = b
    There = There
    t1 = t1
    t2 = t2
    d1 = d1
    None = None
    NoName = NoName
    Unready = Unready
    Key = {k1}
    Specs <- MCSpecs
    SpecsOf <- Owners
    Want = {w1, w2}
    Role = {r1, r2}
    Release = {e1, e2}
    Other = {img, net}
    RolesOf <- MCRolesOf
    ImportsOf <- NoImports
    ImageOf <- MCImageOf
    AZsOf <- MCAZsOf
    RestOf <- MCRestOf
    Content = {c1, c2, c3, Empty, o1, o2, b, There}
    ContentOf <- MCContentOf
    ReleaseOf <- MCReleaseOf
    Team = {t1, t2}
    Shown0 <- MostThere
    Teams0 <- OneOrTwo
    Director = {d1}
    MaxChanges = 1
    Versions = {0, 1, 2, 3}
    MaxFaults = 1
SPECIFICATION FairSpec
INVARIANTS
    TypeOK
    SettledIsDeployed
    SettledIsDictated
PROPERTIES
    ImplementsLifecycle
    DeploymentCompletes
CHECK_DEADLOCK FALSE
