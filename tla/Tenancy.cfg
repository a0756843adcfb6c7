CONSTANTS
    d1 = d1
    t1 = t1
    u1 = u1
    None = None
    Director = {d1}
    TeamKey = {t1}
    UAA = {u1}
    Passwords = {p1, p2, p3}
    TeamOf <- Generated
    UAAsOf <- Points
    Versions = {0, 1, 2, 3, 4}
    MaxFaults = 1
SPECIFICATION FairSpec
INVARIANTS
    TypeOK
    TeamHasDirector
PROPERTIES
    ImplementsTeams
    DirectorDeletionCompletes
    DirectorGetsTeam
CHECK_DEADLOCK FALSE
