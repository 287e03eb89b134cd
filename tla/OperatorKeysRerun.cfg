SPECIFICATION Spec

CONSTANTS
    s1 = s1
    s2 = s2
    Computer  = {c1}
    Nobody    = Nobody
    Canary    = Canary
    Shell     = {s1, s2}
    May      <- Alone
    MaxGen    = 2
    MaxKeys   = 3

PROPERTIES
    GrantsOpenTheTree

CHECK_DEADLOCK FALSE
