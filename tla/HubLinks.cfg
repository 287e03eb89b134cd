SPECIFICATION FairSpec

CONSTANTS
    Meg  = Meg
    Ned  = Ned
    megs = megs
    neds = neds
    Nobody    = Nobody
    Link      = {l1}
    Computer  = {megs, x}
    Member    = {Meg}
    Founder   = Meg
    Enrolled <- RowsAtTheStart
    Operator  = {"invite", "revoke", "remove", "destroy"}
    MaxFolder = 1
    MaxMade   = 2
    MaxStops  = 1

INVARIANTS
    TypeOK

PROPERTIES
    OneTime
    JoinsStayOnRecord
    PlaceholdersGo
    ExpiredKeysAreWiped

CHECK_DEADLOCK FALSE
