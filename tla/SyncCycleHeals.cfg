SPECIFICATION FairSpec

CONSTANTS
    Dir      = {d1}
    Changes  = {}
    Asks     = {"hub"}
    Failures = {"refused", "unusable", "other"}
    MaxGen   = 1
    MaxStops = 1

PROPERTIES
    ChosenFullSyncsRun
    LostListingsHeal
