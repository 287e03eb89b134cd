SPECIFICATION Spec

CONSTANTS
    Dir      = {d1}
    Changes  = {"removed", "generation", "role", "long_paths"}
    Asks     = {"hub"}
    Failures = {"refused", "unusable"}
    MaxGen   = 2
    MaxStops = 0

INVARIANTS
    TypeOK
    OnlyChosenFullSyncsWhileRefused

PROPERTIES
    ChoicesAreKept
