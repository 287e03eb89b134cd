SPECIFICATION Spec

CONSTANTS
    o = o
    m = m
    n = n
    o1 = o1
    o2 = o2
    m1 = m1
    m2 = m2
    Person    = {o, m, n}
    Device    = {o1, m1}
    PersonOf <- PersonOfEach
    Owner     = o
    Elsewhere = {m}
    Founders  = {o, m, n}
    Call      = {c1}
    MaxKeys   = 3
    MaxLinks  = 0

INVARIANTS
    TypeOK
    SavedWithTheTreesKey
    KeysNeverAheadOfTheHub
    OneKeyPerGeneration
    TheRowsCredentialLives

PROPERTIES
    TheSwitchLocksTheRemovedOut

CONSTRAINTS OneLeak OneBeat
