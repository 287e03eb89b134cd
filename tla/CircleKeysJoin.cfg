SPECIFICATION Spec

CONSTANTS
    o = o
    m = m
    n = n
    o1 = o1
    o2 = o2
    m1 = m1
    m2 = m2
    Person    = {o, m}
    Device    = {o1, m1, m2}
    PersonOf <- PersonOfEach
    Owner     = o
    Elsewhere = {m}
    Founders  = {o, m}
    Call      = {c1}
    MaxKeys   = 2
    MaxLinks  = 1

INVARIANTS
    SavedWithTheTreesKey
    OutsidersGetNoNewKey

PROPERTIES
    JoinsNeverDowngrade

CONSTRAINTS OneJoiner OneLeak
