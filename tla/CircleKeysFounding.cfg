SPECIFICATION FairSpec

CONSTANTS
    o = o
    m = m
    n = n
    o1 = o1
    o2 = o2
    m1 = m1
    m2 = m2
    Person    = {o, m}
    Device    = {o1, o2}
    PersonOf <- PersonOfEach
    Owner     = o
    Elsewhere = {m}
    Founders  = {}
    Call      = {c1}
    MaxKeys   = 2
    MaxLinks  = 0

PROPERTIES
    KeysAreNeverLost
    GrantsArrive
