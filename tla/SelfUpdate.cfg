SPECIFICATION Spec
CONSTANTS
    agent = agent
    rclone = rclone
    Files <- Programs
    Latest = 3
    Fails <- Second
    Worker = {w1, w2}
    Pieces = 2
    MaxStops = 1
    MaxFaults = 2
INVARIANTS
    TypeOK
    AllOrNone
    AWayBack
PROPERTIES
    FailedUpdatesGoBack
CHECK_DEADLOCK FALSE
CONSTRAINT WhileClean
