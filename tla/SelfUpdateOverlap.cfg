SPECIFICATION Spec
CONSTANTS
    agent = agent
    rclone = rclone
    Files <- Programs
    Latest = 3
    Fails <- Second
    Worker = {w1, w2}
    Pieces = 2
    MaxStops = 0
    MaxFaults = 0
INVARIANT AlwaysAllOrNone
CHECK_DEADLOCK FALSE
