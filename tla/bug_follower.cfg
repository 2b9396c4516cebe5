SPECIFICATION FairFollower
CONSTANT MaxLSN = 2
PROPERTY RemovalEndsLoop
CHECK_DEADLOCK FALSE
