SPECIFICATION Spec
CONSTANTS
    PongWait = 30  PingPeriod = 27
    MaxWait = 0
    MaxAnswer = 1
    MaxUnread = 2
CHECK_DEADLOCK FALSE
INVARIANT AliveStays
