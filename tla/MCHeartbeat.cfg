SPECIFICATION FairSpec
CONSTANTS
    PongWait = 30  PingPeriod = 27
    MaxWait = 5
    MaxAnswer = 1
    MaxUnread = 2
CHECK_DEADLOCK FALSE
INVARIANTS TypeOK DroppedOnlyWhenHeld VanishedIsNoticed
PROPERTY VanishedGoes
