SPECIFICATION Spec
CONSTANTS
    Devices = {}
    Rooms = {r1}
    Types = {light}
    Unnamed = Unnamed
    MaxReply = 6
CHECK_DEADLOCK FALSE
INVARIANTS LoneObjectUnderstood ExecutesTheOnlyOne WordsRespected
