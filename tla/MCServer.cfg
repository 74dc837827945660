SPECIFICATION FairSpec
CONSTANTS
    Requests = {1, 2}
    Streams = {1, 2}
    Forms <- ThreeForms
    Logins <- ThreeLogins
    NoUser = NoUser
    MaxDeltas = 1
CHECK_DEADLOCK FALSE
INVARIANTS TypeOK RegisteredStays RefusedRightly InternalMeansRace OneWriter StreamWellFormed HandlersServed
PROPERTIES CutOnlyAfterGrace RequestsEnd
