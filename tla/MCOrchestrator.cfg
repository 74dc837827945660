SPECIFICATION FairSpec
CONSTANTS
    c1 = c1  u1 = u1  u2 = u2  r1 = r1  r2 = r2  lamp = lamp
    Senders = {c1}
    Users = {u1, u2}
    UserOf <- OneUsers
    Devices <- TwoLamps
    Reporters = {1}
    Rooms = {r1, r2}
    Types = {lamp}
    RoomOf <- LampRooms
    TypeOf <- LampTypes
    Ids = {1}
    NoId = NoId
    NoReporter = NoReporter
    NoUser = NoUser
    Absent = Absent
    Unnamed = Unnamed
INVARIANTS TypeOK CommandsOwned RoomRespected CommandKept SilentDevicesGo
PROPERTY MessagesEnd
