SPECIFICATION Spec
CONSTANTS
    r1 = r1  r2 = r2  r3 = r3  u1 = u1  u2 = u2  d1 = d1
    NoUser = NoUser  Absent = Absent  NoRequest = NoRequest
    Requests = {r1, r2}
    Users = {u1, u2}
    Devices = {d1}
PROPERTY OthersUntouched
