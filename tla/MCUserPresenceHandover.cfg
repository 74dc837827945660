SPECIFICATION Spec
CONSTANTS
    c1 = c1  c2 = c2  u1 = u1
    NoConn = NoConn
    Conns = {c1, c2}
    Users = {u1}
    UserOf <- TwoTabs
    PingPeriod = 9
    OnlineTTL = 20
    MaxDelay = 0
    MaxFaults = 0
INVARIANT KeyWhileConnected
