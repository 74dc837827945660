SPECIFICATION Spec
CONSTANTS
    c1 = c1  c2 = c2  u1 = u1
    NoConn = NoConn
    Conns = {c1, c2}
    Users = {u1}
    UserOf <- TwoTabs
    SendCap = 1
INVARIANT NoSendOnClosed
