SPECIFICATION FairSpec
CONSTANTS
    t1 = t1
    t2 = t2
    a1 = a1
    a2 = a2
    k1 = k1
    k2 = k2
    Alert = {a1, a2}
    Thread = {t1}
    Client = {k1, k2}
    Interest <- MCInterest
    MaxReplay = 1
    MaxConn = 2
    MaxFaults = 1
CHECK_DEADLOCK FALSE
INVARIANTS
    NoPhantomAlert
    DeliveredWhileConnected
PROPERTY
    DeadPeersEvicted
