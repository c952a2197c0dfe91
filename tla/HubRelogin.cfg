CONSTANTS
    alice = alice
    bob = bob
    carol = carol
    a1 = a1
    a2 = a2
    b1 = b1
    m1 = m1
    m2 = m2
    m3 = m3
    NoConn = NoConn
    NoMsg = NoMsg
    Users = {alice, bob}
    Conns = {a1, a2, b1}
    MsgIds = {m1, m2}
    UserOf <- MCUserOf
    Drafts <- MCDrafts
    SendCap = 1
    HubCap = 1
    MaxReads <- ReloginReads
SPECIFICATION Spec
INVARIANTS
    TypeOK
    RegistryConsistent
    OpenIffRegistered
    NoZombie
    AckedIsStored
    AtMostOnce
PROPERTIES
    RemovedForAReason
CHECK_DEADLOCK FALSE
SYMMETRY Symmetry
