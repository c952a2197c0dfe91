CONSTANTS
    alice = alice
    bob = bob
    carol = carol
    a1 = a1
    a2 = a2
    b1 = b1
    m1 = m1
    m2 = m2
    m3 = m3
    NoConn = NoConn
    NoMsg = NoMsg
    Users = {alice, bob}
    Conns = {a1, b1}
    MsgIds = {m1, m2, m3}
    UserOf <- MCUserOf
    Drafts <- PairDrafts
    SendCap = 2
    HubCap = 2
    MaxReads <- PairReads
SPECIFICATION Spec
INVARIANTS
    PerSenderOrder
    OneOutcome
    DeliveredMeansQueued
PROPERTIES
    ImplementsMailbox
CHECK_DEADLOCK FALSE
