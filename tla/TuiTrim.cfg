CONSTANTS
    me = me
    ann = ann
    ben = ben
    noPeer = noPeer
    wsLoop = wsLoop
    command = command
    Me = me
    Peers = {ann}
    NoPeer = noPeer
    MaxBuffer = 2
    MaxMsgs = 3
    Tasks = {wsLoop, command}
    loop = wsLoop
    HistoryLimit = 1
    ReloadLimits = {1}
    SyncLimit = 1
    Taken = {}
    MaxSends = 0
    MaxFrames = 1
SPECIFICATION Spec
INVARIANTS
    TypeOK
    DedupSound
    NoIndexError
    PagesCover
    NothingSkipped
    WatermarkDurable
PROPERTIES
    VanishForAReason
    WatermarkForward
CHECK_DEADLOCK FALSE
