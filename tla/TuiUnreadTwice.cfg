CONSTANTS
    me = me
    ann = ann
    ben = ben
    noPeer = noPeer
    wsLoop = wsLoop
    command = command
    Me = me
    Peers = {ann}
    NoPeer = noPeer
    MaxBuffer = 2
    MaxMsgs = 3
    Tasks = {wsLoop, command}
    loop = wsLoop
    HistoryLimit = 2
    ReloadLimits = {1}
    SyncLimit = 1
    Taken = {}
    MaxSends = 3
    MaxFrames = 3
SPECIFICATION Spec
INVARIANTS
    UnreadNotOvercounted
CHECK_DEADLOCK FALSE
