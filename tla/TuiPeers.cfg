CONSTANTS
    me = me
    ann = ann
    ben = ben
    noPeer = noPeer
    wsLoop = wsLoop
    command = command
    Me = me
    Peers = {ann, ben}
    NoPeer = noPeer
    MaxBuffer = 2
    MaxMsgs = 2
    Tasks = {wsLoop, command}
    loop = wsLoop
    HistoryLimit = 2
    ReloadLimits = {2}
    SyncLimit = 1
    Taken = {2}
    MaxSends = 2
    MaxFrames = 2
SPECIFICATION Spec
INVARIANTS
    CurrentIsRead
    SentIsStored
CHECK_DEADLOCK FALSE
SYMMETRY Symmetry
