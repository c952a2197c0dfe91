CONSTANTS
    home = home
    away = away
    ann = ann
    ben = ben
    noUser = noUser
    secret = secret
    noPassword = noPassword
    noToken = noToken
    command = command
    loopTask = loopTask
    Bases = {home, away}
    Default = home
    Users = {ann, ben}
    NoUser = noUser
    Passwords = {secret}
    NoPassword = noPassword
    NoToken = noToken
    Commands = {command}
    wsLoop = loopTask
    OpenBases = {home}
    MaxTokens = 2
    Inbox <- TwoRows
SPECIFICATION Spec
INVARIANTS
    InboxPulled
CHECK_DEADLOCK FALSE
