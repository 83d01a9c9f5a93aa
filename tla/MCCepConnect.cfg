CONSTANTS
    a = a
    b = b
    NoNode = NoNode
    Node <- MCNode
    Ops <- MCOps
    UserQpn <- MCUserQpn
    MaxIssued <- MCMaxIssued
    CidCount = 2
    Qpn = {5, 6, 7}
    SendIds = {1}
    ModifierRange = 256
    MaxFaults = 0
    MaxEvents = 1
    ActiveIssued = 3
    PassiveIssued = 2
    ActiveQpn = {5, 7}
    PassiveQpn = {6}
    ActiveOps = {"pre_req", "send_req", "rtu"}
    PassiveOps = {"destroy", "drop", "poll", "pre_rep", "send_rep"}
SPECIFICATION ReadySpec
CHECK_DEADLOCK FALSE
INVARIANTS
    QueuedIsSignalled
    CallbackOnce
    Owned
    MapsMirrorIds
    PeersAgree
