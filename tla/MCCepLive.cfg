CONSTANTS
    a = a
    b = b
    NoNode = NoNode
    Node <- MCNode
    Ops <- MCOps
    UserQpn <- MCUserQpn
    MaxIssued <- MCMaxIssued
    CidCount = 2
    Qpn = {5, 6}
    SendIds = {1}
    ModifierRange = 1
    MaxFaults = 0
    MaxEvents = 1
    ActiveIssued = 4
    PassiveIssued = 3
    ActiveQpn = {5}
    PassiveQpn = {6}
    ActiveOps = {"create", "pre_req", "send_req", "rtu"}
    PassiveOps = {"poll", "pre_rep", "send_rep", "cancel", "destroy"}
SPECIFICATION ConnectedFairSpec
CHECK_DEADLOCK FALSE
INVARIANTS
    RemoteIdsUnique
PROPERTIES
    DestroyedFreed
