CONSTANTS
    a = a
    b = b
    NoNode = NoNode
    Node <- MCNode
    Ops <- MCOps
    UserQpn <- MCUserQpn
    MaxIssued <- MCMaxIssued
    CidCount = 3
    Qpn = {5, 6}
    SendIds = {1, 2}
    ModifierRange = 256
    MaxFaults = 0
    MaxEvents = 1
    ActiveIssued = 4
    PassiveIssued = 3
    ActiveQpn = {5}
    PassiveQpn = {6}
    ActiveOps = {"pre_req", "send_req", "rtu", "create", "destroy"}
    PassiveOps = {"create", "listen", "poll", "pre_rep", "send_rep"}
SPECIFICATION Spec
CHECK_DEADLOCK FALSE
INVARIANTS
    RemoteQpnsUnique
