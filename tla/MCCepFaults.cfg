CONSTANTS
    a = a
    b = b
    NoNode = NoNode
    Node <- MCNode
    Ops <- MCOps
    UserQpn <- MCUserQpn
    MaxIssued <- MCMaxIssued
    CidCount = 2
    Qpn = {5, 6}
    SendIds = {1, 2}
    ModifierRange = 256
    MaxFaults = 1
    MaxEvents = 1
    ActiveIssued = 2
    PassiveIssued = 2
    ActiveQpn = {5}
    PassiveQpn = {6}
    ActiveOps = {"pre_req", "send_req", "rtu", "dreq", "rej", "destroy", "listen"}
    PassiveOps = {"poll", "pre_rep", "send_rep", "established", "rej", "destroy"}
SPECIFICATION ReadySpec
CHECK_DEADLOCK FALSE
INVARIANTS
    References
PROPERTIES
    PreparedMadKept
