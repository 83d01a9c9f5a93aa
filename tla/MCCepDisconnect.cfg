CONSTANTS
    a = a
    b = b
    NoNode = NoNode
    Node <- MCNode
    Ops <- MCOps
    UserQpn <- MCUserQpn
    MaxIssued <- MCMaxIssued
    CidCount = 2
    Qpn = {5, 6}
    SendIds = {1, 2}
    ModifierRange = 256
    MaxFaults = 0
    MaxEvents = 1
    ActiveIssued = 2
    PassiveIssued = 2
    ActiveQpn = {5}
    PassiveQpn = {6}
    ActiveOps = {"lap", "dreq", "poll", "destroy"}
    PassiveOps = {"poll", "mra", "pre_apr", "send_apr", "drep", "destroy"}
SPECIFICATION AloneSpec
CHECK_DEADLOCK FALSE
INVARIANTS
    TimewaitList
    FreedIsClean
    WaitingHasSend
PROPERTIES
    SendReplaced
    PreparedMadKept
