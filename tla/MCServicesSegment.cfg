SPECIFICATION MCSpec
CONSTANTS
    Parts = {"rmpp"}
    Workers = {w1, w2}
    Clients = {c1}
    Owner = owner
    Items = {i1, i2}
    NoItem = noitem
    MaxRuns = 2
    Cpu = {p1, p2}
    Interval = {1, 3}
    MaxNow = 6
    Send = {s1}
    Mad = {m1, m2}
    NoMad = nomad
    MaxRetry = 1
    MaxSeg = 4
    Window = 2
    RmppRetries = 1
    MaxResizeFail = 1
    Ucep = {u1, u2}
    NoUcep = noucep
    MaxEvents = 2
    MaxCalls = 2
    MaxPollFail = 1
    MaxCancel = 1
    Fmr = {e1}
    NoFmr = nofmr
    Key = {k1, k2}
    NoKey = nokey
    FmrClient = {c1, c2}
    MaxRemaps = 2
    Watermark = 1
    MaxDirtyLen = 2
    MaxAlerts = 1
    MapKey = {1, 2, 3, 4, 5, 6}
    MapSource = {{}, {2, 5}, {1, 3, 4, 6}}
    SaReqs = {r1, r2}
    Queries = {r1}
    JoinReq = r1
    LeaveReq = r2
INVARIANT SegmentFits
