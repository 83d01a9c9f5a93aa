SPECIFICATION MCSpec
CONSTANTS
    ca = ca
    pd = pd
    mw = mw
    Obj = {ca, pd, mw}
    Root = ca
    Parent <- MCParent
    SyncObj = {mw}
    Thread = {t1, t2}
    Async = async
    MaxExpired = 0
    NoObj = NoObj
INVARIANT HandlesLive
