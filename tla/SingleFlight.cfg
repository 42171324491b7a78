CONSTANTS
    Threads = {t1, t2, t3}
    Keys = {k1, k2}
    CallIds = {c1, c2, c3}
    Results = {r1, r2}
    Errors = {e}
    NoCall = NoCall
    NoKey = NoKey
    NoError = NoError
    None = None
SPECIFICATION FairSpec
INVARIANTS NoOrphanCall
PROPERTIES Coalesces EveryCallReturns
