CONSTANTS
    Keys = {k1, k2, k3}
    Tags = {t1, t2}
    Values = {v}
    Capacity = 2
    NoEntry = NoEntry
SPECIFICATION RecencySpec
INVARIANTS IndexCoversTags
PROPERTIES PurgeComplete EvictsLeastRecent
