CONSTANTS
    qa = qa
    qb = qb
    qc = qc
    k1 = k1
    k2 = k2
    doc = doc
    user = user
    tenantA = tenantA
    tenantB = tenantB
    Threads = {t1, t2}
    Requests = {qa, qb, qc}
    QueryTexts = {qa, qb, qc}
    Sources = {doc, user}
    UserSources = {user}
    Updaters = {w}
    Keys = {k1, k2}
    KeyOf <- MCKeyOf
    Scopes = {tenantA, tenantB}
    ScopeOf <- MCScopeOf
    Reads <- MCReads
    Similarity <- MCSimilarity
    Threshold = 92
    L1Capacity = 1
    L2Capacity = 1
    MaxVersion = 1
    CallIds = {c1, c2}
    Errors = {e}
    NoEntry = NoEntry
    NoCall = NoCall
    NoKey = NoKey
    NoError = NoError
    None = None
SPECIFICATION Spec
SYMMETRY Interchangeable
INVARIANTS ScopeIsolation StaleOnlyByLateWrite RepliesKeepUp
