CONSTANTS
    Threads = {t1, t2}
    Requests <- MCRequests
    Docs = {sample, d}
    Samples = {sample}
    TicketIds = {k1, k2}
    Actions <- MCActions
    TTL = 2
    None = None
SPECIFICATION Spec
SYMMETRY Interchangeable
INVARIANTS CleanIsConfident RefusedNotCached StaleAnswersEnd TicketsKept
