CONSTANTS
    Callers = {c1}
    Workers = {t1, t2}
    MaxRequests = 2
    MaxLogins = 1
    Window = 2
    MaxTime = 4
    MaxAsked = 4
    Absent = Absent
SPECIFICATION LimitsSpec
CHECK_DEADLOCK FALSE
INVARIANTS AtMostLimit RefusedForCause
