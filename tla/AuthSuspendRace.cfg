CONSTANTS
    Threads = {t1, t2}
    Users = {u}
    Passwords = {p1, p2}
    Sessions = {s1, s2, s3}
    MaxFailedAttempts = 3
    MaxFailures = 1
    LockoutDuration = 2
    Offsets <- BehindUTC
    MaxClock = 0
    None = None
SPECIFICATION Spec
INVARIANTS SuspendedForGood
