CONSTANTS
    Threads = {t1, t2}
    Users = {u}
    Passwords = {p1, p2}
    Sessions = {s1, s2, s3}
    MaxFailedAttempts = 2
    MaxFailures = 1
    LockoutDuration = 2
    Offsets <- BehindUTC
    MaxClock = 1
    None = None
SPECIFICATION Spec
SYMMETRY Interchangeable
INVARIANTS SuspensionHolds PasswordChangeHolds RotatesOnce
PROPERTIES LockHolds
