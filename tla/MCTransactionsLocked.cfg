\* Every handler that locks the account row, two requests at a time.  Requests
\* end, so the instance may stop.
SPECIFICATION Spec
CONSTANTS
    Process = {p1, p2}
    SessionId = {s1, s2, s3, s4}
    NoSession = NoSession
    NoProcess = NoProcess
    Ops = {"login", "wrongPassword", "refresh", "logout", "changePassword",
           "disable", "enable", "authenticate"}
    MaxAttempts = 2
    Lockout = 1
    MaxTime = 1
SYMMETRY Symmetry
INVARIANTS
    EndedFamiliesAreDead
    OneUnusedToken
    NoDeadlock
PROPERTY ImplementsAuthority
CHECK_DEADLOCK FALSE
