\* A refresh beside revoke_user_sessions.
SPECIFICATION Spec
CONSTANTS
    Process = {p1, p2}
    SessionId = {s1, s2, s3, s4}
    NoSession = NoSession
    NoProcess = NoProcess
    Ops = {"refresh", "revokeUserSessions"}
    MaxAttempts = 2
    Lockout = 1
    MaxTime = 0
SYMMETRY Symmetry
INVARIANT EndedFamiliesAreDead
CHECK_DEADLOCK FALSE
