\* Every handler but change_password, whose refusal is a rollback no fairness
\* obliges, two requests at a time, with revoke_user_sessions: waits can become
\* circular and must still end.  No symmetry, for liveness.  Requests end, so the
\* instance may stop.
SPECIFICATION FairSpec
CONSTANTS
    Process = {p1, p2}
    SessionId = {s1, s2, s3, s4}
    NoSession = NoSession
    NoProcess = NoProcess
    Ops = {"login", "wrongPassword", "refresh", "logout", "disable", "enable",
           "authenticate", "revokeUserSessions"}
    MaxAttempts = 2
    Lockout = 1
    MaxTime = 1
INVARIANT NoSessionWithoutAccount
PROPERTIES
    AccountWritesAreSerial
    EveryRequestEnds
    AcceptanceIsCurrent
CHECK_DEADLOCK FALSE
