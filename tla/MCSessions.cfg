\* One account, three rows: two rotations or two families, a lock that expires
\* within the clock, handlers one tick late, two password replacements, and a
\* revoke_user_sessions under way.
SPECIFICATION Spec
CONSTANTS
    User = {u1}
    SessionId = {s1, s2, s3}
    NoUser = NoUser
    NoSession = NoSession
    IdleTTL = 2
    AbsoluteTTL = 2
    MaxAttempts = 2
    Lockout = 1
    MaxLag = 1
    MaxTime = 2
    MaxPasswords = 2
    MaxRevocations = 1
SYMMETRY Symmetry
INVARIANTS
    TypeOK
    FamilyRevokedTogether
    RotationIsAChain
    FamilySharesDeadline
    NoSessionWithoutAccount
    NoSessionOutlivesPassword
    LockIsFullCount
    ReplayEndsFamily
PROPERTY ImplementsAuthority
