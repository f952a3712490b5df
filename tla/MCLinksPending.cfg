\* A pending account is disabled and enabled again.
SPECIFICATION Spec
CONSTANTS
    User = {u1}
    LinkId = {l1, l2}
    NoUser = NoUser
    Purposes = {"activation"}
    TTL = 2
    Window = 1
    MaxRequests = 2
    Retention = 3
    Lockout = 1
    MaxLag = 1
    MaxTime = 1
    MaxVersion = 2
    MaxAttempts = 1
    AckLost = FALSE
SYMMETRY Symmetry
INVARIANTS
    PendingUntilActivated
\* The instance stops at the bounds of its clock, its links and its queue.
CHECK_DEADLOCK FALSE
