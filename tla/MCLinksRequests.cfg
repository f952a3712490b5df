\* Requests alone, long enough for retention to delete what they count.
SPECIFICATION Spec
CONSTANTS
    User = {u1}
    LinkId = {l1, l2, l3, l4}
    NoUser = NoUser
    Purposes = {"login"}
    TTL = 1
    Window = 1
    MaxRequests = 2
    Retention = 2
    Lockout = 1
    MaxLag = 1
    MaxTime = 4
    MaxVersion = 0
    MaxAttempts = 0
    AckLost = FALSE
SYMMETRY Symmetry
INVARIANTS
    RequestsLimited
\* The instance stops at the bounds of its clock, its links and its queue.
CHECK_DEADLOCK FALSE
