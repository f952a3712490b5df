\* The queue hands out a job again that the worker had confirmed.
SPECIFICATION Spec
CONSTANTS
    User = {u1}
    LinkId = {l1, l2}
    NoUser = NoUser
    Purposes = {"login"}
    TTL = 2
    Window = 1
    MaxRequests = 2
    Retention = 3
    Lockout = 1
    MaxLag = 1
    MaxTime = 1
    MaxVersion = 0
    MaxAttempts = 2
    AckLost = TRUE
SYMMETRY Symmetry
INVARIANTS
    AcceptedLinkWorks
\* The instance stops at the bounds of its clock, its links and its queue.
CHECK_DEADLOCK FALSE
