\* Two links of any purpose while other services change, lock, disable and reset
\* the account: requests, the check before the password is hashed, consumption.
\* A job that was confirmed does not come again.
SPECIFICATION Spec
CONSTANTS
    User = {u1}
    LinkId = {l1, l2}
    NoUser = NoUser
    Purposes = {"activation", "login", "password_reset", "invitation"}
    TTL = 2
    Window = 0
    MaxRequests = 1
    Retention = 2
    Lockout = 1
    MaxLag = 1
    MaxTime = 1
    MaxVersion = 1
    MaxAttempts = 1
    AckLost = FALSE
SYMMETRY Symmetry
INVARIANTS
    AcceptedLinkWorks
    NoSessionWithoutStanding
PROPERTIES
    ConsumptionIsFenced
    ReplacementKeepsOld
    LinksOnlyAdvance
\* The instance stops at the bounds of its clock, its links and its queue.
CHECK_DEADLOCK FALSE
