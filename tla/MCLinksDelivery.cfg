\* Two links of one purpose: deliveries confirmed in either order, refused, cut
\* off by crashes and repeated, even after they were confirmed.  No symmetry, for
\* liveness.
SPECIFICATION FairSpec
CONSTANTS
    User = {u1}
    LinkId = {l1, l2}
    NoUser = NoUser
    Purposes = {"login"}
    TTL = 1
    Window = 1
    MaxRequests = 2
    Retention = 2
    Lockout = 1
    MaxLag = 1
    MaxTime = 1
    MaxVersion = 0
    MaxAttempts = 2
    AckLost = TRUE
INVARIANTS
    TypeOK
    NewestWins
PROPERTIES
    EveryMailSettles
\* The instance stops at the bounds of its clock, its links and its queue.
CHECK_DEADLOCK FALSE
