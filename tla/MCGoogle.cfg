\* Two concurrent requests, two addresses, two Google users, in the open mode,
\* whose paths include those of the others.  A request that waits for nobody
\* always goes on, so CHECK_DEADLOCK stays on.
SPECIFICATION Spec
CONSTANTS
    Process = {p1, p2}
    Account = {a1, a2}
    Subject = {x1, x2}
    Challenge = {h1, h2}
    SessionId = {s1, s2}
    None = None
    Mode = "open"
    Managed = {a1}
SYMMETRY Symmetry
INVARIANTS
    AlwaysAWayIn
    SessionsRest
    NoDeadlock
PROPERTIES
    DecisionsStick
    IdentityNeedsConsent
