\* Two concurrent requests, two accounts, room for one passkey each.  A request
\* that waits for nobody always goes on, so CHECK_DEADLOCK stays on.
SPECIFICATION Spec
CONSTANTS
    Process = {p1, p2}
    Account = {a1, a2}
    Credential = {c1, c2}
    Challenge = {h1, h2}
    SessionId = {s1, s2}
    None = None
    MaxCredentials = 1
    MaxCount = 1
SYMMETRY Symmetry
INVARIANTS
    WithinLimit
    OneOutcomePerChallenge
    DecisionsHold
    NoDeadlock
PROPERTY RowsOnlyAdvance
