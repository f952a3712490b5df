\* Three requests and two administrators to be, or two that disable each other
\* while a third request writes one of them back.  A request that waits for
\* nobody always goes on, so CHECK_DEADLOCK stays on.
SPECIFICATION Spec
CONSTANTS
    Process = {p1, p2, p3}
    Account = {a1, a2}
    AdminLock = AdminLock
    None = None
SYMMETRY Symmetry
INVARIANT NoDeadlock
PROPERTIES
    AdministratorRemains
    OneBootstrap
    ActivationSticks
