SPECIFICATION Spec
CONSTANTS
    j1 = j1
    j2 = j2
    q1 = q1
    q2 = q2
    o1 = o1
    o2 = o2
    JournalIds = {j1}
    Types = {"create", "close", "cancel", "leverage"}
    Ports = {q1, q2}
    Owners = {o1, o2}
    ActionExpiry = 2
    LeaseDuration = 2
    LeaseRetry = 1
    MaxForegroundAttempts = 2
    MaxTime = 4
    MaxFailures = 1
    MaxRestarts = 1
SYMMETRY Symmetry
INVARIANTS
    VerdictIsTrue
CHECK_DEADLOCK FALSE
