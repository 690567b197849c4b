SPECIFICATION TimelySpec
CONSTANTS
    j1 = j1
    j2 = j2
    q1 = q1
    q2 = q2
    o1 = o1
    o2 = o2
    JournalIds = {j1}
    Types = {"create", "close", "cancel", "leverage"}
    Ports = {q1}
    Owners = {o1}
    ActionExpiry = 2
    LeaseDuration = 2
    LeaseRetry = 1
    MaxForegroundAttempts = 4
    MaxTime = 10
    MaxFailures = 12
    MaxRestarts = 0
PROPERTIES
    EventuallySettled
CHECK_DEADLOCK FALSE
