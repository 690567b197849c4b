SPECIFICATION Spec
CONSTANTS
    j1 = j1
    j2 = j2
    a1 = a1
    a2 = a2
    p1 = p1
    p2 = p2
    i1 = i1
    i2 = i2
    o1 = o1
    o2 = o2
    r1 = r1
    r2 = r2
    JournalIds = {j1, j2}
    Agents = {a1}
    Accounts = {p1}
    Intents = {i1}
    Owners = {o1, o2}
    Repositories = {r1, r2}
    Outcomes = {"accepted"}
    MaxTime = 2
    MaxAttempts = 1
    ActionExpiry = 2
    LeaseDuration = 1
    MaxBackoff = 0
    MaxClockRollback = 1
    MaxSampleAge = 0
    MaxServerSkew = 1
SYMMETRY Symmetry
INVARIANTS
    StoredRowsValid
    TombstonesCoverNonces
    OrdinaryRetirementQuiescent
    WriteOnce
PROPERTIES
    NoncesIncrease
    ImplementsActionLife
CHECK_DEADLOCK FALSE
