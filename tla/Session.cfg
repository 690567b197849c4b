SPECIFICATION Spec
CONSTANTS
    c1 = c1
    c2 = c2
    u1 = u1
    u2 = u2
    s1 = s1
    s2 = s2
    Contexts = {c1, c2}
    Attempts = {u1, u2}
    Signs = {s1}
    MaxEpoch = 1
    MaxSessionEpoch = 3
INVARIANTS
    SignerHeldOnlyUnlocked
    SignaturesUninterrupted
PROPERTIES
    SessionsEnd
CHECK_DEADLOCK FALSE
