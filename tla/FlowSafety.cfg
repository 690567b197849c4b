SPECIFICATION Spec
CONSTANTS
    f1 = f1
    f2 = f2
    f3 = f3
    r1 = r1
    r2 = r2
    k1 = k1
    k2 = k2
    k3 = k3
    c1 = c1
    c2 = c2
    i1 = i1
    i2 = i2
    Confirmations = {f1, f2}
    Orchestrators = {k1, k2, k3}
    Runtimes = {r1, r2}
    Contexts = {c1, c2}
    ViewOnly = {}
    Intents = {i1}
    ActionExpiry = 1
    MaxTime = 1
    MaxFaults = 1
    MaxEpoch = 1
SYMMETRY Symmetry
INVARIANTS
    InFlightIsShown
    OutcomeIsDurable
PROPERTIES
    ImplementsActionLife
CHECK_DEADLOCK FALSE
