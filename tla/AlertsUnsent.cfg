SPECIFICATION ClientSpec
CONSTANTS
    Rules = {r1, r2}
    MaxInstallations = 2
    MaxRevocations = 1
    MaxPending = 1
    MaxClientFaults = 1
    AlsoUnwrapped = FALSE
PROPERTIES
    AlertsReachService
CHECK_DEADLOCK FALSE
