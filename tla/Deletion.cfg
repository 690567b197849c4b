SPECIFICATION UnrestoredSpec
CONSTANTS
    Installations = {i1}
    Links = {l1}
    HomeOf <- MCHome
    Rows = {r1}
    Workers = {w1}
    NoWorker = NoWorker
    NoRow = NoRow
    MaxClaims = 1
    MaxReceipts = 1
    ProviderDeadline = 1
    LeaseTime = 2
    ReceiptDelay = 1
    MaxVersions = 1
    MaxGenerations = 1
    MaxFaults = 1
    MaxBackups = 0
PROPERTIES
    NoSendAfterRevoke
    InFlightSettles
