SPECIFICATION MCSpec
CONSTANTS
    Installations = {i1}
    Links = {l1, l2}
    HomeOf <- MCHome
    Rows = {r1}
    Workers = {w1, w2}
    NoWorker = NoWorker
    NoRow = NoRow
    MaxClaims = 2
    MaxReceipts = 2
    ProviderDeadline = 1
    LeaseTime = 2
    ReceiptDelay = 1
    MaxVersions = 2
    MaxGenerations = 2
    MaxFaults = 1
    MaxBackups = 1
    RuleSet = {m1}
    Versions <- MCVersions
    Values = {0, 1}
    Absent = Absent
    MaxPendingUpdates = 1
    MaxEdits = 2
    MaxControllers = 2
    Readers = {q1, q2}
    Users = {u1}
    Dexes = {d1}
    NativeDex = NativeDex
    Unpublished = Unpublished
    MaxReads = 2
    MaxPortfolioTime = 4
    Deadline = 1
    LiveCache = 1
    HistoryCache = 2
    MaxCacheEntries = 1
    MaxInflight = 1
    MaxAnswerDexes = 2
    DexBatchSize = 1
    MaxSourceGaps = 2
SYMMETRY Symmetry
INVARIANTS
    OutcomeHonest
    DeletedStaysDeleted
    NoStrayStream
    AnswersHonest
PROPERTIES
    OutcomeFinal
