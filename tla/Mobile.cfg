SPECIFICATION MobileSpec
CONSTANTS
    StreamKeys = {k1}
    Kinds = {"log", "sequenced", "book", "context"}
    MaxBuffered = 1
    MaxResyncAttempts = 2
    MaxReconnectAttempts = 1
    MaxStreamGenerations = 3
    MaxEvents = 2
    SetupTasks = {t1, t2}
    MaxKeys = 2
    AttemptDuration = 2
    MaxSetupTime = 2
    MaxSetupFaults = 1
    AccountIds = {x1, x2, x3}
    NoAccount = NoAccount
    MaxAccounts = 2
    MaxChanges = 4
    MaxDirectoryFaults = 1
    MaxLifecycleRuns = 3
    Rules = {r1, r2}
    MaxInstallations = 2
    MaxRevocations = 2
    MaxPending = 2
    MaxClientFaults = 2
    AlsoUnwrapped = TRUE
    Alerts = {a1, a2}
    Screens = {s1, s2}
    MaxHandled = 1
    MaxOpens = 3
    MaxEntryFaults = 1
    Holders = {h1, h2}
    Presses = {p1}
    NoSnapshot = NoSnapshot
    NoEditor = NoEditor
    OrderIds = {1}
    MaxSize = 2
    MaxPresses = 1
    MaxScreenChanges = 2
    Window = 0
    StaleTime = 1
    Listings = {1, 2}
    Volumes = {0, 1}
    PageSize = 1
    NoPage = NoPage
    MaxGenerations = 2
    MaxListFaults = 1
    MaxRestarts = 1
    Scopes = {n1, n2, n3}
    Accountless = {n3}
    Choosable = {1, 2}
    Themes = {"system", "dark"}
    MaxRecents = 1
    MaxScopeSwitches = 2
    MaxCommits = 2
    MaxPreferenceFaults = 1
    Traders = {h1, h2}
    Pairs = {m1, m2}
    Calls = {c1}
    Leverages = {1, 2}
    NoMarket = NoMarket
    NoData = NoData
    NoDraft = NoDraft
    AccountWindow = 0
    MaxHappenings = 2
    MaxCalls = 1
INVARIANTS
    QueuedAlertKept
    AuthorityKept
    NothingMissed
    KeysAccountedFor
    CompletedMeansDone
    NoLostChange
    ListIsOneGeneration
    PreferencesStayApart
PROPERTIES
    AlertOpenedOnce
    ViewOnlyGrows
    ReviewIsCurrent
    TradeReviewIsCurrent
CHECK_DEADLOCK FALSE
