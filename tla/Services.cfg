SPECIFICATION ServicesSpec
CONSTANTS
    Insts = {i1}
    Creds = {c1, c2}
    Accounts = {a1}
    LinkIds = {l1}
    RuleIds = {r1}
    Tokens = {t1, t2}
    Ips = {p1}
    Challenges = {h1, h2}
    Slots = {s1, s2}
    Proofs <- MCProofs
    Nothing = Nothing
    MaxLinkedAccounts = 1
    MaxActiveRules = 1
    IpMutationsPerMinute = 1
    InstallationMutationsPerMinute = 1
    TokenChangesPerHour = 1
    ChallengeIssuesPerHour = 1
    FailedProofsPerIpHour = 2
    MarketCallers = {k1, k2, k3}
    AccountCallers = {k4}
    WebsocketConnections = 2
    ConnectionsPerMinute = 4
    Subscriptions <- MCSubscriptions
    Listeners = {b1, b2}
    MaxSubscriptions = 2
    InflightOperations = 2
    MaxWire = 3
    Processes = {w1, w2}
    Nobody = Nobody
    MaxDexes = 2
    PageSize = 1
    MaxPageFailures = 2
    MaxGenerations = 2
    MaxClaims = 5
    Unpublished = Unpublished
    t2 = t2
    m1 = m1
    v1 = v1
    Listings <- MCListings
    References = {70, 80}
    Positions <- MCPositions
    Leverages = {1, 2}
    Margins = {100}
    Bindings <- MCBindings
    Drafts <- MCDrafts
    Orders <- MCOrders
    Decimals = 1
    PerpDecimals = 1
    SpotDecimals = 1
    SignificantFigures = 2
    MinimumNotional = 10
    MaxSlippage = 500
    BasisPoints = 10000
    MaxLeverageWire = 100
    ReviewWindow = 1
    RequestExpiry = 1
    MaxWorldSteps = 2
    MaxClock = 2
SYMMETRY Symmetry
INVARIANTS
    SessionsServeStreams
    SubscriptionsSettle
PROPERTIES
    ProofBeforeChange
    CatalogOnlyAdvances
    ActionAsReviewed
CHECK_DEADLOCK FALSE
