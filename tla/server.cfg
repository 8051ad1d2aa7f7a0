SPECIFICATION ServerSpec
CONSTANTS
    Calls = {b1, k1, k2}
    Broadcasts = {b1}
    Concurrency = 2
    MAX_RETRIES = 1
    MaxTime = 3
    Addresses = {a1, a2}
    Threads = {t1, t2}
    rpm = 40
    burst = 1
    IDLE_TTL = 2
    GC_INTERVAL = 2
    NoBucket = NoBucket
    NoAddress = NoAddress
    Ids = {"i1", "i2"}
    Callers = {1, 2}
    Wanted <- MCWanted
    PRICE_TTL = 1
    PRICE_TIMEOUT = 1
    NoPrice = NoPrice
    Owner = "me"
    Native = "ETH"
    Nobody = "nobody"
    EvmChains <- MCEvmChains
    Deeds <- MCDeeds
    Past <- MCPast
    Jobs = {j1, j2}
    Analysts = {j2}
    INDEX_TTL = 1
    ANALYTICS_TTL = 2
    FETCH_TIMEOUT = 1
    PERIOD = 3
    USD = 2
    MaxMined = 2
    PAGE_SIZE = 1
    Nothing = Nothing
    Other = "shop"
    PAGE = 2
    Limits = {1}
    MaxPayments = 3
    NoCursor = NoCursor
    NoLimit = NoLimit
    MAX_TOOL_ROUNDS = 2
    MAX_HISTORY_MESSAGES = 1
    CAPACITY = 1
    Histories <- MCHistories
    ToolCalls <- MCToolCalls
    MaxFragments = 2
    MaxCalls = 2
    W = 4
    NATIVE_TRANSFER_GAS = 1
    UNKNOWN_GAS = 2
    BASE_FEE_LAMPORTS = 1
    BTC_TYPICAL_VSIZE = 2
    Requests <- MCRequests
    Outcomes <- MCOutcomes
    MAX_U64 = 66000
    MAX_U128 = 16000000
    Parameters <- MCParameters
    Signatures <- MCSignatures
    Messages <- MCMessages
    Accounts = {"e", "t", "b"}
    TronAccounts = {"t"}
    BadAccounts = {"b"}
    Wallets = {1, 2}
    Portfolios <- MCPortfolios
    Worth <- MCWorth
    CHAIN_TIMEOUT = 1
    PRICES_TIMEOUT = 0
    ACCOUNT_CACHE_TTL = 1
    NoDocument = NoDocument
    NoTask = NoTask
    NoHolder = NoHolder
    MAX_FEE = 64
    DEFAULT_PRIORITY = 4
    GAS_LIMIT_NATIVE = 2
    GAS_LIMIT_ERC20 = 6
    SIGNATURE_FEE = 5
    Senders <- MCSenders
    Reports <- MCReports
    Phrases <- MCPhrases
    Passwords = {"p1", "p2"}
    Indices = {0, 1, 3, 4, 5, 7}
    HARDENED = 4
    KdfDefault = 1
    KdfOther = 2
    VAULT_VERSION = 1
INVARIANTS ServerTypeOK PermitsAddUp WithinRate PricesAreRecent OldTransactionsAreTold
    FeesWereOwed PagesMissNothing BalanceIsHistory CallsAreAnswered ChangesAreExact
    DangerIsTold NodeReadsWhatWasAsked BalancesAreRecent TiersInOrder KeysAreThoseShown
PROPERTIES CallsEnd RetryIsServed ChatEnds
CHECK_DEADLOCK FALSE
