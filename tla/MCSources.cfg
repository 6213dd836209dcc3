SPECIFICATION MCSpec
SYMMETRY ThreadSymmetry
CHECK_DEADLOCK FALSE
CONSTANTS
    Nobody = Nobody
    NoDay = NoDay
    Cap = 2
    Reach = 3
    Week = 1
    Issuers = {"X", "Y", "Z", "K"}
    Classes <- MCClasses
    CikOf <- MCCikOf
    Forms <- MCForms
    Kap <- MCKap
    Doc <- MCDoc
    Filings = {1, 2, 3, 4, 5}
    Sort <- MCSort
    Legible = {1, 2, 3, 4}
    PageCap <- MCPageCap
    MaxCalls = 4
    PageSize = 2
    StartBack = 2
    Retries = 2
    MaxFaults = 1
    Pages <- MCPages
    NoPage = NoPage
    NoPrice = NoPrice
    NoRatio = NoRatio
    NoName = NoName
    NoIndex = NoIndex
    Processes = {"api", "other"}
    Settings = {"price_provider"}
    Editable <- MCEditable
    Default <- MCDefault
    Entries <- MCEntries
    NoOverride = NoOverride
    NoEdit = NoEdit
    Hole = Hole
    NoAnswer = NoAnswer
    Segments = Hole
    DaySlots = 6
    Keys = {"daily", "hourly"}
    Daily = {"daily"}
    Worker = "api"
    u = u
    v = v
    Callers = {u, v}
    Lookbacks = {1, 2}
    Charts <- MCCharts
    KeepFor = 1
    CacheKeys = 1
    LastSecond = 1
    Companies = {1, 2, 3, 4, 5}
    Placeholders = {5}
    Silent = {1}
    Frames <- MCFrames
    Quota = 2
    MaxStatements = 2
    Tolerance = 1
    NoRefresh = NoRefresh
    MaxAnswers = 4
    MaxTroubles = 1
    Stocks = {"A", "B"}
    Holders = {"f", "g"}
    MarketDays = {4, 5, 6, 7}
    BookDays = {4, 6}
    Contents <- MCContents
    Portfolios <- MCPortfolios
    Closes = {0, 1, 3}
    Unstated = Unstated
    BookAge = 2
    PriceAge = 2
    MinReturns = 1
    IssuedShares = {0, 9}
    Stories = {"filings", "fetch", "adapters", "pages", "table", "cache", "switch", "walk", "figures", "books", "basket"}
INVARIANTS
    LinksKept
    TradesOfOne
    RoundRobin
    ListReadThrough
    ReadAsFiled
    CandlesHonest
    FundamentalsSound
    BooksAgree
