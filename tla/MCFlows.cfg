SPECIFICATION MCSpec
SYMMETRY ProcessSymmetry
CHECK_DEADLOCK FALSE
CONSTANTS
    f = f
    g = g
    v = v
    u = u
    w = w
    asker1 = asker1
    asker2 = asker2
    sub1 = sub1
    sub2 = sub2
    Subs = {sub1, sub2}
    MaxTime = 1
    MaxEvents = 4
    Funds = {f, g}
    House = House
    MaxQty = 2
    Openings <- MCOpenings
    Shares <- MCShares
    LastDay = 3
    ReportDays <- MCReportDays
    MaxStep = 1
    MaxTrades = 2
    Window = 3
    Fresh = 1
    MinPeriods = 2
    MinFunds = 2
    Book = 20
    FlowFull = 4
    Freshness <- MCFreshness
    PriceSeries <- MCPriceSeries
    NoClose = NoClose
    Workers = {u, v, w}
    NameOf <- MCNames
    Nothing = Nothing
    StaleAfter = 0
    MaxHour = 2
    MaxRuns = 3
    KeepBuilds = 2
    Processes = {"api", "other"}
    Settings = {"price_provider", "market_holidays_tr"}
    Editable <- MCEditable
    Default <- MCDefault
    Entries <- MCEntries
    NoOverride = NoOverride
    NoEdit = NoEdit
    Hole = Hole
    NoAnswer = NoAnswer
    Segments <- MCSegments
    DaySlots = 6
    Tickers = {"a", "b"}
    Here = "api"
    Requests = {asker1, asker2}
    QuoteFrames <- MCQuoteFrames
    CacheTime = 1
    MaxClock = 1
    MaxInstant = 47
    Stories = {"flows", "runs", "builds", "header", "hours", "plans"}
INVARIANTS
    FiguresAddUp
    HeaderHonest
    JobsInOrder
    OneLivePaid
    PlanSound
    ProviderAgrees
PROPERTY HigherGrantKept
