SPECIFICATION MCSpec
SYMMETRY ProcessSymmetry
CHECK_DEADLOCK FALSE
CONSTANTS
    disclosure1 = disclosure1
    correction1 = correction1
    filing1 = filing1
    filing2 = filing2
    headline1 = headline1
    note1 = note1
    runner1 = runner1
    runner2 = runner2
    share1 = share1
    client1 = client1
    client2 = client2
    handler1 = handler1
    handler2 = handler2
    Docs = {disclosure1, correction1, filing1, filing2, headline1, note1}
    Kind <- MCKind
    Corrects <- MCCorrects
    FiledOn <- MCFiledOn
    Runners = {runner1, runner2}
    NoRow = NoRow
    MaxClock = 3
    OpenFor = 1
    RunFor = 0
    Slack = 1
    PendingFor = 2
    Reread = 1
    Sorts <- MCSorts
    PageLimit = 2
    MaxIds = 3
    MaxPrints = 2
    MaxDrops = 1
    NoCursor = NoCursor
    Symbols = {share1}
    Clients = {client1, client2}
    NoRequest = NoRequest
    NoPosition = NoPosition
    TradeDates = {1, 2}
    Orders <- MCOrders
    ByHand = {1}
    MaxRecorded = 3
    PositionCap = 1
    Numbers = {1, 2}
    First = 1
    Artifacts = {"x64-setup.exe", "win-setup.exe", "x64.msi"}
    Classified <- MCClassified
    Builds <- MCBuilds
    Handlers = {handler1, handler2}
    MaxBorn = 2
    Free = Free
    Missing = Missing
    Stories = {"corrections", "filings", "headlines", "pending", "notes", "events", "books", "releases"}
INVARIANTS
    IndexFollows
    NothingPassedOver
    RowsAreDerived
    ReleasesSound
