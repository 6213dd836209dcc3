SPECIFICATION MCSpec
SYMMETRY RequestSymmetry
CONSTANTS
    q1 = q1
    q2 = q2
    q3 = q3
    fund = fund
    j1 = j1
    j2 = j2
    Filings = {1, 2, 3, 4, 5, 6, 7}
    Events = {1, 2}
    Published <- PublishedBy
    Amends <- AmendsOf
    Restating = {5}
    Additive = {4}
    MayFail = {3}
    Books = {q1, q2, q3}
    BookOf <- BookFor
    FundOf <- OneFund
    AsOf <- Quarter
    Jobs = {j1}
    NoFiling = NoFiling
    MaxCrashes = 1
    w1 = w1
    w2 = w2
    Askers = {w1, w2}
    LimitOf <- MCLimits
    WindowOf <- MCWindows
    LongestWindow = 1
    Tries = 2
    LastMoment = 2
    Stall = 1
    MaxOutages = 2
    Servers = {w1, w2}
    Ids = {1, 2}
    Bodies = {"b", "c"}
    SignatureWindow = 0
    LastSecond = 1
    MaxSeeds = 1
    MaxPosts = 2
    Stories = {"facts", "limits", "inbox"}
INVARIANTS
    CountedOnce
    SupersedeLaw
    BookIsNewest
    ChangesLive
    AdmittedAndKept
