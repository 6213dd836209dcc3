SPECIFICATION Spec
CONSTANTS
    q1 = q1
    q2 = q2
    q3 = q3
    fund = fund
    j1 = j1
    j2 = j2
    Filings = {1, 2, 3}
    Events = {1, 2}
    Published <- PublishedBy
    Amends <- AmendsOf
    Restating = {}
    Additive = {}
    MayFail = {3}
    Books = {q1, q2, q3}
    BookOf <- BookFor
    FundOf <- OneFund
    AsOf <- Quarter
    Jobs = {j1, j2}
    NoFiling = NoFiling
    MaxCrashes = 1
INVARIANTS
    CountedOnce
