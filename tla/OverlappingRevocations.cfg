SPECIFICATION MCSpec
SYMMETRY WorkerSymmetry
CHECK_DEADLOCK FALSE
CONSTANTS
    ali = ali
    bora = bora
    cem = cem
    v = v
    w = w
    Users = {ali, bora, cem}
    Created = {ali, cem}
    Operator = cem
    Workers = {v, w}
    Idle = Idle
    Absent = Absent
    Nobody = Nobody
    Smtp = TRUE
    Clumsy = {}
    Enrolling = {}
    Attempts = 1
    MaxVersion = 3
    MaxLinks <- MCLinks
    MaxCodes = 1
    Plans = {"FREE", "PRO_PLUS"}
    SeatsOf <- MCSeats
    Founders = {}
    Payers = {}
    RowIds = {1}
    Enforced = TRUE
    Stories = {"sessions"}
INVARIANTS
    EveryOtherSessionDies
