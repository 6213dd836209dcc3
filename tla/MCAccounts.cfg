SPECIFICATION MCSpec
SYMMETRY WorkerSymmetry
CHECK_DEADLOCK FALSE
CONSTANTS
    ali = ali
    bora = bora
    cem = cem
    v = v
    w = w
    Users = {ali, bora, cem}
    Created = {ali, cem}
    Operator = cem
    Workers = {v, w}
    Idle = Idle
    Absent = Absent
    Nobody = Nobody
    Smtp = TRUE
    Clumsy = {ali}
    Enrolling = {ali}
    Attempts = 2
    MaxVersion = 3
    MaxLinks <- MCLinks
    MaxCodes = 1
    Plans = {"FREE", "PRO_PLUS"}
    SeatsOf <- MCSeats
    Founders = {ali, bora}
    Payers = {ali}
    RowIds = {1, 2, 3}
    Enforced = TRUE
    Stories = {"sessions", "recovery", "factor", "seats", "joins"}
INVARIANTS
    CredentialsHold
    LimitsHold
    TeamsSound
