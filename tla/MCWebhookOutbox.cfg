SPECIFICATION Spec
CONSTANTS
    e1 = e1
    w1 = w1
    w2 = w2
    Messages = {1}
    Endpoints = {e1}
    EndpointOf <- OneEndpoint
    Workers = {w1, w2}
    NoWorker = NoWorker
    NoMessage = NoMessage
    MaxAttempts = 3
    Backoff <- LinearBackoff
    LeaseTime = 2
    BatchLimit = 1
    TimelySend = FALSE
    MaxTime = 6
    MaxRetries = 1
    MaxCrashes = 1
SYMMETRY WorkerSymmetry
INVARIANTS
    SendingSafe
PROPERTIES
    KeepsPromise
