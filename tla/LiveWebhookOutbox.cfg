SPECIFICATION FairSpec
CONSTANTS
    e1 = e1
    w1 = w1
    w2 = w2
    Messages = {1, 2}
    Endpoints = {e1}
    EndpointOf <- OneEndpoint
    Workers = {w1}
    NoWorker = NoWorker
    NoMessage = NoMessage
    MaxAttempts = 2
    Backoff <- LinearBackoff
    LeaseTime = 2
    BatchLimit = 1
    TimelySend = TRUE
    MaxTime = 20
    MaxRetries = 0
    MaxCrashes = 1
PROPERTIES
    Settles
