CONSTANTS
    c1 = c1
    c2 = c2
    Client = {c1, c2}
    NoClient = NoClient
    NoMessage = NoMessage
    Message <- MCMessage
    Addr <- MCAddr
    WriteAddr <- MCWriteAddr
    PC <- MCPC
    MinDistance = 1
    FakeDelay = 2
    RequestTimeout = 3
    MaxBurst = 1
    MaxPending = 2
    MaxReady = 2
SPECIFICATION Spec
INVARIANTS TypeOK NoStrandedRequest CurrentHasWakeup
PROPERTIES EachMessageSentOnce EveryRequestSent
