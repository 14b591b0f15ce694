CONSTANTS
    c1 = c1
    c2 = c2
    Client = {c1}
    NoClient = NoClient
    NoMessage = NoMessage
    Message <- FewMessages
    Addr <- FewAddr
    WriteAddr <- FewWriteAddr
    PC <- MCPC
    MinDistance = 1
    FakeDelay = 1
    RequestTimeout = 2
    Scenarios <- FewScenarios
    HangUp <- MCHangUp
    MaxBurst = 1
    MaxRequestRetries = 2
    TelegramData = 25
    LateAnswers = TRUE
    MaxPending <- MCMaxPending
    MaxQueue = 0
    MaxBus = 1
    MaxReady = 2
SPECIFICATION ApiSpec
PROPERTIES UsesScheduler
