CONSTANTS
    c1 = c1
    c2 = c2
    Client = {c1, c2}
    NoClient = NoClient
    NoMessage = NoMessage
    Message <- MCMessage
    Addr <- MCAddr
    WriteAddr <- MCWriteAddr
    PC <- MCPC
    MinDistance = 1
    FakeDelay = 2
    RequestTimeout = 3
    Scenarios <- ReadScenarios
    HangUp <- MCHangUp
    MaxBurst = 3
    MaxRequestRetries = 2
    TelegramData = 25
    LateAnswers = FALSE
    MaxPending <- MCMaxPending
    MaxQueue = 1
    MaxBus = 3
    MaxReady = 4
SPECIFICATION ApiSpec
INVARIANTS ApiTypeOK NoForgottenRequest AnswersReachTheAsker
PROPERTIES RequestsSpaced Refines
