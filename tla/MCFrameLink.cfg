CONSTANTS
    ByteSize = 4
    Sync1 = 2
    Sync2 = 1
    Xor <- MCXor
    RecvBufSize = 3
    TransmitBufSize = 11
    Poly = 1
    BusByte = {0, 2}
SPECIFICATION LinkSpec
INVARIANTS TypeOK RingHoldsQueue NothingLeftBehind
PROPERTIES ImplementsQueue DeliveredInOrder TelegramDelivered
