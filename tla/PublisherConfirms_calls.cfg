SPECIFICATION Spec
CONSTANTS
    Publishers = {p1, p2}
    None = None
    MaxCalls = 4
CHECK_DEADLOCK FALSE
INVARIANTS
    TypeOK
    ConfirmsLagByTimeouts
    OkIsRecentAck
    ReaderBlocksAfterTwo
PROPERTIES
    EveryCallReturns
