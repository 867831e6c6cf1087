CONSTANTS
    NAddr = 2
    NTotalMsgRetries = 3
    MinAmount = 2
    FaucetAmount = 1
    SendAmount = 2
    NoRead = NoRead
SPECIFICATION Spec
INVARIANT FaucetReturnsOnlyWhenFunded
