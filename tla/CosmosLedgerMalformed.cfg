CONSTANTS
    p1 = p1
    p2 = p2
    Procs <- MCProcs
    Workflow <- InstantiateSend
    NTotalMsgRetries = 2
    NSendingRetries = 1
    NGetResponseRetries = 1
    NoTx = NoTx
    NoResult = NoResult
SPECIFICATION Spec
INVARIANT InstantiateRecoversMalformedLog
