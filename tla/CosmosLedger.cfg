CONSTANTS
    p1 = p1
    p2 = p2
    Procs <- MCProcs
    Workflow <- DeployExecute
    NTotalMsgRetries = 2
    NSendingRetries = 2
    NGetResponseRetries = 2
    NoTx = NoTx
    NoResult = NoResult
SPECIFICATION FairSpec
INVARIANT TypeOK
 
INVARIANT ReportedResultIsOnChain
PROPERTY Termination
PROPERTY ImplementsTxSubmit
