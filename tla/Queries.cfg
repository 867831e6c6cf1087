CONSTANTS
    NTotalMsgRetries = 3
    NRetriesArgs = {NoArg, 0, 2}
    NoArg = NoArg
SPECIFICATION FairSpec
INVARIANT TypeOK
PROPERTY StateQueryRefinesRetrier
PROPERTY BalanceQueryRefinesRetrier
PROPERTY QueryTerminates
