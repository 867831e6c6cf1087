CONSTANTS
    SuffixLen = 2
    MaxNodes = 4
SPECIFICATION Spec
INVARIANT TypeOK
INVARIANT FindItemIsFirstDFSMatch
