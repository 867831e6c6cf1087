CONSTANT NRetries = 30
SPECIFICATION FairSpec
INVARIANT TypeOK
INVARIANT RaisesOnlyAfterBudget
PROPERTY Terminates
