SPECIFICATION FairSpec
CONSTANTS
  Sender = {"a", "b"}
  Transactions <- MCTransactions
  MayFail <- MCMayFail
  MaxTransactions = 2
  MaxPerAccount = 2
  MinEntranceFee = 1
  MinReplacement = 2
  MaxAdds = 2
  MaxDeletions = 1
  MaxBlocks = 2
INVARIANTS
    PoolConsistent
PROPERTIES
    NextServed
CHECK_DEADLOCK FALSE
