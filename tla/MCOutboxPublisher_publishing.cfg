SPECIFICATION LiveSpec
CONSTANTS
  Publishers = {p1,p2}
  Events <- MCEvents
  Transactions <- MCTransactions
  Emitted <- MCEmitted
  Limit = 2
  FifoQueue = FALSE
INVARIANTS
  PublisherTypeOK
  ResentOnlyAfterTrouble
PROPERTIES
  KeepsPromise
  OrderWithinTransaction
  EveryEventIsTried
CHECK_DEADLOCK FALSE
