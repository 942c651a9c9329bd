SPECIFICATION LiveSpec
CONSTANTS
  Publishers = {p1,p2}
  Events <- MCEvents
  Transactions <- MCTransactions
  Emitted <- MCEmitted
  Limit = 2
  FifoQueue = TRUE
PROPERTY EveryEventIsPublished
CHECK_DEADLOCK FALSE
