SPECIFICATION ReadsSpec
CONSTANTS
  Openers = {o1,o2}
  Openings <- TwoOpenings
  Upper <- Spellings
  MaxSettled = 0
  Wagers <- MCWagers
  NoOpening = NoOpening
  MaxInt = 9
  Auditors = {}
  Readers = {}
  PageSize = 1
INVARIANTS
  LosersAreAnswered
