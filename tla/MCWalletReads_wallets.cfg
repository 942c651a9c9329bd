SPECIFICATION ReadsSpec
CONSTANTS
  Openers = {o1,o2}
  Openings <- MCOpenings
  Upper <- Spellings
  MaxSettled = 2
  Wagers <- MCWagers
  NoOpening = NoOpening
  MaxInt = 9
  Auditors = {a1}
  Readers = {g1}
  PageSize = 1
SYMMETRY Symmetric
INVARIANTS
  ReadsTypeOK
  OneWalletPerPlayerAndCurrency
  OpeningIsComplete
  AnswersNameTheWallet
  ReconciliationIsExplained
  PagesDoNotOverlap
  SkippedOnlyIfLate
