SPECIFICATION ScenarioSpec
CONSTANTS
  Processes = {p1,p2}
  Keys <- MCKeys
  Exts <- MCExts
  Providers <- MCProviders
  Players <- MCPlayers
  Currencies <- MCCurrencies
  Wallets <- OneWallet
  OtherWallets <- NoWallet
  Owner <- AllAlice
  Currency <- AllReais
  InitialBalance <- Five
  Requests <- AllInputs
  MaxInt = 11
  PoolSize = 3
  NoRef = NoRef
  Null = Null
SYMMETRY Symmetric
INVARIANTS
  TypeOK
  LedgerExplainsBalance
  DefencesNeverTrip
  ClaimedOnce
  AnswersAreCommitted
  EntryIffProcessed
  OneReversalPerKind
  ReversalUndoesReference
  PendingOnlyIfUnsettled
  OutboxTellsStory
  BalanceEventsAreGapless
  EveryCaseIsHandled
PROPERTIES
  DecisionsAreCurrent
  ImplementsAtomic
  KeepsBooks
