SPECIFICATION PendingLiveSpec
CONSTANTS
  Processes = {p1,w1,w2}
  Workers = {w1,w2}
  BatchSize = 1
  Keys <- ThreeKeys
  Exts <- MCExts
  Providers <- MCProviders
  Players <- MCPlayers
  Currencies <- MCCurrencies
  Wallets <- OneWallet
  OtherWallets <- NoWallet
  Owner <- AllAlice
  Currency <- AllReais
  InitialBalance <- Five
  Requests <- RefundAndRollback
  MaxInt = 9
  PoolSize = 3
  NoRef = NoRef
  Null = Null
INVARIANTS
  PendingTypeOK
  RetriesMeetTheirRow
PROPERTIES
  ActsAsACaller
  EveryPostponedIsRetried
