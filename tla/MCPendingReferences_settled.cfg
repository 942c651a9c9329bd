SPECIFICATION PendingLiveSpec
CONSTANTS
  Processes = {p1,w1}
  Workers = {w1}
  BatchSize = 1
  Keys <- MCKeys
  Exts <- MCExts
  Providers <- MCProviders
  Players <- MCPlayers
  Currencies <- MCCurrencies
  Wallets <- OneWallet
  OtherWallets <- NoWallet
  Owner <- AllAlice
  Currency <- AllReais
  InitialBalance <- Five
  Requests <- ContendedRefund
  MaxInt = 9
  PoolSize = 2
  NoRef = NoRef
  Null = Null
PROPERTIES
  EveryPostponedIsSettled
