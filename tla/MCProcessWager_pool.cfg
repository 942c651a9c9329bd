SPECIFICATION Spec
CONSTANTS
  Processes = {p1,p2}
  Keys <- MCKeys
  Exts <- MCExts
  Providers <- MCProviders
  Players <- MCPlayers
  Currencies <- MCCurrencies
  Wallets <- OneWallet
  OtherWallets <- NoWallet
  Owner <- AllAlice
  Currency <- AllReais
  InitialBalance <- Five
  Requests <- ContendedRefund
  MaxInt = 9
  PoolSize = 2
  NoRef = NoRef
  Null = Null
INVARIANTS
  SomeoneCanProceed
