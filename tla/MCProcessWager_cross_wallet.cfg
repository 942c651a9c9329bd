SPECIFICATION Spec
CONSTANTS
  Processes = {p1,p2}
  Keys <- MCKeys
  Exts <- MCExts
  Providers <- MCProviders
  Players <- MCPlayers
  Currencies <- MCCurrencies
  Wallets <- TwoWallets
  OtherWallets <- NoWallet
  Owner <- AliceAndBob
  Currency <- AllReais
  InitialBalance <- FiveAndZero
  Requests <- RefundElsewhere
  MaxInt = 9
  PoolSize = 3
  NoRef = NoRef
  Null = Null
INVARIANTS
  OneReversalPerKind
