SPECIFICATION Spec
CONSTANTS
  Processes = {p1,p2,p3}
  Keys <- MCKeys
  Exts <- MCExts
  Providers <- MCProviders
  Players <- MCPlayers
  Currencies <- MCCurrencies
  Wallets <- TwoWallets
  OtherWallets <- NoWallet
  Owner <- AllAlice
  Currency <- ReaisAndDollars
  InitialBalance <- FiveAndZero
  Requests <- Strangers
  MaxInt = 9
  PoolSize = 4
  NoRef = NoRef
  Null = Null
SYMMETRY Symmetric
INVARIANTS
  ClaimedOnce
  EveryWaitEnds
