SPECIFICATION ConsumerSpec
CONSTANTS
  Processes = {g1}
  Consumers = {g1}
  Messages <- OneMessage
  Body <- MCBody
  MaxReceives = 2
  SqsProvider = "sqs"
  NoMessage = NoMessage
  Keys <- MCKeys
  Exts <- MCExts
  Providers <- SqsProviders
  Players <- MCPlayers
  Currencies <- MCCurrencies
  Wallets <- OneWallet
  OtherWallets <- NoWallet
  Owner <- AllAlice
  Currency <- AllReais
  InitialBalance <- Five
  Requests <- MCInputs
  MaxInt = 99
  PoolSize = 3
  NoRef = NoRef
  Null = Null
INVARIANTS
  NoMessageIsLost
CHECK_DEADLOCK FALSE
