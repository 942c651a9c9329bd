SPECIFICATION FewSpec
CONSTANTS
  Processes = {g1,g2,c1}
  Consumers = {g1,g2}
  Messages <- MCMessages
  Body <- MCBody
  MaxReceives = 2
  SqsProvider = "sqs"
  NoMessage = NoMessage
  Keys <- MCKeys
  Exts <- MCExts
  Providers <- SqsProviders
  Players <- MCPlayers
  Currencies <- MCCurrencies
  Wallets <- OneWallet
  OtherWallets <- NoWallet
  Owner <- AllAlice
  Currency <- AllReais
  InitialBalance <- Five
  Requests <- MCInputs
  MaxInt = 99
  PoolSize = 3
  NoRef = NoRef
  Null = Null
INVARIANTS
  ConsumerTypeOK
  CalledAtMostOnce
  DeletedForAReason
  AmountsSurviveParsing
PROPERTIES
  ConsumersActAsCallers
  EveryMessageIsDecided
  EveryRequestAnswered
CHECK_DEADLOCK FALSE
