CONSTANTS
  SubUnits = 2
  Requests = {r1}
  Companies = {"A", "B"}
  Wallets <- MCWallets
  Owner <- MCOwner
  Currency <- MCCurrency
  Opening <- MCOpening
  Phones = {"p"}
  NoPhone = "none"
  NoWalletChosen = "none"
  Main = "x"
  CollaborativeRate = 2
  PrivateRate <- MCPrivateRate
  Receipts <- TwoReceipts
  Bodies <- MCBodies
  MaxEntries = 3
  MaxOrders = 2
SPECIFICATION Spec
PROPERTY ClosingFreesTheEntry
CHECK_DEADLOCK FALSE
