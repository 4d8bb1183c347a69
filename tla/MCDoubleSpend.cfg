CONSTANTS
  SubUnits = 2
  Requests = {r1, r2}
  Companies = {"A", "B"}
  Wallets <- MCWallets
  Owner <- MCOwner
  Currency <- MCCurrency
  Opening <- MCOpening
  Phones = {"p"}
  NoPhone = "none"
  NoWalletChosen = "none"
  Main = "x"
  CollaborativeRate = 2
  PrivateRate <- MCPrivateRate
  Receipts <- OneReceipt
  Bodies <- MCBodies
  MaxEntries = 1
  MaxOrders = 2
SPECIFICATION Spec
INVARIANT NoEntryOverdrawn
CHECK_DEADLOCK FALSE
