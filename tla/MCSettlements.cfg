CONSTANTS
  SubUnits = 2
  Requests = {r1, r2}
  Companies = {"A", "B"}
  Wallets <- MCWallets
  Owner <- MCOwner
  Currency <- MCCurrency
  Opening <- MCOpening
  Phones = {"p"}
  NoPhone = "none"
  NoWalletChosen = "none"
  Main = "x"
  CollaborativeRate = 2
  PrivateRate <- MCPrivateRate
  Receipts <- OneReceipt
  Bodies <- MCBodies
  MaxEntries = 2
  MaxOrders = 2
SPECIFICATION RaceSpec
INVARIANTS
  TypeOK ApprovalsAreSettled AllocationsFollowDecisions ClosedOrdersLeaveClientsEven
  EntriesNeverOverdrawn EntryStatusIsCurrent CancelledEntriesAreUnused
  ClientBalanceIsExplained OrdersAreFunded
PROPERTIES OrdersAreDecidedOnce OnlyEmptyOrdersReopen
CHECK_DEADLOCK FALSE
SYMMETRY RequestSymmetry
