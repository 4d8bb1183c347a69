CONSTANTS
  SubUnits = 2
  Requests = {r1, r2}
  NoRequest = NoRequest
  Wallets <- MCWallets
  Companies = {"c1", "c2"}
  Owner <- MCOwner
  Currency <- MCCurrency
  Payloads <- MCPayloads
  InitialBalances = {2}
  MaxOperations = 3
SPECIFICATION FairSpec
INVARIANTS TypeOK LocksProtect LinesArePosted ReferencesAreSequential CreationsNeverDeadlock OperationsAreBalanced CompaniesAreIsolated
PROPERTIES ImplementsLedger RequestsEnd
