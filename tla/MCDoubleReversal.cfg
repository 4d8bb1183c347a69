CONSTANTS
  SubUnits = 2
  Requests = {r1, r2}
  NoRequest = NoRequest
  Wallets <- MCWallets
  Companies = {"c1", "c2"}
  Owner <- MCOwner
  Currency <- MCCurrency
  Payloads <- MCPayloads
  InitialBalances = {2}
  MaxOperations = 3
SPECIFICATION Spec
INVARIANT AtMostOneReversal
