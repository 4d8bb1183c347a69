CONSTANTS
  Requests = {r1, r2}
  SubUnits = 10
  Codes = {"s1", "s2"}
  Wallets = {"w1", "w2"}
  WalletsBefore <- MCWalletsBefore
  InitialBalances <- MCInitialBalances
  Elsewhere = {0, 1}
  Rebalances <- MCRebalances
  MaxMovements = 3
  Partners = {"c"}
  Modes = {"m"}
  Targets = {"u"}
  Anything = "any"
  PartnerCurrency <- MCPartnerCurrency
  RateBodies <- MCRateBodies
  MaxPrivateRates = 3
  Uploaders = {"A", "B"}
  ProvenOrders <- MCProvenOrders
  MaxProofs = 2
  Listened = {"A", "B"}
  Streams = {l1, l2}
  Closed = "closed"
  MaxNotifications = 2
SPECIFICATION Spec
INVARIANTS TypeOK SupplierBalanceIsExplained WalletsFollowRebalances TransfersHaveOneRate ProofsFollowDecisions NothingPhantomHeard
PROPERTY ConnectedListenersHear
CHECK_DEADLOCK FALSE
