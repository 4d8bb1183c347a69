CONSTANTS
  Requests = {r1, r2}
  Users = {"u"}
  Grantable <- MCGrantable
  MaxFailed = 2
  MaxCodeAttempts = 2
  Scenarios <- MCScenarios
  Admins = {"a", "b", "c"}
  FirstAdmin = "a"
  Leaver = "C"
  Partner = "P"
  MaxCalls = 2
SPECIFICATION Spec
INVARIANTS TypeOK EarlierSessionsAreOver GuessesAreBounded NothingGrantedWhileBarred LastAdminStays DeletionsAreClean
CHECK_DEADLOCK FALSE
