CONSTANTS
  Requests = {r1, r2}
  Companies = {A, B}
  Rates = {"low", "high"}
  Currencies = {"x", "y"}
  Openings <- MCOpenings
  NewRates = {"low"}
  Updates <- MCUpdates
  Unset = unset
  MaxRows = 2
SPECIFICATION Spec
PROPERTY AcceptedIsNotTouched
CHECK_DEADLOCK FALSE
