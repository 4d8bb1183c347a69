CONSTANTS
  Requests = {r1, r2}
  Companies = {A, B}
  Rates = {"low", "high"}
  Currencies = {"x", "y"}
  Openings <- MCOpenings
  NewRates = {"low"}
  Updates <- MCUpdates
  Unset = unset
  MaxRows = 4
SPECIFICATION Spec
INVARIANTS TypeOK OneActivePerPair QuietPairsAgree CounterpartIsTold
PROPERTIES AgreedTermsAreFinal
CHECK_DEADLOCK FALSE
SYMMETRY Symmetry
