SPECIFICATION LiveSpec
CONSTANTS
  Calls = {d1, d2}
  MaxCandidates = 3
  MaxDirect = 2
INVARIANTS
  TypeOK DescribedFirst
PROPERTIES HeldForwarded RelaySpec
CHECK_DEADLOCK FALSE
