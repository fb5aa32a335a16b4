SPECIFICATION LiveSpec
CONSTANTS
  Coroutines = {c1, c2}
  Owned = {c1}
  MaxNegotiations = 2
  MaxReady = 3
INVARIANTS TypeOK WaitersPending
PROPERTIES NegotiationReturns EndReleases StatesNotMissed
CHECK_DEADLOCK FALSE
