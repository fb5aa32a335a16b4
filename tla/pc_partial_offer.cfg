SPECIFICATION Spec
CONSTANTS
  Coroutines = {c1, c2}
  Owned = {c1}
  MaxNegotiations = 2
  MaxReady = 3
PROPERTY OfferComplete
CHECK_DEADLOCK FALSE
