SPECIFICATION Spec
CONSTANTS
  Receivers = {r1}
  Senders = {}
  Coroutines = {}
  Owned = {}
  RecvBuffer = 1
  Thresholds = {0}
  MaxMessages = 1
  MaxBuffered = 0
  MaxReady = 2
INVARIANT NoReaderStranded
CHECK_DEADLOCK FALSE
