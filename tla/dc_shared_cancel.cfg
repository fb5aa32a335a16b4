SPECIFICATION Spec
CONSTANTS
  Receivers = {}
  Senders = {}
  Coroutines = {c1, c2}
  Owned = {}
  RecvBuffer = 1
  Thresholds = {0}
  MaxMessages = 0
  MaxBuffered = 0
  MaxReady = 1
INVARIANT NoSpuriousCancel
CHECK_DEADLOCK FALSE
