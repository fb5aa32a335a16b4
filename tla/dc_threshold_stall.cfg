SPECIFICATION LiveSpec
CONSTANTS
  Receivers = {}
  Senders = {s1}
  Coroutines = {}
  Owned = {}
  RecvBuffer = 1
  Thresholds = {0, 1}
  MaxMessages = 0
  MaxBuffered = 2
  MaxReady = 1
PROPERTY SendersReleased
CHECK_DEADLOCK FALSE
