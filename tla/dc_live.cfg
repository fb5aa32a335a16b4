SPECIFICATION LiveSpec
CONSTANTS
  Receivers = {r1}
  Senders = {s1}
  Coroutines = {c1}
  Owned = {c1}
  RecvBuffer = 2
  Thresholds = {0}
  MaxMessages = 1
  MaxBuffered = 1
  MaxReady = 1

PROPERTIES SendersReleased ShutdownCompletes ReadersReleased OpenersReturn
CHECK_DEADLOCK FALSE
