SPECIFICATION Spec
CONSTANTS
  Receivers = {}
  Senders = {}
  Coroutines = {c1, c2}
  Owned = {c1}
  RecvBuffer = 1
  Thresholds = {0}
  MaxMessages = 0
  MaxBuffered = 0
  MaxReady = 1
INVARIANT AcloseReleases
CHECK_DEADLOCK FALSE
