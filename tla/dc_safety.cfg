SPECIFICATION Spec
CONSTANTS
  Receivers = {r1, r2}
  Senders = {s1}
  Coroutines = {c1, c2}
  Owned = {c1}
  RecvBuffer = 2
  Thresholds = {0}
  MaxMessages = 2
  MaxBuffered = 1
  MaxReady = 1
INVARIANTS
  TypeOK SendOnLiveHandle NewestKept
  OpenNotLost CloseNotLost SettledOnDestroy TasksCancelledOnClose
  ReadersWoken LowWaterRecoverable
PROPERTY StreamSpec
SYMMETRY Symmetry
CHECK_DEADLOCK FALSE
