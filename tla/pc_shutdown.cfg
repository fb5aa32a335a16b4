SPECIFICATION LiveSpec
CONSTANTS
  Channels = {h1, h2}
  Coroutines = {c1, c2}
  Owned = {c1}
  Sentinel = Sentinel
  MaxCallbacks = 2
INVARIANTS TypeOK Barrier SentinelStays ChannelsKept
PROPERTIES ShutdownSpec IteratorsTerminate ShutdownCompletes
CHECK_DEADLOCK FALSE
