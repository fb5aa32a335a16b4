SPECIFICATION LiveSpec
CONSTANTS
  Conns = {p}
  Chans = {d}
  Workers = {w}
  Loop = Loop
  Pool = Pool
  Logger = Logger
  Kinds = {1}
  Nobody = Nobody
  Nothing = Nothing
  StreamRange = 8
  MaxLimit = 2
  UrlLength = 6
INVARIANTS TypeOK Unstuck ReportsFound NoneAfterDelete DeletedOnce
INVARIANTS LinesAsLogged ChannelsAsAsked ServersAsGiven
PROPERTIES OperationsReturn ExitClean
CHECK_DEADLOCK FALSE
