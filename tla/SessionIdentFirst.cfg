CONSTANTS
  A = a
  B = b
  Elsewhere = elsewhere
  Stations = {a, b}
  First = a
  Other = elsewhere
  Frame = 1
  Gap = 2
  Slack = 1
  Wait = 2
  Ident <- Identifiers
  Exchange = 10
  LinkTimeout = 24
  Drain = 0
  ConnectRetries = 2
  MaxRetries = 1
  DiscRetries = 2
  LeaveRepeats = 2
  Jitter = {0}
  Unreadable = 1
  ReadDelay = 1
  Fades <- Never
  Calls <- ThenElsewhere
  Leavers = {}
  Aborters = {b}
  LastCall = 30
  LastOrder = 36
  MaxSession = 2
  MaxLost = 1
  MaxTime = 36
SPECIFICATION Spec
PROPERTY IdentFirst
CHECK_DEADLOCK FALSE
