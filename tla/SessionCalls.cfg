CONSTANTS
  A = a
  B = b
  Elsewhere = elsewhere
  Stations = {a, b}
  First = a
  Other = elsewhere
  Frame = 1
  Gap = 1
  Slack = 1
  Wait = 1
  Ident <- NoIdentifiers
  Exchange = 5
  LinkTimeout = 12
  Drain = 0
  ConnectRetries = 2
  MaxRetries = 1
  DiscRetries = 2
  LeaveRepeats = 2
  Jitter = {0, 2}
  Unreadable = 1
  ReadDelay = 3
  Fades <- Never
  Calls <- BothCall
  Leavers = {}
  Aborters = {a}
  LastCall = 8
  LastOrder = 16
  MaxSession = 2
  MaxLost = 1
  MaxTime = 16
SPECIFICATION Spec
INVARIANTS TypeOK OneMaster SomeMaster WaitIsTimed
CHECK_DEADLOCK FALSE
