CONSTANTS
  A = a
  B = b
  Elsewhere = elsewhere
  Stations = {a, b}
  First = a
  Other = elsewhere
  Frame = 1
  Gap = 2
  Slack = 1
  Wait = 2
  Ident <- LongIdentifiers
  Exchange = 10
  LinkTimeout = 40
  Drain = 8
  ConnectRetries = 2
  MaxRetries = 4
  DiscRetries = 2
  LeaveRepeats = 2
  Jitter = {0}
  Unreadable = 1
  ReadDelay = 1
  Fades <- Closing
  Calls <- ACalls
  Leavers = {a, b}
  Aborters = {a, b}
  LastCall = 0
  LastOrder = 16
  MaxSession = 1
  MaxLost = 1
  MaxTime = 96
SPECIFICATION Spec
INVARIANTS IdentPlaced EveryEndIdentified IdentApart EndTogether NeverMeet
CHECK_DEADLOCK FALSE
