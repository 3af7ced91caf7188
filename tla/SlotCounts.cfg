CONSTANTS
  Budget <- MCBudget
  Key = 1
  Guard = 0
  Slack = 1
  LevelGap <- MCLevelGap
  MaxLevel = 1
  Control <- MCControl
  Unreadable <- MCUnreadable
  Frame <- MCFrame
  OpenWindow <- MCOpenWindow
  MaxData = 2
  MaxFollows = 1
  MaxRetries = 1
  MasterTurnaround = 1
  MasterDeclared = 1
  Step = 1
  SlaveDeclared = 3
  AnswerGap = 0
  MasterLatency = 0
  SlaveLatency = 1
  KeyDelay = 0
  ReportDelay = 1
  Policies <- CountPolicies
  Choices <- OrdinaryData
  MaxTime = 15
SPECIFICATION Spec
INVARIANTS TypeOK SlaveInSlot StatedIsTheEnd DueMeansDone
PROPERTIES SlaveHearsNext NeverKeysTwice
CHECK_DEADLOCK FALSE
