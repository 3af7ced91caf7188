CONSTANTS
  Window = 2
  SeqMod = 4
  MaxMode = 1
  FloorModes = 1
  Capacity <- TwoModes
  PieceRoom <- TwoModes
  MaxFrames = 2
  MaxRetries = 2
  SenderIsMaster = {TRUE, FALSE}
  MaxUnits = 2
  MaxAir = 2
  MaxAcks = 1
SPECIFICATION FairSpec
PROPERTIES AllDelivered
CHECK_DEADLOCK FALSE
