CONSTANTS
  Window = 2
  SeqMod = 4
  MaxMode = 2
  FloorModes = 1
  Capacity <- Slowing
  PieceRoom <- Slowing
  MaxFrames = 2
  MaxRetries = 2
  SenderIsMaster = {FALSE}
  MaxUnits = 5
  MaxAir = 2
  MaxAcks = 2
SPECIFICATION Spec
INVARIANTS TypeOK AckedIsReceived PiecesAreOfTheBlock
PROPERTIES StreamSpec
CHECK_DEADLOCK FALSE
