SPECIFICATION Spec
CONSTANTS
  Country = "US"
  Packet <- MCPacket
  MaxCaptured = 2
  MaxHeard = 2
  MaxFailed = 1
  MaxRound = 2
  Mask <- MCMask
  Operation <- MCOperation
  Mode = {"freq", "chan", "both", "lpi", "sp", "fc"}
INVARIANTS
  TypeOK
  EveryLengthTriggered
  EveryPacketJudged
  ConformantPasses
  AvailableWideSpectrum
  PrimaryIsMeasured
  SweepIsSound
CHECK_DEADLOCK FALSE
