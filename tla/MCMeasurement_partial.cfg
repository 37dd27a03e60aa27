SPECIFICATION Spec
CONSTANTS
  Country = "US"
  Packet <- MCPacket
  MaxCaptured = 2
  MaxHeard = 0
  MaxFailed = 0
  MaxRound = 1
  Mask <- MCMask
  Operation <- MCOperation
  Mode = {"freq", "chan", "both"}
INVARIANTS
  AvailableSpectrum
CHECK_DEADLOCK FALSE
