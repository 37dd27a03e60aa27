SPECIFICATION Spec
CONSTANTS
  Country = "US"
  Setting <- MCSetting
  Inquiry <- MCInquiry
  Draw <- MCDraw
INVARIANTS
  TypeOK
  WideWithinParts
  PicksAreGranted
  NoSharedChannel
