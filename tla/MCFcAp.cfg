CONSTANTS
  Inquiry = {i1, i2}
  Cfi <- TwoCfis
  Body <- MCBody
  Setting <- MCSetting
  VectorFile <- MCFile
  Overlap = FALSE
SPECIFICATION FairSpec
INVARIANTS TypeOK GrantIsFresh
PROPERTIES ImplementsService Answered
