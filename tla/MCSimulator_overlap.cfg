CONSTANTS
  Inquiry = {i1, i2}
  Cfi <- ThreeCfis
  Body <- TwoBodies
  Setting <- SAUSettings
  VectorFile <- Files
  Overlap = TRUE
  Prompt = TRUE
SPECIFICATION FairSpec
PROPERTY Answered
