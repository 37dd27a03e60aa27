CONSTANTS
  Inquiry = {i1, i2}
  Cfi <- ThreeCfis
  Body <- GoodBody
  Setting <- ScriptSettings
  VectorFile <- Files
  Overlap = FALSE
  Prompt = FALSE
  CountryCode = "US"
  Scripts <- HoldingScripts
  MaxScripts = 2
  Triggered = TRUE
  Conformant = FALSE
SPECIFICATION FairSessionSpec
PROPERTY EveryInquiryAnswered
CHECK_DEADLOCK FALSE
