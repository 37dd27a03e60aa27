CONSTANTS
  Inquiry = {i1, i2, i3, i4}
  Cfi <- ThreeCfis
  Body <- GoodBody
  Setting <- ScriptSettings
  VectorFile <- Files
  Overlap = FALSE
  Prompt = FALSE
  CountryCode = "US"
  Scripts <- AllScripts
  MaxScripts = 2
  Triggered = TRUE
  Conformant = TRUE
SYMMETRY Symmetry
SPECIFICATION SessionSpec
INVARIANTS ConformantPasses SecondPhaseMoves
CHECK_DEADLOCK FALSE
