CONSTANTS
  Inquiry = {i1, i2}
  Cfi <- ThreeCfis
  Body <- MixedBodies
  Setting <- ScriptSettings
  VectorFile <- Files
  Overlap = FALSE
  Prompt = FALSE
  CountryCode = "US"
  Scripts <- Families
  MaxScripts = 1
  Triggered = TRUE
  Conformant = FALSE
SYMMETRY Symmetry
SPECIFICATION SessionSpec
INVARIANTS SessionTypeOK FirstVerdict SecondPhaseMoves
PROPERTIES JudgedByOwnAnswer NoGrantWhileHeld
CHECK_DEADLOCK FALSE
