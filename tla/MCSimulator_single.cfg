CONSTANTS
  Inquiry = {i1}
  Cfi <- ThreeCfis
  Body <- AllBodies
  Setting <- AllSettings
  VectorFile <- Files
  Overlap = FALSE
  Prompt = FALSE
SPECIFICATION Spec
INVARIANTS TypeOK OwnAnswer AcceptedIsReported
