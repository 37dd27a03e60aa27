CONSTANTS
  Inquiry = {i1, i2}
  Cfi <- ThreeCfis
  Body <- FewBodies
  Setting <- SAUSettings
  VectorFile <- Files
  Overlap = FALSE
  Prompt = TRUE
SPECIFICATION Spec
INVARIANT RefusedIsReported
