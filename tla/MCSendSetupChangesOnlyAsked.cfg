SPECIFICATION Spec
CONSTANTS
  Fields <- LiveFields
  Values = {v1, v2}
  Null = Null
  SimConfig = v1
  DefaultBrightness = v1
  Newer = Newer
  OtherTuner = FALSE
  Overlaps = FALSE
PROPERTIES ChangesOnlyAsked
