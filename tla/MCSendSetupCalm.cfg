SPECIFICATION Spec
CONSTANTS
  Fields <- LiveFields
  Values = {v1, v2}
  Null = Null
  SimConfig = v1
  DefaultBrightness = v1
  Newer = Newer
  OtherTuner = TRUE
  Overlaps = FALSE
PROPERTIES SentClears EditStaysUnsent NewerDashKept SendEnds
