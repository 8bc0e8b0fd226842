SPECIFICATION Spec
CONSTANTS
  Fields <- MixedFields
  Values = {v1, v2}
  Null = Null
  SimConfig = v1
  DefaultBrightness = v1
  Newer = Newer
  OtherTuner = TRUE
  Overlaps = TRUE
PROPERTIES OneRestart SentClears
