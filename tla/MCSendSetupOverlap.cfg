SPECIFICATION Spec
CONSTANTS
  Fields <- ReadFields
  Values = {v1, v2}
  Null = Null
  SimConfig = v1
  DefaultBrightness = v1
  Newer = Newer
  OtherTuner = TRUE
  Overlaps = TRUE
INVARIANTS ConfirmedIsOnDash
PROPERTIES AnswersKeepChanges
