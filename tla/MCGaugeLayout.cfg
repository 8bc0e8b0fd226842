SPECIFICATION GaugeLayoutSpec
CONSTANTS
  Columns = 12
  Rows = 12
  Arrangements <- MCPages
  LastGauge = 5
  NewSpans <- MCSpans
  FallbackSpans <- MCFallback
  StandardSizes <- MCSpans
  MaxGauges = 8
  MaxCopies = 1
  MaxGestures = 1
INVARIANT DropLeavesNoOverlap
