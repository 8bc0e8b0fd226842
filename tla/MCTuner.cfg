SPECIFICATION TunerSpec
CONSTANTS
  InitialMs = 1
  MaxMs = 3
  Factor = 2
  MaxAttempts = 2
  Sockets = {s1, s2, s3}
  NoSocket = NoSocket
  MaxDrops = 2
  Ports = {p1, p2}
  Callers = {c1}
  Scheduler = Scheduler
  NoPort = NoPort
  MaxCanCalls = 4
  MaxCarScans = 4
  MaxPolls = 2
  Codes = {k1, k2}
  SimulatedCodes = {v1}
  FrameIds = {f1, f2}
  Payloads = {x1, x2}
  MaxFrames = 4
  LogNames = {"a", "b"}
  MaxRequests = 2
  Versions = {"v1"}
  Signatures = {"v1"}
  Chunks = 3
  MaxReads = 1
  Installs = {1, 2}
  PageIds = {"p1", "p2", "p3"}
  GaugeIds = {"g1", "g2"}
  Looks = {"plain", "red"}
  PageCap = 3
  GaugeCap = 2
  Dashboards <- MCDashboards
  SimDashboard <- MCSim
  Columns = 3
  Rows = 2
  Arrangements <- MCArrangements
  LastGauge = 4
  NewSpans <- MCNewSpans
  FallbackSpans <- MCFallbackSpans
  StandardSizes <- MCStandardSizes
  MaxGauges = 3
  MaxCopies = 1
  MaxGestures = 3
  MaxChars = 2
  Lines = 3
  MaxLength = 4
  Drafts = {"d1", "d2", "d3"}
INVARIANTS
  LinkInv NoLeakedSocket StatusMatchesSocket StaysDownOnceSettled
  UsbStatusMatchesPort NoPortLeftOpen
  OneSubscription DashFollowsScan OneContinuation CarResultIsOwn ShownCodesAreTheCars
  ListingIsCurrent OutcomeIsTrue 
  NothingListedNothingDiffers UndoTakesItAway
  GaugesInGrid DroppedIsFree LinesAreWhole SavedUnlessPending
PROPERTIES ReconnectSettles SnapshotIsTrue InstallEnds
