SPECIFICATION Spec
CONSTANTS
  InitialMs = 1
  MaxMs = 3
  Factor = 2
  MaxAttempts = 3
  Sockets = {s1, s2, s3}
  NoSocket = NoSocket
  MaxDrops = 3
INVARIANTS StaysDown
