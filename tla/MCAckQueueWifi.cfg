SPECIFICATION Spec
CONSTANTS
  Commands = {c1, c2, c3, c4}
  NoCmd = NoCmd
  Capacity = 2
  SeqMax = 6
  LinkKind = "wifi"
  EchoesSeq = TRUE
  PortSwaps = FALSE
INVARIANTS OneInFlight NoStrandedSend OwnReply RetryIsSafe
PROPERTIES NoOvertaking ImplementsChannel EverySendSettles
