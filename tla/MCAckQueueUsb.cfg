SPECIFICATION Spec
CONSTANTS
  Commands = {c1, c2, c3, c4}
  NoCmd = NoCmd
  Capacity = 2
  SeqMax = 3
  LinkKind = "usb"
  EchoesSeq = FALSE
  PortSwaps = TRUE
SYMMETRY MCSymmetry
INVARIANTS IInv OwnReply
