CONSTANTS
  Pipes = {p1, p2}
  a1 = a1
  Ops = {a1}
  NoOp = NoOp
  NoPipe = NoPipe
  Kind <- MCKind
  Clients = {c1}
  Long = {}
  NoMsg = NoMsg
SPECIFICATION FairBeastSpec
PROPERTIES
  DeadlineHolds
