CONSTANTS
  Pipes = {p1, p2, p3}
  a1 = a1
  a2 = a2
  Ops = {a1}
  NoOp = NoOp
  NoPipe = NoPipe
  Kind <- MCKindOne
  Clients = {c1, c2}
  Long = {}
  NoMsg = NoMsg
  NThreads = 1
SPECIFICATION EchoSpec
INVARIANTS
  NoClientHandleLeak
