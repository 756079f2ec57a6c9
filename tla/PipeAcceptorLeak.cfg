CONSTANTS
  Pipes = {p1, p2, p3}
  a1 = a1
  a2 = a2
  Ops = {a1}
  NoOp = NoOp
  NoPipe = NoPipe
  Kind <- MCKindOne
SPECIFICATION Spec
INVARIANT NoHandleLeak
