CONSTANTS
  Pipes = {p1, p2, p3}
  a1 = a1
  a2 = a2
  Ops = {a1, a2}
  NoOp = NoOp
  NoPipe = NoPipe
  Kind <- MCKind
SPECIFICATION FairSpec
INVARIANTS
  TypeOK
  SoleOwner
  AcceptedWasConnected
  CompletesOnce
  PipeFreeForNextAccept
  OnlyNoDataLeaks
  ConnectedOnItsWay
PROPERTIES
  AcceptedUnlessMissed
  HandoffSpec
