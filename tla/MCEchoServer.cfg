CONSTANTS
  Pipes = {p1, p2}
  a1 = a1
  a2 = a2
  Ops = {a1, a2}
  NoOp = NoOp
  NoPipe = NoPipe
  Kind <- MCKind
  Clients = {c1, c2}
  Long = {c1}
  NoMsg = NoMsg
  NThreads = 2
SPECIFICATION FairEchoSpec
INVARIANTS
  EchoTypeOK
  OwnReply
  SessionOwnsPipe
  OnlyDisconnectedLeaks
  UnansweredIsRead
PROPERTIES
  Spec
  NoReplyDiscarded
  AnsweredUnlessMissed
