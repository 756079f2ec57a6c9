CONSTANTS
  Pipes = {p1, p2}
  a1 = a1
  Ops = {a1}
  NoOp = NoOp
  NoPipe = NoPipe
  Kind <- MCKind
  Clients = {c1, c2}
  Long = {c1}
  NoMsg = NoMsg
SPECIFICATION FairBeastSpec
INVARIANTS
  BeastTypeOK
  OwnReply
  DeadlineGuardsConnection
  NoClientHandleLeak
  UnansweredHasDeadline
PROPERTIES
  NoReplyDiscarded
  NameStaysUp
  DeadlineHoldsUnlessFlushing
  ServedUnlessFlushing
  ConnectEndsUnlessOvertaken
