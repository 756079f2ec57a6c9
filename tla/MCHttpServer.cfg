CONSTANTS
  plain = plain
  long = long
  empty = empty
  big = big
  Requests = {plain, long, empty, big}
  NoRequest = NoRequest
  Ops = {k1, k2, k3, k4, k5}
  Size <- MCSize
  Chunked = {empty}
  Big = {big}
SPECIFICATION FairSpec
INVARIANTS
  TypeOK
  CompletesOnce
  OneReceiver
  AnsweredFromOwnRequest
  NoneForgotten
PROPERTIES
  ServiceSpec
  AnsweredUnlessBig
