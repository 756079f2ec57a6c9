CONSTANTS
  plain = plain
  long = long
  empty = empty
  big = big
  Requests = {plain, empty}
  NoRequest = NoRequest
  Ops = {k1, k2, k3}
  Size <- MCSize
  Chunked = {empty}
  Big = {}
SPECIFICATION FairSpec
PROPERTIES
  EmptyBodyAnswered
