CONSTANTS
  plain = plain
  long = long
  empty = empty
  big = big
  Requests = {plain, long}
  NoRequest = NoRequest
  Ops = {k1, k2, k3}
  Size <- MCSize
  Chunked = {}
  Big = {}
SPECIFICATION Spec
INVARIANTS
  HandlerSeesWholeBody
