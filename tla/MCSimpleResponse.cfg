CONSTANTS
  empty = empty
  short = short
  other = other
  long = long
  Texts = {empty, short, other, long}
  Length <- MCLength
  Values = {short}
  Empty = empty
  HeaderIds = {h1}
  Names <- MCNames
  Codes = {ok}
  Unset = Unset
  NoEntry = NoEntry
  UShort = 3
  ULong = 5
  MaxCalls = 2
SPECIFICATION Spec
INVARIANTS
  DescribesExactlyWhen
  ReuseOnlyAddsChunks
