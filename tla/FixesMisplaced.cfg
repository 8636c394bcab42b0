SPECIFICATION FixSpec
CONSTANTS
  a = a
  b = b
  stray = stray
  hash = hash
  hashAndTls = hashAndTls
  plus = plus
  Path = {a}
  Stray = stray
  Text = {hash, hashAndTls, plus}
  PlusText = {plus}
  MaxLine = 2
  Category = {"weak-hash", "tls-verification-disabled"}
  Fixable <- Fixes
  MaxFindings = 1
INVARIANT
  SuggestionReplacesItsLine
CHECK_DEADLOCK FALSE
