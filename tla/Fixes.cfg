SPECIFICATION FixSpec
CONSTANTS
  a = a
  b = b
  stray = stray
  hash = hash
  hashAndTls = hashAndTls
  plus = plus
  Path = {a, b}
  Stray = stray
  Text = {hash, hashAndTls, plus}
  PlusText = {plus}
  MaxLine = 2
  Category = {"weak-hash", "tls-verification-disabled"}
  Fixable <- Fixes
  MaxFindings = 2
INVARIANTS
  LinesAreFound
  SuggestionFitsLine
  SuggestionsAgree
SYMMETRY FileSymmetry
CHECK_DEADLOCK FALSE
