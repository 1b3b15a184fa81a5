SPECIFICATION SqlSpec
CONSTANTS
  PKs = {1, 2, 3}
  Values = {"a"}
  MaxTx = 4
  Sessions = {s1, s2}
  Batches <- PairAndSingle
  Filters <- AllRows
  MaxRead = 2
INVARIANTS CommittedVisible PrefixReads
PROPERTY StatementsReturn
