SPECIFICATION SqlSpec
CONSTANTS
  PKs = {1, 2}
  Values = {"a"}
  MaxTx = 3
  Sessions = {s1, s2}
  Batches <- OneOrTwoRows
  Filters <- AllRows
  MaxRead = 5
INVARIANT BatchAtomic
