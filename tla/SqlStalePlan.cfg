SPECIFICATION SqlSpec
CONSTANTS
  PKs = {1, 2, 3}
  Values = {"a"}
  MaxTx = 3
  Sessions = {s1, s2}
  Batches <- OneOrTwoRows
  Filters <- PointQueries
  MaxRead = 5
INVARIANT OwnPlan
