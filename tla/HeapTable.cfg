SPECIFICATION Spec
CONSTANTS
  PKs = {"k1", "k2"}
  Values = {"a", "b"}
  MaxTx = 3
  Bits = 2
  Width = 2
  KeyValues <- SmallKeyValues
  KeyKinds <- SmallKeyKinds
  TableIDs <- SmallTableIDs
  RowsOf <- SmallRowsOf
INVARIANTS RowKeysSorted RowsDecode PrefixBounds
PROPERTIES Implements DeletesHold
