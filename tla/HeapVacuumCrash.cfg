SPECIFICATION Spec
CONSTANTS
  PKs = {"k1"}
  Values = {"a"}
  MaxTx = 4

PROPERTY DeletesAreFinal
