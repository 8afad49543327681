SPECIFICATION Spec
CONSTANTS
  b1 = b1  b2 = b2  b3 = b3  p1 = p1  A = A  B = B
  Buys = {b3}
  Portfolios = {p1}
  Symbols = {A, B}
  Prices = {1, 2}
  Names = {"n1"}
  TargetOf <- MCTargetOf
  ItemsOf <- MCBatches
  InitRows <- MCPricedRows
  Absent = Absent  Removed = Removed
  MayFail = FALSE
CHECK_DEADLOCK FALSE
PROPERTY TickStaysAuthoritative
