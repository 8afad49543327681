CONSTANTS
  w1 = w1  c1 = c1
  Workers = {w1, w2}
  Queries = {q1, q2}
  LastTime = 2
  Closes = {c1, c2}
  Nil = Nil
  MaxRaw = 3
  MaxMoves = 2
  Faulty = TRUE
SPECIFICATION MCSpec
CHECK_DEADLOCK FALSE
INVARIANTS CommittedIsDone SettlesOnNewest FreshHistoryIsWhole
PROPERTIES BarIsFinal EveryBarIsCommitted
