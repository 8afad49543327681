CONSTANTS
  Symbols = {s1, s2}
  Readers = {r1}
  MaxPrice = 2
  MaxReplays = 1
  NoEntry = NoEntry
  LastDay = 4
  Offsets = {0, 4}
  Week = 3
  Month = 4
  NoTile = NoTile
  Lookups = {q1, q2}
  Deployments <- MCDeployments
  Absent = Absent
SPECIFICATION MCSpec
PROPERTY DayChangeIsTheLastDay
