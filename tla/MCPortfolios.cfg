SPECIFICATION MCSpec
CONSTANTS
  b1 = b1  b2 = b2  b3 = b3  p1 = p1  A = A  B = B
  Buys = {b1, b2, b3}
  Portfolios = {p1}
  Symbols = {A, B}
  Prices = {1, 2}
  Names = {n1}
  TargetOf <- MCTargetOf
  ItemsOf <- MCBatches
  InitRows <- MCAnyRows
  Absent = Absent  Removed = Removed
  MayFail = TRUE
  Lists = {w1}  Shares = {A}  Writes = {m1, m2}
  NoList = NoList  NotLoaded = NotLoaded
  empty = empty  t1 = t1  t2 = t2  us = us  uk = uk  f1 = f1  f2 = f2
  Texts = {empty, t1, t2}  Empty = empty  Offers <- MCOffers
  Markets = {us, uk}  DefaultMarkets = {us, uk}  Pages <- MCPages
  Values = {d, v1}  Default = d  Unread = Unread  Calls = {c1, c2}
  Filters = {f1, f2}  NoFilters = f1
  Ranges = {"1W", "3M", "1D"}  Indicators = {"EMA12", "EMA26"}  Sizes = {0, 5, 30}
  Quotes = {q1}  News = {n2}  Nothing = Nothing
  Heights = {0, 1, 2}  Lines = {"EMA12", "EMA26"}  Pairs <- MCPairs  Period <- MCPeriod
  Slow = 2  Smoothed = 1  Relative = 1  MaxBars = 4
  e1 = e1  pw1 = pw1  k1 = k1  k2 = k2  g1 = g1  g2 = g2
  Addresses = {e1, e2}  Passwords = {pw1, pw2, s}  Short = {s}
  Links = {k1, k2}  Posts = {g1, g2}  Nobody = Nobody
CHECK_DEADLOCK FALSE
INVARIANTS BalancedUnlessRaced TradesFollowHoldings OwnWritesAreShown SearchesAreTrue AccountPageIsTrue ChartIsTrue SignalsTellTheSide GuestPagesAreTrue
PROPERTIES FreshSaveKeepsTick
