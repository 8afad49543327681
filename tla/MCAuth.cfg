SPECIFICATION MCSpec
CONSTANTS
  u1 = u1  u2 = u2
  Users = {u1, u2}
  EmailOf <- MCEmailOf
  Passwords = {w1}
  Secrets = {s1, s2}
  RTokens = {x1, x2, x3}
  PTokens = {p1}
  CTokens = {y1}
  Calls = {c1, c2}
  Nil = Nil
  Unborn = Unborn
  Deleted = Deleted
  Ops = {"register", "login", "refresh", "delete", "mfa", "password"}
  RedisFails = TRUE
SYMMETRY Symmetry
CHECK_DEADLOCK FALSE
INVARIANTS SecondFactorIsAsked DeletedUserSessionsEnd EnabledSecretWasProved SessionsAreOfMailReaders
PROPERTY TokensAreGranted
