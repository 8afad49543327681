SPECIFICATION FairSpec
CONSTANTS
  Replicas = {b1}
  Requests = {q1, q2}
  t1 = t1
  t2 = t2
  t3 = t3
  t4 = t4
  Tokens = {t1, t2, t3, t4}
  Nil = Nil
  None = None
  Faults = {"outage", "lost", "redis"}
  Kinds = {"page", "refused", "refresh", "login", "mfa", "logout"}
CONSTRAINT IssuedInOrder
ACTION_CONSTRAINT ThreeUnlessPlain
CHECK_DEADLOCK FALSE
INVARIANTS ValidUserStaysIn SessionGoesOn LogoutEndsSession
PROPERTY EveryRequestAnswered
