SPECIFICATION FairSpec
CONSTANTS
  r1 = r1  r2 = r2  r3 = r3  r4 = r4  r5 = r5  k1 = k1  b1 = b1  b2 = b2
  Requests = {r1, r2, r3, r4, r5}
  Traffic <- MCTraffic
  Keys = {k1}
  Bodies = {b1, b2}
  KeyOf <- MCKeyOf
  BodyOf <- MCBodyOf
  NoKey = NoKey  BadKey = BadKey  NoRecord = NoRecord
  Faults = {"expiry", "redis", "timeout", "partial", "crash"}
CHECK_DEADLOCK FALSE
INVARIANT ReplayFidelity
PROPERTIES ClaimEndsByOwner EveryAttemptAnswered KeepsThePromise
