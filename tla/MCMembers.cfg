CONSTANTS
  s1 = s1
  s2 = s2
  s3 = s3
  s4 = s4
  s5 = s5
  u1 = u1
  u2 = u2
  Symbols = {s1, s2}
  Alphabet <- MCAlphabet
  BaseSymbols <- MCBaseSymbols
  Listed = {s1, s2}
  Horizons <- MCHorizons
  NoRun = NoRun
  Visits = {v1}
  MaxLag = 1
  Ordered <- MCOrdered
  Baseline <- MCBaseline
  MaxPerPoll = 2
  Urls = {u1, u2}
  About <- MCAbout
  NoSymbol = NoSymbol
  ann = ann
  bob = bob
  c1 = c1
  c2 = c2
  Members = {ann, bob}
  Calls = {c1, c2}
  Nobody = Nobody
  Users = {ann, bob}
  Values = {v1}
  Default = Default
  Looks = {l1}
  NoProfile = NoProfile
  NoUser = NoUser
SPECIFICATION MembersSpec
INVARIANTS HorizonsOfOneRun SignalledOnce EntriesStay ShownUserHasTheCookies
PROPERTIES SymbolsGetPredictions RotationLeavesNoneOut RegistrationMakesProfile EndedSessionIsNoticed
CHECK_DEADLOCK FALSE
