SPECIFICATION Spec
CONSTANTS
  s1 = s1
  s2 = s2
  Nobody = Nobody
  Sessions = {s1, s2}
  NumEmails <- MixedEmails
  DbOutcomes = {"ok"}
  MaxHalts = 0
  MaxCrashes = 0
INVARIANT FailureIsolated
CHECK_DEADLOCK FALSE
