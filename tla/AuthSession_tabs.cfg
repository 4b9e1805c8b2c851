SPECIFICATION Spec
CONSTANTS
  t1 = t1
  t2 = t2
  u1 = u1
  u2 = u2
  c1 = c1
  c2 = c2
  n1 = n1
  n2 = n2
  n3 = n3
  None = None
  Tabs <- TwoTabs
  Accounts <- TwoAccounts
  Calls <- TwoCalls
  Tokens <- ThreeTokens
  MaxNews = 2
SYMMETRY Alike
INVARIANT UInv
INVARIANT StoreIsOneAccounts
PROPERTY KeptSignedIn
CHECK_DEADLOCK FALSE
