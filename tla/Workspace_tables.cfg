SPECIFICATION Spec
CONSTANTS
  e1 = e1
  e2 = e2
  t1 = t1
  t2 = t2
  m1 = m1
  g1 = g1
  r1 = r1
  r2 = r2
  None = None
  Emails = {e1, e2}
  Founders = {e1}
  TeamIds = {t1, t2}
  TheirTeams = {t2}
  MemberIds = {m1}
  MeetingIds = {g1}
  Requests = {r1, r2}
SYMMETRY Ids
INVARIANTS WInv NothingDangles CompaniesHaveAccounts NoAccountWithoutTeam MeetingsKeepTheirSelection SameAudience
CHECK_DEADLOCK FALSE
