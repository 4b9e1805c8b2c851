SPECIFICATION FairSpec
CONSTANTS
  Platforms = {"google_meet", "zoom", "zoom_sdk", "teams", "teams_live"}
  RetryLimit = 3
  PollInterval = 5
  WarmUp = 15
  Grace = 15
  LobbyPoll = 5
  RoomPoll = 10
  AdmissionLimit = 20
  LobbyHeadStart = 3
  Lags = {0, 3}
  MaxGlitches = 1
INVARIANTS AInv DesertedAfterGrace
PROPERTIES EndNoticed DesertedNoticed
CHECK_DEADLOCK FALSE
