SPECIFICATION FairSpec
CONSTANTS
  Platforms = {"teams"}
  RetryLimit = 3
  PollInterval = 5
  WarmUp = 15
  Grace = 15
  LobbyPoll = 5
  RoomPoll = 10
  AdmissionLimit = 20
  LobbyHeadStart = 3
  Lags = {0, 3}
  MaxGlitches = 0
PROPERTY AdmissionBounded
CHECK_DEADLOCK FALSE
