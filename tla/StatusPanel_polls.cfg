SPECIFICATION FairSpec
CONSTANTS
  Meetings = {m1, m2}
  NoMeeting = NoMeeting
  MaxReadErrors = 1
INVARIANTS PInv NotifiedOnceAtEnd
PROPERTIES ScreenKeepsUp EndReported
CHECK_DEADLOCK FALSE
