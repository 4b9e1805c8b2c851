SPECIFICATION Spec
CONSTANTS
  l1 = l1
  l2 = l2
  a = a
  b = b
  Labels = {l1, l2}
  Names = {a, b}
  NoSpeaker = NoSpeaker
  None = None
  Lengths <- SomeLengths
  MaxSegments = 2
  MaxTurns = 2
INVARIANTS SInv TallyAddsUp SpeakersApart CorrectionsHitTheirSpeaker MostActiveSpokeMost
           FailedDetectionHarmless
CHECK_DEADLOCK FALSE
