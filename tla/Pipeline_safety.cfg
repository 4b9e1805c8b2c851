SPECIFICATION FairSpec
CONSTANTS
  s1 = s1
  s2 = s2
  Nobody = Nobody
  Sessions = {s1, s2}
  NumEmails <- MixedEmails
  DbOutcomes = {"ok", "error", "lostAck"}
  MaxHalts = 1
  MaxCrashes = 1
INVARIANT IInv
INVARIANT RecordingExclusive
INVARIANT OwnMeetingRecorded
INVARIANT ReportMatchesStatus
INVARIANT MailOnlyAfterReport
INVARIANT MessageFitsProgress
PROPERTY ImplementsLifecycle
PROPERTY EveryPipelineEnds
PROPERTY OutcomeRecorded
CHECK_DEADLOCK FALSE
