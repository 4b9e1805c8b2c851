SPECIFICATION Spec
CONSTANT RetryAttempts = 5
INVARIANTS TInv CallsFollowPolicy UploadsFit NoReturnToLimited
CHECK_DEADLOCK FALSE
