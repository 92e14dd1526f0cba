CONSTANTS
  Latency = 0
  Silence = 1
  Expiry = 1
  Capacity = 2
  Tries = 2
  MaxAttempts = 2
  MaxRevisions = 1
  MaxBuilds = 2
  MaxEvents = 2
  MaxStrays = 1
SPECIFICATION Spec
INVARIANTS PassingAttemptsHold BelievedDelivered DeliveredIsLastBuild OnlyLossesStrand
CHECK_DEADLOCK FALSE
