SPECIFICATION TasksSpec
CONSTANTS
  j1 = j1  j2 = j2  j3 = j3
  alice = alice  bob = bob  k1 = k1  k2 = k2
  acct = acct  e1 = e1  e2 = e2  none = none
  Jobs = {j1, j2, j3}
  Owner <- MCOwner
  RequestKey <- MCRequestKey
  Backend <- MCBackend
  Account <- MCAccount
  Accounts = {acct}
  NoAccount = none
  Unlimited = {}
  Quota = 2
  MaxActive = 2
  Capacity = 1
  Capabilities <- BothWorkers
  EditIds = {e1, e2}
  MaxMessages = 1
  Edited = {j1}
  MaxClaims = 2
  MaxSaves = 1
CHECK_DEADLOCK FALSE
INVARIANTS LeaseDiscipline CapacityRespected DeliveryPendingHonest ShownFileHonest
PROPERTIES QueueWithinBound ResumeWaitsForStop AttemptsSpec
