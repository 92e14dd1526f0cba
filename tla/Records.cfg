SPECIFICATION RecordsSpec
CONSTANTS
  author = author  final = final  deck = deck  c1 = c1  missing = missing
  former = former  later = later  a1 = a1  t1 = t1  d1 = d1  d2 = d2  broken = broken
  q1 = q1  q2 = q2  p1 = p1  p2 = p2  k1 = k1  m1 = m1  u1 = u1  u2 = u2
  NumMessages = 2
  Revisions = {1}
  Phases = {author, final}
  Final = final
  Paths = {deck}
  Contents = {c1}
  Missing = missing
  Versions = {former, later}
  FirstVersion = former
  MaxRevision = 1
  Api = {a1}
  Turns = {t1}
  Outcomes = {"unknown", "completed"}
  BatchSize = 1
  MaxTokens = 1
  MaxVersion = 2
  MaxLeases = 2
  MaxLate = 1
  Decks = {d1, d2, broken}
  CompleteDecks = {d1, d2}
  MaxExports = 2
  MaxInput = 1
  MaxAttempt = 2
  MaxUnderway = 1
  Verdicts = {"passes"}
  MaxCandidates = 2
  MaxReviews = 3
  Requests = {q1, q2}
  Payloads = {"draw", "search"}
  Generations = {"draw"}
  Inputs = {"first", "second"}
  MaxImages = 1
  MaxRecords = 2
  Workers = 2
  Posts = {p1, p2}
  JobKeys = {k1}
  MessageKeys = {m1}
  Uploads = {u1, u2}
  Content <- SameContent
  MaxJobs = 1
  MaxMessages = 1
CHECK_DEADLOCK FALSE
INVARIANTS ReusedPhaseSawRevisions NothingUnappliedBehindCursor MemoryIsDurable OnlyLeaseLossRefuses SettledIsStored ReportsHold ImagesWithinLimit WorkIsBegunOnce FilesFollowRows AnswersHold
PROPERTIES CountNeverRecedes DraftNeverRecedes AdmissionSpec
