------------------------------ MODULE MCProgress ---------------------------
(***************************************************************************)
(* What must happen in the end: small instances of TaskQueue, Execution,   *)
(* Usage and Drafts.  A behaviour is one of the four on its own, chosen at *)
(* the start, so that one run explores each of them and not their product. *)
(***************************************************************************)
EXTENDS Naturals

VARIABLES
  part,
  status, lease, summary, result, born, silent, unapplied, edit, saved, revoked, handedOut,
  saves, reaped, resuming, withdrawing, editReads, noted,
  row, age, revision, applied, saving, clearing, worker, claim, pc, verdict, build,
  tries, fatal, quiet, beat, strays, issued, builds, events, committed, excused,
  receipts, pending, opened, upload, late, holder, leases, starting, table,
  exports, captured, clock, input, publisher, sent, newest, sending, underway,
  running, issues, fresh, objects, draft, shown

\* Two tasks, of which one needs the API backend, and a worker that lacks it beside
\* one that has both; a third lease lets one of the tasks come back.
Tasks   == {"deck", "report"}
Workers == {[backends |-> {"codex"}, funding |-> FALSE], [backends |-> {"api", "codex"}, funding |-> TRUE]}
Q == INSTANCE TaskQueue WITH
  Jobs <- Tasks, Owner <- [deck |-> "alice", report |-> "bob"],
  RequestKey <- [deck |-> "key", report |-> "key"],
  Backend <- [deck |-> "api", report |-> "none"],
  Account <- [deck |-> "none", report |-> "none"], Accounts <- {}, NoAccount <- "none",
  Unlimited <- {}, Quota <- 1, MaxActive <- 2, Capacity <- 1, Capabilities <- Workers,
  EditIds <- {}, MaxMessages <- 0, Edited <- {}, MaxClaims <- 3, MaxSaves <- 0,
  issued <- handedOut, clearing <- withdrawing

E == INSTANCE Execution WITH
  Latency <- 1, Silence <- 1, Expiry <- 2, Capacity <- 1, Tries <- 2, MaxAttempts <- 1,
  MaxRevisions <- 0, MaxBuilds <- 1, MaxEvents <- 1, MaxStrays <- 1

U == INSTANCE Usage WITH
  Api <- {"call"}, Turns <- {"turn"}, Outcomes <- {"unknown", "completed"}, BatchSize <- 1,
  MaxTokens <- 1, MaxVersion <- 2, MaxLeases <- 2, MaxLate <- 0

D == INSTANCE Drafts WITH
  Decks <- {"one", "two", "broken"}, CompleteDecks <- {"one", "two"},
  MaxExports <- 2, MaxInput <- 0, MaxAttempt <- 2, MaxUnderway <- 0

queueVars == <<status, lease, summary, result, born, silent, unapplied, edit, saved, revoked, handedOut,
               saves, reaped, resuming, withdrawing, editReads, noted>>
attemptVars == <<row, age, revision, applied, saving, clearing, worker, claim, pc, verdict, build,
                 tries, fatal, quiet, beat, strays, issued, builds, events, committed, excused>>
usageVars   == <<receipts, pending, opened, upload, late, holder, leases, starting, table>>
draftVars   == <<exports, captured, clock, input, publisher, sent, newest, sending, underway,
                 running, issues, fresh, objects, draft, shown>>
progressVars == <<part, queueVars, attemptVars, usageVars, draftVars>>

ProgressInit ==
  /\ Q!Init /\ E!Init /\ U!UsageInit /\ D!DraftsInit
  /\ part \in {"queue", "attempt", "usage", "drafts"}

Queueing   == part = "queue" /\ UNCHANGED <<part, attemptVars, usageVars, draftVars>>
Attempting == part = "attempt" /\ UNCHANGED <<part, queueVars, usageVars, draftVars>>
Counting   == part = "usage" /\ UNCHANGED <<part, queueVars, attemptVars, draftVars>>
Publishing == part = "drafts" /\ UNCHANGED <<part, queueVars, attemptVars, usageVars>>

\* Bound: tasks come back by a retry, or by a resume of one that was never leased.
NothingSaved == \A j \in Tasks : saved[j] = {}

ProgressNext ==
  \/ Queueing /\ Q!Next /\ Q!LeasesLeft' /\ NothingSaved'
  \/ Attempting /\ E!Next
  \/ Counting /\ U!UsageNext
  \/ Publishing /\ D!DraftsNext

\* With the fairness of the four specifications.
ProgressSpec ==
  /\ ProgressInit /\ [][ProgressNext]_progressVars
  /\ \A can \in Workers :
       WF_progressVars(Queueing /\ Q!ExpireStale(can)) /\ WF_progressVars(Queueing /\ Q!ClaimAnswer(can))
  /\ \A j \in Tasks : WF_progressVars(Queueing /\ Q!AttemptEnds(j))
  /\ WF_progressVars(Attempting /\ E!Tick) /\ WF_progressVars(Attempting /\ E!Launch)
  /\ WF_progressVars(Attempting /\ E!Exit) /\ WF_progressVars(Attempting /\ E!SendClaim)
  /\ WF_progressVars(Attempting /\ (E!ReceiveClaim \/ E!LoseClaim))
  /\ SF_progressVars(Attempting /\ E!HandleClaim)
  /\ \A a \in E!Attempts : WF_progressVars(Attempting /\ (E!ReceiveBeat(a) \/ E!LoseBeat(a)))
  /\ WF_progressVars(Counting /\ U!Send) /\ SF_progressVars(Counting /\ U!Receive)
  /\ \A step \in U!InFlight : SF_progressVars(Counting /\ U!HandleUpload(step))
  /\ WF_progressVars(Publishing /\ D!Context) /\ WF_progressVars(Publishing /\ D!Look)
  /\ SF_progressVars(Publishing /\ D!Learn)
  /\ \A step \in D!OnTheWay : SF_progressVars(Publishing /\ D!ServeSending(step))

\* A queued task is leased or taken out of the queue, whichever worker claims first and
\* whatever other tasks come back to the queue finitely often (CLAIM_JOB, queries.ts).
QueuedTasksServed == part = "queue" => Q!QueuedIsServed
\* A task whose execution was killed, or lost its answer, does not stay running for
\* ever: a later claim fails it, for its owner to resume (ExpireStale, worker/route.ts).
AttemptsEnd == part = "attempt" => E!AbandonedTasksEnd
\* Whatever requests were lost before, all receipts of an attempt that goes on arrive
\* at the website, those of earlier attempts included (usage_ledger.py, flush).
UsageArrives == part = "usage" => U!ReceiptsArrive
\* The newest whole export of an attempt that goes on is offered for download,
\* although uploads were lost and an attempt forgets what was sent (draft_progress.py).
DraftsArrive == part = "drafts" => D!NewestExportShown
=============================================================================
