----------------------------- MODULE TaskQueue -----------------------------
(***************************************************************************)
(* The task table of the website and every request handler that moves a    *)
(* task between its statuses.  One D1 statement (or one D1 batch) is       *)
(* atomic, a handler is a sequence of them: where another request can slip *)
(* in between and matter, the handler is split, and the part that has been *)
(* executed leaves a trace in one of the request variables.                *)
(*                                                                         *)
(* A worker request may carry any lease ever issued: an old attempt keeps  *)
(* its lease for as long as its process lives.                             *)
(***************************************************************************)
EXTENDS Naturals, FiniteSets

CONSTANTS
  Jobs,          \* task ids, one for each submission attempt
  Owner,         \* [Jobs -> users]
  RequestKey,    \* [Jobs -> idempotency keys]
  Backend,       \* [Jobs -> {"none", "api", "codex"}], fixed at admission
  Account,       \* [Jobs -> Accounts \cup {NoAccount}], who pays
  Accounts,      \* customer model accounts
  NoAccount,
  Unlimited,     \* users without a quota
  Quota,         \* tasks per ordinary user (10)
  MaxActive,     \* queued plus running tasks (100)
  Capacity,      \* running tasks (3)
  Capabilities,  \* what a claiming worker may advertise
  EditIds,       \* ids of visual edit requests
  MaxMessages,   \* visual edits until the message limit of a task (MAX_MESSAGES)
  Edited,        \* bound: tasks whose conversation and deck are used
  MaxClaims,     \* bound: leases issued in one behaviour
  MaxSaves       \* bound: native saves of delivered files

Backends == {"api", "codex"}

ASSUME QueueAssumption ==
  /\ IsFiniteSet(Jobs)
  /\ Edited \subseteq Jobs
  /\ {Quota, MaxActive, Capacity, MaxMessages, MaxClaims, MaxSaves} \subseteq Nat
  /\ NoAccount \notin Accounts
  /\ Account \in [Jobs -> Accounts \cup {NoAccount}]
  /\ Backend \in [Jobs -> Backends \cup {"none"}]
  /\ \A j \in Jobs : Account[j] # NoAccount => Backend[j] = "api"
  /\ Capabilities \subseteq [backends : SUBSET Backends, funding : BOOLEAN]

VARIABLES
  status,      \* jobs.status, "absent" before the INSERT
  lease,       \* jobs.lease: the attempt that owns the row, 0 for NULL
  summary,     \* jobs.summary
  result,      \* jobs.result_key: the attempt or save whose file it names, 0 for NULL
  born,        \* jobs.created_at: place in the order of admission
  silent,      \* jobs.updated_at is more than three minutes old
  unapplied,   \* task_messages holds a user revision that is not applied
  edit,        \* the open row of native_edits, if any, and what it was based on
  saved,       \* what a resume can start from: task_recovery, task_drafts
  revoked,     \* model_accounts with revoked_at set
  issued,      \* number of leases handed out
  saves,       \* number of native saves that replaced a delivered file
  reaped,      \* workers whose claim has expired stale tasks and not leased yet
  resuming,    \* resume requests past their checks, row unchanged since
  clearing,    \* message requests past the INSERT, summary not yet cleared
  editReads,   \* visual edit requests past their checks, in any number of copies
  noted        \* <<task, edit>> pairs whose message is stored

row      == <<status, lease, summary, result>>
requests == <<reaped, resuming, clearing, editReads, noted>>
fences   == <<unapplied, edit>>
vars     == <<status, lease, summary, result, born, silent, unapplied, edit, saved, revoked,
              issued, saves, reaped, resuming, clearing, editReads, noted>>

Leases   == 1 .. MaxClaims
Statuses == {"absent", "queued", "running", "paused", "complete", "failed"}
Summaries == {"none", "delivery_pending", "interrupted", "failed", "complete", "paused",
              "pause_requested", "resume_requested", "resume_from_draft",
              "model_account_disconnected"}
EditReads == [job : Jobs, id : EditIds, progressive : BOOLEAN, target : Nat]
NoEdit    == [live |-> FALSE, of |-> 0]

In(S)    == {j \in Jobs : status[j] \in S}
Active   == In({"queued", "running"})
Running  == In({"running"})
Admitted == In(Statuses \ {"absent"})
Funded(j) == Account[j] # NoAccount

HasRoomOffByOne == Cardinality(Active) <= MaxActive
HasRoom == Cardinality(Active) < MaxActive

HasSlotOffByOne == Cardinality(Running) <= Capacity
HasSlot == Cardinality(Running) < Capacity

HoldsWhilePaused(j, l) == lease[j] = l /\ status[j] \in {"running", "paused"}
Holds(j, l) == lease[j] = l /\ status[j] = "running"

\* A delivery must not go out under a revision that is not applied, nor under a
\* native save that is still open.
DeliverableIgnoringRevisions(j) == edit[j] = NoEdit
DeliverableIgnoringSaves(j) == ~unapplied[j]
Deliverable(j) == ~unapplied[j] /\ edit[j] = NoEdit

\* Any UPDATE that assigns updated_at: the row is fresh again, and a resume
\* request that still quotes the former timestamp will match no row.
Touch(S) ==
  /\ silent' = [j \in Jobs |-> silent[j] /\ j \notin S]
  /\ resuming' = resuming \ S

\* Back to the queue for a new attempt.
RequeueKeepingLease(j, word) ==
  /\ status' = [status EXCEPT ![j] = "queued"]
  /\ summary' = [summary EXCEPT ![j] = word]
  /\ UNCHANGED lease
  /\ Touch({j})
Requeue(j, word) ==
  /\ status' = [status EXCEPT ![j] = "queued"]
  /\ lease' = [lease EXCEPT ![j] = 0]
  /\ summary' = [summary EXCEPT ![j] = word]
  /\ Touch({j})

----------------------------------------------------------------------------

Init ==
  /\ status = [j \in Jobs |-> "absent"]
  /\ lease = [j \in Jobs |-> 0]
  /\ summary = [j \in Jobs |-> "none"]
  /\ result = [j \in Jobs |-> 0]
  /\ born = [j \in Jobs |-> 0]
  /\ silent = [j \in Jobs |-> FALSE]
  /\ unapplied = [j \in Jobs |-> FALSE]
  /\ edit = [j \in Jobs |-> NoEdit]
  /\ saved = [j \in Jobs |-> {}]
  /\ revoked = {}
  /\ issued = 0
  /\ saves = 0
  /\ reaped = {}
  /\ resuming = {}
  /\ clearing = {}
  /\ editReads = {}
  /\ noted = {}

(***************************************************************************)
(* Admission and the claim loop                                            *)
(***************************************************************************)

\* INSERT_JOB, batched with the task_funding row.
Submit(j) ==
  /\ status[j] = "absent"
  /\ \A k \in Admitted : Owner[k] = Owner[j] => RequestKey[k] # RequestKey[j]
  /\ Owner[j] \in Unlimited \/ Cardinality({k \in Admitted : Owner[k] = Owner[j]}) < Quota
  /\ HasRoom
  /\ Account[j] \notin revoked
  /\ status' = [status EXCEPT ![j] = "queued"]
  /\ born' = [born EXCEPT ![j] = Cardinality(Admitted) + 1]
  /\ UNCHANGED <<lease, summary, result, silent, fences, saved, revoked, issued, saves>>
  /\ UNCHANGED requests

\* First statement of a claim: running tasks silent for three minutes fail.
Stale == {j \in Jobs : status[j] = "running" /\ silent[j]}
Unless(pending, word) == IF pending = "delivery_pending" THEN pending ELSE word

ExpireStale(can) ==
  /\ can \notin reaped
  /\ reaped' = reaped \cup {can}
  /\ status' = [j \in Jobs |-> IF j \in Stale THEN "failed" ELSE status[j]]
  /\ summary' = [j \in Jobs |-> IF j \in Stale THEN Unless(summary[j], "interrupted")
                                               ELSE summary[j]]
  /\ Touch(Stale)
  /\ UNCHANGED <<lease, result, born, fences, saved, revoked, issued, saves>>
  /\ UNCHANGED <<clearing, editReads, noted>>

EligibleUnlessUnset(j, can) ==
  \/ ~Funded(j) /\ Backend[j] \in can.backends
  \/ Funded(j) /\ can.funding /\ can.backends # {}
Eligible(j, can) ==
  \/ ~Funded(j) /\ (Backend[j] = "none" \/ Backend[j] \in can.backends)
  \/ Funded(j) /\ can.funding /\ can.backends # {}

\* Second statement: CLAIM_ACCOUNT_JOB leases the oldest eligible queued task.
Claim(j, can) ==
  /\ can \in reaped
  /\ reaped' = reaped \ {can}
  /\ issued < MaxClaims
  /\ status[j] = "queued" /\ Eligible(j, can)
  /\ \A k \in In({"queued"}) : Eligible(k, can) => born[j] <= born[k]
  /\ HasSlot
  /\ issued' = issued + 1
  /\ lease' = [lease EXCEPT ![j] = issued + 1]
  /\ status' = [status EXCEPT ![j] = "running"]
  /\ Touch({j})
  /\ UNCHANGED <<summary, result, born, fences, saved, revoked, saves>>
  /\ UNCHANGED <<clearing, editReads, noted>>

\* ... or finds none.
ClaimNothing(can) ==
  /\ can \in reaped
  /\ reaped' = reaped \ {can}
  /\ \/ \A j \in In({"queued"}) : ~Eligible(j, can)
     \/ ~HasSlot
  /\ UNCHANGED <<row, born, silent, fences, saved, revoked, issued, saves>>
  /\ UNCHANGED <<resuming, clearing, editReads, noted>>

\* Three minutes pass without a write.  Only a running task and one that was
\* asked to stop are ever looked at for their age.
Silence(j) ==
  /\ status[j] = "running" \/ (status[j] = "paused" /\ summary[j] = "pause_requested")
  /\ ~silent[j]
  /\ silent' = [silent EXCEPT ![j] = TRUE]
  /\ UNCHANGED <<row, born, fences, saved, revoked, issued, saves>>
  /\ UNCHANGED requests

(***************************************************************************)
(* Requests of a worker under the lease l                                  *)
(***************************************************************************)

\* action=heartbeat and action=progress.
Renew(j, l) ==
  /\ Holds(j, l)
  /\ silent[j]
  /\ Touch({j})
  /\ UNCHANGED <<row, born, fences, saved, revoked, issued, saves>>
  /\ UNCHANGED <<reaped, clearing, editReads, noted>>

\* action=delivery-ready.
DeliveryReady(j, l) ==
  /\ Holds(j, l)
  /\ Deliverable(j)
  /\ summary' = [summary EXCEPT ![j] = "delivery_pending"]
  /\ Touch({j})
  /\ UNCHANGED <<status, lease, result, born, fences, saved, revoked, issued, saves>>
  /\ UNCHANGED <<reaped, clearing, editReads, noted>>

\* action=delivery-reset.
DeliveryReset(j, l) ==
  /\ Holds(j, l)
  /\ summary[j] = "delivery_pending"
  /\ summary' = [summary EXCEPT ![j] = "none"]
  /\ UNCHANGED <<status, lease, result, born, silent, fences, saved, revoked, issued, saves>>
  /\ UNCHANGED requests

\* action=complete.
ResultOf(j, l) == l

Complete(j, l) ==
  /\ Holds(j, l)
  /\ Deliverable(j)
  /\ status' = [status EXCEPT ![j] = "complete"]
  /\ result' = [result EXCEPT ![j] = ResultOf(j, l)]
  /\ summary' = [summary EXCEPT ![j] = "complete"]
  /\ Touch({j})
  /\ UNCHANGED <<lease, born, fences, saved, revoked, issued, saves>>
  /\ UNCHANGED <<reaped, clearing, editReads, noted>>

\* action=fail.
Fail(j, l) ==
  /\ Holds(j, l)
  /\ status' = [status EXCEPT ![j] = "failed"]
  /\ summary' = [summary EXCEPT ![j] = Unless(@, "failed")]
  /\ Touch({j})
  /\ UNCHANGED <<lease, result, born, fences, saved, revoked, issued, saves>>
  /\ UNCHANGED <<reaped, clearing, editReads, noted>>

\* action=applied, the call after which no revision of the task is unapplied.
Applied(j, l) ==
  /\ Holds(j, l)
  /\ unapplied[j]
  /\ unapplied' = [unapplied EXCEPT ![j] = FALSE]
  /\ UNCHANGED <<row, born, silent, edit, saved, revoked, issued, saves>>
  /\ UNCHANGED requests

\* action=checkpoint.  A stopping worker reports phase "paused" with its last
\* checkpoint, and the task becomes resumable at once.
Checkpoint(j, l, resumable, phase) ==
  /\ lease[j] = l /\ status[j] \in {"running", "paused"}
  /\ saved' = [saved EXCEPT ![j] = IF resumable THEN @ \cup {"recovery"}
                                                ELSE @ \ {"recovery"}]
  /\ IF status[j] = "paused" /\ phase = "paused"
     THEN summary' = [summary EXCEPT ![j] = "paused"] /\ Touch({j})
     ELSE UNCHANGED <<summary, silent, resuming>>
  /\ UNCHANGED <<status, lease, result, born, fences, revoked, issued, saves>>
  /\ UNCHANGED <<reaped, clearing, editReads, noted>>

\* The draft upload of a running attempt, or the backfill of a failed one.
SaveDraft(j, l) ==
  /\ Holds(j, l) \/ status[j] = "failed"
  /\ saved' = [saved EXCEPT ![j] = @ \cup {"draft"}]
  /\ UNCHANGED <<row, born, silent, fences, revoked, issued, saves>>
  /\ UNCHANGED requests

(***************************************************************************)
(* Requests of the owner and of the operator                               *)
(***************************************************************************)

\* POST pause: a running attempt keeps its lease so that it can report how far it got.
Pause(j) ==
  /\ status[j] \in {"queued", "running"}
  /\ status' = [status EXCEPT ![j] = "paused"]
  /\ summary' = [summary EXCEPT ![j] = IF status[j] = "running" THEN "pause_requested"
                                                                ELSE "paused"]
  /\ Touch({j})
  /\ UNCHANGED <<lease, result, born, fences, saved, revoked, issued, saves>>
  /\ UNCHANGED <<reaped, clearing, editReads, noted>>

\* POST resume, the checks: a task that was asked to stop either said that it
\* did or has been silent for three minutes ...
MayRestartAtOnce(j) == TRUE
MayRestart(j) == (status[j] = "paused" /\ summary[j] = "pause_requested") => silent[j]

BeginResume(j) ==
  /\ status[j] \in {"failed", "complete", "paused"}
  /\ j \notin resuming
  /\ Account[j] \notin revoked
  /\ MayRestart(j)
  /\ resuming' = resuming \cup {j}
  /\ UNCHANGED <<row, born, silent, fences, saved, revoked, issued, saves>>
  /\ UNCHANGED <<reaped, clearing, editReads, noted>>

\* ... and the UPDATE, which repeats those on the row but not the one on the account.
Resume(j) ==
  /\ j \in resuming
  /\ saved[j] # {} \/ (status[j] = "paused" /\ lease[j] = 0)
  /\ HasRoom
  /\ Requeue(j, IF "recovery" \in saved[j] THEN "resume_requested"
                ELSE IF saved[j] # {} THEN "resume_from_draft" ELSE "none")
  /\ UNCHANGED <<result, born, fences, saved, revoked, issued, saves>>
  /\ UNCHANGED <<reaped, clearing, editReads, noted>>

\* RETRY_JOB.
Retry(j) ==
  /\ status[j] = "failed" /\ result[j] = 0
  /\ HasRoom
  /\ Requeue(j, "none")
  /\ UNCHANGED <<result, born, fences, saved, revoked, issued, saves>>
  /\ UNCHANGED <<reaped, clearing, editReads, noted>>

\* POST conversation stores a revision, in any status ...
PostRevision(j) ==
  /\ j \in Edited /\ status[j] # "absent"
  /\ unapplied' = [unapplied EXCEPT ![j] = TRUE]
  /\ clearing' = clearing \cup {j}
  /\ unapplied' # unapplied \/ clearing' # clearing
  /\ UNCHANGED <<row, born, silent, edit, saved, revoked, issued, saves>>
  /\ UNCHANGED <<reaped, resuming, editReads, noted>>

\* ... and then withdraws a delivery that was announced without it.
ClearDeliveryPending(j) ==
  /\ j \in clearing
  /\ clearing' = clearing \ {j}
  /\ summary' = [summary EXCEPT ![j] = IF @ = "delivery_pending" /\ unapplied[j] THEN "none" ELSE @]
  /\ UNCHANGED <<status, lease, result, born, silent, fences, saved, revoked, issued, saves>>
  /\ UNCHANGED <<reaped, resuming, editReads, noted>>

\* DELETE of a model account: revocation and the pause are one batch.
Disconnect(a) ==
  LET hit == {j \in Active : Account[j] = a}
  IN  /\ a \notin revoked
      /\ revoked' = revoked \cup {a}
      /\ status' = [j \in Jobs |-> IF j \in hit THEN "paused" ELSE status[j]]
      /\ summary' = [j \in Jobs |-> IF j \in hit THEN "model_account_disconnected"
                                                 ELSE summary[j]]
      /\ Touch(hit)
      /\ UNCHANGED <<lease, result, born, fences, saved, issued, saves>>
      /\ UNCHANGED <<reaped, clearing, editReads, noted>>

(***************************************************************************)
(* Edits of the deck: direct (native) and by instruction (visual)          *)
(***************************************************************************)

\* What an edit was based on is still what the task shows.
Based(j, e) == IF e.live THEN status[j] = "running" /\ lease[j] = e.of
                         ELSE status[j] = "complete" /\ result[j] = e.of

\* POST native-edits: at most one open save for a task.
NativeSave(j, live) ==
  LET e == [live |-> live, of |-> IF live THEN lease[j] ELSE result[j]]
  IN  /\ j \in Edited /\ edit[j] = NoEdit
      /\ Based(j, e)
      /\ live => summary[j] # "delivery_pending"
      /\ edit' = [edit EXCEPT ![j] = e]
      /\ UNCHANGED <<row, born, silent, unapplied, saved, revoked, issued, saves>>
      /\ UNCHANGED requests

\* finish: the save replaces the delivered file, or is handed to the running
\* attempt; in both cases as a revision of the conversation.
NativeFinish(j) ==
  /\ edit[j] # NoEdit /\ Based(j, edit[j])
  /\ edit' = [edit EXCEPT ![j] = NoEdit]
  /\ unapplied' = [unapplied EXCEPT ![j] = TRUE]
  /\ IF edit[j].live
     THEN UNCHANGED <<result, saves, silent, resuming>>
     ELSE /\ saves < MaxSaves
          /\ saves' = saves + 1
          /\ result' = [result EXCEPT ![j] = MaxClaims + saves + 1]
          /\ Touch({j})
  /\ UNCHANGED <<status, lease, summary, born, saved, revoked, issued>>
  /\ UNCHANGED <<reaped, clearing, editReads, noted>>

\* The save failed, or its base is gone when the editing worker next asks.
NativeFail(j) ==
  /\ edit[j] # NoEdit
  /\ edit' = [edit EXCEPT ![j] = NoEdit]
  /\ UNCHANGED <<row, born, silent, unapplied, saved, revoked, issued, saves>>
  /\ UNCHANGED requests

\* POST visual-edits, the reads: which column will identify the base.
BeginVisualEdit(j, id) ==
  LET live == status[j] = "running"
      read == [job |-> j, id |-> id, progressive |-> live,
               target |-> IF live THEN lease[j] ELSE result[j]]
  IN  /\ j \in Edited /\ status[j] \in {"complete", "running", "queued"}
      /\ <<j, id>> \notin noted
      /\ live \/ result[j] # 0
      /\ status[j] = "complete" => saved[j] # {}
      /\ editReads' = editReads \cup {read}
      /\ editReads' # editReads
      /\ UNCHANGED <<row, born, silent, fences, saved, revoked, issued, saves>>
      /\ UNCHANGED <<reaped, resuming, clearing, noted>>

\* The batch: the INSERT of the message, then the UPDATE of the row, which asks
\* for that message.  A task that was complete goes back to the queue.  The browser
\* sends a request again whose answer it misses: more copies may be on the way.
Matched(r)  == /\ status[r.job] \in {"complete", "running", "queued"}
               /\ (IF r.progressive THEN lease[r.job] ELSE result[r.job]) = r.target
Inserted(r) == /\ Matched(r) /\ HasRoom /\ <<r.job, r.id>> \notin noted
               /\ Cardinality({n \in noted : n[1] = r.job}) < MaxMessages
Updated(r)  == Inserted(r) \/ (Matched(r) /\ <<r.job, r.id>> \in noted)

VisualEdit(r) ==
  LET j == r.job IN
  /\ r \in editReads
  /\ noted' = IF Inserted(r) THEN noted \cup {<<j, r.id>>} ELSE noted
  /\ unapplied' = [unapplied EXCEPT ![j] = @ \/ Inserted(r)]
  /\ \/ ~Updated(r) /\ UNCHANGED <<status, lease, summary, silent, resuming>>
     \/ Updated(r) /\ status[j] = "complete" /\ Requeue(j, "resume_requested")
     \/ /\ Updated(r) /\ status[j] # "complete"
        /\ summary' = [summary EXCEPT ![j] = "none"]
        /\ Touch({j})
        /\ UNCHANGED <<status, lease>>
  /\ UNCHANGED <<result, born, edit, saved, revoked, issued, saves, reaped, clearing, editReads>>

\* A further copy, of a request whose message is stored.
RepeatedEdit == \E r \in editReads : <<r.job, r.id>> \in noted /\ VisualEdit(r)

----------------------------------------------------------------------------
Worker(j) ==
  \E l \in Leases :
    \/ Renew(j, l)
    \/ DeliveryReady(j, l)
    \/ DeliveryReset(j, l)
    \/ Complete(j, l)
    \/ Fail(j, l)
    \/ Applied(j, l)
    \/ \E resumable \in BOOLEAN, phase \in {"paused", "other"} : Checkpoint(j, l, resumable, phase)
    \/ SaveDraft(j, l)

User(j) ==
  \/ Submit(j) \/ Pause(j) \/ BeginResume(j) \/ Resume(j) \/ Retry(j)
  \/ PostRevision(j) \/ ClearDeliveryPending(j)
  \/ \E live \in BOOLEAN : NativeSave(j, live)
  \/ NativeFinish(j) \/ NativeFail(j)
  \/ \E id \in EditIds : BeginVisualEdit(j, id)

Next ==
  \/ \E can \in Capabilities :
       ExpireStale(can) \/ ClaimNothing(can) \/ \E j \in Jobs : Claim(j, can)
  \/ \E j \in Jobs : Silence(j) \/ Worker(j) \/ User(j)
  \/ \E r \in editReads : VisualEdit(r)
  \/ \E a \in Accounts : Disconnect(a)

Spec == Init /\ [][Next]_vars

----------------------------------------------------------------------------
(***************************************************************************)
(* What the table promises                                                 *)
(***************************************************************************)

TypeOK ==
  /\ status \in [Jobs -> Statuses]
  /\ lease \in [Jobs -> 0 .. MaxClaims]
  /\ summary \in [Jobs -> Summaries]
  /\ result \in [Jobs -> 0 .. MaxClaims + MaxSaves]
  /\ born \in [Jobs -> Nat]
  /\ silent \in [Jobs -> BOOLEAN]
  /\ unapplied \in [Jobs -> BOOLEAN]
  /\ edit \in [Jobs -> [live : BOOLEAN, of : 0 .. MaxClaims + MaxSaves]]
  /\ saved \in [Jobs -> SUBSET {"recovery", "draft"}]
  /\ revoked \subseteq Accounts
  /\ issued \in 0 .. MaxClaims
  /\ saves \in 0 .. MaxSaves
  /\ reaped \subseteq Capabilities
  /\ resuming \subseteq Jobs
  /\ clearing \subseteq Jobs
  /\ editReads \subseteq EditReads
  /\ noted \subseteq Jobs \X EditIds

\* One attempt owns a task at a time: a waiting task has no lease, a started one
\* has a lease that was handed out and that no other task carries.
LeaseDiscipline ==
  /\ \A j \in Jobs :
        /\ status[j] \in {"absent", "queued"} => lease[j] = 0
        /\ status[j] \in {"running", "failed", "complete"} => lease[j] # 0
        /\ lease[j] <= issued
  /\ \A j, k \in Jobs : lease[j] = lease[k] /\ lease[j] # 0 => j = k

\* However claims, retries, resumes and edits interleave, no more than Capacity
\* tasks run.
CapacityRespected == Cardinality(Running) <= Capacity

\* Nor does the number of tasks that wait or run grow beyond MaxActive, whether by a
\* submission, a resume, a retry or a visual edit: each counts the queue again in the
\* statement that enters it.  The one exception is a visual edit that is sent again
\* (visual-edits/route.ts:42 counts nothing).
QueueWithinBound ==
  [][Cardinality(Active') > Cardinality(Active)
        => Cardinality(Active') <= MaxActive \/ RepeatedEdit]_vars

\* The file shown for a finished task was delivered by the attempt that holds
\* the row, or is a native save on top of that delivery.
DeliveredByHolder ==
  \A j \in Jobs : status[j] = "complete" => result[j] \in {lease[j]} \cup (MaxClaims + 1 .. MaxClaims + saves)

\* A delivery that is announced is neither missing a stored revision (except
\* for the moment in which the request that stored it withdraws the
\* announcement) nor racing an open native save.
DeliveryPendingHonest ==
  \A j \in Jobs :
     status[j] \in {"running", "failed"} /\ summary[j] = "delivery_pending"
       => (unapplied[j] => j \in clearing) /\ edit[j] = NoEdit

\* No save is lost and none overwrites a newer delivery: a save that is open
\* when the task is complete is based on the very file the task shows.
SaveBasedOnShown ==
  \A j \in Jobs : status[j] = "complete" /\ edit[j] # NoEdit => Based(j, edit[j])

\* What a finished task shows is what its attempt delivered or what its owner
\* saved on that, and nothing that is still open rests on anything else.
ShownFileHonest == DeliveredByHolder /\ SaveBasedOnShown

\* A task whose attempt was asked to stop and has been heard from within three
\* minutes is not queued for another one: two would work on it at once.
ResumeWaitsForStop ==
  [][\A j \in Jobs : status[j] = "paused" /\ summary[j] = "pause_requested" /\ ~silent[j]
                        => status'[j] # "queued"]_vars

\* The attempts behind the rows, as the workers see them: the table implements
\* Attempts, in which no attempt is opened twice or works again after it was
\* asked to stop, delivered, failed or was given up.
PhaseOf(l) ==
  IF l > issued THEN "unissued"
  ELSE IF \E j \in Jobs : lease[j] = l /\ status[j] = "running" THEN "open"
  ELSE IF \E j \in Jobs : lease[j] = l /\ status[j] = "paused" THEN "stopping"
  ELSE IF \E j \in Jobs : lease[j] = l /\ status[j] = "complete" THEN "delivered"
  ELSE "ended"
Attempt == INSTANCE Attempts WITH phase <- [l \in Leases |-> PhaseOf(l)]
AttemptsSpec == Attempt!Spec

\* visual-edits/route.ts:37-38 "Never queue work without its revision": a finished
\* task goes back to the queue for a revision that still awaits processing,
\* unless its owner resumes it.  The code does not keep this: a copy of a visual edit
\* that was made on a running task finds its message stored, its revision applied and
\* the lease of the finished task unchanged, and queues the task again.
NoEmptyRequeue ==
  [][\A j \in Jobs : status[j] = "complete" /\ status'[j] = "queued"
                        => unapplied'[j] \/ j \in resuming]_vars

\* Where no visual edit is sent again, that does not happen and the bound is absolute.
NoRepeatedEdit == [][~RepeatedEdit]_vars
QueueBound == Cardinality(Active) <= MaxActive

(***************************************************************************)
(* Scheduling: every worker's claim loop keeps asking, and an attempt that *)
(* was started ends, if only because its worker reports failure.           *)
(***************************************************************************)
ClaimAnswer(can) == ClaimNothing(can) \/ \E j \in Jobs : Claim(j, can)
AttemptEnds(j) == \E l \in Leases : Complete(j, l) \/ Fail(j, l)

\* Bound: tasks come back to the queue only while a lease is left for every task that
\* has none, so that no claim in a behaviour is refused for want of a lease.
LeasesLeft == issued + Cardinality({j \in Jobs : lease[j] = 0}) <= MaxClaims

\* A queued task is leased or taken out by its owner, whatever other tasks are retried,
\* resumed or edited finitely often meanwhile and whichever worker claims first.  (An
\* older task that came back for ever would starve it: claims go by created_at, which
\* a retry or a resume keeps.)
QueuedIsServed == \A j \in Jobs : status[j] = "queued" ~> status[j] # "queued"
=============================================================================
