----------------------------- MODULE Execution -----------------------------
(***************************************************************************)
(* One task between the website and the runner that executes it: the queue *)
(* supervisor (queue_pool.py), the executions it starts, each with its     *)
(* lease keeper (resilience.py), the delivery (delivery.py), and how an    *)
(* execution ends (runner.py).                                             *)
(*                                                                         *)
(* Time is kept as ages that Tick advances together and that stop at the   *)
(* value from which on nothing changes any more.  A request may be         *)
(* executed and its answer lost, or its sender may give up before it is    *)
(* executed: then it is a stray, and may arrive at any later time.         *)
(***************************************************************************)
EXTENDS Naturals, FiniteSets

CONSTANTS
  Latency,      \* longest wait for the answer to a claim or a heartbeat (25 s)
  Silence,      \* LeaseKeeper.max_silence (150 s)
  Expiry,       \* a running row may be this old before a claim fails it (180 s)
  Capacity,     \* executions of one supervisor at a time
  Tries,        \* times a complete request is sent
  MaxAttempts,  \* bound: leases issued
  MaxRevisions, \* bound: revisions stored, saves included
  MaxBuilds,    \* bound: decks made
  MaxEvents,    \* bound: acts of the owner, and times the supervisor drains or dies
  MaxStrays     \* bound: requests given up by their senders and still under way

ASSUME ExecutionAssumption ==
  /\ {Latency, Expiry, MaxRevisions, MaxBuilds, MaxEvents, MaxStrays} \subseteq Nat
  /\ {Silence, Capacity, Tries, MaxAttempts} \subseteq Nat \ {0}
  /\ Latency + Silence <= Expiry

VARIABLES
  row,        \* the jobs row; asked: paused and the attempt has not reported; file: result_key
  age,        \* time since its updated_at
  revision,   \* revisions stored, and ...
  applied,    \* ... those a deck answers
  saving,     \* a native save of the running deck is open
  clearing,   \* a revision is stored, its second statement is not executed
  worker,     \* the supervisor: serving, draining, down
  claim,      \* its claim request
  pc,         \* where the execution of an attempt is
  verdict,    \* what it will report
  build,      \* the deck it delivers
  tries,      \* complete requests it may still send
  fatal,      \* LeaseKeeper.fatal
  quiet,      \* time since LeaseKeeper.last_success
  beat,       \* its heartbeat request
  strays,     \* requests given up by their senders
  issued, builds, events, \* counters
  committed,  \* ghost: the completions the website committed
  excused     \* ghost: attempts whose task no one can report any more

site   == <<row, age, revision, applied, saving, clearing>>
pool   == <<worker, claim>>
thread == <<pc, verdict, build, tries>>
keeper == <<fatal, quiet, beat>>
vars   == <<row, age, revision, applied, saving, clearing, worker, claim,
            pc, verdict, build, tries, fatal, quiet, beat,
            strays, issued, builds, events, committed, excused>>

Attempts == 1 .. MaxAttempts
NoFile   == [lease |-> 0, digest |-> 0]
NoBuild  == [digest |-> 0, revision |-> 0]
NoClaim  == [step |-> "idle", lease |-> 0, wait |-> 0]
NoBeat   == [step |-> "idle", wait |-> 0]

AtWork  == {"working", "ready", "uploading", "resetting"}      \* run_workflow and deliver
Locked  == AtWork \cup {"asking", "delivered", "rechecking", "closing", "leaving"}
Live    == Locked \cup {"starting", "left"}
Working(a) == pc[a] \in Live
Beating(a) == pc[a] \in Live \ {"delivered", "left"}            \* until lease.finish()

Holds(a) == row.status = "running" /\ row.lease = a
Fenced(r) == applied < revision \/ r < revision \/ saving

\* LeaseKeeper.check.
PassesAlways(a) == fatal[a] = "none"
Passes(a) == fatal[a] = "none" /\ quiet[a] < Silence

Happens == events < MaxEvents /\ events' = events + 1

Stray(kind, a) == [kind |-> kind, lease |-> a, build |-> build[a]]
WithStrays(s) == Cardinality(strays \cup s) <= MaxStrays /\ strays' = strays \cup s
LostClaim == [kind |-> "claim", lease |-> 0, build |-> NoBuild]
Older(x, limit) == IF x < limit THEN x + 1 ELSE x
-----------------------------------------------------------------------------
Init ==
  /\ row = [status |-> "queued", lease |-> 0, announced |-> FALSE, asked |-> FALSE, file |-> NoFile]
  /\ age = 0 /\ revision = 0 /\ applied = 0 /\ saving = FALSE /\ clearing = FALSE
  /\ worker = "serving" /\ claim = NoClaim /\ events = 0
  /\ pc = [a \in Attempts |-> "none"]
  /\ verdict = [a \in Attempts |-> "none"]
  /\ build = [a \in Attempts |-> NoBuild]
  /\ tries = [a \in Attempts |-> 0]
  /\ fatal = [a \in Attempts |-> "none"]
  /\ quiet = [a \in Attempts |-> 0]
  /\ beat = [a \in Attempts |-> NoBeat]
  /\ strays = {} /\ issued = 0 /\ builds = 0
  /\ committed = {} /\ excused = {}

\* Time passes, but no longer than the limit of a request that is waited for.
Tick ==
  /\ claim.step # "idle" => claim.wait < Latency
  /\ \A a \in Attempts : beat[a].step # "idle" => beat[a].wait < Latency
  /\ age' = IF row.status \in {"running", "paused"} THEN Older(age, Expiry + 1) ELSE age
  /\ quiet' = [a \in Attempts |-> IF Working(a) THEN Older(quiet[a], Silence) ELSE quiet[a]]
  /\ claim' = [claim EXCEPT !.wait = IF claim.step = "idle" THEN 0 ELSE @ + 1]
  /\ beat' = [a \in Attempts |-> IF beat[a].step = "idle" THEN NoBeat
                                 ELSE [beat[a] EXCEPT !.wait = @ + 1]]
  /\ UNCHANGED <<row, revision, applied, saving, clearing, worker, thread, fatal>>
  /\ UNCHANGED <<strays, issued, builds, committed, excused, events>>

(***************************************************************************)
(* The owner                                                               *)
(***************************************************************************)

Pause ==
  /\ row.status \in {"queued", "running"} /\ Happens
  /\ row' = [row EXCEPT !.status = "paused", !.asked = row.status = "running", !.announced = FALSE]
  /\ age' = 0
  /\ UNCHANGED <<revision, applied, saving, clearing, pool, thread, keeper>>
  /\ UNCHANGED <<strays, issued, builds, committed, excused>>

\* resume, or a visual edit of a delivered deck.
Requeue ==
  /\ row.status \in {"failed", "complete", "paused"} /\ Happens
  /\ (row.status = "paused" /\ row.asked) => age >= Expiry
  /\ row' = [row EXCEPT !.status = "queued", !.lease = 0, !.asked = FALSE, !.announced = FALSE]
  /\ age' = 0
  /\ UNCHANGED <<revision, applied, saving, clearing, pool, thread, keeper>>
  /\ UNCHANGED <<strays, issued, builds, committed, excused>>

\* A revision is stored; a delivery that was announced is then withdrawn.
Revise ==
  /\ revision < MaxRevisions /\ ~clearing /\ Happens
  /\ revision' = revision + 1 /\ clearing' = TRUE
  /\ UNCHANGED <<row, age, applied, saving, pool, thread, keeper>>
  /\ UNCHANGED <<strays, issued, builds, committed, excused>>

Withdraw ==
  /\ clearing /\ clearing' = FALSE
  /\ row' = [row EXCEPT !.announced = @ /\ applied >= revision]
  /\ UNCHANGED <<age, revision, applied, saving, pool, thread, keeper>>
  /\ UNCHANGED <<strays, issued, builds, committed, excused, events>>

\* A direct save of the growing deck ends as a revision, or without effect.
OpenSaveAnytime == row.status = "running"
OpenSave == row.status = "running" /\ ~row.announced

BeginSave ==
  /\ OpenSave /\ ~saving /\ Happens
  /\ saving' = TRUE
  /\ UNCHANGED <<row, age, revision, applied, clearing, pool, thread, keeper>>
  /\ UNCHANGED <<strays, issued, builds, committed, excused>>

EndSave ==
  /\ saving /\ saving' = FALSE
  /\ \/ UNCHANGED revision
     \/ /\ row.status = "running" /\ revision < MaxRevisions
        /\ revision' = revision + 1
  /\ UNCHANGED <<row, age, applied, clearing, pool, thread, keeper>>
  /\ UNCHANGED <<strays, issued, builds, committed, excused, events>>

(***************************************************************************)
(* The supervisor and its claims                                           *)
(***************************************************************************)

SendClaim ==
  /\ worker = "serving" /\ claim = NoClaim
  /\ Cardinality({a \in Attempts : Working(a)}) < Capacity
  /\ claim' = [NoClaim EXCEPT !.step = "sent"]
  /\ UNCHANGED <<site, worker, thread, keeper>>
  /\ UNCHANGED <<strays, issued, builds, committed, excused, events>>

\* The website first fails a running row that is too old, then leases the
\* queued one; l is the lease it hands out, 0 for none.
Expired == age > Expiry

AnswerWithoutExpiry(l) ==
  \/ /\ row.status = "queued" /\ issued < MaxAttempts /\ l = issued + 1
     /\ row' = [row EXCEPT !.status = "running", !.lease = l] /\ age' = 0
     /\ issued' = l
  \/ /\ row.status # "queued" \/ issued = MaxAttempts
     /\ l = 0 /\ UNCHANGED <<row, age, issued>>

Answer(l) ==
  \/ /\ row.status = "running" /\ Expired /\ l = 0
     /\ row' = [row EXCEPT !.status = "failed"] /\ age' = 0
     /\ UNCHANGED issued
  \/ /\ row.status = "queued" /\ issued < MaxAttempts /\ l = issued + 1
     /\ row' = [row EXCEPT !.status = "running", !.lease = l] /\ age' = 0
     /\ issued' = l
  \/ /\ ~(row.status = "running" /\ Expired) /\ l = 0
     /\ row.status # "queued" \/ issued = MaxAttempts
     /\ UNCHANGED <<row, age, issued>>

HandleClaim ==
  /\ claim.step = "sent"
  /\ \E l \in 0 .. MaxAttempts :
       /\ Answer(l)
       /\ claim' = IF l = 0 THEN NoClaim ELSE [claim EXCEPT !.step = "answered", !.lease = l]
  /\ UNCHANGED <<revision, applied, saving, clearing, worker, thread, keeper>>
  /\ UNCHANGED <<strays, builds, committed, excused, events>>

\* serve submits a claimed task even if it was told to stop meanwhile.
StartedUnlessStopping(l) == [pc EXCEPT ![l] = IF worker = "serving" THEN "starting" ELSE "none"]
Started(l) == [pc EXCEPT ![l] = "starting"]

ReceiveClaim ==
  LET l == claim.lease IN
  /\ claim.step = "answered"
  /\ claim' = NoClaim
  /\ pc' = Started(l) /\ quiet' = [quiet EXCEPT ![l] = 0]
  /\ UNCHANGED <<site, worker, verdict, build, tries, fatal, beat>>
  /\ UNCHANGED <<strays, issued, builds, committed, excused, events>>

\* No answer within the limit: a claim is never sent again.
LoseClaim ==
  /\ claim # NoClaim
  /\ claim' = NoClaim
  /\ WithStrays(IF claim.step = "sent" THEN {LostClaim} ELSE {})
  /\ excused' = excused \cup ({claim.lease} \ {0})
  /\ UNCHANGED <<site, worker, thread, keeper, issued, builds, committed, events>>

\* What an execution kept in memory is gone with it.
Gone(dead) ==
  /\ verdict' = [a \in Attempts |-> IF a \in dead THEN "none" ELSE verdict[a]]
  /\ tries' = [a \in Attempts |-> IF a \in dead THEN 0 ELSE tries[a]]
  /\ fatal' = [a \in Attempts |-> IF a \in dead THEN "none" ELSE fatal[a]]
  /\ quiet' = [a \in Attempts |-> IF a \in dead THEN 0 ELSE quiet[a]]

\* SIGTERM: no more claims; the process leaves when its executions have ended.
Drain ==
  /\ worker = "serving" /\ Happens
  /\ worker' = "draining"
  /\ UNCHANGED <<site, claim, thread, keeper>>
  /\ UNCHANGED <<strays, issued, builds, committed, excused>>

Exit ==
  /\ worker = "draining" /\ claim = NoClaim
  /\ \A a \in Attempts : ~Working(a)
  /\ worker' = "down"
  /\ UNCHANGED <<site, claim, thread, keeper>>
  /\ UNCHANGED <<strays, issued, builds, committed, excused, events>>

\* The process is killed, and its executions with it.
Die ==
  LET dead == {a \in Attempts : Working(a)} IN
  /\ worker # "down" /\ Happens
  /\ worker' = "down"
  /\ claim' = NoClaim
  /\ pc' = [a \in Attempts |-> IF a \in dead THEN "ended" ELSE pc[a]]
  /\ Gone(dead)
  /\ beat' = [a \in Attempts |-> NoBeat]
  /\ WithStrays({Stray("renew", a) : a \in {b \in Attempts : beat[b].step = "sent"}}
                  \cup (IF claim.step = "sent" THEN {LostClaim} ELSE {}))
  /\ excused' = excused \cup dead \cup ({claim.lease} \ {0})
  /\ UNCHANGED <<site, build, issued, builds, committed>>

Launch ==
  /\ worker = "down" /\ worker' = "serving"
  /\ UNCHANGED <<site, claim, thread, keeper>>
  /\ UNCHANGED <<strays, issued, builds, committed, excused, events>>

(***************************************************************************)
(* The lease keeper                                                        *)
(***************************************************************************)

SendBeat(a) ==
  /\ Beating(a) /\ fatal[a] = "none" /\ beat[a] = NoBeat
  /\ beat' = [beat EXCEPT ![a].step = "sent"]
  /\ UNCHANGED <<site, pool, thread, fatal, quiet>>
  /\ UNCHANGED <<strays, issued, builds, committed, excused, events>>

Acknowledged(a) ==
  IF row.status = "paused" /\ row.lease = a THEN "stop"
  ELSE IF Holds(a) THEN "ok" ELSE "refused"

HandleBeat(a) ==
  /\ beat[a].step = "sent"
  /\ beat' = [beat EXCEPT ![a].step = Acknowledged(a)]
  /\ age' = IF Holds(a) THEN 0 ELSE age
  /\ UNCHANGED <<row, revision, applied, saving, clearing, pool, thread, fatal, quiet>>
  /\ UNCHANGED <<strays, issued, builds, committed, excused, events>>

\* Once the keeper is told to finish, a refusal is expected.
ReceiveBeat(a) ==
  /\ beat[a].step \in {"ok", "stop", "refused"}
  /\ beat' = [beat EXCEPT ![a] = NoBeat]
  /\ quiet' = IF beat[a].step = "ok" THEN [quiet EXCEPT ![a] = 0] ELSE quiet
  /\ fatal' = CASE beat[a].step = "ok" -> fatal
                [] beat[a].step = "stop" -> [fatal EXCEPT ![a] = "paused"]
                [] beat[a].step = "refused" -> IF Beating(a) THEN [fatal EXCEPT ![a] = "refused"] ELSE fatal
  /\ UNCHANGED <<site, pool, thread, strays, issued, builds, committed, excused, events>>

LoseBeat(a) ==
  /\ beat[a] # NoBeat
  /\ beat' = [beat EXCEPT ![a] = NoBeat]
  /\ WithStrays(IF beat[a].step = "sent" THEN {Stray("renew", a)} ELSE {})
  /\ UNCHANGED <<site, pool, thread, fatal, quiet, issued, builds, committed, excused, events>>

(***************************************************************************)
(* An execution                                                            *)
(***************************************************************************)

\* The except branch: a stop it was told of comes before its own error, and a
\* rejected request is checked for a stop.
Raise(a, error) ==
  /\ pc' = [pc EXCEPT ![a] = IF error = "refused" /\ fatal[a] # "paused" THEN "rechecking" ELSE "closing"]
  /\ verdict' = [verdict EXCEPT ![a] = IF fatal[a] = "paused" THEN "paused"
                                        ELSE IF error = "refused" THEN "refused" ELSE "failed"]

Goto(a, to) == pc' = [pc EXCEPT ![a] = to] /\ UNCHANGED verdict

\* The journal is locked while an earlier execution of the task still closes.
OpenJournal(a) ==
  /\ pc[a] = "starting"
  /\ IF \E b \in Attempts : pc[b] \in Locked
       THEN pc' = [pc EXCEPT ![a] = "left"] /\ verdict' = [verdict EXCEPT ![a] = "failed"]
       ELSE Goto(a, "working")
  /\ UNCHANGED <<site, pool, build, tries, keeper>>
  /\ UNCHANGED <<strays, issued, builds, committed, excused, events>>

\* A request of its own is answered 409: also for a lease it holds, when its
\* checkpoint is behind the stored one or its account is disconnected.
Refused(a) ==
  /\ pc[a] \in {"starting", "working"}
  /\ IF pc[a] = "working" THEN Raise(a, "refused")
     ELSE pc' = [pc EXCEPT ![a] = "left"] /\ verdict' = [verdict EXCEPT ![a] = "refused"]
  /\ excused' = excused \cup {a}
  /\ UNCHANGED <<site, pool, build, tries, keeper, strays, issued, builds, committed, events>>

\* The deck is made and the revisions it answers are marked.
Build(a) ==
  /\ pc[a] = "working" /\ Holds(a) /\ builds < MaxBuilds
  /\ builds' = builds + 1
  /\ \E r \in applied .. revision :
       /\ applied' = r
       /\ build' = [build EXCEPT ![a] = [digest |-> builds + 1, revision |-> r]]
  /\ Goto(a, "ready")
  /\ UNCHANGED <<row, age, revision, saving, clearing, pool, tries, keeper>>
  /\ UNCHANGED <<strays, issued, committed, excused, events>>

\* Anything of its own fails, or LeaseKeeper.check does.
Trouble(a) ==
  /\ pc[a] \in {"working", "ready"}
  /\ \E error \in {"own"} \cup ({fatal[a]} \ {"none", "paused"}) : Raise(a, error)
  /\ UNCHANGED <<site, pool, build, tries, keeper>>
  /\ UNCHANGED <<strays, issued, builds, committed, excused, events>>

\* delivery-ready
Announced(a) == Holds(a) /\ ~Fenced(build[a].revision)

Announce(a) ==
  /\ pc[a] = "ready" /\ Passes(a)
  /\ IF Announced(a) THEN row' = [row EXCEPT !.announced = TRUE] /\ age' = 0
     ELSE UNCHANGED <<row, age>>
  /\ \/ Announced(a) /\ Goto(a, "uploading")
     \/ Holds(a) /\ ~Announced(a) /\ Goto(a, "resetting")
     \/ ~Holds(a) /\ Raise(a, "refused")
     \/ Raise(a, "own")                                    \* no answer
  /\ tries' = [tries EXCEPT ![a] = Tries]
  /\ UNCHANGED <<revision, applied, saving, clearing, pool, build, keeper>>
  /\ UNCHANGED <<strays, issued, builds, committed, excused, events>>

AnnounceLate(a) ==
  /\ pc[a] = "ready" /\ Passes(a)
  /\ Raise(a, "own")
  /\ WithStrays({Stray("announce", a)})
  /\ UNCHANGED <<site, pool, build, tries, keeper, issued, builds, committed, excused, events>>

\* complete
Stored(a, b) == row.status = "complete" /\ row.lease = a /\ row.file = [lease |-> a, digest |-> b.digest]
Accepted(a, b) == Holds(a) /\ ~Fenced(b.revision)

Complete(a, b) ==
  IF Accepted(a, b)
    THEN /\ row' = [row EXCEPT !.status = "complete", !.announced = FALSE,
                               !.file = [lease |-> a, digest |-> b.digest]]
         /\ age' = 0
         /\ committed' = committed \cup {[lease |-> a, digest |-> b.digest, revision |-> b.revision]}
    ELSE UNCHANGED <<row, age, committed>>

\* A request without an answer is sent again, then asked about.
Again(a) ==
  /\ Goto(a, IF tries[a] > 1 THEN "uploading" ELSE "asking")
  /\ tries' = [tries EXCEPT ![a] = @ - 1]

Upload(a) ==
  /\ pc[a] = "uploading"
  /\ Complete(a, build[a])
  /\ \/ /\ Accepted(a, build[a]) \/ Stored(a, build[a])
        /\ Goto(a, "delivered") /\ UNCHANGED tries
     \/ /\ Holds(a) /\ Fenced(build[a].revision)
        /\ Goto(a, "resetting") /\ UNCHANGED tries
     \/ /\ ~Holds(a) /\ ~Stored(a, build[a])
        /\ Raise(a, "refused") /\ UNCHANGED tries
     \/ Again(a)
  /\ UNCHANGED <<revision, applied, saving, clearing, pool, build, keeper>>
  /\ UNCHANGED <<strays, issued, builds, excused, events>>

UploadLate(a) ==
  /\ pc[a] = "uploading"
  /\ Again(a)
  /\ WithStrays({Stray("complete", a)})
  /\ UNCHANGED <<site, pool, build, keeper, issued, builds, committed, excused, events>>

\* delivery-status: only the receipt of these bytes counts as delivered.
ReceiptTrusted(a) == row.lease = a
Receipt(a) == row.lease = a /\ row.status = "complete" /\ row.file.digest = build[a].digest

Ask(a) ==
  /\ pc[a] = "asking"
  /\ \/ Receipt(a) /\ Goto(a, "delivered")
     \/ Raise(a, "own")                                    \* not so, or no answer
  /\ UNCHANGED <<site, pool, build, tries, keeper>>
  /\ UNCHANGED <<strays, issued, builds, committed, excused, events>>

\* delivery-reset: then the new input is worked on.
Reset(a) ==
  /\ pc[a] = "resetting"
  /\ \/ /\ row' = [row EXCEPT !.announced = @ /\ ~Holds(a)]
        /\ \/ Holds(a) /\ Goto(a, "working")
           \/ ~Holds(a) /\ Raise(a, "refused")
     \/ /\ row' \in {row, [row EXCEPT !.announced = @ /\ ~Holds(a)]}
        /\ Raise(a, "own")                                 \* no answer
  /\ UNCHANGED <<age, revision, applied, saving, clearing, pool, build, tries, keeper>>
  /\ UNCHANGED <<strays, issued, builds, committed, excused, events>>

\* The heartbeat of the except branch.
Recheck(a) ==
  /\ pc[a] = "rechecking"
  /\ age' = IF Holds(a) THEN 0 ELSE age
  /\ pc' = [pc EXCEPT ![a] = "closing"]
  /\ \/ Acknowledged(a) = "stop" /\ verdict' = [verdict EXCEPT ![a] = "paused"]
     \/ UNCHANGED verdict
  /\ UNCHANGED <<row, revision, applied, saving, clearing, pool, build, tries, keeper>>
  /\ UNCHANGED <<strays, issued, builds, committed, excused, events>>

\* The last checkpoint is posted; that of a stopped attempt ends the request to stop.
LastCheckpoint(a) ==
  /\ pc[a] = "closing"
  /\ \/ /\ verdict[a] = "paused" /\ row.status = "paused" /\ row.lease = a
        /\ row' = [row EXCEPT !.asked = FALSE] /\ age' = 0
     \/ UNCHANGED <<row, age>>
  /\ Goto(a, "leaving")
  /\ UNCHANGED <<revision, applied, saving, clearing, pool, build, tries, keeper>>
  /\ UNCHANGED <<strays, issued, builds, committed, excused, events>>

\* Traces are written, the journal is closed.
Leave(a) ==
  /\ pc[a] \in {"leaving", "delivered"}
  /\ Goto(a, "left")
  /\ UNCHANGED <<site, pool, build, tries, keeper>>
  /\ UNCHANGED <<strays, issued, builds, committed, excused, events>>

\* The keeper has been joined; execute_task reports a failure and no rejection.
Failing(a) == IF Holds(a) THEN row' = [row EXCEPT !.status = "failed"] /\ age' = 0
              ELSE UNCHANGED <<row, age>>

End(a) ==
  /\ pc[a] = "left" /\ beat[a] = NoBeat
  /\ IF verdict[a] = "failed" THEN Failing(a) ELSE UNCHANGED <<row, age>>
  /\ pc' = [pc EXCEPT ![a] = "ended"] /\ Gone({a})
  /\ UNCHANGED <<revision, applied, saving, clearing, pool, build, beat>>
  /\ UNCHANGED <<strays, issued, builds, committed, excused, events>>

EndUnreported(a) ==
  /\ pc[a] = "left" /\ beat[a] = NoBeat /\ verdict[a] = "failed"
  /\ pc' = [pc EXCEPT ![a] = "ended"] /\ Gone({a})
  /\ WithStrays({Stray("fail", a)})
  /\ excused' = excused \cup {a}
  /\ UNCHANGED <<site, pool, build, beat, issued, builds, committed, events>>

(***************************************************************************)
(* A request that its sender gave up                                       *)
(***************************************************************************)

Arrive(s) ==
  /\ s \in strays /\ strays' = strays \ {s}
  /\ \/ /\ s.kind = "claim" /\ UNCHANGED committed
        /\ \E l \in 0 .. MaxAttempts : Answer(l) /\ excused' = excused \cup ({l} \ {0})
     \/ /\ s.kind = "renew" /\ age' = (IF Holds(s.lease) THEN 0 ELSE age)
        /\ UNCHANGED <<row, issued, committed, excused>>
     \/ /\ s.kind = "announce" /\ UNCHANGED <<issued, committed, excused>>
        /\ IF Accepted(s.lease, s.build) THEN row' = [row EXCEPT !.announced = TRUE] /\ age' = 0
           ELSE UNCHANGED <<row, age>>
     \/ s.kind = "complete" /\ Complete(s.lease, s.build) /\ UNCHANGED <<issued, excused>>
     \/ s.kind = "fail" /\ Failing(s.lease) /\ UNCHANGED <<issued, committed, excused>>
  /\ UNCHANGED <<revision, applied, saving, clearing, pool, thread, keeper, builds, events>>
-----------------------------------------------------------------------------
Owner == Pause \/ Requeue \/ Revise \/ Withdraw \/ BeginSave \/ EndSave
Supervisor == SendClaim \/ HandleClaim \/ ReceiveClaim \/ LoseClaim \/ Drain \/ Exit \/ Die \/ Launch
Keeper(a) == SendBeat(a) \/ HandleBeat(a) \/ ReceiveBeat(a) \/ LoseBeat(a)
Delivery(a) == Announce(a) \/ AnnounceLate(a) \/ Upload(a) \/ UploadLate(a) \/ Ask(a) \/ Reset(a)
Ending(a) == Recheck(a) \/ LastCheckpoint(a) \/ Leave(a) \/ End(a) \/ EndUnreported(a)
Execute(a) == OpenJournal(a) \/ Refused(a) \/ Build(a) \/ Trouble(a) \/ Delivery(a) \/ Ending(a)

Next ==
  \/ Tick \/ Owner \/ Supervisor
  \/ \E a \in Attempts : Keeper(a) \/ Execute(a)
  \/ \E s \in strays : Arrive(s)

Spec == Init /\ [][Next]_vars

(***************************************************************************)
(* Fairness: clocks run, a supervisor that left is launched again and keeps *)
(* asking, a request is answered or given up, and of the claims it keeps    *)
(* sending not every one is lost.                                           *)
(***************************************************************************)
Fairness ==
  /\ WF_vars(Tick) /\ WF_vars(Launch) /\ WF_vars(Exit) /\ WF_vars(SendClaim)
  /\ WF_vars(ReceiveClaim \/ LoseClaim) /\ SF_vars(HandleClaim)
  /\ \A a \in Attempts : WF_vars(ReceiveBeat(a) \/ LoseBeat(a))

FairSpec == Spec /\ Fairness
-----------------------------------------------------------------------------
Deck   == [digest : 0 .. MaxBuilds, revision : 0 .. MaxRevisions]
Words  == {"queued", "running", "paused", "failed", "complete"}
Files  == [lease : 0 .. MaxAttempts, digest : 0 .. MaxBuilds]
Jobs   == [status : Words, lease : 0 .. MaxAttempts, announced : BOOLEAN, asked : BOOLEAN, file : Files]
Claims == [step : {"idle", "sent", "answered"}, lease : 0 .. MaxAttempts, wait : 0 .. Latency]
Beats  == [step : {"idle", "sent", "ok", "stop", "refused"}, wait : 0 .. Latency]

RowType ==
  /\ row \in Jobs /\ age \in 0 .. Expiry + 1
  /\ revision \in 0 .. MaxRevisions /\ applied \in 0 .. revision
  /\ saving \in BOOLEAN /\ clearing \in BOOLEAN
PoolType == worker \in {"serving", "draining", "down"} /\ claim \in Claims
ThreadType ==
  /\ pc \in [Attempts -> Live \cup {"none", "ended"}]
  /\ verdict \in [Attempts -> {"none", "failed", "paused", "refused"}]
  /\ build \in [Attempts -> Deck] /\ tries \in [Attempts -> 0 .. Tries]
  /\ \A a \in Attempts : pc[a] = "uploading" => tries[a] > 0
KeeperType ==
  /\ fatal \in [Attempts -> {"none", "paused", "refused"}]
  /\ quiet \in [Attempts -> 0 .. Silence]
  /\ beat \in [Attempts -> Beats]
StraysType ==
  /\ strays \subseteq [kind : {"claim", "renew", "announce", "complete", "fail"},
                        lease : 0 .. MaxAttempts, build : Deck]
CountType == issued \in 0 .. MaxAttempts /\ builds \in 0 .. MaxBuilds /\ events \in 0 .. MaxEvents
GhostType ==
  /\ committed \subseteq [lease : 0 .. MaxAttempts, digest : 0 .. MaxBuilds, revision : 0 .. MaxRevisions]
  /\ excused \subseteq Attempts
TypeOK == RowType /\ PoolType /\ ThreadType /\ KeeperType /\ StraysType /\ CountType /\ GhostType

\* An execution whose check passes still has its task: nothing can lease the
\* task anew, and so nothing else works on it, before the keeper has stopped it
\* (unless what it delivered has already been accepted).
PassingAttemptsHold ==
  \A a \in Attempts : pc[a] \in AtWork /\ Passes(a) =>
    \/ row.lease = a /\ row.status \in {"running", "paused"}
    \/ \E c \in committed : c.lease = a

\* What an execution believes delivered was committed, with these bytes and for
\* this revision, whatever answers it missed.
BelievedDelivered ==
  \A a \in Attempts : pc[a] = "delivered" =>
    [lease |-> a, digest |-> build[a].digest, revision |-> build[a].revision] \in committed

\* No request that arrives late delivers a deck that its attempt has replaced.
DeliveredIsLastBuild ==
  \A c \in committed : c.digest = build[c.lease].digest

\* A running row without an execution is the trace of a kill, a lost answer or
\* a rejection, never of the runner's own control flow.
OnlyLossesStrand ==
  \A a \in Attempts : Holds(a) =>
    \/ Working(a) \/ a \in excused
    \/ claim.step = "answered" /\ claim.lease = a

\* A row whose execution is gone is failed by a later claim, for its owner to resume.
Abandoned(a) == Holds(a) /\ ~Working(a) /\ claim.lease # a
AbandonedTasksEnd == \A a \in Attempts : Abandoned(a) ~> ~Holds(a)
=============================================================================
