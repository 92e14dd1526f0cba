------------------------------ MODULE Reviews ------------------------------
(***************************************************************************)
(* The independent reviews of a frozen candidate and the ledger that lets  *)
(* a restart reuse the completed ones (review_sessions.py; workflow.py,    *)
(* review_pass and review).  The content side inspects first without and   *)
(* then with the sources; the visual side works in parallel.               *)
(*                                                                         *)
(* A directory of the ledger is one attempt of one role in one context.    *)
(* It holds numbered entries that are only ever added: a file is linked    *)
(* under its number and its digest, then the directory is synced.  When    *)
(* that raises after the link, the entry is there and the attempt in       *)
(* memory still has its number.  The name of a directory is random: what   *)
(* is found in it does not depend on an order.                             *)
(***************************************************************************)
EXTENDS Naturals, Sequences

CONSTANTS
  Verdicts,       \* well-formed reports
  MaxCandidates,  \* bound: candidates frozen
  MaxReviews      \* bound: attempts

ASSUME ReviewAssumption ==
  "none" \notin Verdicts /\ {MaxCandidates, MaxReviews} \subseteq Nat \ {0}

Roles == {"content-first", "content-evidence", "visual"}

VARIABLES
  attempts,   \* the ledger's directories, their entries in the order they were linked
  candidate,  \* what the journal and the workspace are at (check_identity)
  frozen,     \* the candidate under review, 0 for none
  work,       \* of each role: where its pass is, and the attempt in memory
  judged,     \* ghost: verdicts of completed turns
  reviewed    \* the receipts of concluded reviews

reviewVars == <<attempts, candidate, frozen, work, judged, reviewed>>

Dirs       == DOMAIN attempts
Waiting    == [step |-> "waiting", dir |-> 0, number |-> 0, terminal |-> "not_started",
               answer |-> "none", formatted |-> FALSE]
Terminals  == {"not_started", "inProgress", "completed", "interrupted"}
InTurn     == {"prepared", "bound", "answered", "invalid"}
Raised     == {"raised", "leaving"}
PassSteps  == {"waiting", "published", "returned", "failed"} \cup InTurn \cup Raised

Entry(number, status, report) == [number |-> number, status |-> status, report |-> report]

\* The content side's second pass has the report of the first one among its files.
ContextOf(r) ==
  [role |-> r, candidate |-> frozen,
   first |-> IF r = "content-evidence" THEN work["content-first"].answer ELSE "none"]

ReviewsInit ==
  /\ attempts = << >> /\ candidate = 1 /\ frozen = 0
  /\ work = [r \in Roles |-> Waiting] /\ judged = {} /\ reviewed = {}
-----------------------------------------------------------------------------
(***************************************************************************)
(* The ledger                                                              *)
(***************************************************************************)

\* _load_attempt: sorted by number, each entry has the number of its place.
Readable(d) == \A i \in DOMAIN attempts[d].entries : attempts[d].entries[i].number = i - 1

LastEntry(d) == attempts[d].entries[Len(attempts[d].entries)]
Validated(d) == attempts[d].entries # << >> /\ LastEntry(d).status = "validated"

InContext(r) == {d \in Dirs : attempts[d].context = ContextOf(r)}

\* cached looks through every attempt of the context.
FoundInOne(r) == {d \in InContext(r) : Validated(d) /\ \A o \in InContext(r) : d <= o}
Found(r) == {d \in InContext(r) : Validated(d)}

Appended(dir, entry)   == [attempts EXCEPT ![dir].entries = Append(@, entry)]
NewAttempt(r, entries) == [context |-> ContextOf(r), entries |-> entries]
Prepared               == << Entry(0, "pending", "none") >>

Step(r, step) == work' = [work EXCEPT ![r].step = step]

\* A pass that ended, with a report or an exception, has no attempt in memory.
Returns(r, report) == work' = [work EXCEPT ![r] = [Waiting EXCEPT !.step = "returned", !.answer = report]]
Fails(r)           == work' = [work EXCEPT ![r] = [Waiting EXCEPT !.step = "failed"]]
-----------------------------------------------------------------------------
(***************************************************************************)
(* One round of reviews, and the task around it                            *)
(***************************************************************************)

Freeze ==
  /\ frozen = 0 /\ frozen' = candidate /\ work' = [r \in Roles |-> Waiting]
  /\ UNCHANGED <<attempts, candidate, judged, reviewed>>

\* An accepted message, a repair or a new export: another identity.
Change ==
  /\ candidate < MaxCandidates /\ candidate' = candidate + 1
  /\ UNCHANGED <<attempts, frozen, work, judged, reviewed>>

\* The process ends, or a failed pass cancels the round and the phase raises.
CutShort ==
  /\ frozen # 0 /\ frozen' = 0 /\ work' = [r \in Roles |-> Waiting]
  /\ UNCHANGED <<attempts, candidate, judged, reviewed>>

Conclude ==
  /\ frozen # 0 /\ \A r \in Roles : work[r].step = "returned"
  /\ reviewed' = reviewed \cup {[candidate |-> frozen, reports |-> [r \in Roles |-> work[r].answer]]}
  /\ frozen' = 0 /\ work' = [r \in Roles |-> Waiting]
  /\ UNCHANGED <<attempts, candidate, judged>>

(***************************************************************************)
(* review_pass of one role                                                 *)
(***************************************************************************)

CanStart(r) ==
  /\ frozen # 0 /\ work[r].step = "waiting"
  /\ r = "content-evidence" => work["content-first"].step = "returned"

Reuse(r) ==
  /\ CanStart(r) /\ candidate = frozen /\ \A d \in InContext(r) : Readable(d)
  /\ \E d \in Found(r) : Returns(r, LastEntry(d).report)
  /\ UNCHANGED <<attempts, candidate, frozen, judged, reviewed>>

\* begin: the directory, then its first entry.  When it raises, with or without that
\* entry on disk, no attempt is in memory that could be closed.
Begin(r) ==
  /\ CanStart(r) /\ candidate = frozen /\ \A d \in InContext(r) : Readable(d)
  /\ Found(r) = {} /\ Len(attempts) < MaxReviews
  /\ \/ /\ attempts' = Append(attempts, NewAttempt(r, Prepared))
        /\ work' = [work EXCEPT ![r] = [Waiting EXCEPT !.step = "prepared", !.dir = Len(attempts) + 1, !.number = 1]]
     \/ /\ \E entries \in {<< >>, Prepared} : attempts' = Append(attempts, NewAttempt(r, entries))
        /\ Fails(r)
  /\ UNCHANGED <<candidate, frozen, judged, reviewed>>

\* check_identity at the start of the pass, or a chain that cannot be read.
Refuse(r) ==
  /\ CanStart(r) /\ (candidate # frozen \/ \E d \in InContext(r) : ~Readable(d))
  /\ Fails(r)
  /\ UNCHANGED <<attempts, candidate, frozen, judged, reviewed>>

\* started and bind: the entries before the turn's end, as one.
Ask(r) ==
  /\ work[r].step = "prepared"
  /\ attempts' = Appended(work[r].dir, Entry(work[r].number, "running", "none"))
  /\ work' = [work EXCEPT ![r].step = "bound", ![r].number = @ + 1, ![r].terminal = "inProgress"]
  /\ UNCHANGED <<candidate, frozen, judged, reviewed>>

\* The answer is a report whose fields agree.
WellFormed(answer) == answer \in Verdicts

\* observe of the turn's end.
TurnEnds(r, terminal, answer) ==
  /\ work[r].step = "bound"
  /\ attempts' = Appended(work[r].dir, Entry(work[r].number, "running", "none"))
  /\ work' = [work EXCEPT ![r].number = @ + 1, ![r].terminal = terminal, ![r].answer = answer,
       ![r].step = IF WellFormed(answer) THEN "answered" ELSE "invalid"]
  /\ judged' = judged \cup {[context |-> ContextOf(r), verdict |-> v] :
                            v \in IF terminal = "completed" THEN {answer} \cap Verdicts ELSE {}}
  /\ UNCHANGED <<candidate, frozen, reviewed>>

\* What the turn gave cannot be parsed, before its end was seen.
Garble(r) ==
  /\ work[r].step = "bound" /\ Step(r, "invalid")
  /\ UNCHANGED <<attempts, candidate, frozen, judged, reviewed>>

\* A report can only be corrected when its turn completed, and once.
Correctable(r) == ~work[r].formatted /\ work[r].terminal = "completed"

\* format_correction: the attempt is closed as pending, another one opened for a
\* further turn of the same thread.  When that other one cannot be opened, the
\* exception finds the former attempt still in place.
CorrectFormat(r) ==
  /\ work[r].step = "invalid" /\ Correctable(r) /\ candidate = frozen /\ Len(attempts) < MaxReviews
  /\ \E entries \in {<< >>, Prepared} :
       attempts' = Append(Appended(work[r].dir, Entry(work[r].number, "pending", "none")), NewAttempt(r, entries))
  /\ \/ /\ attempts'[Len(attempts')].entries = Prepared
        /\ work' = [work EXCEPT ![r] = [Waiting EXCEPT !.step = "prepared", !.dir = Len(attempts) + 1,
                                                       !.number = 1, !.formatted = TRUE]]
     \/ work' = [work EXCEPT ![r].step = "raised", ![r].number = @ + 1]
  /\ UNCHANGED <<candidate, frozen, judged, reviewed>>

\* Any exception while an attempt is open: a timeout, a lost lease, the other side
\* failing, a full disk; of an append, one that left no entry.
Raise(r) ==
  /\ work[r].step \in InTurn /\ Step(r, "raised")
  /\ UNCHANGED <<attempts, candidate, frozen, judged, reviewed>>

\* An append, the one of the turn or the one by which phase closes the attempt,
\* raises after it linked its entry: the number in memory stays.
TornAppend(r) ==
  /\ work[r].step \in InTurn \cup {"raised"}
  /\ attempts' = Appended(work[r].dir, Entry(work[r].number, "pending", "none"))
  /\ Step(r, IF work[r].step = "raised" THEN "leaving" ELSE "raised")
  /\ UNCHANGED <<candidate, frozen, judged, reviewed>>

\* phase and then review_pass close the attempt; entries that both leave count as one.
\* An append may leave none.
LeavePending(r) ==
  /\ work[r].step \in Raised
  /\ \E left \in BOOLEAN : attempts' =
       IF left THEN Appended(work[r].dir, Entry(work[r].number, "pending", "none")) ELSE attempts
  /\ Fails(r)
  /\ UNCHANGED <<candidate, frozen, judged, reviewed>>

\* complete: the report's file, then the entry that commits it.
MayCommit(r) == work[r].terminal = "completed" /\ candidate = frozen

PublishReport(r) ==
  /\ work[r].step = "answered" /\ MayCommit(r) /\ Step(r, "published")
  /\ UNCHANGED <<attempts, candidate, frozen, judged, reviewed>>

\* When this append raises, pending refuses to take a committed report back; the
\* entry may be there all the same.
CommitReport(r) ==
  /\ work[r].step = "published"
  /\ \/ /\ attempts' = Appended(work[r].dir, Entry(work[r].number, "validated", work[r].answer))
        /\ Returns(r, work[r].answer) \/ Fails(r)
     \/ UNCHANGED attempts /\ Fails(r)
  /\ UNCHANGED <<candidate, frozen, judged, reviewed>>
-----------------------------------------------------------------------------
Answers == Verdicts \cup {"none"}

ReviewsNext ==
  \/ Freeze \/ Change \/ CutShort \/ Conclude
  \/ \E r \in Roles :
       \/ Reuse(r) \/ Begin(r) \/ Refuse(r) \/ Ask(r) \/ Garble(r) \/ CorrectFormat(r)
       \/ \E terminal \in {"completed", "interrupted"}, answer \in Answers :
            TurnEnds(r, terminal, answer)
       \/ Raise(r) \/ TornAppend(r) \/ LeavePending(r) \/ PublishReport(r) \/ CommitReport(r)

ReviewsSpec == ReviewsInit /\ [][ReviewsNext]_reviewVars
-----------------------------------------------------------------------------
Contexts == [role : Roles, candidate : 1 .. MaxCandidates, first : Answers]
Entries  == [number : Nat, status : {"pending", "running", "validated"}, report : Answers]

\* What each variable holds.
ReviewsTypeOK ==
  /\ candidate \in 1 .. MaxCandidates /\ frozen \in 0 .. candidate
  /\ Len(attempts) <= MaxReviews
  /\ \A d \in Dirs : attempts[d].context \in Contexts /\ attempts[d].entries \in Seq(Entries)
  /\ work \in [Roles -> [step : PassSteps, dir : 0 .. Len(attempts), number : Nat, terminal : Terminals,
                         answer : Answers, formatted : BOOLEAN]]
  /\ judged \subseteq [context : Contexts, verdict : Verdicts]
  /\ reviewed \subseteq [candidate : 1 .. MaxCandidates, reports : [Roles -> Verdicts]]

\* An unfinished pass can be reviewed again: as long as the candidate is what was
\* frozen, nothing that earlier attempts left in the ledger stands in the way (cached
\* raises over a chain that cannot be read).  The code does not keep it: see TornAppend.
RetryPossible ==
  \A r \in Roles : CanStart(r) /\ candidate = frozen => \A d \in InContext(r) : Readable(d)

\* No append raises after it linked its entry.
NoTornAppend == [][\A r \in Roles : ~TornAppend(r)]_reviewVars

\* A report that counts, fresh or reused, came from a completed turn over exactly the
\* candidate it counts for, and the second content pass followed the first report
\* it is filed with (first-view.json).
ReportsWereGiven ==
  /\ \A r \in Roles : work[r].step = "returned" =>
       [context |-> ContextOf(r), verdict |-> work[r].answer] \in judged
  /\ \A x \in reviewed : \A r \in Roles :
       [context |-> [role |-> r, candidate |-> x.candidate,
                     first |-> IF r = "content-evidence" THEN x.reports["content-first"] ELSE "none"],
        verdict |-> x.reports[r]] \in judged

\* A completed review stands: however often the task restarts, no context gets a
\* second committed report, so that directories may be read in any order.
FinishedReviewsStand ==
  \A d, e \in Dirs : attempts[d].context = attempts[e].context /\ Validated(d) /\ Validated(e) => d = e

\* The reports of a task are what its reviewers found, once and for all.
ReportsHold == ReportsWereGiven /\ FinishedReviewsStand
=============================================================================
