------------------------------ MODULE Prefetch -----------------------------
(***************************************************************************)
(* Materials prepared ahead of the page that needs them                    *)
(* (material_prefetch.py): the author leaves request files in the          *)
(* workspace; the broker, polled by the owner thread, answers them, runs   *)
(* two hosted workers at a time and takes their results over.  Meanwhile   *)
(* the author changes the inputs (outline, decisions) that a request is    *)
(* based on, and makes images of its own under the same limit.             *)
(*                                                                         *)
(* A process that dies leaves the workspace of its last checkpoint, which  *)
(* is taken between polls, and what it wrote later is not seen again       *)
(* (Journal.recover): the next execution is one that goes on from such a   *)
(* state.  So there is no death inside a poll; a poll is taken apart       *)
(* because the author writes at the same time.                             *)
(***************************************************************************)
EXTENDS Naturals, FiniteSets

CONSTANTS
  Requests,     \* names of request files
  Payloads,     \* what is asked for ...
  Generations,  \* ... where images are generated; the others search
  Inputs,       \* what requests may be based on
  MaxImages,    \* MaterialPrefetchBroker: 12
  MaxRecords,   \* MAX_TASKS: 64
  Workers       \* 2

ASSUME PrefetchAssumption ==
  /\ {MaxImages, MaxRecords, Workers} \subseteq Nat \ {0}
  /\ "none" \notin Payloads /\ "illegible" \notin Inputs

VARIABLES
  inputs,           \* the inputs, or "illegible" unless they can be read
  asked, cancels,   \* request files: the payload of each, to cancel
  replied,          \* those of them that have a reply
  jobs,             \* MaterialPrefetchBroker.records: state and basis, or none
  helping,          \* .pending: what the worker of a request is at
  images,           \* .images, shared with the author
  poll,             \* where a poll is, or "closed"
  begun             \* ghost: how often work was begun

prefetchVars == <<inputs, asked, cancels, replied, jobs, helping, images, poll, begun>>
authorVars == <<inputs, asked, cancels>>
queueVars  == <<asked, cancels, replied>>

Idle == [step |-> "none", images |-> 0]
NoJob  == [state |-> "none", basis |-> "none"]
Over   == {"stale", "cancelled", "failed", "interrupted"}
Active == {"queued", "running"}
Known  == {q \in Requests : jobs[q] # NoJob}
Helped == {q \in Requests : helping[q] # Idle}
Asked == {q \in Requests : asked[q] # "none"}
Generates(q) == asked[q] \in Generations
Legible == inputs # "illegible"

\* No outline has been written yet.
PrefetchInit ==
  /\ inputs = "illegible" /\ asked = [q \in Requests |-> "none"] /\ cancels = {} /\ replied = {}
  /\ jobs = [q \in Requests |-> NoJob] /\ helping = [q \in Requests |-> Idle]
  /\ images = 0 /\ poll = "idle" /\ begun = [w \in Payloads |-> [i \in Inputs |-> 0]]
-----------------------------------------------------------------------------
(***************************************************************************)
(* The author, at any time, and its own images, imported between polls     *)
(***************************************************************************)

Working == poll # "closed"

WriteInputs ==
  /\ Working /\ inputs' \in (Inputs \cup {"illegible"}) \ {inputs}
  /\ UNCHANGED <<queueVars, jobs, helping, images, poll, begun>>

AskFor(q, payload) ==
  /\ Working /\ q \notin Asked /\ asked' = [asked EXCEPT ![q] = payload]
  /\ UNCHANGED <<inputs, cancels, replied, jobs, helping, images, poll, begun>>

AskToCancel(q) ==
  /\ Working /\ q \in Asked \ cancels /\ cancels' = cancels \cup {q}
  /\ UNCHANGED <<inputs, asked, replied, jobs, helping, images, poll, begun>>

ImportOwn ==
  /\ poll = "idle" /\ images < MaxImages /\ images' = images + 1
  /\ UNCHANGED <<authorVars, replied, jobs, helping, poll, begun>>

(***************************************************************************)
(* A worker: so many images, or an error                                   *)
(***************************************************************************)

WorkerEnds(q, outcome) ==
  /\ helping[q].step = "working" /\ helping' = [helping EXCEPT ![q] = outcome]
  /\ UNCHANGED <<authorVars, replied, jobs, images, poll, begun>>

(***************************************************************************)
(* A poll: refresh, results, requests, new work                            *)
(***************************************************************************)

\* _refresh.  While the inputs are being written nothing can be said.
Refreshed(q) ==
  IF jobs[q].state \in Active \cup {"ready"} /\ Legible /\ jobs[q].basis # inputs
  THEN [jobs[q] EXCEPT !.state = "stale"] ELSE jobs[q]
Verified(q) == Legible \/ jobs[q].state \in Over

StartPoll ==
  /\ poll = "idle" /\ poll' = "results"
  /\ jobs' = [q \in Requests |-> Refreshed(q)]
  /\ UNCHANGED <<authorVars, replied, helping, images, begun>>

Done == {q \in Helped : helping[q].step # "working"}

\* Only work that still runs has a result (_finish).
Runs(state) == state = "running"

FitsWithout(count) == TRUE
Fits(count) == images + count <= MaxImages

\* An import that fails part of the way has added some of the images.
Imported(q) == IF Fits(helping[q].images) THEN helping[q].images ELSE 0

Harvest(q) ==
  /\ poll = "results" /\ q \in Done /\ Verified(q)
  /\ helping' = [helping EXCEPT ![q] = Idle]
  /\ IF ~Runs(Refreshed(q).state)
     THEN jobs' = [jobs EXCEPT ![q] = Refreshed(q)] /\ UNCHANGED images
     ELSE \/ /\ helping[q].step = "done" /\ Fits(helping[q].images)
             /\ jobs' = [jobs EXCEPT ![q].state = "ready"] /\ images' = images + helping[q].images
          \/ /\ jobs' = [jobs EXCEPT ![q].state = "failed"]
             /\ images' \in images .. images + Imported(q)
  /\ UNCHANGED <<authorVars, replied, poll, begun>>

EndResults ==
  /\ poll = "results" /\ (\A q \in Done : ~Verified(q)) /\ poll' = "requests"
  /\ UNCHANGED <<authorVars, replied, jobs, helping, images, begun>>

\* submit finds the same request, however it ended.
SameWork(q, other) == asked[q] = asked[other] /\ jobs[other].basis = inputs

Submit(q) ==
  /\ poll = "requests" /\ q \in Asked /\ <<"submit", q>> \notin replied
  /\ replied' = replied \cup {<<"submit", q>>}
  /\ \/ /\ Legible /\ jobs[q] = NoJob /\ Cardinality(Known) < MaxRecords
        /\ ~ \E other \in Known : SameWork(q, other)
        /\ jobs' = [o \in Requests |-> IF o = q THEN [state |-> "queued", basis |-> inputs] ELSE Refreshed(o)]
     \/ UNCHANGED jobs \/ jobs' = [o \in Requests |-> Refreshed(o)]   \* known, or an error
  /\ UNCHANGED <<authorVars, helping, images, poll, begun>>

\* Cancellations come after every submission of the same look.
AllSubmitted == \A q \in Asked : <<"submit", q>> \in replied

Cancel(q) ==
  /\ poll = "requests" /\ AllSubmitted /\ q \in cancels /\ <<"cancel", q>> \notin replied
  /\ replied' = replied \cup {<<"cancel", q>>}
  /\ jobs' = IF jobs[q].state \in Active THEN [jobs EXCEPT ![q].state = "cancelled"] ELSE jobs
  /\ UNCHANGED <<authorVars, helping, images, poll, begun>>

EndRequests ==
  /\ poll = "requests" /\ AllSubmitted /\ poll' = "starting"
  /\ UNCHANGED <<authorVars, replied, jobs, helping, images, begun>>

ActiveGenerations == Cardinality({q \in Helped : Generates(q)})

\* A slot is kept for each image that is being generated.
Reserved(q) == Generates(q) /\ images < MaxImages /\ images + ActiveGenerations >= MaxImages

Start(q) ==
  /\ poll = "starting" /\ Cardinality(Helped) < Workers
  /\ jobs[q].state = "queued" /\ Legible /\ ~Reserved(q)
  /\ \/ /\ Refreshed(q).state = "queued" /\ (Generates(q) => images < MaxImages)
        /\ jobs' = [jobs EXCEPT ![q].state = "running"]
        /\ helping' = [helping EXCEPT ![q].step = "working"]
        /\ begun' = [begun EXCEPT ![asked[q]][jobs[q].basis] = @ + 1]
     \/ /\ jobs' = [jobs EXCEPT ![q].state = IF Refreshed(q).state = "stale" THEN "stale" ELSE "failed"]
        /\ UNCHANGED <<helping, begun>>
  /\ UNCHANGED <<authorVars, replied, images, poll>>

EndPoll ==
  /\ poll = "starting" /\ poll' = "idle"
  /\ UNCHANGED <<authorVars, replied, jobs, helping, images, begun>>

(***************************************************************************)
(* The execution around it                                                 *)
(***************************************************************************)

Cut(state) == IF state \in Active THEN "interrupted" ELSE state

\* A deadline, a lost lease, or the end of the workflow.
Close ==
  /\ Working /\ poll' = "closed"
  /\ jobs' = [q \in Requests |-> [jobs[q] EXCEPT !.state = Cut(jobs[q].state)]]
  /\ helping' = [q \in Requests |-> Idle]
  /\ UNCHANGED <<authorVars, replied, images, begun>>

\* A checkpoint, and the execution that goes on from it: _restore.  Nothing is
\* running any more; a result counts if its files are whole.
RestoredAsWas(job) == IF job.state = "running" THEN [job EXCEPT !.state = "queued"] ELSE job
Restored(job) == [job EXCEPT !.state = Cut(job.state)]

Restore ==
  /\ poll \in {"idle", "closed"} /\ poll' = "idle"
  /\ jobs' = [q \in Requests |->
       IF jobs[q].state = "ready" THEN Refreshed(q) ELSE Restored(jobs[q])]
  /\ helping' = [q \in Requests |-> Idle]
  /\ UNCHANGED <<authorVars, replied, images, begun>>
-----------------------------------------------------------------------------
Failure == [step |-> "error", images |-> 0]
Results(q) == {Failure} \cup [step : {"done"}, images : IF Generates(q) THEN 1 .. 2 ELSE {0}]

PrefetchNext ==
  \/ WriteInputs \/ ImportOwn
  \/ StartPoll \/ EndResults \/ EndRequests \/ EndPoll \/ Close \/ Restore
  \/ \E q \in Requests :
       \/ AskToCancel(q) \/ Harvest(q) \/ Submit(q) \/ Cancel(q) \/ Start(q)
       \/ \E payload \in Payloads : AskFor(q, payload)
       \/ \E outcome \in Results(q) : WorkerEnds(q, outcome)

PrefetchSpec == PrefetchInit /\ [][PrefetchNext]_prefetchVars
-----------------------------------------------------------------------------
JobStates  == Active \cup Over \cup {"ready"}
JobType == [Requests -> {NoJob} \cup [state : JobStates, basis : Inputs]]

\* What each variable holds.
PrefetchTypeOK ==
  /\ inputs \in Inputs \cup {"illegible"} /\ asked \in [Requests -> Payloads \cup {"none"}] /\ cancels \subseteq Asked
  /\ replied \subseteq {"submit", "cancel"} \X Requests /\ jobs \in JobType
  /\ \A q \in Requests : helping[q] \in {Idle, [Idle EXCEPT !.step = "working"]} \cup Results(q)
  /\ poll \in {"idle", "results", "requests", "starting", "closed"} /\ images \in Nat
  /\ begun \in [Payloads -> [Inputs -> Nat]]

\* The author and two workers share one limit, and each of them checks it at another time.
ImagesWithinLimit == images <= MaxImages

\* "Interrupted/failed work is not automatically repeated, particularly generation"
\* (PREFETCH.md): in the history that a workspace records, the same work on the same
\* inputs is begun once, whatever stopped it.
WorkIsBegunOnce == \A w \in Payloads, i \in Inputs : begun[w][i] <= 1
=============================================================================
