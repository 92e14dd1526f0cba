# A verification project for rick-ppt

rick-ppt is a service that writes PowerPoint decks. A website (Cloudflare
worker, D1 database, R2 object store) accepts tasks; a runner on a host claims
them, drives a model through a workflow of phases, and delivers a deck while
the owner may pause, resume, talk to and edit the task. This directory holds
TLA+ modules for the parts whose correctness depends on the order of events,
TLC configurations that check small instances of them, and theorems that TLAPS
proves for every instance.

`PROJECT.json` is the index: it lists the components, the runs, the line of
code behind every definition, one mutation of the model for every checked
property, the hazards of the code and the properties that cover them, the
findings and the theorems.

## The system and its parts

| part | state | operations | hard behaviour |
|---|---|---|---|
| task queue (`website/app/api/worker`, `lib/queries.ts`) | table `jobs`: status, lease, summary, result_key, updated_at | submit, claim, expire, heartbeat, progress, delivery-ready, delivery-reset, complete, fail, retry, pause, resume | two attempts on one row, late requests of a dead attempt, limits counted in one statement and entered in another |
| submission (`website/app/api/jobs/route.ts`, `jobs/[id]/conversation`, `uploads`, `lib/staged-uploads.ts`) | staged uploads, R2 objects, `jobs`, `task_messages` | stage, copy, admit, discard, clean up | a lost database response, a repeated submission whose staged files are gone |
| conversation, website side (`jobs/[id]/conversation`, `worker/[id]/conversation`) | `task_messages`, `task_recovery`, `task_versions` | post, poll, ack, applied, checkpoint, version | a revision that arrives while a delivery is announced |
| edits (`native-edits`, `visual-edits`, `progressive-canvas`) | `native_edits`, `canvas_heads`, `canvas_page_locks` | save, claim, rebase, finish, publish | a lost update between the user's save and the agent's next page |
| model accounts (`model-accounts`, `task_funding`) | accounts and the binding of a task to one | connect, replace, disconnect, fetch profile | work on a disconnected account |
| drafts (`worker/[id]/draft`, `runner/draft_progress.py`) | `task_drafts`, objects; what the publisher sent | look, send, upsert | uploads of two attempts out of order, an upload that was lost |
| usage receipts (`worker/[id]/usage`, `lib/usage.ts`, `runner/usage_ledger.py`) | receipt files, `task_usage` | save, flush, upsert | a receipt that changes while it is sent; every batch is refused whole |
| versions, administrator traces | one row or object per task or lease | upsert | |
| runner queue (`runner/queue_pool.py`, `runner/runner.py main`) | executors per backend, running futures | claim loop, drain, hand-off | claiming more than can be run, draining |
| resilience (`runner/resilience.py`) | time of the last renewed lease, lost flag | pulse, check, retry of a request | silence of the network against the three-minute expiry |
| delivery (`runner/delivery.py`) | receipt on the website | reset, ready, upload, complete, status | a lost acknowledgement of an upload |
| journal (`workflow/journal.py`) | event log, projection, objects, lock | open, event, phase, checkpoint, message, recover | a crash between any two writes |
| conversation bridge (`runner/conversation.py`) | journal inbox, phase threads | accept, deliver, acknowledge, apply | a message is sent to the model and the answer is lost |
| app-server transport (`workflow/app_server.py`) | pipes, pending requests, turns | request, start turn, steer, reconcile | a turn of unknown outcome |
| workflow phases (`runner/workflow.py`, reviews, repairs, page design) | workspace, phase receipts | plan, author, review, repair, accept | reuse of a phase whose inputs changed |
| review sessions (`runner/review_sessions.py`) | a chain of entries per attempt of a reviewer | begin, append, commit, reuse | a restart between two files, an append that raises |
| material prefetch (`runner/material_prefetch.py`) | records, request files, images | poll, start, take over, cancel, restore | three writers of one limit; paid work cut by a death |
| execution continuity, repair recovery | files in the job directory | measure, restore | |
| power policy, renderer health, browser sources | host facts | gate, probe | |
| website user interface, OOXML tools, packaged skill, examples, releases, docs | | | none of these keeps concurrent state |

The website and the runner share nothing but requests. The runner authenticates
with one token and names the attempt it works for by a *lease*, a fresh UUID
that the claim wrote into the row; nearly every worker request is one SQL
statement guarded by `id=? AND lease=? AND status='running'`. The owner's
browser and the operator send requests of their own; those that cannot name a
lease quote the row's `updated_at` instead. D1 runs a statement, or a batch of
statements, atomically; a handler that sends several of them can be overtaken
in between. On the runner host a task's journal is guarded by a file lock; the
journal, the workspace and the model's thread outlive an attempt, everything
else dies with its process.

### What makes each part correct

- **Task queue**: one attempt owns a task at a time; the bounds on running and
  on active tasks hold whatever handlers interleave; nothing is announced or
  delivered past a revision that is not applied or a save that is open; a task
  that was asked to stop is not given to a second attempt while the first may
  still work; a queued task is served.
- **Journal**: what a restart reads is never less than what the process
  believed; a phase is reused only when the model has every revision; the
  applied cursor never passes a message that is not applied; a message whose
  delivery began is not sent again on a guess.
- **Conversation**: the model hears the owner's messages in order and at most
  once; a receipt on the website is backed by the disk; the deck that is
  shipped answers every revision that had been accepted when it was frozen.
- **Edits**: a user's save is neither lost nor put under a newer page of the
  agent, and a save whose deck is still there ends.
- **Resilience and delivery**: an attempt stops before its task can be given to
  another one, a runner believes in a delivery only if the website has
  committed it, and a late upload never delivers a deck that was replaced.
- **Pool**: a task that was claimed is run or left to the expiry, never lost
  by the runner's own control flow.
- **Drafts**: a late upload never replaces a later draft; the newest whole
  export is offered in the end.
- **Usage**: a receipt counts once, at its last value; nothing but the loss of
  the lease refuses a batch, and every receipt arrives.
- **Submission**: the files of an accepted task or message exist, no others of
  its request stay, and a repeated request gets the answer of the first.
- **Reviews**: a report that counts was given by a completed turn about exactly
  this candidate; a pass that did not finish can be made again.
- **Prefetch**: the shared limit of images holds; work is begun once.

## Modules

| module | models |
|---|---|
| `Attempts` | abstract: what a worker may rely on about the attempts of all tasks |
| `TaskQueue` | the `jobs` table with every handler that writes its status, lease, summary or result |
| `MCTaskQueue` | instances of `TaskQueue` for TLC; a behaviour is of one of three scenarios |
| `TaskQueueProofs` | theorems about `TaskQueue` |
| `Execution` | one task between its row, on a clock, and the runner: the claim loop, the lease keepers, the delivery, and how an execution ends |
| `MCExecution` | instance of `Execution` |
| `ExecutionProofs` | theorems about `Execution`, among them that it implements `Attempts` |
| `Journal` | `workflow/journal.py`: the state on disk and in the process, and every operation that publishes an event |
| `JournalProofs` | theorems about `Journal` |
| `Mailbox` | abstract: what the owner of a task may rely on when writing to it |
| `Conversation` | the conversation bridge and the closing of a version, over `Journal` (which it extends), with the website's message rows and the model's thread around it |
| `MCConversation` | model values for `Conversation` |
| `ConversationProofs` | theorems about `Conversation`: that it drives the journal only through the journal's operations, durable receipts, no row that is refused, applied files that stay, delivered versions that saw every revision |
| `MailboxProofs` | that `Conversation` implements `Mailbox` |
| `Canvas` | the deck of one task between the agent, its owner's direct saves and the editor that carries them out |
| `MCCanvas` | model values for `Canvas`, and the symmetry of its pages |
| `CanvasProofs` | theorems about `Canvas` |
| `Usage` | the usage ledger of a task over its attempts, its uploads and the website's table |
| `Drafts` | the progress downloads of a task: the publisher of each attempt and the website's draft |
| `Reviews` | the reviews of frozen candidates and the ledger that lets a restart reuse them |
| `Prefetch` | materials prepared ahead: the author's requests, the broker's polls and its two workers |
| `Admission` | abstract: what handing in promises to whoever reads the rows and the objects |
| `Submission` | a task or message handed in with files, between the browser, the object store and the database |
| `MCRecords` | instances of `Journal`, `Usage`, `Drafts`, `Reviews`, `Prefetch` and `Submission`; a behaviour is of one of them |
| `RunnerRecordsProofs` | theorems about `Usage`, `Reviews` and `Prefetch` |
| `SiteRecordsProofs` | theorems about `Submission`, among them that it implements `Admission`, and `Drafts` |
| `MCProgress` | small instances of `TaskQueue`, `Execution`, `Usage` and `Drafts` with their fairness, for what must happen in the end |

### TaskQueue

A task is a row. `status`, `lease`, `summary` and `result` are its columns; a
lease is named by the number of claims before it, so that "an attempt that is
older" is a comparison. `silent` abstracts `updated_at`: a fresh row may become
silent (more than three minutes old) at any moment, and every UPDATE that
assigns `updated_at` makes it fresh (`Touch`). `unapplied` says that
`task_messages` holds a revision that is not applied; `edit` is the open row of
`native_edits`; `saved` is what a resume can start from. The request variables
(`reaped`, `resuming`, `clearing`, `editReads`) hold handlers that have run some
of their statements: `resume` reads before it updates, a revision is stored
before the announcement is withdrawn, a visual edit reads the row before its
batch, a claim expires stale rows before it leases one. All other handlers are
one statement or one batch and one action. A worker's action takes any lease
ever handed out, which is how late requests of dead attempts enter. The browser
sends a visual edit again whose answer it misses, so a read in `editReads` stays
there and its batch may run any number of times (`RepeatedEdit`).

Left out: the text of messages, the position of a task among queued ones other
than its age (`born`), the wording of summaries beyond the words that handlers
compare, and authentication.

### Journal

`disk` is the state in the last event file and `mem` what the open journal
holds. `Commit` publishes an event: link, then synchronise the directory. If
the synchronisation fails the event exists and the call raises; `stale` records
that, and no later event of that process can be published because its name is
taken. `attempt` is the progress of one process through opening, recovering and
preparing a workspace; `Stop` ends it at any point (a crash, or the exit that
follows an exception). `complete_phase` runs in three steps (`completing`),
between which files may be written. `state.json` is a projection that opening
rebuilds and is left out. A checkpoint reads the whole tree at once here, while
the code reads file by file. Message text, attachments and thread ids are left
out; messages are named by their cursor.

### Conversation

`site` is the status column of `task_messages`, `thread` what the model has
been given, `flight` the one request to the thread whose outcome is awaited,
`known` the runner's `server_revision`, and `closing` the version that is being
reviewed, stored, certified and delivered. The thread is external: a request is
heard or not, and answered, refused (only if not heard) or lost. `Poll` accepts
one row of a response at a time; `Learn` is a poll that names a revision the
rows of its response do not contain, because the website reads the two in
separate statements. No action forces a poll, since a poll that fails returns
nothing and the workflow goes on. A tick in the middle of a chat delivery may
raise and leave the message "delivering" in a live process (`GiveUpChat`,
`Poll` in a review). What the author writes is free. The baseline that a failed
design response restores and the lock that a second attempt finds taken
(`JournalBusy`) are not modelled.

### Canvas

A deck is its sha256 in the code and the content of its pages here: a page is
blank, a draft of the agent, or what save `e` made of it (named `e`). `head` is
the row of `canvas_heads` (the deck shown while an attempt works, and that
attempt), `sources` the rows of `canvas_sources` that the present attempt may
quote, `locks` the table `canvas_page_locks`, `edits` the table `native_edits`.
An execution of a save is named by the token its claim wrote into the row
(`runs`); several are alive at once when a silent one was claimed again.
`pubs` is the publisher thread of each attempt: it reads the locks, then the
head (two statements of one request), grafts and publishes against the head it
read. `work` is the agent's workspace and `frozen` the candidate under review
with the revisions it answers; `pending` and `told` are the revisions that are
not applied and those the runner has accepted. A save that is done is itself a
revision, so its id is also a member of these sets. `newest` is a ghost: the
last save of each page. Claim, release, polling, review and delivery are the
requests that `TaskQueue` and `Conversation` model in full, reduced to what they
do to the deck.

Abstractions: a page is ready once it has content (the code shows it once its
picture has come too); a publication may be of any deck the agent may have had,
since a page that is rendered again keeps its place among the waiting ones;
objects of the store are written with the request that made them; a page an
agent takes over is the newest save it was told of, as that save's message
asks; the columns of a save that has ended are not kept. The admission of a
save also refuses a task whose delivery is announced, which is left out here:
`Deliver` checks for open saves itself, as the code does, and the announcement
is in `TaskQueue`. So is a visual edit that is sent again while its first copy
is under way.

### Execution

`row` and `age` are the task's row and the time since its `updated_at`;
`quiet`, `beat` and `claim.wait` are the runner's clocks: the time since the
last acknowledged heartbeat, and how long a heartbeat or a claim has been under
way. `Tick` advances all of them, so both sides are measured in the same time,
and never lets a request be waited for longer than `Latency`
(the 25 seconds of `resilience.request`). `pc` is where the execution of an
attempt is, from the claim's answer over `run_workflow` (which is `Build`),
announcement, upload, the question for the receipt and the reset, to the
`except` branch, the closing of the journal and the report. A request whose
sender gave up is a stray and arrives later or never. `OpenJournal` is the
file lock two executions of one task compete for. `Refused` is a 409 that the
runner takes for a lost lease although it may hold it (see finding 3); such
attempts, and those whose last answers or whose process was lost, are
`excused`, a ghost. `Trouble` is any failure of the work in between, the
interruption by the power policy included.

Other tasks are left out: `Capacity` bounds the executions of this task, of
which an old one may still be closing. What a deck contains and who writes it
is in `Conversation` and `Canvas`; what a statement reads of other columns is in
`TaskQueue`.

### Usage

`receipts` is what the ledger's files and, while a ledger is open, its records
hold; an attempt that opens the ledger finds every receipt pending again.
`upload` is the request of `flush`, in three steps on the website: preflight,
upserts, comparison. A receipt of an API call never changes; one of a turn
grows, with a new version each time. Tokens are one number, the outcome stands
for all columns that a later observation may replace. A rename into place is
taken for durable, while the code does not synchronise the directory
(`usage_ledger.py:123`). `Receive` takes the identities that were acknowledged
out of the pending ones and leaves the others in their order.

### Drafts

An export is a content and the time it was made, which stands for mtime; the
code compares nanoseconds on the runner and milliseconds on the website.
`synchronize` is three steps: the journal's revision (`Context`), the files
(`Look`), the answer (`Learn`). The website puts the object before it upserts
the row. The workspace of a new attempt is that of the last checkpoint. The
branch of the route by which an operator uploads a draft of a failed attempt is
left out. One promise the code does not keep in full: the publisher knows sent
files by their bytes, so an older deck that is exported again is not sent again,
and the download stays at the deck between although the page calls it the last
successful export. `NewestExportShown` excepts this case (`content \in shown`).

### Reviews

A directory of the ledger is an attempt: its context (role, candidate, the first
report for the second content pass) and its entries. `cached` reads the
directories in the order of random names, so what is found must not depend on
one (`Found`). Every append may raise and every step may be the last one of its
process. An append links its entry and then synchronises the directory
(`review_sessions.py:165-166`); when that raises, the entry is there and the
number in memory stays (`TornAppend`), so that the entry that closes the attempt
(`LeavePending`) gets the same number under another digest. `Readable` is what
`_load_attempt` asks of the entries in the order of their names. The entries
between the question and the turn's end are one, as are those by which `phase`
and `review_pass` both close an attempt. The search for an equivalent review of
another renderer environment (`_compatible`) is left out.

### Prefetch

`asked` and `cancels` are the files the author leaves, `jobs` the broker's
records, `helping` its workers' results, `images` the number of generated
images. A poll is four steps because the author may write its inputs between
them. A process that dies goes on from the last checkpoint, which is taken
between polls, so a restart is `Restore` of a state between polls. Two
behaviours of the code that are no breach of a promise: the author's own import
may take the place kept for a running generation, whose result is then refused
(`Harvest`); and work that began after the last checkpoint is begun again after
a death, since the checkpoint does not know of it: `WorkIsBegunOnce` is about
the history a workspace records. Corrupted records, the queries `get` and
`status`, and the refusal of the record beyond the limit are left out.

### Submission

A POST is its handler's steps; each of its database statements may fail, be
executed and its answer be lost, or be the last thing it does. A task's objects
lie under its own id, so its handler may clean them up; a message's lie under
its key and are kept. `repeats` is a ghost: the POST repeats what was already
accepted when it was sent. The content of files is compared as the code does,
by what the row says of them. `SubmissionAssumption` keeps the ids of tasks and
the keys of messages apart: they name objects under different prefixes
(`attachments/<task>/`, `conversation/<task>/<message>/`). `Admission` is what
remains of it for a reader: `AsRead` shows a row whose files are not all there
as one that nobody handed in, which `Admission` never has.

## Runs

| run | bounds | what it shows |
|---|---|---|
| `tasks` | 3 tasks of 2 owners, a queue of 2, 1 slot, 2 claims, two kinds of worker, 2 visual edits, 1 message and 1 native save; three scenarios (below) | lease discipline and both limits under every order of claim, expiry, retry, resume, pause and edit; no announcement past a revision or a save; the shown file is of the attempt that delivered it and no save is open on another; a stop is awaited; `Attempts` is implemented |
| `empty` | the same | finding: a visual edit that is sent again queues a finished task without a revision |
| `records` | per part: journal of 2 messages, 2 phases and 1 plugin upgrade; 1 API call and 1 turn over 2 attempts; 2 exports of whole decks and a broken one, 2 attempts; 2 candidates and 3 review attempts; 2 requests, 1 image, which both want; 2 POSTs of 2 files | what each durable record promises, under deaths, lost answers and late requests at every step; `Admission` is implemented |
| `retry` | the same | finding: an append that raises after it linked its entry bars every later pass of its context |
| `conversation` | a question and a revision behind it, 2 versions, taken as alike | order, at-most-once and durable receipts; `Mailbox` is implemented; the shipped deck saw every accepted revision; applied files are kept |
| `pages` | 2 pages, 1 draft, 1 save, 1 visual edit, 1 attempt | the delivered deck has every locked page; a save changes what its owner saw, however it races publications, review and delivery |
| `editor` | 1 page, 1 save, 2 attempts, 1 silence or death of the editor | no late publication goes back to an older attempt; saves end while their base is there, and none stays queued |
| `execution` | 1 task, 2 attempts, 2 decks, 1 revision, 2 acts of the owner or the supervisor, 1 request under way that was given up; Latency 0, Silence 1, Expiry 1 | an attempt that passes its check holds its task; what is believed delivered was, with these bytes; late uploads deliver nothing that was replaced; only losses leave a row without a reporter |
| `progress` | the smallest instances of four parts, with fairness; of the queue, 2 tasks on 1 slot, two kinds of worker and 3 claims | a queued task is leased, abandoned rows end, receipts arrive, the newest export is offered |
| `refused` | 1 revision | finding: an attempt's checkpoint bars every later attempt |
| `stale` | 1 revision, 2 versions | finding: a stale version is shipped after the two reads of a poll were separated |
| `locks` | 1 page, 2 saves, 2 attempts | finding: an older lock covers a newer save |

The type invariant of every module is proved and not checked again.

The bounds are the smallest at which every action fires and the races the
hazards name can happen. Two of each competing thing (tasks over the bound,
attempts, versions, workers) are needed and enough to have an old and a new
one; a third task is there so that the queue can be full while one waits
outside. A question and a revision behind it are enough for messages to be
applied out of order; that more messages are heard in order, at most once and
with durable receipts is proved. A single slot makes every second claim a
competition. `MaxClaims`, `MaxSaves`, `MaxRevision`, `MaxEvents`, `MaxBuilds`
and the other bounds of that kind only end the behaviours. Deadlock is checked
in the `Conversation` runs only: in the others a behaviour stops when its bounds
are used up.

A behaviour of `tasks` is of one scenario, chosen at the start. In "queue" three
tasks share two places, one slot and two workers, without edits or revisions. In
"instructions" one of three tasks gets revisions and visual edits, each copy of a
request as often as it likes, so that the bound on the queue is met by visual
edits as well. In "deck" one task goes through two attempts with everything that
races its delivery. In `progress` a third claim lets one of two queued tasks come
back ahead of the other; a task comes back only while a claim is left for
each that has none (`LeasesLeft`), so no claim is missing for want of a lease.

In the `Canvas` runs two pages tell a saved page from one that must not move,
two attempts give an old publication and an old save, and one silence gives two
executions of one save, as in `editor`; that a save claimed twice is laid over
nothing it has not read is proved for any number of them
(`CanvasSavesTouchOnlySeenPages`), while `pages` checks it with one execution.
The guards that are there for the second death of an editor are those for the
first. `MaxTries` is 2 where the code has 3: one refusal that is tried again
and one that is final.

In `execution` the limits are in units of 25 seconds or more: what matters of
25, 150 and 180 seconds is that the first two do not exceed the third together,
and the instance takes a tight choice, `Latency + Silence = Expiry`. A request is
then answered or given up in the tick in which it was sent, and may arrive any
time later as a stray; `progress` has a `Latency` of 1, and every other choice is
covered by `ExecutionHoldsTask`. One stray is enough for a late request
of each kind to meet a newer attempt, a second build, a resume or a save. In
`records` an upload has one receipt, so that a batch may be overtaken; a request
given up while under way exists once; three review attempts are a first one, a
retry and a format correction; one image is the limit of `images`, for which a
generation competes with another one and with an image of the author's own (a
generation that brings two is refused whole; that an import may stop part of the
way below a larger limit is covered by `ImagesLimited`). The parts of `records` and
`progress` share no state: a behaviour is of one of them, chosen at the start. The versions of `conversation` are symmetric model values, which is sound
because every property of that run is a safety property.

### Fairness

`editor` and `progress` need it. For `TaskQueue`, `ProgressSpec` assumes
that each worker's claim loop keeps sending claims: `queue_pool.serve` sleeps
for a fixed interval between them and never gives up. It also assumes that a
running attempt ends, if only by reporting failure: the workflow runs under a
deadline of at most three hours (`runner/workflow.py:156`), and if the process
dies the row becomes silent and is expired by the next claim. Nothing is
assumed of owners, of renewals or of the network beyond that. A task is
served after finitely many returns of others: claims go by `created_at`, which a
retry and a resume keep, so an older task that came back for ever would starve it.

In `Canvas`, `FairSpec` assumes that tasks keep being claimed (as above), that
the editor keeps claiming saves and that claims drop stale ones (its loop asks
every three seconds, every fifteen after an error, `native_edit_worker.py:74`),
that an execution goes on to its next step unless it dies or gives up (renderer
calls have timeouts), and that time passes: a save that nobody works on is
silent for five minutes some day. The agent, its publications, the owner and
deliveries are not assumed to do anything.

In `Execution`, clocks run, a supervisor that left is launched again (by the
host's service manager) and keeps asking, a request that is waited for is
answered or given up, and not every one of infinitely many claims is lost
(strong fairness of `HandleClaim`). No execution is assumed to make progress.
In `Usage` and `Drafts` the publisher's thread keeps looking and sending (every
five and fifteen seconds), and of uploads that are sent again and again one is
handled and its answer received (strong fairness); both properties are about an
attempt that goes on and keeps its lease.

## What is proved

TLAPS proves these for every value of the constants.

- `TypeCorrect`, `LeasesAreExclusive`, `CapacityHolds`, `QueueBounded` about
  `TaskQueue`, from `QueueAssumption`. Lease discipline is inductive together
  with the types; the invariant has to say that no row carries a lease above
  `issued`, since that is why a fresh lease is fresh. The two bounds follow
  from cardinality lemmas about adding one task to a set that has room.
  `QueueBounded` says that no step puts a task into a full queue but a visual
  edit that is sent again (finding 5), and `OnlyRepeatsOverfill` that the bound
  is absolute in every behaviour in which none is.
- `AnnouncementsHonest`, `ShownFileIsHonest`, `ResumesWait`, `RequeuesHaveWork`
  about `TaskQueue`, from the same assumption; the last one is about the
  behaviours in which no visual edit is sent again, so that such a request is the
  only way to finding 5. The first two need one fact more (`AnnouncedAtWork`): an announced task
  runs or has failed, so no request puts an announced one back into the queue,
  where a save or a revision could meet it unannounced. A resume is two
  statements; what makes the second one right is that a request past its checks
  is either still right about the row or quotes an `updated_at` that the row does
  not have any more (`ResumesChecked`). `RequeuesHaveWork` goes through the
  ways into the queue (`WaysIntoQueue`): a batch of a visual edit that changes
  the row either inserts its revision or is a repeated one.
- `TableImplementsAttempts`: `TaskQueue` implements `Attempts`. The phase of an
  attempt is read off the row that carries its lease; an attempt that no row
  carries is over. `LeaseDiscipline` makes that a function; each action of the
  table is then shown to be one abstract action or a stutter.
- `ExecutionTyped`, `ExecutionHoldsTask`, `ExecutionDelivers`,
  `ExecutionDeliversLast`, `ExecutionStrandsByLoss` about `Execution`, from `ExecutionAssumption`, whose
  point is `Latency + Silence <= Expiry`. The timing invariant (`Clocks`) says
  that the row of an attempt is at most `Latency` older than the attempt's last
  acknowledgement: an acknowledgement was written no earlier than its request
  was sent. So while the check passes the row is too young to be failed by a
  claim, or resumed behind a pause. The delivery invariant (`Replaced`) says
  that an upload given up by its sender is either of the attempt's present deck
  or of one that a newer revision has replaced: a 412 sends the attempt back to
  work, and since the announcement keeps saves out it can only mean a newer
  revision, which refuses the late upload too. `OpenSave` in the mutants shows
  that without the announcement this fails. That only losses strand a task
  (`Reporting`) follows the verdict through the way out: as long as an attempt
  holds its task and is not excused, nothing that has told it to stop without a
  report (a refusal, a pause, a fatal error of the keeper) can have happened,
  because each of those answers is given only when the task is not held.
- `ExecutionCreditedOnce` and `ExecutionImplementsAttempts`, from the same
  assumption: the row of `Execution` implements `Attempts` with one slot, as the
  table of `TaskQueue` does. The two are about the same row seen from two sides,
  one with every handler of the website, one with the clock and the runner, and
  what `Attempts` promises of leases holds in both. That a renewal, a completion
  or a report that arrives late moves nothing is the guard of each UPDATE; that
  a claim opens a lease never handed out before needs `LeaseIssued`.
- `JournalTypeCorrect`, `CursorCoversApplied`, `MemoryDurable`,
  `ReuseIsCurrent`, `DeliveriesNotForgotten` about `Journal`, from
  `JournalAssumption`. The cursor needs that the applied cursor is below the
  accepted one and that states on disk and in memory satisfy it alike. Reuse
  needs the reason why receipts stay current: a stage whose revision is the
  journal's was completed when no revision was pending (`Current`), and a
  completion in progress keeps that true until it is published
  (`Completing`).
- `ConversationTypeCorrect`, `ConversationRunsJournal`, `ReceiptsDurable`,
  `RowsAreAcceptable`, `DeliveriesSawRevisions`, `AppliedFilesStay` about
  `Conversation`, from the two assumptions of its modules. The second is why
  the journal's theorems hold of the composed system: every step of the
  conversation is a step of the journal or leaves its variables alone. Rows are
  acceptable since both sides count without a gap (`AcceptedInOrder`): what is
  accepted on disk and in memory is 1 up to the cursor, the website wrote its
  rows in order, and (with `ReceiptsDurable` and `MemoryDurable`) a row that it
  still returns was not acknowledged in a state a restart would lose. A delivered
  version saw every revision because of `VersionsSaw`: the process has heard of
  every revision it accepted, what a version saw is an initial segment of the
  revisions, and no revision is accepted between the freezing of a version and
  its delivery without sending it back. Applied files stay because of
  `AppliedInStored`: a message is applied only in versions that were stored and
  not written again, and never in the deck itself, which the agent goes on
  writing; once a message is applied there is a snapshot, so that an attempt is
  ready only after it has restored one and found every applied file in it.
- `NoTornPollNoStaleDeck`, `NoTornPollNoLockout` about `Conversation`: in every
  behaviour in which no poll names a revision whose row it does not return
  (`HeardAsAccepted`), the two properties that the runs `stale` and `refused`
  refute hold. The invariant (`PublishesAccepted`) says that what the process
  knows, reports and writes into a manifest is then what its journal accepted.
  So these two findings have one cause and no second one, and a poll that took
  its revision from the rows it returns would remove both.
- `DeliveredInOrder`: `Conversation` implements `Mailbox`. The inductive
  invariant (`Orderly`) relates the thread to the journal: what the thread has
  heard is strictly increasing, lies below everything still deliverable, and a
  message in flight is "delivering" on disk.
- `CanvasTypeCorrect`, `CanvasNoOlderAttemptPublishes`,
  `CanvasSavesTouchOnlySeenPages`, `CanvasDeliveredKeepsLocked` about `Canvas`,
  from `CanvasAssumption`. Types are inductive with `Sound`: an attempt that
  runs has been claimed and the head is not ahead of it, an open save was made
  on a deck, and one that was rendered from a delivered deck was rendered from
  its own base. That a save touches only what was seen needs `Laid`: one save
  is open at a time, and as long as one of a delivered deck is open, the result
  that has its key is its base (a delivery could otherwise reuse the key). That
  nothing locked is missing from a delivery needs `FrozenLocked`: whatever page
  differs from its lock in the candidate under review, there is a revision the
  candidate does not answer, which holds because a save is a revision nobody
  had heard of before it ended (`Heard`, `Answered`); the delivery then waits
  for it.
- `NoLockLeftNoStalePage` about `Canvas`: in every behaviour in which no save of
  a delivered deck ends while a page of it is locked (`NoLockLeft`), the
  property that the run `locks` refutes holds, because every lock is then one
  to the last save of its page (`LocksAreNewest`). Removing those locks in the
  batch that finishes such a save is therefore enough.

- `UsageTyped`, `LedgerNeverConflicts`, `ReceiptsAreKept`, `CountsGrow` about
  `Usage`, from `UsageAssumption`. Of one receipt there are up to as many copies
  as there are requests under way, besides the ledger and the table. The
  invariant (`Lines`) says that any two of them are in line: the one of the
  higher version may replace the other, and none is ahead of the ledger. The
  website then never finds a conflict, in whatever order uploads arrive. What an
  answer says was stored is in the table (`UploadsAnswered`), so that what is
  taken off the pending ones is there (`SettledIsStored`).
- `ReviewsTypeHolds`, `ReviewReportsHold`, `OnlyTornAppendsBar` about `Reviews`,
  from `ReviewAssumption`. The first two hold whatever append raises: no two
  committed attempts have one context, and a role at work writes to a directory
  of its own context, in which nothing is committed yet; what it is about to
  commit was answered by a completed turn. The third is about the behaviours
  without a `TornAppend`: every entry then has the number of its place, and the
  number in memory is the next one, so that an unfinished pass can always be made
  again. That append is the only way to finding 4.
- `PrefetchTyped`, `WorkBegunOnce`, `ImagesLimited` about `Prefetch`, from
  `PrefetchAssumption`. Work is begun once because no two recorded jobs are the
  same work on the same inputs (`UniqueWork`), and what was begun has a job that
  is no longer queued (`BegunForJob`) and never is again.
- `SubmissionTyped`, `FilesAlwaysFollowRows`, `AnswersAreTrue` about
  `Submission`, from `SubmissionAssumption`. The invariant says of every request
  what it knows of the rows and has left among the objects (`PostOK`): a row of
  its own exists only once its INSERT was sent, before that its copies are all
  there, and an answer has been given only when it was true; an accepted row
  stays. `WithinQuota` gives both quotas.
- `SubmissionImplementsAdmission`, from the same assumption: copies, repeated
  POSTs and removals are stutters, and the INSERT is the one step of
  `Admission`, since all files of a row are there from then on
  (`AcceptedFilesExist` makes what is read the row itself).
- `DraftsTyped`, `DraftsAdvance` about `Drafts`, from `DraftAssumption`: the
  bytes a row names are in the object store before the row is (`Kept`).

Every invariant, action property and refinement that a passing run checks is
proved. Only model-checked are `QueuedTasksServed`, `SavesEndWhileBased`,
`QueuedSavesEnd`, `AttemptsEnd`, `UsageArrives` and `DraftsArrive`: they are
liveness properties, and the prover treats neither fairness nor ENABLED. The
five findings are shown by TLC, each by a behaviour; that each has only the one
cause is proved. `ExecutionImplementsAttempts` is proved and belongs to no run. Nothing here needs
induction over data. The records of a task are proved one by one, since they
share no state; `Conversation` is the only composition of modules, and its
theorems are about the whole of it.

## Findings

1. **A stale version is shipped** (`stale`). A poll reads the rows and the
   latest revision in two statements; a revision between them is named by a
   manifest whose deck has not seen it, and a later attempt takes that manifest
   for current. `DeliveredSawEveryRevision` is the same property restricted to
   versions without such a manifest, and holds. A revision behind the hundredth
   unacknowledged row (`LIMIT 100`) is named without being returned as well.
   `NoTornPollNoStaleDeck` proves that there is no other way.
2. **An older lock covers a newer save** (`locks`). Saving a delivered page
   leaves the lock of an earlier save of that page, and the next attempt's
   candidate gets the older page although the agent kept the newer one.
   `NoLockLeftNoStalePage` proves that this lock is the only way.
3. **A task that no attempt can enter** (`refused`). The same two statements: a
   checkpoint that is published between the poll and the next one stores a
   revision the journal has not accepted. If the attempt then dies, the first
   checkpoint of every later attempt is behind the stored one and answered 409,
   which the runner takes for a lost lease: the attempt ends without a report,
   the row is failed after three minutes, and a resume repeats this. The window
   is the time until the next poll, two seconds; the effect stays.
   `NoTornPollNoLockout` proves that there is no other way.
4. **A review that cannot be made again** (`retry`). An append of a review
   attempt links its entry, the synchronisation of the directory raises, and the
   entry that closes the attempt takes the same number. The directory cannot be
   read from then on, and since a pass looks through all attempts of its context
   before it asks a reviewer, every later pass of that role over these inputs
   fails; `docs/completed-review-recovery.md:9-10` promises a new independent
   reviewer. `OnlyTornAppendsBar` proves that there is no other way.
5. **An empty requeue** (`empty`). The second statement of a visual edit asks
   whether its message exists, not whether this request stored it or whether it
   still waits. A copy that was made while the task was running finds the task
   finished under the same lease and its revision applied, and queues it all the
   same, without the bound on active tasks; the comment above the batch
   (`visual-edits/route.ts:37-38`) says that it never does. `RequeuesHaveWork`
   and `OnlyRepeatsOverfill` prove that there is no other way to either.

### Remarks

No run is spent on these.

- **Work on a disconnected account.** `resume` checks the account before the
  statement that queues the task; RETRY_JOB and a visual edit do not check it
  at all. `docs/customer-api-accounts.md:39` says that disconnecting pauses the
  account's tasks; such an attempt is failed when it asks for its profile.
- **Starvation.** Claims go by `created_at` (`queries.ts:10`), which a retry
  and a resume keep. An older task that is retried for ever starves a younger
  one, so `QueuedTasksServed` is about finitely many returns of other tasks. No
  text of the repository promises more.
- **A save that never ends.** A save whose editor died is claimed again only
  while its base is current (`worker/native-edits/route.ts:15`), and only queued
  saves are failed when it is not. When the host that edits also authors, the
  task's lease (three minutes) is gone before the save may be claimed again
  (five): the save stays open and blocks every delivery and every further save
  of the task. `SavesEndWhileBased` and `QueuedSavesEnd` are what does hold.
- **A live head without the last save.** The publisher reads the locks before
  the head (`canvas/route.ts:12`), so its compare-and-swap does not vouch for
  them, and a save that ends between the two reads is missing from the live
  head until the next publication. Its lock is intact, and what is delivered is
  not affected (`DeliveredKeepsLocked`).

## Not modelled

Administrator traces, execution continuity, repair recovery, host probes,
hand-off of processes, OOXML tools, the interactive runtime and the user
interface: each is a single write that nobody else reads, a sequential
computation on one package or directory under the journal's lock, or
presentation; they are the larger part of the repository's lines, as are
`skills/rick-pptx/engine` (a copy of the runner), tests and data. Within the
modelled parts: the operator's branch of the draft route, `_compatible` of the
review ledger, the broker's queries and corrupted records, the baseline a failed
design response restores, the replacement of an account's key, and the JSON-RPC
transport below `deliver`; of the usage route, the format checks that answer 400
and the comparison of model and provider, which are fixed for every task but
legacy ones; of the workflow, the chat replies on the path that
reuses a delivery (`workflow.py:1180`), on which no property depends. A message whose delivery stays ambiguous and which
the thread never shows blocks later attempts; the code raises on purpose and
leaves it to an operator, so no liveness is claimed there.

## Plan

The state of every modelled part is in a module that reaches no recursive
operator of the project, so that it can be proved about. The proofs of what the
runs check are complete but for liveness. What is left:

1. in the models, the baseline that a failed design response restores and the
   repair rounds of the workflow, with what a checkpoint of a round promises;
2. the composition of `Execution` with `TaskQueue` beyond the specification they
   share: one module in which the row on a clock meets every handler of the
   website, visual edits and native saves of a delivered task included.
