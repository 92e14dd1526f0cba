--------------------------- MODULE Conversation ----------------------------
(***************************************************************************)
(* runner/conversation.py over the journal: the owner's messages go from   *)
(* the website through the journal to the model's thread (app_server.py    *)
(* deliver and reconcile_delivery), and their receipts go back, while the  *)
(* workflow writes, freezes and certifies versions of the deck.            *)
(*                                                                         *)
(* The model, its thread and the website's statements are external: a      *)
(* request to the thread may be heard or not, and answered, refused or     *)
(* lost; it is refused only when it was not heard.  A dead attempt sends   *)
(* nothing (its lease is rejected).                                        *)
(***************************************************************************)
EXTENDS Journal, Sequences

CONSTANTS
  Deck,        \* the path the agent writes
  Frozen,      \* paths of delivery-versions/, each written once
  NoVersion

ASSUME ConversationAssumption ==
  /\ Deck \in Paths
  /\ Frozen \subseteq Paths \ {Deck}
  /\ NoVersion \notin Frozen

VARIABLES
  site,      \* task_messages.status, "unwritten" before the INSERT
  flight,    \* the turn/start or turn/steer request whose outcome is awaited
  thread,    \* the messages the model was given, in order
  known,     \* server_revision: the latest revision this process has heard of
  entered,   \* its first checkpoint was published, or its answer lost
  reported,  \* task_recovery.revision on the website
  closing,   \* the version under review or delivery, and how far it is
  manifest,  \* delivery.json of a version: the revision it answers
  used,      \* versions ever frozen (their directories have fresh names)
  seen       \* ghost: revisions that had reached the model when a version was frozen

vars == <<disk, mem, stale, attempt, files, completing,
          site, flight, thread, known, entered, reported, closing, manifest, used, seen>>
versions == <<manifest, used, seen>>
reports == <<entered, reported>>
records == <<known, reports, versions>>

NoFlight   == [message |-> 0, answer |-> "none"]
NotClosing == [version |-> NoVersion, step |-> "none"]

Least(S)    == CHOOSE m \in S : \A k \in S : m <= k
Greatest(S) == IF S = {} THEN 0 ELSE CHOOSE m \in S : \A k \in S : k <= m
Chats == Messages \ Revisions
Heard == {thread[i] : i \in DOMAIN thread}

\* server_revision of a new Conversation, made with each run of the workflow.
AcceptedRevision == Greatest(Accepted(mem) \cap Revisions)

\* A public phase: its thread takes the owner's messages (allow_steer).
Public   == entered /\ closing = NotClosing /\ mem.phase.status = "running"
Reviewing == Ready /\ closing.step \in {"frozen", "stored"}
Quiet == Ready /\ entered /\ flight = NoFlight

ConversationInit ==
  /\ JournalInit
  /\ site = [m \in Messages |-> "unwritten"]
  /\ flight = NoFlight /\ thread = <<>> /\ closing = NotClosing /\ known = 0
  /\ entered = FALSE /\ reported = 0
  /\ manifest = [v \in Frozen |-> 0]
  /\ used = {}
  /\ seen = [v \in Frozen |-> {}]

\* The website numbers the owner's messages in the order of its INSERTs.
Compose(m) ==
  /\ site[m] = "unwritten"
  /\ \A k \in Messages : k < m => site[k] # "unwritten"
  /\ site' = [site EXCEPT ![m] = "pending"]
  /\ UNCHANGED <<jvars, flight, thread, closing, records>>

StartAttempt ==
  /\ Open \/ Prepare \/ \E ok \in BOOLEAN : TakeInputs(ok) \/ \E v \in Versions : Recover(v, ok)
  /\ known' = AcceptedRevision
  /\ UNCHANGED <<site, flight, thread, closing, reports, versions>>

\* Conversation.checkpoint: before the workflow starts, while phases run and when
\* they are completed.  The website takes no checkpoint that is behind the one
\* it has; the attempt ends of that answer (409), and goes on without any.  The
\* message_cursor it also compares never goes back.
NotBehind == known >= reported

Report ==
  /\ Ready /\ (entered => Quiet \/ Reviewing)
  /\ \/ NotBehind /\ reported' = known
     \/ UNCHANGED reported
  /\ entered' = TRUE
  /\ UNCHANGED <<jvars, site, flight, thread, closing, known, versions>>

\* The process dies, or the task fails and its executor leaves.
EndAttempt ==
  /\ Stop
  /\ flight' = NoFlight /\ closing' = NotClosing /\ known' = 0 /\ entered' = FALSE
  /\ UNCHANGED <<site, thread, reported, versions>>

Rows == {m \in Messages : site[m] \in {"pending", "received"} /\ mem.inbox[m].state = "absent"}
AnyRow(m) == m \in Rows
NextRow(m) == m \in Rows /\ \A k \in Rows : m <= k

\* poll takes the rows of its response in their order.  In a review it also
\* runs inside the tick of a chat delivery; there a revision ends the review
\* (RevisionPending), and with it the wait for that delivery's outcome.
Poll(m, ok) ==
  /\ Quiet \/ Reviewing
  /\ closing.step \in {"none", "frozen", "stored"}
  /\ NextRow(m)
  /\ AcceptMessage(m, ok)
  /\ IF ok /\ ~Public /\ Reviewing /\ m \in Revisions
       THEN closing' = NotClosing /\ flight' = NoFlight
       ELSE UNCHANGED <<closing, flight>>
  /\ known' = IF ok /\ m \in Revisions /\ m > known THEN m ELSE known
  /\ UNCHANGED <<site, thread, reports, versions>>

\* The response also names the latest revision.  It is read after the rows, by
\* a statement of its own: a revision stored in between is named, not returned,
\* and neither is one behind the hundred rows that a response holds.
Learn ==
  LET latest == Greatest({m \in Revisions : site[m] # "unwritten"})
  IN  /\ Quiet \/ Reviewing
      /\ closing.step \in {"none", "frozen", "stored"}
      /\ latest > known
      /\ known' = latest
      /\ UNCHANGED <<jvars, site, flight, thread, closing, reports, versions>>

\* deliver: "delivering" is on disk before anything is sent.  A public phase
\* goes on only when no earlier delivery is ambiguous.
Deliver(m, ok) ==
  /\ Quiet /\ Public
  /\ In(mem, {"delivering", "uncertain"}) = {}
  /\ \A k \in In(mem, {"accepted"}) : m <= k
  /\ BeginDelivery(m, ok)
  /\ flight' = IF ok THEN [message |-> m, answer |-> "unsent"] ELSE NoFlight
  /\ UNCHANGED <<site, thread, closing, records>>

\* respond_chats: questions are answered in an isolated thread before delivery.
DeliverChat(m, ok) ==
  /\ Quiet /\ Reviewing
  /\ m \in Chats
  /\ \A k \in In(mem, {"accepted"}) \cap Chats : m <= k
  /\ BeginDelivery(m, ok)
  /\ flight' = IF ok THEN [message |-> m, answer |-> "unsent"] ELSE NoFlight
  /\ UNCHANGED <<site, thread, closing, records>>

\* The request is written; the thread hears it or not (external).
Send ==
  /\ flight.answer = "unsent"
  /\ \/ /\ thread' = Append(thread, flight.message)
        /\ \E answer \in {"receipt", "lost"} : flight' = [flight EXCEPT !.answer = answer]
     \/ /\ \E answer \in {"refused", "lost"} : flight' = [flight EXCEPT !.answer = answer]
        /\ UNCHANGED thread
  /\ UNCHANGED <<jvars, site, closing, records>>

Settle(ok) ==
  /\ \/ flight.answer = "receipt" /\ Acknowledge(flight.message, ok)
     \/ flight.answer = "refused" /\ Reconcile(flight.message, "not_received", ok)
     \/ flight.answer = "lost" /\ Reconcile(flight.message, "unknown", ok)
  /\ flight' = NoFlight
  /\ UNCHANGED <<site, thread, closing, records>>

\* A deadline raised by the tick ends the chat phase, not the review.
GiveUpChat ==
  /\ Reviewing /\ flight # NoFlight
  /\ flight' = NoFlight
  /\ UNCHANGED <<jvars, site, thread, closing, records>>

\* reconcile_delivery: the thread's items show the message, or settle nothing.
ReconcileDelivery(m, ok) ==
  /\ Quiet /\ Public
  /\ \/ m \in Heard /\ Reconcile(m, "accepted", ok)
     \/ Reconcile(m, "unknown", ok)
  /\ UNCHANGED <<site, flight, thread, closing, records>>

\* complete_chats, for the turns that have completed.
CompleteChats(S, ok) ==
  /\ Quiet /\ closing.step \in {"none", "frozen", "stored"}
  /\ S \subseteq Chats \cap In(mem, {"acknowledged"})
  /\ MarkApplied(S, NoReceipt, ok)
  /\ UNCHANGED <<files, site, flight, thread, closing, records>>

ReachedOrSent == In(mem, Settled \cup {"delivering"})
Reached == In(mem, Settled)

\* flush: "ack" for what reached the model, then "applied"; each is one guarded
\* batch on the website, its response may be lost and it is sent again.
FlushReceived ==
  /\ attempt = "ready" /\ entered
  /\ \E m \in Reached : site[m] = "pending"
  /\ site' = [m \in Messages |-> IF m \in Reached /\ site[m] = "pending" THEN "received" ELSE site[m]]
  /\ UNCHANGED <<jvars, flight, thread, closing, records>>

FlushApplied ==
  /\ attempt = "ready" /\ entered
  /\ \A m \in Reached : site[m] # "pending"
  /\ \E m \in In(mem, {"applied"}) : site[m] = "received"
  /\ site' = [m \in Messages |-> IF m \in In(mem, {"applied"}) /\ site[m] = "received" THEN "applied" ELSE site[m]]
  /\ UNCHANGED <<jvars, flight, thread, closing, records>>
-----------------------------------------------------------------------------
\* The workflow around it.

AgentWrites(c) ==
  /\ Public
  /\ Write(Deck, c)
  /\ UNCHANGED <<site, flight, thread, closing, records>>

BeginAuthoring(n, ok) ==
  /\ Quiet /\ closing = NotClosing /\ n # Final
  /\ BeginPhase(n, ok)
  /\ UNCHANGED <<site, flight, thread, closing, records>>

CompleteAuthoring(n) ==
  /\ Quiet /\ closing = NotClosing /\ n # Final
  /\ StartCompletion(n, {Deck})
  /\ UNCHANGED <<site, flight, thread, closing, records>>

TakeCheckpoint(ok) ==
  /\ Quiet \/ Reviewing
  /\ Checkpoint(ok)
  /\ UNCHANGED <<site, flight, thread, closing, records>>

\* An exception ends the phase.  The workflow may go on with another one, but
\* not once it has begun to close a version: then the attempt fails, after a
\* last checkpoint.
Failing == [closing EXCEPT !.step = "failed"]
InterruptPhase(ok) ==
  /\ Quiet
  /\ Interrupt(ok)
  /\ closing' = IF closing.step \in {"none", "frozen", "stored"} THEN NotClosing ELSE Failing
  /\ UNCHANGED <<site, flight, thread, records>>

\* A candidate is frozen for review while every known revision is with the model.
Freeze(v) ==
  /\ Quiet /\ closing = NotClosing /\ mem.phase.status # "running"
  /\ Revisions \cap In(mem, Pending) = {}
  /\ v \notin used /\ files[Deck] # Missing
  /\ closing' = [version |-> v, step |-> "frozen"]
  /\ used' = used \cup {v}
  /\ seen' = [seen EXCEPT ![v] = Revisions \cap Reached]
  /\ UNCHANGED <<jvars, site, flight, thread, known, reports, manifest>>

\* The reviews ask for corrections: the next phase works on them.
SendBack ==
  /\ Quiet /\ closing.step = "frozen"
  /\ closing' = NotClosing
  /\ UNCHANGED <<jvars, site, flight, thread, records>>

\* The reviewed bytes become a version of their own.
StoreVersion ==
  /\ Quiet /\ closing.step = "frozen"
  /\ Write(closing.version, files[Deck])
  /\ closing' = [closing EXCEPT !.step = "stored"]
  /\ UNCHANGED <<site, flight, thread, records>>

\* validated(): the version answers every revision; one that is not with the
\* model sends the run back to the author.
Validate(ok) ==
  LET S == Revisions \cap In(mem, {"acknowledged"})
  IN  /\ Quiet /\ closing.step = "stored"
      /\ Revisions \cap In(mem, Pending) = {}
      /\ files[closing.version] # Missing
      /\ IF S = {} THEN ok /\ UNCHANGED jvars
                   ELSE MarkApplied(S, Receipt(files, {closing.version}), ok) /\ UNCHANGED files
      /\ closing' = IF ok THEN [closing EXCEPT !.step = "validated"] ELSE Failing
      /\ UNCHANGED <<site, flight, thread, records>>

BeginFinal(ok) ==
  /\ Quiet /\ closing.step = "validated"
  /\ BeginPhase(Final, ok)
  /\ closing' = IF ok THEN [closing EXCEPT !.step = "begun"] ELSE Failing
  /\ manifest' = [manifest EXCEPT ![closing.version] = known]
  /\ UNCHANGED <<site, flight, thread, known, reports, used, seen>>

CertifyFinal ==
  /\ Quiet /\ closing.step = "begun"
  /\ StartCompletion(Final, {closing.version})
  /\ UNCHANGED <<site, flight, thread, closing, records>>

Complete(ok) ==
  /\ \/ CaptureCompletion(ok) /\ closing' = IF closing = NotClosing \/ ok THEN closing ELSE Failing
     \/ AbandonCompletion /\ closing' = IF closing = NotClosing THEN closing ELSE Failing
     \/ /\ FinishCompletion(ok)
        /\ closing' = CASE closing = NotClosing -> closing
                       [] closing # NotClosing /\ ok -> [closing EXCEPT !.step = "shipping"]
                       [] OTHER -> Failing
  /\ UNCHANGED <<site, flight, thread, records>>

CachedIgnoringRevision(v) ==
  /\ mem.stages[Final].receipts # NoReceipt
  /\ v \in DOMAIN mem.stages[Final].receipts
  /\ Matches(files, mem.stages[Final].receipts)
  /\ Revisions \cap In(mem, Pending \cup {"acknowledged"}) = {}
\* reviewed_delivery: the version a former attempt certified can be delivered
\* as it is.  Neither the input revision nor the plugin version is compared.
Cached(v) ==
  /\ mem.stages[Final].receipts # NoReceipt
  /\ v \in DOMAIN mem.stages[Final].receipts
  /\ Matches(files, mem.stages[Final].receipts)
  /\ manifest[v] = known
  /\ Revisions \cap In(mem, Pending \cup {"acknowledged"}) = {}

ReuseDelivery(v) ==
  /\ Quiet /\ closing = NotClosing
  /\ Cached(v)
  /\ closing' = [version |-> v, step |-> "shipping"]
  /\ UNCHANGED <<jvars, site, flight, thread, records>>

\* The website refuses the delivery (412): the workflow runs again.
Refused ==
  /\ closing.step = "shipping"
  /\ closing' = NotClosing /\ known' = AcceptedRevision
  /\ UNCHANGED <<jvars, site, flight, thread, reports, versions>>

ConversationNext ==
  \/ StartAttempt \/ Report \/ EndAttempt \/ Send \/ GiveUpChat \/ FlushReceived \/ FlushApplied
  \/ Learn \/ SendBack \/ StoreVersion \/ CertifyFinal \/ Refused
  \/ \E m \in Messages : Compose(m)
  \/ \E c \in Contents \cup {Missing} : AgentWrites(c)
  \/ \E n \in Phases : CompleteAuthoring(n)
  \/ \E v \in Frozen : Freeze(v) \/ ReuseDelivery(v)
  \/ \E ok \in BOOLEAN :
       \/ \E m \in Messages : Poll(m, ok) \/ Deliver(m, ok) \/ DeliverChat(m, ok) \/ ReconcileDelivery(m, ok)
       \/ \E S \in SUBSET Chats : CompleteChats(S, ok)
       \/ \E n \in Phases : BeginAuthoring(n, ok)
       \/ Settle(ok) \/ TakeCheckpoint(ok) \/ InterruptPhase(ok)
       \/ Validate(ok) \/ BeginFinal(ok) \/ Complete(ok)

ConversationSpec == ConversationInit /\ [][ConversationNext]_vars
-----------------------------------------------------------------------------
\* Every value stays in its set.
ConversationTypeOK ==
  /\ JournalTypeOK
  /\ site \in [Messages -> {"unwritten", "pending", "received", "applied"}]
  /\ flight \in [message : Messages, answer : {"unsent", "receipt", "refused", "lost"}] \cup {NoFlight}
  /\ thread \in Seq(Messages)
  /\ known \in 0 .. NumMessages
  /\ entered \in BOOLEAN /\ reported \in 0 .. NumMessages
  /\ closing \in [version : Frozen, step : {"frozen", "stored", "validated", "begun", "shipping", "failed"}] \cup {NotClosing}
  /\ manifest \in [Frozen -> 0 .. NumMessages]
  /\ used \subseteq Frozen
  /\ seen \in [Frozen -> SUBSET Revisions]

\* The conversation is a mailbox: whatever crashes and whatever answer is lost,
\* the model is given each message at most once and in the owner's order, and
\* the journal confirms a message only after the model was given it.
M == INSTANCE Mailbox WITH Letters <- Messages, heard <- thread, confirmed <- In(disk, Settled)
MailboxSpec == M!Spec

\* The website shows "received" or "applied" only for a message that a restart
\* of the runner would still find acknowledged.
ReceiptsAreDurable ==
  \A m \in Messages : site[m] \in {"received", "applied"} => disk.inbox[m].state \in Settled

\* Whatever version a message is applied in is in the workspace, also after the
\* workspace was restored from an older checkpoint.
AppliedFilesKept ==
  attempt = "ready" => \A m \in In(mem, {"applied"}) : Matches(files, mem.inbox[m].artifacts)

\* A deck goes out only if it was frozen after every revision the runner has
\* accepted had reached the model: no revision slips in between the review and
\* the certificate, and a version certified by a former attempt is not reused
\* once a later one has been asked for.
SawEveryRevision(v) == Revisions \cap Accepted(mem) \subseteq seen[v]
Overstated(v) == manifest[v] \notin seen[v] \cup {0}

\* This holds of every version whose manifest names a revision it answers.
DeliveredSawEveryRevision ==
  closing.step = "shipping" /\ ~Overstated(closing.version) => SawEveryRevision(closing.version)

\* README-recovery.md: "All stages are conservatively invalidated by an
\* input-changing message".  Refuted: a manifest may name a revision that was
\* stored between the two statements of a poll and that its deck never saw.
StagesInvalidatedByInput ==
  closing.step = "shipping" => SawEveryRevision(closing.version)

\* A row the website still returns is never refused by the journal for its
\* cursor, which would end every later attempt at its first poll.
RowsStayAcceptable ==
  attempt = "ready" => \A m \in Rows : m > mem.cursor

\* runner/README.md: "A forced interruption retains a host-owned checkpoint. The
\* owner can resume the same job".  Refuted: an attempt that published a revision
\* it had not accepted leaves a record that is ahead of every later attempt, and
\* each of them is rejected at its first checkpoint.
AttemptsCanEnter ==
  Ready /\ ~entered => NotBehind
=============================================================================
