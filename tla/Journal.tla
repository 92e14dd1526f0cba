------------------------------ MODULE Journal ------------------------------
(***************************************************************************)
(* workflow/journal.py: the durable record of one task on the runner host. *)
(*                                                                         *)
(* Every operation computes a complete new state and publishes it as the   *)
(* next event file; the directory of events is the truth, a process holds  *)
(* a copy of its last state.  The event is published by a link and the     *)
(* directory is then synchronised: when that last call fails, the event    *)
(* exists and the operation raises, and no later event of this process can *)
(* be published, for its name is taken.                                    *)
(*                                                                         *)
(* state.json is left out: _load only compares it with the events and      *)
(* replaces it.  Text, attachments, thread ids and times are left out.  A  *)
(* checkpoint is taken at once here; in the code it is not atomic across   *)
(* files, which matters only if two of them are being written meanwhile.   *)
(***************************************************************************)
EXTENDS Naturals, FiniteSets

CONSTANTS
  NumMessages,   \* messages are named by their cursor, 1, 2, ...
  Revisions,     \* those with changes_input; the others are chat
  Phases,
  Final,         \* the phase whose completion requires applied revisions
  Paths,         \* files of the workspace
  Contents,
  Missing,
  Versions,      \* plugin versions
  FirstVersion,
  MaxRevision    \* bound: input revisions reached by plugin upgrades

Messages == 1 .. NumMessages

ASSUME JournalAssumption ==
  /\ NumMessages \in Nat
  /\ MaxRevision \in Nat
  /\ Revisions \subseteq Messages
  /\ Final \in Phases
  /\ FirstVersion \in Versions
  /\ Missing \notin Contents

VARIABLES
  disk,       \* the state in the last event
  mem,        \* the state the open journal holds
  stale,      \* an event exists that the open journal does not know of
  attempt,    \* "none" (lock free), "opened", "prepared" (it has a workspace), "ready"
  files,      \* the workspace of the attempt
  completing  \* complete_phase between its checks and its last event

jvars == <<disk, mem, stale, attempt, files, completing>>

Pending == {"accepted", "delivering", "uncertain"}
Settled == {"acknowledged", "applied"}
MessageStates == {"absent"} \cup Pending \cup Settled

Trees    == [Paths -> Contents \cup {Missing}]
Receipts == UNION {[S -> Contents] : S \in SUBSET Paths}
NoFiles  == [p \in Paths |-> Missing]
NoReceipt == [p \in {} |-> Missing]

NoPhase == [name |-> Final, status |-> "none", revision |-> 0]
NoStage == [revision |-> 0, version |-> FirstVersion, receipts |-> NoReceipt]
NoSnapshot == [taken |-> FALSE, tree |-> NoFiles]
NoMessage == [state |-> "absent", artifacts |-> NoReceipt]
NotCompleting == [name |-> Final, receipts |-> NoReceipt, step |-> "none"]

States ==
  [revision : Nat, version : Versions, cursor : 0 .. NumMessages,
   appliedCursor : 0 .. NumMessages,
   phase : [name : Phases, status : {"none", "running", "interrupted", "completed"}, revision : Nat],
   snapshot : [taken : BOOLEAN, tree : Trees],
   stages : [Phases -> [revision : Nat, version : Versions, receipts : Receipts]],
   inbox : [Messages -> [state : MessageStates, artifacts : Receipts]]]

Created ==
  [revision |-> 0, version |-> FirstVersion, cursor |-> 0, appliedCursor |-> 0,
   phase |-> NoPhase, snapshot |-> NoSnapshot, stages |-> [n \in Phases |-> NoStage],
   inbox |-> [m \in Messages |-> NoMessage]]

In(s, S) == {m \in Messages : s.inbox[m].state \in S}
Accepted(s) == Messages \ In(s, {"absent"})
Matches(tree, receipts) == \A p \in DOMAIN receipts : tree[p] = receipts[p]
Receipt(tree, S) == [p \in S |-> tree[p]]
Marked(s, m, word) == [s EXCEPT !.inbox[m].state = word]

\* The largest cursor such that every message accepted up to it is applied.
AppliedPrefix(s) ==
  LET reached == {m \in In(s, {"applied"}) : \A k \in Accepted(s) : k <= m => s.inbox[k].state = "applied"}
  IN  IF reached = {} THEN 0 ELSE CHOOSE m \in reached : \A k \in reached : k <= m

CommitMemoryFirst(s, ok) ==
  /\ ~stale
  /\ mem' = s
  /\ disk' = IF ok THEN s ELSE disk
  /\ stale' = ~ok
\* Publish the event that carries s; without ok the caller gets an exception.
Commit(s, ok) ==
  /\ ~stale
  /\ disk' = s
  /\ mem' = IF ok THEN s ELSE mem
  /\ stale' = ~ok

Ready == attempt = "ready" /\ completing = NotCompleting

JournalInit ==
  /\ disk = Created /\ mem = Created /\ stale = FALSE
  /\ attempt = "none" /\ files = NoFiles /\ completing = NotCompleting

\* The lock is taken and the events are read; a killed process loses the lock,
\* its memory and its workspace.
Open ==
  /\ attempt = "none"
  /\ attempt' = "opened"
  /\ UNCHANGED <<disk, mem, stale, files, completing>>

Stop ==
  /\ attempt # "none"
  /\ attempt' = "none" /\ mem' = disk /\ stale' = FALSE
  /\ files' = NoFiles /\ completing' = NotCompleting
  /\ UNCHANGED disk

\* Without a checkpoint the runner prepares an empty workspace.
Prepare ==
  /\ attempt = "opened" /\ ~stale /\ ~mem.snapshot.taken
  /\ attempt' = "prepared"
  /\ UNCHANGED <<disk, mem, stale, files, completing>>

RecoveredMessageKeepingApplied(s, m) ==
  IF s.inbox[m].state = "delivering" THEN [s.inbox[m] EXCEPT !.state = "uncertain"] ELSE s.inbox[m]
RecoveredMessageResending(s, m) ==
  IF s.inbox[m].state = "delivering" THEN [s.inbox[m] EXCEPT !.state = "accepted"] ELSE s.inbox[m]
RecoveredMessage(s, m) ==
  CASE s.inbox[m].state = "delivering" -> [s.inbox[m] EXCEPT !.state = "uncertain"]
    [] s.inbox[m].state = "applied" /\ ~Matches(s.snapshot.tree, s.inbox[m].artifacts)
         -> [s.inbox[m] EXCEPT !.state = "acknowledged"]
    [] OTHER -> s.inbox[m]

RecountedKeepingCursor(s) == s
Recounted(s) == [s EXCEPT !.appliedCursor = AppliedPrefix(s)]

\* A new plugin version is a new input revision.
RecoveredState(s, v) ==
  Recounted(
    [s EXCEPT !.version = v,
              !.revision = IF v = s.version THEN @ ELSE @ + 1,
              !.inbox = [m \in Messages |-> RecoveredMessage(s, m)],
              !.phase.status = IF @ = "running" THEN "interrupted" ELSE @])

\* recover: the workspace of the new attempt holds the files of the checkpoint.
Recover(v, ok) ==
  /\ attempt = "opened" /\ mem.snapshot.taken
  /\ v # mem.version => mem.revision < MaxRevision
  /\ Commit(RecoveredState(mem, v), ok)
  /\ attempt' = IF ok THEN "prepared" ELSE attempt
  /\ files' = IF ok THEN mem.snapshot.tree ELSE files
  /\ UNCHANGED completing

Begun(s, n) == [s EXCEPT !.phase = [name |-> n, status |-> "running", revision |-> s.revision]]
Interrupted(s) == [s EXCEPT !.phase.status = IF @ = "running" THEN "interrupted" ELSE @]

BeginPhase(n, ok) ==
  /\ Ready
  /\ Commit(Begun(mem, n), ok)
  /\ UNCHANGED <<attempt, files, completing>>

Interrupt(ok) ==
  /\ Ready
  /\ Commit(Interrupted(mem), ok)
  /\ UNCHANGED <<attempt, files, completing>>

Captured(s) == [s EXCEPT !.snapshot = [taken |-> TRUE, tree |-> files]]

Checkpoint(ok) ==
  /\ Ready
  /\ Commit(Captured(mem), ok)
  /\ UNCHANGED <<attempt, files, completing>>

\* The runner takes a checkpoint of the prepared workspace before the workflow
\* starts ("restored_workspace", "task_inputs_ready").
TakeInputs(ok) ==
  /\ attempt = "prepared"
  /\ Commit(Captured(mem), ok)
  /\ attempt' = IF ok THEN "ready" ELSE attempt
  /\ UNCHANGED <<files, completing>>

\* What a phase certifies: its user revisions have reached the model, and for
\* the final phase they have been applied.
Unsettled(n) == Revisions \cap In(mem, IF n = Final THEN Pending \cup {"acknowledged"} ELSE Pending)

\* complete_phase: checks and receipts, then a checkpoint, then the completion,
\* unless a file changed in between.  The workflow passes the current revision
\* for every phase but the last, which must have begun under it.
StartCompletion(n, S) ==
  /\ Ready
  /\ mem.phase.name = n /\ mem.phase.status = "running"
  /\ n = Final => mem.phase.revision = mem.revision
  /\ Unsettled(n) = {}
  /\ S # {} /\ \A p \in S : files[p] # Missing
  /\ completing' = [name |-> n, receipts |-> Receipt(files, S), step |-> "checked"]
  /\ UNCHANGED <<disk, mem, stale, attempt, files>>

CaptureCompletion(ok) ==
  /\ completing.step = "checked"
  /\ Commit(Captured(mem), ok)
  /\ completing' = IF ok THEN [completing EXCEPT !.step = "captured"] ELSE NotCompleting
  /\ UNCHANGED <<attempt, files>>

Completed(s, n, receipts) ==
  [s EXCEPT !.stages[n] = [revision |-> s.revision, version |-> s.version, receipts |-> receipts],
            !.phase.status = "completed",
            !.phase.revision = s.revision]

FinishCompletion(ok) ==
  /\ completing.step = "captured"
  /\ Matches(mem.snapshot.tree, completing.receipts)
  /\ Commit(Completed(mem, completing.name, completing.receipts), ok)
  /\ completing' = NotCompleting
  /\ UNCHANGED <<attempt, files>>

AbandonCompletion ==
  /\ completing.step = "captured"
  /\ ~Matches(mem.snapshot.tree, completing.receipts)
  /\ completing' = NotCompleting
  /\ UNCHANGED <<disk, mem, stale, attempt, files>>

\* can_reuse
Reusable(n) ==
  /\ mem.stages[n].receipts # NoReceipt
  /\ mem.stages[n].revision = mem.revision
  /\ mem.stages[n].version = mem.version
  /\ Matches(files, mem.stages[n].receipts)

ReceivedSilently(s, m) ==
  [s EXCEPT !.cursor = m, !.inbox[m].state = "accepted"]
Received(s, m) ==
  [s EXCEPT !.cursor = m,
            !.revision = IF m \in Revisions THEN @ + 1 ELSE @,
            !.inbox[m].state = "accepted"]

\* accept_message of a new identifier; a known one changes nothing.
Fresh(m) == mem.inbox[m].state = "absent" /\ m > mem.cursor

AcceptMessage(m, ok) ==
  /\ Ready
  /\ Fresh(m)
  /\ Commit(Received(mem, m), ok)
  /\ UNCHANGED <<attempt, files, completing>>

BeginDelivery(m, ok) ==
  /\ Ready
  /\ mem.inbox[m].state = "accepted"
  /\ Commit(Marked(mem, m, "delivering"), ok)
  /\ UNCHANGED <<attempt, files, completing>>

Acknowledge(m, ok) ==
  /\ Ready
  /\ mem.inbox[m].state \in {"delivering", "uncertain"}
  /\ Commit(Marked(mem, m, "acknowledged"), ok)
  /\ UNCHANGED <<attempt, files, completing>>

After(outcome) ==
  CASE outcome = "accepted" -> "acknowledged"
    [] outcome = "not_received" -> "accepted"
    [] outcome = "unknown" -> "uncertain"

Reconcile(m, outcome, ok) ==
  /\ Ready
  /\ mem.inbox[m].state \in {"delivering", "uncertain"}
  /\ Commit(Marked(mem, m, After(outcome)), ok)
  /\ UNCHANGED <<attempt, files, completing>>

Advanced(s) ==
  [s EXCEPT !.appliedCursor = IF AppliedPrefix(s) > @ THEN AppliedPrefix(s) ELSE @]
Applying(s, S, receipts) ==
  [s EXCEPT !.inbox = [m \in Messages |->
     IF m \in S THEN [state |-> "applied", artifacts |-> receipts] ELSE s.inbox[m]]]

MarkApplied(S, receipts, ok) ==
  /\ Ready
  /\ S # {} /\ S \subseteq In(mem, Settled)
  /\ S \cap Revisions # {} => receipts # NoReceipt
  /\ Commit(Advanced(Applying(mem, S, receipts)), ok)
  /\ UNCHANGED <<attempt, completing>>

\* Anything that runs in the workspace writes or removes a file; complete_phase
\* does not stop it.
Write(p, c) ==
  /\ attempt \in {"prepared", "ready"}
  /\ files' = [files EXCEPT ![p] = c]
  /\ UNCHANGED <<disk, mem, stale, attempt, completing>>

Operation(ok) ==
  \/ \E v \in Versions : Recover(v, ok)
  \/ \E n \in Phases : BeginPhase(n, ok)
  \/ Interrupt(ok) \/ Checkpoint(ok) \/ TakeInputs(ok) \/ CaptureCompletion(ok) \/ FinishCompletion(ok)
  \/ \E m \in Messages : AcceptMessage(m, ok) \/ BeginDelivery(m, ok) \/ Acknowledge(m, ok)
  \/ \E m \in Messages, outcome \in {"accepted", "not_received", "unknown"} : Reconcile(m, outcome, ok)
  \/ \E S \in SUBSET Messages, P \in SUBSET Paths :
       /\ \A p \in P : files[p] # Missing
       /\ MarkApplied(S, Receipt(files, P), ok)
       /\ UNCHANGED files

JournalNext ==
  \/ Open \/ Stop \/ Prepare \/ AbandonCompletion
  \/ \E ok \in BOOLEAN : Operation(ok)
  \/ \E n \in Phases, S \in SUBSET Paths : StartCompletion(n, S)
  \/ \E p \in Paths, c \in Contents \cup {Missing} : Write(p, c)

JournalSpec == JournalInit /\ [][JournalNext]_jvars
-----------------------------------------------------------------------------
\* Every value stays in its set (the states _validate_state admits).
JournalTypeOK ==
  /\ {disk, mem} \subseteq States
  /\ stale \in BOOLEAN
  /\ attempt \in {"none", "opened", "prepared", "ready"}
  /\ files \in Trees
  /\ completing \in [name : Phases, receipts : Receipts, step : {"none", "checked", "captured"}]

\* A phase that a later attempt would skip (can_reuse) was completed when every
\* user revision known now had reached the model: accept_message makes the old
\* receipts stale, and a message that was delivered never becomes undelivered.
ReusedPhaseSawRevisions ==
  \A n \in Phases : Reusable(n) => Revisions \cap In(mem, Pending) = {}

\* applied_message_cursor never passes an accepted message that is not applied,
\* also after a recovery has taken messages back and after a message with a
\* later cursor was applied first.
NothingUnappliedBehindCursor ==
  \A s \in {disk, mem} : \A m \in Accepted(s) : m <= s.appliedCursor => s.inbox[m].state = "applied"

\* Once the delivery of a message has begun, only a positive finding that it
\* was not received makes it deliverable again, whatever is lost or restarted:
\* the journal on disk never falls back from "delivering" on its own.
RedeliverOnlyRefused ==
  \A m \in Messages :
    disk.inbox[m].state \in {"delivering", "uncertain"} /\ disk'.inbox[m].state = "accepted"
      => \E ok \in BOOLEAN : Reconcile(m, "not_received", ok)
NeverForgotten == [][RedeliverOnlyRefused]_jvars

\* The process that holds the lock never believes in progress that a restart
\* would not find: its copy is the state on disk, or the one just before it.
MemoryIsDurable ==
  /\ ~stale => mem = disk
  /\ \A m \in Messages : mem.inbox[m].state \in Settled => disk.inbox[m].state \in Settled
=============================================================================
