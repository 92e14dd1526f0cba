------------------------------- MODULE Drafts ------------------------------
(***************************************************************************)
(* The progress downloads of one task: the background publisher of an      *)
(* attempt (draft_progress.py), which looks for the newest complete export *)
(* of the workspace and sends it, and the website's single draft row and   *)
(* its objects (the draft route).  A restart restores the workspace from   *)
(* the last checkpoint and forgets what was sent.                          *)
(***************************************************************************)
EXTENDS Naturals, FiniteSets

CONSTANTS
  Decks,          \* contents of exported files, ...
  CompleteDecks,  \* ... those that are whole presentations (validate_native)
  MaxExports, MaxInput, MaxAttempt, MaxUnderway  \* bounds

ASSUME DraftAssumption ==
  CompleteDecks \subseteq Decks /\ {MaxExports, MaxInput, MaxAttempt, MaxUnderway} \subseteq Nat

VARIABLES
  exports,    \* presentations in the workspace: content and mtime
  captured,   \* those of the last checkpoint
  clock,      \* exports made
  input,      \* input_revision of the journal
  publisher,  \* lease of the attempt at work, 0 for none
  sent,       \* DraftProgress.uploaded
  newest,     \* DraftProgress.latest: its mtime, 0 for none
  sending,    \* what synchronize is at
  underway,   \* requests nobody waits for any more
  running, issues, \* lease of the running row, 0 for none; leases issued
  fresh,      \* the newest one's attempt has not started yet
  objects,    \* contents in the object store
  draft,      \* the task_drafts row
  shown       \* ghost: contents the row ever had

draftVars == <<exports, captured, clock, input, publisher, sent, newest,
               sending, underway, running, issues, fresh, objects, draft, shown>>
workspace == <<exports, captured, clock, input>>
lease     == <<running, issues, fresh>>
website   == <<objects, draft, shown>>

Exports == [content : Decks, at : 1 .. MaxExports]
Labels  == [content : CompleteDecks, at : 1 .. MaxExports, input : 0 .. MaxInput]
NoDraft == [content |-> "none", at |-> 0, input |-> 0]
NoSend  == [step |-> "idle", lease |-> 0, label |-> NoDraft]

Later(x, y) == x.input > y.input \/ (x.input = y.input /\ x.at > y.at)

DraftsInit ==
  /\ exports = {} /\ captured = {} /\ clock = 0 /\ input = 0
  /\ publisher = 0 /\ sent = {} /\ newest = 0 /\ sending = NoSend /\ underway = {}
  /\ running = 0 /\ issues = 0 /\ fresh = FALSE
  /\ objects = {} /\ draft = NoDraft /\ shown = {}
-----------------------------------------------------------------------------
(***************************************************************************)
(* The attempt: exports, accepted messages, checkpoints, its start and end *)
(***************************************************************************)

\* A finished export appears as a whole, at a new path or over an older one.
Export(content, over) ==
  /\ publisher # 0 /\ clock < MaxExports /\ clock' = clock + 1
  /\ over \subseteq exports /\ Cardinality(over) <= 1
  /\ exports' = (exports \ over) \cup {[content |-> content, at |-> clock + 1]}
  /\ UNCHANGED <<captured, input, publisher, sent, newest, sending, underway, lease, website>>

AcceptInput ==
  /\ publisher # 0 /\ input < MaxInput /\ input' = input + 1
  /\ UNCHANGED <<exports, captured, clock, publisher, sent, newest, sending, underway, lease, website>>

Capture ==
  /\ publisher # 0 /\ captured # exports /\ captured' = exports
  /\ UNCHANGED <<exports, clock, input, publisher, sent, newest, sending, underway, lease, website>>

Grant ==
  /\ issues < MaxAttempt /\ issues' = issues + 1 /\ running' = issues + 1 /\ fresh' = TRUE
  /\ UNCHANGED <<workspace, publisher, sent, newest, sending, underway, website>>

Revoke ==
  /\ running # 0 /\ running' = 0
  /\ UNCHANGED <<workspace, publisher, sent, newest, sending, underway, issues, fresh, website>>

\* Journal.recover: the checkpoint's files with their mtimes.
Resume ==
  /\ publisher = 0 /\ fresh /\ fresh' = FALSE /\ publisher' = issues
  /\ exports' = captured /\ sent' = {} /\ newest' = 0
  /\ UNCHANGED <<captured, clock, input, sending, underway, running, issues, website>>

OnTheWay == {"sent", "guarded", "stored", "inserted"}
Answered == {"ok", "refused"}

LeftBehind(r) ==
  \/ underway' = underway
  \/ r.step \in OnTheWay /\ Cardinality(underway \cup {r}) <= MaxUnderway /\ underway' = underway \cup {r}

Cease ==
  /\ publisher # 0 /\ publisher' = 0
  /\ LeftBehind(sending) /\ sending' = NoSend
  /\ UNCHANGED <<workspace, sent, newest, lease, website>>

(***************************************************************************)
(* synchronize: the revision of the journal, then the newest whole export  *)
(***************************************************************************)

Context ==
  /\ publisher # 0 /\ sending = NoSend
  /\ sending' = [step |-> "looking", lease |-> publisher, label |-> [NoDraft EXCEPT !.input = input]]
  /\ UNCHANGED <<workspace, publisher, sent, newest, underway, lease, website>>

Whole == {e \in exports : e.content \in CompleteDecks}
NewestWhole(e) == e \in Whole /\ \A f \in Whole : f.at <= e.at

\* Nothing is sent twice, and nothing older than what was sent.
ToSend(e) == NewestWhole(e) /\ e.content \notin sent /\ e.at >= newest

Look ==
  /\ sending.step = "looking"
  /\ \/ \E e \in exports :
          /\ ToSend(e)
          /\ sending' = [sending EXCEPT !.step = "sent",
                           !.label = [content |-> e.content, at |-> e.at, input |-> sending.label.input]]
     \/ (~ \E e \in exports : ToSend(e)) /\ sending' = NoSend
  /\ UNCHANGED <<workspace, publisher, sent, newest, underway, lease, website>>

\* What counts as sent after this answer, or none.
SentAnyway(answer) == sent \cup {sending.label.content}
SentAfter(answer) == IF answer = "ok" THEN sent \cup {sending.label.content} ELSE sent

Learn ==
  /\ sending.step \in Answered
  /\ sent' = SentAfter(sending.step)
  /\ newest' = IF sending.step = "ok" THEN sending.label.at ELSE newest
  /\ sending' = NoSend
  /\ UNCHANGED <<workspace, publisher, underway, lease, website>>

\* A timeout, or an answer that is lost.
Forget ==
  /\ sending.step \in OnTheWay \cup Answered
  /\ LeftBehind(sending) /\ sending' = NoSend /\ sent' = SentAfter("none")
  /\ UNCHANGED <<workspace, publisher, newest, lease, website>>

(***************************************************************************)
(* The draft route: guard, object, row, and the guard again when the row   *)
(* did not change                                                          *)
(***************************************************************************)

Guard(r) == running = r.lease

SupersedesAlways(r) == TRUE
Supersedes(r) == draft = NoDraft \/ Later(r.label, draft)

Serving(r) == [r EXCEPT !.step =
  CASE r.step = "sent"     -> IF Guard(r) THEN "guarded" ELSE "refused"
    [] r.step = "guarded"  -> "stored"
    [] r.step = "stored"   -> IF Guard(r) /\ Supersedes(r) THEN "ok" ELSE "inserted"
    [] r.step = "inserted" -> IF Guard(r) THEN "ok" ELSE "refused"]

Serve(r) ==
  /\ objects' = IF r.step = "guarded" THEN objects \cup {r.label.content} ELSE objects
  /\ IF r.step = "stored" /\ Guard(r) /\ Supersedes(r)
     THEN draft' = r.label /\ shown' = shown \cup {r.label.content}
     ELSE UNCHANGED <<draft, shown>>

ServeSending(step) ==
  /\ sending.step = step /\ step \in OnTheWay
  /\ Serve(sending) /\ sending' = Serving(sending)
  /\ UNCHANGED <<workspace, publisher, sent, newest, underway, lease>>

ServeUnderway(r) ==
  /\ Serve(r)
  /\ underway' = (underway \ {r}) \cup {s \in {Serving(r)} : s.step \in OnTheWay}
  /\ UNCHANGED <<workspace, publisher, sent, newest, sending, lease>>
-----------------------------------------------------------------------------
DraftsNext ==
  \/ \E content \in Decks, over \in SUBSET exports : Export(content, over)
  \/ AcceptInput \/ Capture \/ Grant \/ Revoke \/ Resume \/ Cease
  \/ Context \/ Look \/ Learn \/ Forget
  \/ \E step \in OnTheWay : ServeSending(step)
  \/ \E r \in underway : ServeUnderway(r)

\* poll starts the thread every 15 seconds; the website answers again and again.
DraftsFairness ==
  /\ WF_draftVars(Context) /\ WF_draftVars(Look)
  /\ SF_draftVars(Learn)
  /\ \A step \in OnTheWay : SF_draftVars(ServeSending(step))

DraftsSpec == DraftsInit /\ [][DraftsNext]_draftVars /\ DraftsFairness
-----------------------------------------------------------------------------
RequestShape(r) ==
  r.step \in OnTheWay \cup Answered /\ r.lease \in 1 .. MaxAttempt /\ r.label \in Labels

\* What each variable holds.
DraftsTypeOK ==
  /\ exports \subseteq Exports /\ captured \subseteq Exports
  /\ clock \in 0 .. MaxExports /\ newest \in 0 .. MaxExports /\ input \in 0 .. MaxInput
  /\ {publisher, running, issues} \subseteq 0 .. MaxAttempt /\ fresh \in BOOLEAN
  /\ sent \subseteq CompleteDecks /\ shown \subseteq CompleteDecks /\ objects \subseteq CompleteDecks
  /\ draft = NoDraft \/ (draft \in Labels /\ draft.content \in objects)
  /\ sending.step \in {"idle", "looking"} \/ RequestShape(sending)
  /\ \A r \in underway : RequestShape(r)

\* "monotonic revision/export ordering" (docs/progress-downloads.md): requests of
\* this or an earlier attempt that arrive late never replace a later draft.
DraftNeverRecedes == [][draft # NoDraft /\ draft' # draft => Later(draft', draft)]_draftVars

\* While an attempt goes on and holds its lease, its newest whole export is offered,
\* unless a later one is, or its bytes were offered before: the publisher knows
\* sent files by their bytes, and an older deck exported again is not sent again.
NewestExportShown ==
  <>[](publisher # 0 /\ running = publisher) =>
    <>[](\A e \in exports : NewestWhole(e) => draft.at >= e.at \/ e.content \in shown)
=============================================================================
