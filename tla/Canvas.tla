------------------------------- MODULE Canvas -------------------------------
(***************************************************************************)
(* The deck of one task between the agent and its owner.  While the agent  *)
(* authors, its finished pages are published as the live head; the owner   *)
(* may save pages directly, which locks them, or ask the agent about them, *)
(* which unlocks them.  Saves are carried out by an editor that claims     *)
(* them from the website; the candidate that is reviewed and delivered is  *)
(* the agent's deck with the locked pages laid over it.                    *)
(*                                                                         *)
(* A deck is named by its bytes (sha256), here by the content of its       *)
(* pages.  A page is ready once it has content; that its picture may come  *)
(* later, and the parts and pictures themselves, are left out.  Files of   *)
(* the object store are written in the step of the request that made them. *)
(***************************************************************************)
EXTENDS Naturals, FiniteSets

CONSTANTS
  Pages,
  Blank,        \* a page the agent has not written
  Drafts,       \* what the agent may write on a page
  Saves,        \* ids of direct saves; also what a save makes of its pages
  Asks,         \* ids of visual edits, which hand pages back to the agent
  None,
  MaxTries,     \* tries of the editor after a refusal (3)
  MaxLeases,    \* bound: attempts
  MaxSilences   \* bound: times the website hears nothing of a save for five minutes

Contents == {Blank} \cup Drafts \cup Saves
Decks    == [Pages -> Contents]
Leases   == 1 .. MaxLeases

ASSUME CanvasAssumption ==
  /\ {MaxTries, MaxLeases, MaxSilences} \subseteq Nat
  /\ Blank \notin Drafts \cup Saves
  /\ Drafts \cap Saves = {}
  /\ Asks \cap Saves = {}
  /\ Saves \cap Leases = {}
  /\ IsFiniteSet(Saves)
  /\ None \notin Contents \cup Decks \cup Leases \cup [deck : Decks, answers : SUBSET (Saves \cup Asks)]

VARIABLES
  status,     \* jobs.status: "running", "complete" or anything else, "waiting"
  lease,      \* the latest attempt
  result,     \* jobs.result_key and the deck under that key
  head,       \* canvas_heads: the deck that is shown while the agent works
  sources,    \* canvas_sources of the latest attempt: decks it has shown
  locks,      \* canvas_page_locks
  edits,      \* native_edits
  runs,       \* editor executions by the token (native_edits.lease) they were claimed under
  tokens,     \* tokens handed out
  silences,
  pubs,       \* progressive_canvas.py synchronize, by attempt
  work,       \* the deck in the agent's workspace
  frozen,     \* the candidate under review, and the revisions it answers
  pending,    \* revisions that are not applied
  told,       \* revisions the runner has accepted
  newest      \* ghost: the last save of each page

job     == <<status, lease, result>>
canvas  == <<head, sources, locks>>
editing == <<edits, runs, tokens, silences>>
agent   == <<work, frozen, told>>
vars    == <<job, canvas, editing, pubs, agent, pending, newest>>

NoRun  == [edit |-> None, step |-> "none", parent |-> None, tries |-> 0]
NoPub  == [step |-> "none", source |-> None, locks |-> None, parent |-> None]
NoEdit == [status |-> "absent", base |-> None, pages |-> {}, producer |-> 0, key |-> None,
           token |-> 0, silent |-> FALSE]
\* The other columns of an ended save are not read again.
Ended(word) == [NoEdit EXCEPT !.status = word]
BlankDeck == [p \in Pages |-> Blank]
NoLocks   == [p \in Pages |-> None]
\* Enough tokens for every claim: a save is queued once and reclaimed after a silence.
MaxTokens == Cardinality(Saves) + MaxSilences
Tokens    == 1 .. MaxTokens

Over(deck, S, c) == [p \in Pages |-> IF p \in S THEN c ELSE deck[p]]
Graft(deck, locked) == [p \in Pages |-> IF locked[p] = None THEN deck[p] ELSE locked[p]]

\* unchangedPages
Unchanged(base, current, S) == \A p \in S : base[p] # Blank /\ base[p] = current[p]

\* liveHead
LiveHead(l) == IF head.lease = l THEN head.deck ELSE None

Open(e) == edits[e].status \in {"queued", "running"}
NoneOpen == \A e \in Saves : ~Open(e)
Progressive(e) == edits[e].producer # 0

\* What the save was made on is still there.
Based(e) ==
  \/ ~Progressive(e) /\ status = "complete" /\ result.key = edits[e].key
  \/ Progressive(e) /\ status = "running" /\ lease = edits[e].producer

Init ==
  /\ status = "waiting" /\ lease = 0 /\ result = [key |-> None, deck |-> None]
  /\ head = [deck |-> None, lease |-> 0]
  /\ sources = {}
  /\ locks = NoLocks
  /\ edits = [e \in Saves |-> NoEdit]
  /\ runs = [t \in Tokens |-> NoRun] /\ tokens = 0 /\ silences = 0
  /\ pubs = [l \in Leases |-> NoPub]
  /\ work = BlankDeck /\ frozen = None
  /\ pending = {} /\ told = {}
  /\ newest = NoLocks

(***************************************************************************)
(* The task (see TaskQueue)                                                *)
(***************************************************************************)

Claim ==
  /\ status = "waiting" /\ lease < MaxLeases
  /\ status' = "running" /\ lease' = lease + 1
  /\ sources' = {} /\ frozen' = None
  /\ UNCHANGED <<result, head, locks, editing, pubs, work, told, pending, newest>>

\* The attempt fails, is stopped or expires, or the owner resumes a complete task.
Release ==
  /\ status \in {"running", "complete"}
  /\ status' = "waiting"
  /\ UNCHANGED <<lease, result, canvas, editing, pubs, agent, pending, newest>>

(***************************************************************************)
(* The agent and its publisher                                             *)
(***************************************************************************)

\* The agent writes pages of its own, or takes over a page the owner has saved,
\* as the message of that save tells it.
Author(p, c) ==
  /\ status = "running" /\ frozen = None
  /\ c \in Drafts \/ (c = newest[p] /\ c \in told)
  /\ work' = [work EXCEPT ![p] = c]
  /\ work' # work
  /\ UNCHANGED <<job, canvas, editing, pubs, frozen, told, pending, newest>>

\* What offer may hold: a page keeps its place when it is rendered again, so that
\* an older deck may come after a newer one; any deck the agent may have had.
Offered == [Pages -> {Blank} \cup Drafts \cup (told \cap Saves)]

\* synchronize: the locks are read ...
ReadLocks(l, source) ==
  /\ pubs[l].step = "none"
  /\ lease = l /\ status = "running"
  /\ pubs' = [pubs EXCEPT ![l] = [step |-> "locks", source |-> source, locks |-> locks, parent |-> None]]
  /\ UNCHANGED <<job, canvas, editing, agent, pending, newest>>

\* ... and the head, by a second statement of the same request.
ReadHead(l) ==
  /\ pubs[l].step = "locks"
  /\ pubs' = [pubs EXCEPT ![l].step = "head", ![l].parent = LiveHead(l)]
  /\ UNCHANGED <<job, canvas, editing, agent, pending, newest>>

MayPublishLate(l) == status = "running"
MayPublish(l) == status = "running" /\ lease = l

\* action=manifest.  The deck becomes a source of the attempt in any case, and
\* the head if it was made from the head, or is the first of its attempt.
Publish(l) ==
  LET deck == Graft(pubs[l].source, pubs[l].locks)
      swap == IF pubs[l].parent = None THEN head.lease # l
                                       ELSE head = [deck |-> pubs[l].parent, lease |-> l]
  IN  /\ pubs[l].step = "head"
      /\ deck # BlankDeck
      /\ MayPublish(l)
      /\ sources' = sources \cup {deck}
      /\ head' = IF swap THEN [deck |-> deck, lease |-> l] ELSE head
      /\ pubs' = [pubs EXCEPT ![l] = NoPub]
      /\ UNCHANGED <<job, locks, editing, agent, pending, newest>>

\* The request is refused, or nothing is ready, or the attempt is gone.
AbandonPublication(l) ==
  /\ pubs[l].step # "none"
  /\ pubs' = [pubs EXCEPT ![l] = NoPub]
  /\ UNCHANGED <<job, canvas, editing, agent, pending, newest>>

\* The runner hears of new revisions; they end a review.
Poll ==
  /\ status = "running" /\ ~(pending \subseteq told)
  /\ told' = told \cup pending
  /\ frozen' = None
  /\ UNCHANGED <<job, canvas, editing, pubs, work, pending, newest>>

Candidate == Graft(work, locks)

\* freeze
Freeze ==
  /\ status = "running" /\ frozen = None
  /\ frozen' = [deck |-> Candidate, answers |-> told]
  /\ UNCHANGED <<job, canvas, editing, pubs, work, told, pending, newest>>

\* The candidate is accepted: the revisions it answers are applied.
Apply ==
  /\ status = "running" /\ frozen # None
  /\ pending' = pending \ frozen.answers
  /\ pending' # pending
  /\ UNCHANGED <<job, canvas, editing, pubs, agent, newest>>

SendBack ==
  /\ frozen # None
  /\ frozen' = None
  /\ UNCHANGED <<job, canvas, editing, pubs, work, told, pending, newest>>

\* action=complete: no revision waits and no save is open.
DeliverableIgnoringRevisions == NoneOpen
Deliverable == pending = {} /\ NoneOpen

Deliver ==
  /\ status = "running" /\ frozen # None
  /\ Deliverable
  /\ status' = "complete"
  /\ result' = [key |-> lease, deck |-> frozen.deck]
  /\ frozen' = None
  /\ UNCHANGED <<lease, canvas, editing, pubs, work, told, pending, newest>>

(***************************************************************************)
(* The owner                                                               *)
(***************************************************************************)

\* POST native-edits of a running task whose attempt has shown nothing yet: the
\* delivered deck becomes its head.
Adopt ==
  /\ status = "running" /\ result.deck # None
  /\ lease # head.lease
  /\ head' = [deck |-> result.deck, lease |-> lease]
  /\ sources' = sources \cup {result.deck}
  /\ UNCHANGED <<job, locks, editing, pubs, agent, pending, newest>>

Save(e, base, S) ==
  /\ edits[e].status = "absent" /\ NoneOpen
  /\ S # {}
  /\ \/ /\ status = "running" /\ LiveHead(lease) # None
        /\ base \in sources \cup {result.deck}
        /\ Unchanged(base, head.deck, S)
        /\ edits' = [edits EXCEPT ![e] = [NoEdit EXCEPT !.status = "queued", !.base = base,
                                            !.pages = S, !.producer = lease]]
     \/ /\ status = "complete"
        /\ base = result.deck /\ Unchanged(base, base, S)
        /\ edits' = [edits EXCEPT ![e] = [NoEdit EXCEPT !.status = "queued", !.base = base,
                                            !.pages = S, !.key = result.key]]
  /\ UNCHANGED <<job, canvas, runs, tokens, silences, pubs, agent, pending, newest>>

\* POST visual-edits: the message, the requeue of a complete task and the end of
\* the protection are one batch.
Ask(a, S) ==
  /\ a \notin told \cup pending
  /\ S # {}
  /\ result.deck # None \/ (status = "running" /\ LiveHead(lease) # None)
  /\ pending' = pending \cup {a}
  /\ locks' = [p \in Pages |-> IF p \in S THEN None ELSE locks[p]]
  /\ status' = IF status = "complete" THEN "waiting" ELSE status
  /\ UNCHANGED <<lease, result, head, sources, editing, pubs, agent, newest>>

(***************************************************************************)
(* The editor                                                              *)
(***************************************************************************)

ClaimableOnce(e) == edits[e].status = "queued" /\ Based(e)
Claimable(e) ==
  /\ edits[e].status = "queued" \/ (edits[e].status = "running" /\ edits[e].silent)
  /\ Based(e)

\* action=claim, its first statement ...
ClaimSave(e) ==
  /\ Claimable(e) /\ tokens < MaxTokens
  /\ tokens' = tokens + 1
  /\ edits' = [edits EXCEPT ![e].status = "running", ![e].token = tokens + 1, ![e].silent = FALSE]
  /\ runs' = [runs EXCEPT ![tokens + 1] = [NoRun EXCEPT !.edit = e, !.step = "claimed"]]
  /\ UNCHANGED <<job, canvas, silences, pubs, agent, pending, newest>>

DropNone(e) == FALSE
Dropped(e) == edits[e].status = "queued" /\ ~Based(e)

\* ... and its second: saves that cannot be claimed any more.
DropSaves ==
  /\ \E e \in Saves : Dropped(e)
  /\ edits' = [e \in Saves |-> IF Dropped(e) THEN Ended("failed") ELSE edits[e]]
  /\ UNCHANGED <<job, canvas, runs, tokens, silences, pubs, agent, pending, newest>>

\* Nothing is heard of a claimed save for five minutes.
SilentSave(e) ==
  /\ edits[e].status = "running" /\ ~edits[e].silent
  /\ silences < MaxSilences
  /\ silences' = silences + 1
  /\ edits' = [edits EXCEPT ![e].silent = TRUE]
  /\ UNCHANGED <<job, canvas, runs, tokens, pubs, agent, pending, newest>>

\* Any request of an execution passes these two checks first.
Holds(t) == LET e == runs[t].edit IN e # None /\ edits[e].status = "running" /\ edits[e].token = t

Rejected(t) ==
  /\ runs[t] # NoRun /\ ~Holds(t)
  /\ runs' = [runs EXCEPT ![t] = NoRun]
  /\ UNCHANGED <<job, canvas, edits, tokens, silences, pubs, agent, pending, newest>>

FailSave(t) ==
  /\ edits' = [edits EXCEPT ![runs[t].edit] = Ended("failed")]
  /\ runs' = [runs EXCEPT ![t] = NoRun]
  /\ UNCHANGED <<job, canvas, tokens, silences, pubs, agent, pending, newest>>

TaskChanged(t) == Holds(t) /\ ~Based(runs[t].edit) /\ FailSave(t)

\* base-manifest and rebase-source: the head the save will be laid over.
ReadBase(t) ==
  LET e == runs[t].edit IN
  /\ Holds(t) /\ Based(e)
  /\ runs[t].step = "claimed"
  /\ runs' = [runs EXCEPT ![t].step = "rendered",
                          ![t].parent = IF Progressive(e) THEN LiveHead(edits[e].producer) ELSE edits[e].base]
  /\ edits' = [edits EXCEPT ![e].silent = FALSE]
  /\ UNCHANGED <<job, canvas, tokens, silences, pubs, agent, pending, newest>>

MergeableAnyHead(t) == Unchanged(edits[runs[t].edit].base, runs[t].parent, edits[runs[t].edit].pages)
Mergeable(t) ==
  LET e == edits[runs[t].edit] IN
  /\ head = [deck |-> runs[t].parent, lease |-> e.producer]
  /\ Unchanged(e.base, head.deck, e.pages)

\* action=finish: everything of a save is published in one batch.  One made on a
\* delivered deck replaces that deck; one made on a running attempt's head
\* replaces the head and locks its pages.
Finish(t) ==
  LET e == runs[t].edit
      S == edits[e].pages
      deck == Over(runs[t].parent, S, e)
  IN  /\ Holds(t) /\ Based(e)
      /\ runs[t].step = "rendered"
      /\ \/ /\ Progressive(e) /\ Mergeable(t)
            /\ head' = [head EXCEPT !.deck = deck]
            /\ sources' = sources \cup {deck}
            /\ locks' = Over(locks, S, e)
            /\ UNCHANGED result
         \/ /\ ~Progressive(e)
            /\ result' = [key |-> e, deck |-> deck]
            /\ UNCHANGED canvas
      /\ pending' = pending \cup {e}
      /\ newest' = Over(newest, S, e)
      /\ edits' = [edits EXCEPT ![e] = Ended("complete")]
      /\ runs' = [runs EXCEPT ![t] = NoRun]
      /\ UNCHANGED <<status, lease, tokens, silences, pubs, agent>>

\* execute: a refused merge is tried again on the new head, three times in all.
Retry(t) ==
  LET e == runs[t].edit IN
  /\ Holds(t) /\ Based(e)
  /\ runs[t].step = "rendered" /\ Progressive(e) /\ ~Mergeable(t)
  /\ runs[t].tries + 1 < MaxTries
  /\ runs' = [runs EXCEPT ![t].step = "claimed", ![t].parent = None, ![t].tries = @ + 1]
  /\ edits' = [edits EXCEPT ![e].silent = FALSE]
  /\ UNCHANGED <<job, canvas, tokens, silences, pubs, agent, pending, newest>>

GiveUp(t) ==
  /\ Holds(t) /\ Based(runs[t].edit)
  /\ runs[t].step = "rendered" /\ Progressive(runs[t].edit) /\ ~Mergeable(t)
  /\ runs[t].tries + 1 = MaxTries
  /\ FailSave(t)

\* The page cannot be edited or rendered.
CannotSave(t) == Holds(t) /\ FailSave(t)

\* The editor's process dies, or its report of a failure is lost.
LoseEditor(t) ==
  /\ runs[t] # NoRun
  /\ silences < MaxSilences
  /\ runs' = [runs EXCEPT ![t] = NoRun]
  /\ UNCHANGED <<job, canvas, edits, tokens, silences, pubs, agent, pending, newest>>

----------------------------------------------------------------------------
Execute(t) == Rejected(t) \/ TaskChanged(t) \/ ReadBase(t) \/ Finish(t) \/ Retry(t) \/ GiveUp(t)

Next ==
  \/ Claim \/ Release \/ Poll \/ Freeze \/ Apply \/ SendBack \/ Deliver \/ Adopt \/ DropSaves
  \/ \E p \in Pages, c \in Drafts \cup Saves : Author(p, c)
  \/ \E l \in Leases : \/ ReadHead(l) \/ Publish(l) \/ AbandonPublication(l)
                       \/ \E source \in Offered : ReadLocks(l, source)
  \/ \E S \in SUBSET Pages :
       \/ \E e \in Saves, base \in (sources \cup {result.deck}) \ {None} : Save(e, base, S)
       \/ \E a \in Asks : Ask(a, S)
  \/ \E e \in Saves : ClaimSave(e) \/ SilentSave(e)
  \/ \E t \in Tokens : Execute(t) \/ CannotSave(t) \/ LoseEditor(t)

Spec == Init /\ [][Next]_vars

\* The runner keeps claiming tasks, the editor saves (every three seconds or
\* every fifteen); what it has claimed it carries out unless it dies, and time
\* passes.
FairSpec ==
  /\ Spec
  /\ WF_vars(Claim)
  /\ WF_vars(\E e \in Saves : ClaimSave(e))
  /\ WF_vars(DropSaves)
  /\ \A t \in Tokens : WF_vars(Execute(t))
  /\ WF_vars(\E e \in Saves : SilentSave(e) /\ \A t \in Tokens : runs[t].edit # e)

----------------------------------------------------------------------------
TypeOK ==
  /\ status \in {"waiting", "running", "complete"}
  /\ lease \in 0 .. MaxLeases
  /\ result \in [key : Leases \cup Saves, deck : Decks] \cup {[key |-> None, deck |-> None]}
  /\ head \in [deck : Decks, lease : Leases] \cup {[deck |-> None, lease |-> 0]}
  /\ sources \subseteq Decks
  /\ locks \in [Pages -> Saves \cup {None}]
  /\ edits \in [Saves -> [status : {"absent", "queued", "running", "complete", "failed"},
                          base : Decks \cup {None}, pages : SUBSET Pages, producer : 0 .. MaxLeases,
                          key : Leases \cup Saves \cup {None}, token : 0 .. MaxTokens, silent : BOOLEAN]]
  /\ runs \in [Tokens -> [edit : Saves, step : {"claimed", "rendered"}, parent : Decks \cup {None},
                          tries : 0 .. MaxTries] \cup {NoRun}]
  /\ tokens \in 0 .. MaxTokens /\ silences \in 0 .. MaxSilences
  /\ pubs \in [Leases -> [step : {"locks", "head"}, source : Decks, locks : [Pages -> Saves \cup {None}],
                          parent : Decks \cup {None}] \cup {NoPub}]
  /\ work \in Decks
  /\ frozen \in [deck : Decks, answers : SUBSET (Saves \cup Asks)] \cup {None}
  /\ pending \subseteq Saves \cup Asks /\ told \subseteq Saves \cup Asks
  /\ newest \in [Pages -> Saves \cup {None}]

\* The deck that is delivered shows every page as its lock has it, whenever the
\* save that locked it was finished: before the freeze, during the review, or
\* between the last poll and the delivery.
DeliveredKeepsLocked ==
  status = "complete" /\ result.key \in Leases
    => \A p \in Pages : locks[p] # None => result.deck[p] = locks[p]

\* A direct save changes what its owner saw when it was posted, and nothing
\* else, whatever was published while it was being rendered.
SavesTouchOnlySeenPages ==
  [][\A e \in Saves :
       edits[e].status = "running" /\ edits'[e].status = "complete"
         => LET shown == IF Progressive(e) THEN head.deck ELSE result.deck
                after == IF Progressive(e) THEN head'.deck ELSE result'.deck
            IN  \A p \in Pages : IF p \in edits[e].pages THEN shown[p] = edits[e].base[p]
                                                        ELSE after[p] = shown[p]]_vars

\* What a later attempt has shown is never replaced by an earlier one, however
\* late that one's publication arrives.
NoOlderAttemptPublishes == [][head'.lease >= head.lease]_vars

\* A save that is accepted is carried out or refused while what it was made on
\* is there, although the editor may die with it, and it does not stay queued
\* once that is gone.
SavesEndWhileBased == \A e \in Saves : Open(e) /\ Based(e) ~> ~Open(e) \/ ~Based(e)
QueuedSavesEnd     == \A e \in Saves : edits[e].status = "queued" ~> edits[e].status # "queued"

\* runner/README.md: a save "protects them in subsequent previews and the frozen
\* review candidate".  Refuted: a save of a delivered page leaves the lock of an
\* older save in place, and the candidate shows that one although the agent has
\* kept the newer.
CandidateKeepsNewestSave ==
  [][\A p \in Pages : Freeze /\ newest[p] # None /\ work[p] = newest[p]
                         => frozen'.deck[p] = newest[p]]_vars
=============================================================================
