--------------------------- MODULE JournalProofs ---------------------------
(***************************************************************************)
(* The promises of the journal for any number of messages, phases, files   *)
(* and plugin versions, and without a bound on upgrades.                   *)
(***************************************************************************)
EXTENDS Journal, WellFoundedInduction, TLAPS

USE JournalAssumption DEF JournalAssumption

(***************************************************************************)
(* Events: what the operations publish, as functions of the open state     *)
(***************************************************************************)

Event(t) ==
  \/ \E v \in Versions : t = RecoveredState(mem, v)
  \/ \E n \in Phases : t = Begun(mem, n)
  \/ t = Interrupted(mem)
  \/ t = Captured(mem)
  \/ /\ completing.step = "captured"
     /\ t = Completed(mem, completing.name, completing.receipts)
  \/ \E m \in Messages : Fresh(m) /\ t = Received(mem, m)
  \/ \E m \in Messages, word \in Pending \cup {"acknowledged"} :
       mem.inbox[m].state \in Pending /\ t = Marked(mem, m, word)
  \/ \E S \in SUBSET In(mem, Settled), receipts \in Receipts :
       t = Advanced(Applying(mem, S, receipts))

Published == \E t : Event(t) /\ \E ok \in BOOLEAN : Commit(t, ok)

\* What certifies files that are there is a receipt.
LEMMA ReceiptType ==
  ASSUME JournalTypeOK, NEW S \in SUBSET Paths, \A p \in S : files[p] # Missing
  PROVE  Receipt(files, S) \in Receipts
<1>1. Receipt(files, S) \in [S -> Contents]
  BY DEF JournalTypeOK, Trees, Receipt
<1> QED BY <1>1 DEF Receipts

\* Every step publishes an event, drops the process or leaves the journal alone.
LEMMA StepsPublish ==
  ASSUME JournalTypeOK, [JournalNext]_jvars
  PROVE  \/ Published
         \/ UNCHANGED disk /\ mem' = disk /\ stale' = FALSE
         \/ UNCHANGED <<disk, mem, stale>>
<1>1. CASE \E ok \in BOOLEAN : Operation(ok)
  <2> SUFFICES ASSUME NEW ok \in BOOLEAN, Operation(ok) PROVE Published
    BY <1>1
  <2>1. ASSUME NEW v \in Versions, Recover(v, ok) PROVE Published
    BY <2>1 DEF Recover, Published, Event
  <2>2. ASSUME NEW n \in Phases, BeginPhase(n, ok) PROVE Published
    BY <2>2 DEF BeginPhase, Published, Event
  <2>3. CASE Interrupt(ok)
    BY <2>3 DEF Interrupt, Published, Event
  <2>4. CASE Checkpoint(ok) \/ TakeInputs(ok) \/ CaptureCompletion(ok)
    BY <2>4 DEF Checkpoint, TakeInputs, CaptureCompletion, Published, Event
  <2>5. CASE FinishCompletion(ok)
    BY <2>5 DEF FinishCompletion, Published, Event
  <2>6. ASSUME NEW m \in Messages, AcceptMessage(m, ok) PROVE Published
    BY <2>6 DEF AcceptMessage, Published, Event
  <2>7. ASSUME NEW m \in Messages, BeginDelivery(m, ok) \/ Acknowledge(m, ok) PROVE Published
    <3>1. \E word \in Pending \cup {"acknowledged"} :
            mem.inbox[m].state \in Pending /\ Commit(Marked(mem, m, word), ok)
      BY <2>7 DEF BeginDelivery, Acknowledge, Pending
    <3> QED BY <3>1 DEF Published, Event
  <2>8. ASSUME NEW m \in Messages, NEW outcome \in {"accepted", "not_received", "unknown"},
               Reconcile(m, outcome, ok)
        PROVE  Published
    <3>1. After(outcome) \in Pending \cup {"acknowledged"}
      BY DEF After, Pending
    <3>2. mem.inbox[m].state \in Pending /\ Commit(Marked(mem, m, After(outcome)), ok)
      BY <2>8 DEF Reconcile, Pending
    <3> QED BY <3>1, <3>2 DEF Published, Event
  <2>9. ASSUME NEW S \in SUBSET Messages, NEW P \in SUBSET Paths, \A p \in P : files[p] # Missing,
               MarkApplied(S, Receipt(files, P), ok)
        PROVE  Published
    BY <2>9, ReceiptType DEF MarkApplied, Published, Event
  <2> QED BY <2>1, <2>2, <2>3, <2>4, <2>5, <2>6, <2>7, <2>8, <2>9 DEF Operation
<1>2. CASE Stop
  BY <1>2 DEF Stop
<1>3. CASE Open \/ Prepare \/ AbandonCompletion
  BY <1>3 DEF Open, Prepare, AbandonCompletion
<1>4. CASE \E n \in Phases, S \in SUBSET Paths : StartCompletion(n, S)
  BY <1>4 DEF StartCompletion
<1>5. CASE \E p \in Paths, c \in Contents \cup {Missing} : Write(p, c)
  BY <1>5 DEF Write
<1>6. CASE UNCHANGED jvars
  BY <1>6 DEF jvars
<1> QED BY <1>1, <1>2, <1>3, <1>4, <1>5, <1>6 DEF JournalNext

(***************************************************************************)
(* Types                                                                   *)
(***************************************************************************)

\* A set of message cursors that is not empty has a greatest element.
LEMMA GreatestCursor ==
  ASSUME NEW S \in SUBSET Messages, S # {}
  PROVE  \E m \in S : \A k \in S : k <= m
<1> DEFINE T == {NumMessages - m : m \in S}
<1>1. T \subseteq Nat /\ T # {}
  <2>1. \A m \in S : NumMessages - m \in Nat
    BY DEF Messages
  <2>2. \E m \in S : NumMessages - m \in T
    OBVIOUS
  <2> QED BY <2>1, <2>2
<1>2. PICK x \in T : \A y \in T : ~ (<<y, x>> \in OpToRel(<, Nat))
  BY <1>1, NatLessThanWellFounded, WFMin, Zenon
<1>3. \A y \in T : ~ (y < x)
  BY <1>1, <1>2 DEF OpToRel
<1>4. PICK m \in S : x = NumMessages - m
  OBVIOUS
<1>5. \A k \in S : NumMessages - k \in T
  OBVIOUS
<1>6. \A k \in S : k <= m
  BY <1>3, <1>4, <1>5 DEF Messages
<1> QED BY <1>4, <1>6

\* The applied prefix ends at a message up to which every accepted message is
\* applied, or is empty.
LEMMA PrefixIsApplied ==
  ASSUME NEW s
  PROVE  \/ AppliedPrefix(s) = 0
         \/ /\ AppliedPrefix(s) \in In(s, {"applied"})
            /\ \A k \in Accepted(s) : k <= AppliedPrefix(s) => s.inbox[k].state = "applied"
<1> DEFINE reached == {m \in In(s, {"applied"}) : \A k \in Accepted(s) : k <= m => s.inbox[k].state = "applied"}
<1>1. reached \subseteq Messages
  BY DEF In
<1>2. CASE reached = {}
  BY <1>2 DEF AppliedPrefix
<1>3. CASE reached # {}
  <2>1. \E m \in reached : \A k \in reached : k <= m
    BY <1>1, <1>3, GreatestCursor
  <2>2. AppliedPrefix(s) \in reached
    BY <1>3, <2>1 DEF AppliedPrefix
  <2> QED BY <2>2
<1> QED BY <1>2, <1>3

LEMMA PrefixType == ASSUME NEW s PROVE AppliedPrefix(s) \in 0 .. NumMessages
BY PrefixIsApplied DEF In, Messages

LEMMA NoReceiptType == NoReceipt \in Receipts
<1>1. NoReceipt \in [{} -> Contents]
  BY DEF NoReceipt
<1> QED BY <1>1 DEF Receipts

LEMMA CreatedType == Created \in States
<1>1. NoReceipt \in Receipts
  BY NoReceiptType
<1>2. NoFiles \in Trees
  BY DEF NoFiles, Trees
<1>3. NoPhase \in [name : Phases, status : {"none", "running", "interrupted", "completed"}, revision : Nat]
  BY DEF NoPhase
<1>4. [n \in Phases |-> NoStage] \in [Phases -> [revision : Nat, version : Versions, receipts : Receipts]]
  BY <1>1 DEF NoStage
<1>5. [m \in Messages |-> NoMessage] \in [Messages -> [state : MessageStates, artifacts : Receipts]]
  BY <1>1 DEF NoMessage, MessageStates
<1>6. NoSnapshot \in [taken : BOOLEAN, tree : Trees]
  BY <1>2 DEF NoSnapshot
<1> QED BY <1>3, <1>4, <1>5, <1>6 DEF Created, States

LEMMA MarkedType ==
  ASSUME NEW s \in States, NEW m \in Messages, NEW word \in MessageStates
  PROVE  Marked(s, m, word) \in States
<1> DEFINE inbox == [s.inbox EXCEPT ![m].state = word]
<1>1. inbox \in [Messages -> [state : MessageStates, artifacts : Receipts]]
  <2>1. s.inbox \in [Messages -> [state : MessageStates, artifacts : Receipts]]
    BY DEF States
  <2> QED BY <2>1
<1>2. Marked(s, m, word) = [s EXCEPT !.inbox = inbox]
  BY DEF Marked, States
<1> HIDE DEF inbox
<1> QED BY <1>1, <1>2 DEF States

\* An event never leaves the states that _validate_state admits.
LEMMA EventType == ASSUME JournalTypeOK, NEW t, Event(t) PROVE t \in States
<1> USE DEF States
<1>0. mem \in States /\ files \in Trees
  BY DEF JournalTypeOK
<1>1. ASSUME NEW v \in Versions, t = RecoveredState(mem, v) PROVE t \in States
  <2> DEFINE inbox == [m \in Messages |-> RecoveredMessage(mem, m)]
             s == [mem EXCEPT !.version = v,
                              !.revision = IF v = mem.version THEN @ ELSE @ + 1,
                              !.inbox = inbox,
                              !.phase.status = IF @ = "running" THEN "interrupted" ELSE @]
  <2>1. inbox \in [Messages -> [state : MessageStates, artifacts : Receipts]]
    BY <1>0 DEF RecoveredMessage, MessageStates, Pending, Settled
  <2>2. s \in States
    <3> DEFINE phase == [mem.phase EXCEPT !.status = IF @ = "running" THEN "interrupted" ELSE @]
               revision == IF v = mem.version THEN mem.revision ELSE mem.revision + 1
    <3>1. /\ phase \in [name : Phases, status : {"none", "running", "interrupted", "completed"}, revision : Nat]
          /\ revision \in Nat
      BY <1>0
    <3>2. s = [mem EXCEPT !.version = v, !.revision = revision, !.inbox = inbox, !.phase = phase]
      BY <1>0
    <3> HIDE DEF inbox, phase, revision
    <3> QED BY <1>0, <2>1, <3>1, <3>2
  <2>3. t = Recounted(s)
    BY <1>1 DEF RecoveredState
  <2> HIDE DEF s
  <2> QED BY <2>2, <2>3, PrefixType DEF Recounted
<1>2. ASSUME NEW n \in Phases, t = Begun(mem, n) PROVE t \in States
  BY <1>0, <1>2 DEF Begun
<1>3. CASE t = Interrupted(mem)
  BY <1>0, <1>3 DEF Interrupted
<1>4. CASE t = Captured(mem)
  BY <1>0, <1>4 DEF Captured
<1>5. CASE completing.step = "captured" /\ t = Completed(mem, completing.name, completing.receipts)
  BY <1>0, <1>5 DEF Completed, JournalTypeOK
<1>6. ASSUME NEW m \in Messages, t = Received(mem, m) PROVE t \in States
  <2>1. Marked(mem, m, "accepted") \in States
    BY <1>0, MarkedType DEF MessageStates, Pending
  <2>2. m \in 0 .. NumMessages
    BY DEF Messages
  <2> DEFINE marked == Marked(mem, m, "accepted")
             revision == IF m \in Revisions THEN mem.revision + 1 ELSE mem.revision
  <2>3. revision \in Nat
    BY <1>0
  <2>4. t = [marked EXCEPT !.cursor = m, !.revision = revision]
    BY <1>0, <1>6 DEF Received, Marked
  <2> HIDE DEF marked, revision
  <2>5. marked \in States
    BY <2>1 DEF marked
  <2> QED BY <2>2, <2>3, <2>4, <2>5
<1>7. ASSUME NEW m \in Messages, NEW word \in Pending \cup {"acknowledged"}, t = Marked(mem, m, word)
      PROVE  t \in States
  BY <1>0, <1>7, MarkedType DEF MessageStates, Settled
<1>8. ASSUME NEW S \in SUBSET In(mem, Settled), NEW receipts \in Receipts,
             t = Advanced(Applying(mem, S, receipts))
      PROVE  t \in States
  <2>1. Applying(mem, S, receipts) \in States
    BY <1>0 DEF Applying, MessageStates, Settled
  <2> QED BY <1>8, <2>1, PrefixType DEF Advanced
<1> QED BY <1>1, <1>2, <1>3, <1>4, <1>5, <1>6, <1>7, <1>8 DEF Event

LEMMA TypeInit == JournalInit => JournalTypeOK
<1>1. NotCompleting \in [name : Phases, receipts : Receipts, step : {"none", "checked", "captured"}]
  BY NoReceiptType DEF NotCompleting
<1>2. NoFiles \in Trees
  BY DEF NoFiles, Trees
<1> QED BY <1>1, <1>2, CreatedType DEF JournalInit, JournalTypeOK

LEMMA TypeStep == JournalTypeOK /\ [JournalNext]_jvars => JournalTypeOK'
<1> SUFFICES ASSUME JournalTypeOK, [JournalNext]_jvars PROVE JournalTypeOK'
  OBVIOUS
<1>1. {disk, mem}' \subseteq States /\ stale' \in BOOLEAN
  <2>1. CASE Published
    BY <2>1, EventType DEF Published, Commit, JournalTypeOK
  <2> QED BY <2>1, StepsPublish DEF JournalTypeOK
<1>2. mem.snapshot.tree \in Trees
  BY DEF JournalTypeOK, States
<1>3. NotCompleting \in [name : Phases, receipts : Receipts, step : {"none", "checked", "captured"}]
  BY NoReceiptType DEF NotCompleting
<1>4. /\ attempt' \in {"none", "opened", "prepared", "ready"}
      /\ files' \in Trees
      /\ completing' \in [name : Phases, receipts : Receipts, step : {"none", "checked", "captured"}]
  <2> USE DEF JournalTypeOK
  <2>1. ASSUME NEW ok \in BOOLEAN, Operation(ok) PROVE <1>4!:
    <3>1. ASSUME NEW v \in Versions, Recover(v, ok) PROVE <1>4!:
      BY <3>1, <1>2 DEF Recover
    <3>2. CASE CaptureCompletion(ok) \/ FinishCompletion(ok) \/ TakeInputs(ok)
      BY <3>2, <1>3 DEF CaptureCompletion, FinishCompletion, TakeInputs
    <3>3. CASE UNCHANGED <<attempt, files, completing>>
      BY <3>3
    <3> QED BY <2>1, <3>1, <3>2, <3>3 DEF Operation, BeginPhase, Interrupt, Checkpoint, AcceptMessage,
                 BeginDelivery, Acknowledge, Reconcile, MarkApplied
  <2>2. CASE Stop
    BY <2>2, <1>3, CreatedType DEF Stop, Created, NoSnapshot, States, NoFiles, Trees
  <2>3. CASE Open \/ Prepare \/ AbandonCompletion
    BY <2>3, <1>3 DEF Open, Prepare, AbandonCompletion
  <2>4. ASSUME NEW n \in Phases, NEW S \in SUBSET Paths, StartCompletion(n, S) PROVE <1>4!:
    BY <2>4, ReceiptType DEF StartCompletion
  <2>5. ASSUME NEW p \in Paths, NEW c \in Contents \cup {Missing}, Write(p, c) PROVE <1>4!:
    BY <2>5 DEF Write, Trees
  <2>6. CASE UNCHANGED jvars
    BY <2>6 DEF jvars
  <2> QED BY <2>1, <2>2, <2>3, <2>4, <2>5, <2>6 DEF JournalNext
<1> QED BY <1>1, <1>4 DEF JournalTypeOK

\* Every value of every reachable state is in its set.
THEOREM JournalTypeCorrect == JournalSpec => []JournalTypeOK
BY TypeInit, TypeStep, PTL DEF JournalSpec

(***************************************************************************)
(* The applied cursor                                                      *)
(***************************************************************************)

Sound(s) ==
  /\ s.appliedCursor <= s.cursor
  /\ \A m \in Accepted(s) : m <= s.cursor
  /\ \A m \in Accepted(s) : m <= s.appliedCursor => s.inbox[m].state = "applied"

\* Changes that keep both cursors, accept nothing and take nothing back.
LEMMA SoundKept ==
  ASSUME NEW s \in States, NEW t \in States, Sound(s),
         t.cursor = s.cursor, t.appliedCursor = s.appliedCursor,
         \A m \in Messages : /\ t.inbox[m].state = "absent" <=> s.inbox[m].state = "absent"
                             /\ s.inbox[m].state = "applied" => t.inbox[m].state = "applied"
  PROVE  Sound(t)
<1>1. Accepted(t) = Accepted(s)
  BY DEF Accepted, In
<1>2. Accepted(s) \subseteq Messages
  BY DEF Accepted
<1> QED BY <1>1, <1>2 DEF Sound

\* A state whose applied cursor is its applied prefix is sound.
LEMMA SoundRecounted ==
  ASSUME NEW s \in States, \A m \in Accepted(s) : m <= s.cursor
  PROVE  /\ AppliedPrefix(s) <= s.cursor
         /\ \A m \in Accepted(s) : m <= AppliedPrefix(s) => s.inbox[m].state = "applied"
<1>1. In(s, {"applied"}) \subseteq Accepted(s)
  BY DEF In, Accepted
<1>2. s.cursor \in Nat
  BY DEF States
<1>3. CASE AppliedPrefix(s) = 0
  BY <1>2, <1>3 DEF Accepted, Messages
<1> QED BY <1>1, <1>3, PrefixIsApplied

LEMMA PrefixOfInbox ==
  ASSUME NEW s, NEW t, s.inbox = t.inbox
  PROVE  AppliedPrefix(s) = AppliedPrefix(t)
<1>1. Accepted(s) = Accepted(t) /\ In(s, {"applied"}) = In(t, {"applied"})
  BY DEF Accepted, In
<1> DEFINE R(x) == {m \in In(x, {"applied"}) : \A k \in Accepted(x) : k <= m => x.inbox[k].state = "applied"}
           P(S) == IF S = {} THEN 0 ELSE CHOOSE m \in S : \A k \in S : k <= m
<1>2. R(s) = R(t)
  BY <1>1
<1>3. AppliedPrefix(s) = P(R(s)) /\ AppliedPrefix(t) = P(R(t))
  BY DEF AppliedPrefix
<1> HIDE DEF R, P
<1> QED BY <1>2, <1>3

LEMMA RecoveredFields ==
  ASSUME NEW s \in States, NEW v \in Versions, NEW t, t = RecoveredState(s, v)
  PROVE  /\ t.inbox = [m \in Messages |-> RecoveredMessage(s, m)]
         /\ t.cursor = s.cursor
         /\ t.appliedCursor = AppliedPrefix(t)
         /\ t.stages = s.stages /\ t.snapshot = s.snapshot
         /\ t.revision = IF v = s.version THEN s.revision ELSE s.revision + 1
<1> DEFINE inbox == [m \in Messages |-> RecoveredMessage(s, m)]
           r == [s EXCEPT !.version = v,
                          !.revision = IF v = s.version THEN @ ELSE @ + 1,
                          !.inbox = inbox,
                          !.phase.status = IF @ = "running" THEN "interrupted" ELSE @]
<1> HIDE DEF inbox
<1>1. /\ r.inbox = inbox /\ r.cursor = s.cursor /\ r.stages = s.stages /\ r.snapshot = s.snapshot
      /\ r.revision = IF v = s.version THEN s.revision ELSE s.revision + 1
      /\ "appliedCursor" \in DOMAIN r
  BY DEF States
<1>2. t = Recounted(r)
  BY DEF RecoveredState, inbox
<1> HIDE DEF r
<1>3. /\ t.inbox = r.inbox /\ t.cursor = r.cursor /\ t.stages = r.stages /\ t.revision = r.revision
        /\ t.snapshot = r.snapshot
      /\ t.appliedCursor = AppliedPrefix(r)
  BY <1>1, <1>2 DEF Recounted
<1>4. AppliedPrefix(r) = AppliedPrefix(t)
  BY <1>3, PrefixOfInbox
<1> QED BY <1>1, <1>3, <1>4 DEF inbox

\* What a phase or a checkpoint leaves alone.
LEMMA PhaseFields ==
  ASSUME NEW s \in States, NEW t,
         \/ t = Interrupted(s) \/ t = Captured(s) \/ \E n \in Phases : t = Begun(s, n)
         \/ \E n, receipts : t = Completed(s, n, receipts)
  PROVE  t.inbox = s.inbox /\ t.cursor = s.cursor /\ t.appliedCursor = s.appliedCursor /\ t.revision = s.revision
<1>1. CASE t = Interrupted(s)
  BY <1>1 DEF Interrupted, States
<1>2. CASE t = Captured(s)
  BY <1>2 DEF Captured, States
<1>3. CASE \E n \in Phases : t = Begun(s, n)
  BY <1>3 DEF Begun, States
<1>4. CASE \E n, receipts : t = Completed(s, n, receipts)
  BY <1>4 DEF Completed, States
<1> QED BY <1>1, <1>2, <1>3, <1>4

LEMMA EventSound == ASSUME JournalTypeOK, NEW t, Event(t), Sound(mem) PROVE Sound(t)
<1>0. mem \in States /\ t \in States
  BY EventType DEF JournalTypeOK
<1>1. ASSUME NEW v \in Versions, t = RecoveredState(mem, v) PROVE Sound(t)
  <2>1. /\ t.inbox = [m \in Messages |-> RecoveredMessage(mem, m)]
        /\ t.cursor = mem.cursor /\ t.appliedCursor = AppliedPrefix(t)
    BY <1>0, <1>1, RecoveredFields
  <2>2. \A m \in Messages : RecoveredMessage(mem, m).state = "absent" <=> mem.inbox[m].state = "absent"
    BY <1>0 DEF RecoveredMessage, States
  <2>3. Accepted(t) = Accepted(mem)
    BY <2>1, <2>2 DEF Accepted, In
  <2> QED BY <1>0, <2>1, <2>3, SoundRecounted DEF Sound
<1>2. CASE \/ t = Interrupted(mem) \/ t = Captured(mem) \/ \E n \in Phases : t = Begun(mem, n)
           \/ \E n, receipts : t = Completed(mem, n, receipts)
  <2>1. t.inbox = mem.inbox /\ t.cursor = mem.cursor /\ t.appliedCursor = mem.appliedCursor
    BY <1>0, <1>2, PhaseFields
  <2> QED BY <1>0, <2>1, SoundKept
<1>6. ASSUME NEW m \in Messages, Fresh(m), t = Received(mem, m) PROVE Sound(t)
  <2>1. /\ t.cursor = m /\ t.appliedCursor = mem.appliedCursor
        /\ Accepted(t) \subseteq Accepted(mem) \cup {m}
        /\ \A k \in Messages \ {m} : t.inbox[k] = mem.inbox[k]
    BY <1>0, <1>6 DEF Received, Accepted, In, States
  <2>2. m > mem.cursor /\ mem.cursor \in Nat /\ mem.appliedCursor \in Nat /\ Messages \subseteq Nat
    BY <1>0, <1>6 DEF Fresh, States, Messages
  <2>3. m \notin Accepted(mem)
    BY <1>6 DEF Fresh, Accepted, In
  <2>4. Accepted(mem) \subseteq Messages
    BY DEF Accepted
  <2>5. t.appliedCursor < m
    BY <2>1, <2>2 DEF Sound
  <2>6. \A k \in Accepted(t) : k # m => k \in Accepted(mem) /\ k \in Messages \ {m}
    BY <2>1, <2>4
  <2>7. \A k \in Accepted(mem) : k \in Nat /\ k <= mem.cursor /\ k < m
    BY <2>2, <2>4, <1>6 DEF Sound, Messages
  <2>8. \A k \in Accepted(t) : k # m =>
          k <= m /\ (k <= t.appliedCursor => t.inbox[k].state = "applied")
    <3> SUFFICES ASSUME NEW k \in Accepted(t), k # m
                 PROVE  k <= m /\ (k <= t.appliedCursor => t.inbox[k].state = "applied")
      OBVIOUS
    <3>1. k \in Accepted(mem) /\ t.inbox[k] = mem.inbox[k] /\ k \in Nat /\ k < m
      BY <2>1, <2>6, <2>7
    <3>2. k <= mem.appliedCursor => mem.inbox[k].state = "applied"
      BY <3>1 DEF Sound
    <3> QED BY <2>1, <2>2, <3>1, <3>2
  <2>9. m \in Nat /\ t.appliedCursor \in Nat /\ t.appliedCursor <= m /\ ~ (m <= t.appliedCursor)
    BY <2>1, <2>2, <2>5
  <2> QED BY <2>1, <2>8, <2>9 DEF Sound
<1>7. ASSUME NEW m \in Messages, NEW word \in Pending \cup {"acknowledged"},
             mem.inbox[m].state \in Pending, t = Marked(mem, m, word)
      PROVE  Sound(t)
  <2>1. \A k \in Messages : t.inbox[k].state = IF k = m THEN word ELSE mem.inbox[k].state
    BY <1>0, <1>7 DEF Marked, States
  <2>2. t.cursor = mem.cursor /\ t.appliedCursor = mem.appliedCursor
    BY <1>0, <1>7 DEF Marked, States
  <2> QED BY <1>0, <1>7, <2>1, <2>2, SoundKept DEF Pending
<1>8. ASSUME NEW S \in SUBSET In(mem, Settled), NEW receipts \in Receipts,
             t = Advanced(Applying(mem, S, receipts))
      PROVE  Sound(t)
  <2> DEFINE s == Applying(mem, S, receipts)
  <2>1. s \in States
    BY <1>0 DEF Applying, States, MessageStates, Settled
  <2>2. \A m \in Messages : s.inbox[m].state = IF m \in S THEN "applied" ELSE mem.inbox[m].state
    BY <1>0 DEF Applying, States
  <2>3. s.cursor = mem.cursor /\ s.appliedCursor = mem.appliedCursor
    BY <1>0 DEF Applying, States
  <2>4. Sound(s)
    BY <1>0, <2>1, <2>2, <2>3, SoundKept DEF In, Settled
  <2>5. /\ t.inbox = s.inbox /\ t.cursor = s.cursor
        /\ t.appliedCursor = IF AppliedPrefix(s) > s.appliedCursor THEN AppliedPrefix(s) ELSE s.appliedCursor
    BY <1>8, <2>1 DEF Advanced, States
  <2>6. Accepted(t) = Accepted(s)
    BY <2>5 DEF Accepted, In
  <2> HIDE DEF s
  <2> QED BY <2>1, <2>4, <2>5, <2>6, SoundRecounted DEF Sound
<1> QED BY <1>1, <1>2, <1>6, <1>7, <1>8 DEF Event

CursorsSound == Sound(disk) /\ Sound(mem)

LEMMA CursorsStaySound == JournalSpec => []CursorsSound
<1>1. JournalInit => CursorsSound
  BY DEF JournalInit, CursorsSound, Sound, Created, NoMessage, Accepted, In
<1>2. JournalTypeOK /\ CursorsSound /\ [JournalNext]_jvars => CursorsSound'
  <2> SUFFICES ASSUME JournalTypeOK, CursorsSound, [JournalNext]_jvars PROVE CursorsSound'
    OBVIOUS
  <2>1. CASE Published
    <3>1. PICK t : Event(t) /\ \E ok \in BOOLEAN : Commit(t, ok)
      BY <2>1 DEF Published
    <3>2. Sound(t)
      BY <3>1, EventSound DEF CursorsSound
    <3> QED BY <3>1, <3>2 DEF Commit, CursorsSound, Sound, Accepted, In
  <2> QED BY <2>1, StepsPublish DEF CursorsSound, Sound, Accepted, In
<1> QED BY <1>1, <1>2, JournalTypeCorrect, PTL DEF JournalSpec

\* The applied cursor covers only messages that are applied, in the state on
\* disk and in the copy of the process.
THEOREM CursorCoversApplied == JournalSpec => []NothingUnappliedBehindCursor
<1>1. CursorsSound => NothingUnappliedBehindCursor
  BY DEF CursorsSound, Sound, NothingUnappliedBehindCursor
<1> QED BY <1>1, CursorsStaySound, PTL

(***************************************************************************)
(* Durability of what the process relies on                                *)
(***************************************************************************)

\* No event takes back that a message reached the model.
LEMMA EventKeepsSettled ==
  ASSUME JournalTypeOK, NEW t, Event(t), NEW m \in Messages, mem.inbox[m].state \in Settled
  PROVE  t.inbox[m].state \in Settled
<1>0. mem \in States
  BY DEF JournalTypeOK
<1>1. ASSUME NEW v \in Versions, t = RecoveredState(mem, v) PROVE t.inbox[m].state \in Settled
  <2>1. t.inbox[m] = RecoveredMessage(mem, m)
    <3>1. t.inbox = [k \in Messages |-> RecoveredMessage(mem, k)]
      BY <1>0, <1>1, RecoveredFields
    <3> QED BY <3>1
  <2> QED BY <1>0, <2>1 DEF RecoveredMessage, Settled, States
<1>2. CASE \/ t = Interrupted(mem) \/ t = Captured(mem) \/ \E n \in Phases : t = Begun(mem, n)
           \/ t = Completed(mem, completing.name, completing.receipts)
  BY <1>0, <1>2, PhaseFields
<1>3. ASSUME NEW k \in Messages, Fresh(k), t = Received(mem, k) PROVE t.inbox[m].state \in Settled
  BY <1>0, <1>3 DEF Received, Fresh, Settled, States
<1>4. ASSUME NEW k \in Messages, NEW word \in Pending \cup {"acknowledged"},
             mem.inbox[k].state \in Pending, t = Marked(mem, k, word)
      PROVE  t.inbox[m].state \in Settled
  <2>1. k # m
    BY <1>4 DEF Pending, Settled
  <2> QED BY <1>0, <1>4, <2>1 DEF Marked, States
<1>5. ASSUME NEW S \in SUBSET In(mem, Settled), NEW receipts \in Receipts,
             t = Advanced(Applying(mem, S, receipts))
      PROVE  t.inbox[m].state \in Settled
  BY <1>0, <1>5 DEF Advanced, Applying, Settled, States
<1> QED BY <1>1, <1>2, <1>3, <1>4, <1>5 DEF Event

\* The copy of the process is the state on disk, or one that the state on disk
\* does not take back.
THEOREM MemoryDurable == JournalSpec => []MemoryIsDurable
<1>1. JournalInit => MemoryIsDurable
  BY DEF JournalInit, MemoryIsDurable
<1>2. JournalTypeOK /\ MemoryIsDurable /\ [JournalNext]_jvars => MemoryIsDurable'
  <2> SUFFICES ASSUME JournalTypeOK, MemoryIsDurable, [JournalNext]_jvars PROVE MemoryIsDurable'
    OBVIOUS
  <2>1. CASE Published
    <3>1. PICK t : Event(t) /\ \E ok \in BOOLEAN : Commit(t, ok)
      BY <2>1 DEF Published
    <3>2. \A m \in Messages : mem.inbox[m].state \in Settled => t.inbox[m].state \in Settled
      BY <3>1, EventKeepsSettled
    <3> QED BY <3>1, <3>2 DEF Commit, MemoryIsDurable
  <2> QED BY <2>1, StepsPublish DEF MemoryIsDurable
<1> QED BY <1>1, <1>2, JournalTypeCorrect, PTL DEF JournalSpec

(***************************************************************************)
(* Receipts of completed phases                                            *)
(***************************************************************************)

Undelivered(s) == Revisions \cap In(s, Pending)

\* A receipt for the present input revision was given when every user revision
\* had reached the model.
Current(s) ==
  \A n \in Phases :
    /\ s.stages[n].revision <= s.revision
    /\ s.stages[n].receipts # NoReceipt /\ s.stages[n].revision = s.revision => Undelivered(s) = {}

\* While a phase is being completed nothing else is published.
Completing ==
  completing.step # "none" => Undelivered(mem) = {} /\ completing # NotCompleting /\ attempt = "ready"

LEMMA EventCurrent == ASSUME JournalTypeOK, NEW t, Event(t), Current(mem), Completing PROVE Current(t)
<1>0. mem \in States /\ t \in States
  BY EventType DEF JournalTypeOK
\* Keeping the stages and the revision, or raising it, is safe if nothing
\* becomes undelivered.
<1>a. ASSUME t.stages = mem.stages, t.revision = mem.revision, Undelivered(t) \subseteq Undelivered(mem)
      PROVE  Current(t)
  BY <1>a DEF Current
<1>b. ASSUME t.stages = mem.stages, t.revision = mem.revision + 1 PROVE Current(t)
  <2>1. \A n \in Phases : mem.stages[n].revision \in Nat /\ mem.revision \in Nat
    BY <1>0 DEF States
  <2>2. \A n \in Phases : t.stages[n].revision < t.revision
    BY <1>b, <2>1 DEF Current
  <2> QED BY <2>1, <2>2, <1>b DEF Current
<1>1. ASSUME NEW v \in Versions, t = RecoveredState(mem, v) PROVE Current(t)
  <2>1. /\ t.inbox = [m \in Messages |-> RecoveredMessage(mem, m)]
        /\ t.stages = mem.stages
        /\ t.revision = IF v = mem.version THEN mem.revision ELSE mem.revision + 1
    BY <1>0, <1>1, RecoveredFields
  <2>2. \A m \in Messages : RecoveredMessage(mem, m).state \in Pending => mem.inbox[m].state \in Pending
    BY <1>0 DEF RecoveredMessage, Pending, States
  <2>3. Undelivered(t) \subseteq Undelivered(mem)
    BY <2>1, <2>2 DEF Undelivered, In
  <2> QED BY <2>1, <2>3, <1>a, <1>b
<1>2. CASE t = Interrupted(mem) \/ t = Captured(mem) \/ \E n \in Phases : t = Begun(mem, n)
  <2>1. t.inbox = mem.inbox /\ t.revision = mem.revision
    BY <1>0, <1>2, PhaseFields
  <2>2. t.stages = mem.stages
    BY <1>0, <1>2 DEF Interrupted, Captured, Begun, States
  <2> QED BY <2>1, <2>2, <1>a DEF Undelivered, In
<1>3. CASE completing.step = "captured" /\ t = Completed(mem, completing.name, completing.receipts)
  <2>1. t.inbox = mem.inbox /\ t.revision = mem.revision
    BY <1>0, <1>3, PhaseFields
  <2>2. Undelivered(t) = {}
    BY <1>3, <2>1 DEF Completing, Undelivered, In
  <2>3. \A n \in Phases : t.stages[n].revision <= t.revision
    <3>1. \A n \in Phases : t.stages[n].revision = mem.revision \/ t.stages[n] = mem.stages[n]
      BY <1>0, <1>3 DEF Completed, States
    <3>2. mem.revision \in Nat
      BY <1>0 DEF States
    <3> QED BY <2>1, <3>1, <3>2 DEF Current
  <2> QED BY <2>2, <2>3 DEF Current
<1>4. ASSUME NEW m \in Messages, Fresh(m), t = Received(mem, m) PROVE Current(t)
  <2>1. /\ t.stages = mem.stages
        /\ t.revision = IF m \in Revisions THEN mem.revision + 1 ELSE mem.revision
        /\ \A k \in Messages \ {m} : t.inbox[k] = mem.inbox[k]
    BY <1>0, <1>4 DEF Received, States
  <2>2. CASE m \in Revisions
    BY <2>1, <2>2, <1>b
  <2>3. CASE m \notin Revisions
    <3>1. Undelivered(t) \subseteq Undelivered(mem)
      BY <2>1, <2>3 DEF Undelivered, In
    <3> QED BY <2>1, <2>3, <3>1, <1>a
  <2> QED BY <2>2, <2>3
<1>5. ASSUME NEW m \in Messages, NEW word \in Pending \cup {"acknowledged"},
             mem.inbox[m].state \in Pending, t = Marked(mem, m, word)
      PROVE  Current(t)
  <2>1. /\ t.stages = mem.stages /\ t.revision = mem.revision
        /\ \A k \in Messages \ {m} : t.inbox[k] = mem.inbox[k]
    BY <1>0, <1>5 DEF Marked, States
  <2>2. Undelivered(t) \subseteq Undelivered(mem)
    BY <1>5, <2>1 DEF Undelivered, In
  <2> QED BY <2>1, <2>2, <1>a
<1>6. ASSUME NEW S \in SUBSET In(mem, Settled), NEW receipts \in Receipts,
             t = Advanced(Applying(mem, S, receipts))
      PROVE  Current(t)
  <2>1. /\ t.stages = mem.stages /\ t.revision = mem.revision
        /\ \A k \in Messages : t.inbox[k].state = IF k \in S THEN "applied" ELSE mem.inbox[k].state
    BY <1>0, <1>6 DEF Advanced, Applying, States
  <2>2. Undelivered(t) \subseteq Undelivered(mem)
    BY <2>1 DEF Undelivered, In, Pending
  <2> QED BY <2>1, <2>2, <1>a
<1> QED BY <1>1, <1>2, <1>3, <1>4, <1>5, <1>6 DEF Event

ReceiptsCurrent == Current(disk) /\ Current(mem) /\ Completing

LEMMA CompletingStep ==
  ASSUME JournalTypeOK, Completing, [JournalNext]_jvars
  PROVE  Completing'
<1> USE DEF NotCompleting
<1>1. ASSUME NEW ok \in BOOLEAN, Operation(ok) PROVE Completing'
  <2>1. CASE Ready
    <3>1. completing' = NotCompleting
      BY <1>1, <2>1 DEF Ready, Operation, Recover, BeginPhase, Interrupt, Checkpoint, TakeInputs,
           CaptureCompletion, FinishCompletion, AcceptMessage, BeginDelivery, Acknowledge, Reconcile, MarkApplied
    <3> QED BY <3>1 DEF Completing
  <2>2. ASSUME NEW v \in Versions, Recover(v, ok) PROVE Completing'
    BY <2>2 DEF Recover, Completing
  <2>3. CASE TakeInputs(ok)
    BY <2>3 DEF TakeInputs, Completing
  <2>4. CASE CaptureCompletion(ok)
    <3>1. Undelivered(mem) = {} /\ attempt = "ready"
      BY <2>4 DEF CaptureCompletion, Completing
    <3>2. mem'.inbox = mem.inbox
      BY <2>4, PhaseFields DEF CaptureCompletion, Commit, JournalTypeOK
    <3>3. Undelivered(mem') = {} /\ attempt' = "ready"
      BY <2>4, <3>1, <3>2 DEF CaptureCompletion, Undelivered, In
    <3>4. completing' = NotCompleting \/ completing'.step = "captured"
      BY <2>4 DEF CaptureCompletion, JournalTypeOK
    <3> QED BY <3>3, <3>4 DEF Completing, Undelivered, In
  <2>5. CASE FinishCompletion(ok)
    BY <2>5 DEF FinishCompletion, Completing
  <2> QED BY <1>1, <2>1, <2>2, <2>3, <2>4, <2>5 DEF Operation, BeginPhase, Interrupt, Checkpoint,
                AcceptMessage, BeginDelivery, Acknowledge, Reconcile, MarkApplied
<1>2. CASE Stop \/ AbandonCompletion
  BY <1>2 DEF Stop, AbandonCompletion, Completing
<1>3. CASE Open \/ Prepare
  BY <1>3 DEF Open, Prepare, Completing
<1>4. ASSUME NEW n \in Phases, NEW S \in SUBSET Paths, StartCompletion(n, S) PROVE Completing'
  <2>1. Undelivered(mem) = {} /\ mem' = mem /\ attempt' = "ready"
    BY <1>4 DEF StartCompletion, Unsettled, Undelivered, In, Ready
  <2>2. completing'.step = "checked"
    BY <1>4 DEF StartCompletion
  <2> QED BY <2>1, <2>2 DEF Completing, Undelivered, In
<1>5. ASSUME NEW p \in Paths, NEW c \in Contents \cup {Missing}, Write(p, c) PROVE Completing'
  BY <1>5 DEF Write, Completing, Undelivered, In
<1>6. CASE UNCHANGED jvars
  BY <1>6 DEF jvars, Completing, Undelivered, In
<1> QED BY <1>1, <1>2, <1>3, <1>4, <1>5, <1>6 DEF JournalNext

\* Whatever phase a later attempt would skip was completed when every user
\* revision known now had reached the model.
THEOREM ReuseIsCurrent == JournalSpec => []ReusedPhaseSawRevisions
<1>1. JournalInit => ReceiptsCurrent
  BY DEF JournalInit, ReceiptsCurrent, Current, Completing, NotCompleting, Created, NoStage, Undelivered
<1>2. JournalTypeOK /\ ReceiptsCurrent /\ [JournalNext]_jvars => ReceiptsCurrent'
  <2> SUFFICES ASSUME JournalTypeOK, ReceiptsCurrent, [JournalNext]_jvars PROVE ReceiptsCurrent'
    OBVIOUS
  <2>1. Completing'
    BY CompletingStep DEF ReceiptsCurrent
  <2>2. CASE Published
    <3>1. PICK t : Event(t) /\ \E ok \in BOOLEAN : Commit(t, ok)
      BY <2>2 DEF Published
    <3>2. Current(t)
      BY <3>1, EventCurrent DEF ReceiptsCurrent
    <3> QED BY <2>1, <3>1, <3>2 DEF Commit, ReceiptsCurrent, Current, Undelivered, In
  <2> QED BY <2>1, <2>2, StepsPublish DEF ReceiptsCurrent, Current, Undelivered, In
<1>3. ReceiptsCurrent => ReusedPhaseSawRevisions
  BY DEF ReceiptsCurrent, Current, Undelivered, ReusedPhaseSawRevisions, Reusable
<1> QED BY <1>1, <1>2, <1>3, JournalTypeCorrect, PTL DEF JournalSpec

(***************************************************************************)
(* Deliveries are never forgotten                                          *)
(***************************************************************************)

\* Only a finding of Reconcile turns a delivery that has begun into one that may
\* be repeated, in the state on disk as well.
THEOREM DeliveriesNotForgotten == JournalSpec => NeverForgotten
<1>1. JournalTypeOK /\ MemoryIsDurable /\ [JournalNext]_jvars => RedeliverOnlyRefused
  <2> SUFFICES ASSUME JournalTypeOK, MemoryIsDurable, [JournalNext]_jvars, NEW m \in Messages,
                      disk.inbox[m].state \in {"delivering", "uncertain"},
                      disk'.inbox[m].state = "accepted"
               PROVE  \E ok \in BOOLEAN : Reconcile(m, "not_received", ok)
    BY DEF RedeliverOnlyRefused
  <2>1. PICK ok \in BOOLEAN : Operation(ok)
    BY DEF JournalNext, Stop, Open, Prepare, AbandonCompletion, StartCompletion, Write, jvars
  <2>2. mem \in States /\ (~stale => disk = mem)
    BY DEF JournalTypeOK, MemoryIsDurable
  <2>3. ASSUME NEW v \in Versions, Recover(v, ok) PROVE FALSE
    <3>1. mem = disk /\ disk' = RecoveredState(mem, v)
      BY <2>2, <2>3 DEF Recover, Commit
    <3>2. disk'.inbox = [k \in Messages |-> RecoveredMessage(mem, k)]
      BY <2>2, <3>1, RecoveredFields
    <3>3. RecoveredMessage(mem, m).state # "accepted"
      BY <2>2, <3>1 DEF RecoveredMessage, States
    <3> QED BY <3>2, <3>3
  <2>4. ASSUME NEW t, Commit(t, ok), t.inbox = mem.inbox PROVE FALSE
    BY <2>2, <2>4 DEF Commit
  <2>5. ASSUME NEW n \in Phases, BeginPhase(n, ok) PROVE FALSE
    BY <2>2, <2>4, <2>5, PhaseFields DEF BeginPhase
  <2>6. CASE Interrupt(ok) \/ Checkpoint(ok) \/ TakeInputs(ok) \/ CaptureCompletion(ok) \/ FinishCompletion(ok)
    BY <2>2, <2>4, <2>6, PhaseFields DEF Interrupt, Checkpoint, TakeInputs, CaptureCompletion, FinishCompletion
  <2>7. ASSUME NEW k \in Messages, AcceptMessage(k, ok) PROVE FALSE
    <3>1. disk' = Received(mem, k) /\ mem = disk /\ k # m
      BY <2>2, <2>7 DEF AcceptMessage, Commit, Fresh
    <3> QED BY <2>2, <3>1 DEF Received, States
  <2>8. ASSUME NEW k \in Messages, NEW word \in MessageStates, Commit(Marked(mem, k, word), ok),
               mem.inbox[k].state \in MessageStates
        PROVE  k = m /\ word = "accepted"
    <3>1. disk' = Marked(mem, k, word) /\ mem = disk
      BY <2>2, <2>8 DEF Commit
    <3> QED BY <2>2, <3>1 DEF Marked, States
  <2>9. ASSUME NEW k \in Messages, BeginDelivery(k, ok) \/ Acknowledge(k, ok) PROVE FALSE
    BY <2>2, <2>8, <2>9 DEF BeginDelivery, Acknowledge, MessageStates, Pending, Settled
  <2>10. ASSUME NEW k \in Messages, NEW outcome \in {"accepted", "not_received", "unknown"},
                Reconcile(k, outcome, ok)
         PROVE  Reconcile(m, "not_received", ok)
    <3>1. After(outcome) \in MessageStates
      BY DEF After, MessageStates, Pending, Settled
    <3>2. Commit(Marked(mem, k, After(outcome)), ok) /\ mem.inbox[k].state \in MessageStates
      BY <2>10 DEF Reconcile, MessageStates, Pending
    <3>3. k = m /\ After(outcome) = "accepted"
      BY <2>8, <3>1, <3>2
    <3>4. outcome = "not_received"
      BY <3>3 DEF After
    <3> QED BY <2>10, <3>3, <3>4
  <2>11. ASSUME NEW S \in SUBSET Messages, NEW P \in SUBSET Paths, MarkApplied(S, Receipt(files, P), ok)
         PROVE  FALSE
    <3>1. disk' = Advanced(Applying(mem, S, Receipt(files, P))) /\ mem = disk
      BY <2>2, <2>11 DEF MarkApplied, Commit
    <3> QED BY <2>2, <3>1 DEF Advanced, Applying, States
  <2> QED BY <2>1, <2>3, <2>5, <2>6, <2>7, <2>9, <2>10, <2>11 DEF Operation
<1> QED BY <1>1, JournalTypeCorrect, MemoryDurable, PTL DEF JournalSpec, NeverForgotten
=============================================================================
