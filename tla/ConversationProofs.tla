------------------------- MODULE ConversationProofs ------------------------
(***************************************************************************)
(* The conversation runs the journal, so what is proved of the journal     *)
(* holds in it.  It never shows a receipt that a restart would take back,  *)
(* never meets a row the journal would refuse, keeps the files in which    *)
(* messages were applied, and delivers no version of before the last       *)
(* revision.                                                               *)
(***************************************************************************)
EXTENDS Conversation, JournalProofs

USE JournalAssumption, ConversationAssumption DEF JournalAssumption, ConversationAssumption

\* Every step of the conversation is a step of the journal or leaves it alone.
LEMMA StepRunsJournal ==
  ASSUME ConversationTypeOK, [ConversationNext]_vars
  PROVE  [JournalNext]_jvars
<1> USE DEF ConversationTypeOK
<1>0. ASSUME NEW ok \in BOOLEAN, Operation(ok) PROVE JournalNext
  BY <1>0 DEF JournalNext
<1>1. CASE StartAttempt
  BY <1>0, <1>1 DEF StartAttempt, JournalNext, Operation
<1>2. CASE EndAttempt
  BY <1>2 DEF EndAttempt, JournalNext
<1>3. CASE FlushReceived \/ FlushApplied \/ Send \/ GiveUpChat \/ Learn \/ SendBack \/ Refused \/ Report
  BY <1>3 DEF Report, FlushReceived, FlushApplied, Send, GiveUpChat, Learn, SendBack, Refused
<1>4. CASE StoreVersion
  <2>1. closing.version \in Paths
    BY <1>4 DEF StoreVersion, NotClosing
  <2>2. files[Deck] \in Contents \cup {Missing}
    BY DEF JournalTypeOK, Trees
  <2> QED BY <1>4, <2>1, <2>2 DEF StoreVersion, JournalNext
<1>5. CASE CertifyFinal
  <2>1. closing.version \in Paths
    BY <1>5 DEF CertifyFinal, NotClosing
  <2> QED BY <1>5, <2>1 DEF CertifyFinal, JournalNext
<1>6. ASSUME NEW m \in Messages, Compose(m) PROVE [JournalNext]_jvars
  BY <1>6 DEF Compose
<1>7. ASSUME NEW c \in Contents \cup {Missing}, AgentWrites(c) PROVE [JournalNext]_jvars
  BY <1>7 DEF AgentWrites, JournalNext
<1>8. ASSUME NEW n \in Phases, CompleteAuthoring(n) PROVE [JournalNext]_jvars
  BY <1>8 DEF CompleteAuthoring, JournalNext
<1>9. ASSUME NEW v \in Frozen, Freeze(v) \/ ReuseDelivery(v) PROVE [JournalNext]_jvars
  BY <1>9 DEF Freeze, ReuseDelivery
<1>10. ASSUME NEW ok \in BOOLEAN, NEW m \in Messages,
              Poll(m, ok) \/ Deliver(m, ok) \/ DeliverChat(m, ok) \/ ReconcileDelivery(m, ok)
       PROVE  [JournalNext]_jvars
  <2>1. AcceptMessage(m, ok) \/ BeginDelivery(m, ok) \/ Reconcile(m, "accepted", ok) \/ Reconcile(m, "unknown", ok)
    BY <1>10 DEF Poll, Deliver, DeliverChat, ReconcileDelivery
  <2> QED BY <1>0, <2>1 DEF Operation
<1>11. ASSUME NEW ok \in BOOLEAN, NEW S \in SUBSET Chats, CompleteChats(S, ok) PROVE [JournalNext]_jvars
  <2>1. NoReceipt = Receipt(files, {}) /\ S \in SUBSET Messages
    BY DEF NoReceipt, Receipt, Chats
  <2>2. MarkApplied(S, Receipt(files, {}), ok) /\ UNCHANGED files
    BY <1>11, <2>1 DEF CompleteChats
  <2> QED BY <1>0, <2>1, <2>2 DEF Operation
<1>12. ASSUME NEW ok \in BOOLEAN, NEW n \in Phases, BeginAuthoring(n, ok) PROVE [JournalNext]_jvars
  BY <1>0, <1>12 DEF BeginAuthoring, Operation
<1>13. ASSUME NEW ok \in BOOLEAN, Settle(ok) PROVE [JournalNext]_jvars
  <2>1. flight.message \in Messages
    BY <1>13 DEF Settle, NoFlight
  <2> QED BY <1>0, <1>13, <2>1 DEF Settle, Operation
<1>14. ASSUME NEW ok \in BOOLEAN, TakeCheckpoint(ok) \/ InterruptPhase(ok) \/ BeginFinal(ok)
       PROVE  [JournalNext]_jvars
  BY <1>0, <1>14 DEF TakeCheckpoint, InterruptPhase, BeginFinal, Operation
<1>15. ASSUME NEW ok \in BOOLEAN, Validate(ok) PROVE [JournalNext]_jvars
  <2> DEFINE S == Revisions \cap In(mem, {"acknowledged"})
             P == {closing.version}
  <2>1. S \in SUBSET Messages /\ P \in SUBSET Paths
    BY <1>15 DEF Validate, NotClosing, In
  <2>2. CASE S = {}
    BY <1>15, <2>2 DEF Validate
  <2>3. CASE S # {}
    <3>1. MarkApplied(S, Receipt(files, P), ok) /\ UNCHANGED files /\ \A p \in P : files[p] # Missing
      BY <1>15, <2>3 DEF Validate
    <3> HIDE DEF S, P
    <3> QED BY <1>0, <2>1, <3>1 DEF Operation
  <2> QED BY <2>2, <2>3
<1>16. ASSUME NEW ok \in BOOLEAN, Complete(ok) PROVE [JournalNext]_jvars
  BY <1>0, <1>16 DEF Complete, JournalNext, Operation
<1>17. CASE UNCHANGED vars
  BY <1>17 DEF vars, jvars
<1> QED BY <1>1, <1>2, <1>3, <1>4, <1>5, <1>6, <1>7, <1>8, <1>9, <1>10, <1>11, <1>12, <1>13, <1>14,
           <1>15, <1>16, <1>17 DEF ConversationNext

\* The greatest of a set of cursors is in the set, or 0 if there is none.
LEMMA GreatestType ==
  ASSUME NEW S \in SUBSET Messages
  PROVE  Greatest(S) \in 0 .. NumMessages
<1>1. CASE S = {}
  BY <1>1 DEF Greatest
<1>2. CASE S # {}
  <2>1. \E m \in S : \A k \in S : k <= m
    BY <1>2, GreatestCursor
  <2>2. Greatest(S) \in S
    BY <1>2, <2>1 DEF Greatest
  <2>3. Messages \subseteq 0 .. NumMessages
    BY DEF Messages
  <2> QED BY <2>2, <2>3
<1> QED BY <1>1, <1>2

TalkType ==
  /\ site \in [Messages -> {"unwritten", "pending", "received", "applied"}]
  /\ flight \in [message : Messages, answer : {"unsent", "receipt", "refused", "lost"}] \cup {NoFlight}
  /\ thread \in Seq(Messages)
  /\ known \in 0 .. NumMessages
  /\ entered \in BOOLEAN /\ reported \in 0 .. NumMessages
  /\ closing \in [version : Frozen, step : {"frozen", "stored", "validated", "begun", "shipping", "failed"}]
                 \cup {NotClosing}
  /\ manifest \in [Frozen -> 0 .. NumMessages]
  /\ used \subseteq Frozen
  /\ seen \in [Frozen -> SUBSET Revisions]

LEMMA TalkTypeStep == ASSUME ConversationTypeOK, [ConversationNext]_vars PROVE TalkType'
<1> USE DEF ConversationTypeOK, TalkType, versions, reports, records
<1>0. AcceptedRevision \in 0 .. NumMessages
  BY GreatestType DEF AcceptedRevision, Accepted
<1>1. CASE StartAttempt
  BY <1>0, <1>1 DEF StartAttempt
<1>2. CASE EndAttempt
  <2>1. entered' \in BOOLEAN
    BY <1>2 DEF EndAttempt
  <2>2. /\ UNCHANGED <<site, thread, reported, versions>>
        /\ flight' = NoFlight /\ closing' = NotClosing /\ known' = 0
    BY <1>2 DEF EndAttempt
  <2> QED BY <2>1, <2>2
<1>3. CASE FlushReceived \/ FlushApplied \/ GiveUpChat \/ Report
  BY <1>3 DEF Report, FlushReceived, FlushApplied, GiveUpChat
<1>4. CASE Send
  <2>1. /\ flight.message \in Messages
        /\ flight \in [message : Messages, answer : {"unsent", "receipt", "refused", "lost"}]
    BY <1>4 DEF Send, NoFlight
  <2>2. thread' \in Seq(Messages)
    <3>1. thread' = thread \/ thread' = Append(thread, flight.message)
      BY <1>4 DEF Send
    <3>2. \A m \in Messages : Append(thread, m) \in Seq(Messages)
      OBVIOUS
    <3> QED BY <2>1, <3>1, <3>2
  <2>3. flight' \in [message : Messages, answer : {"unsent", "receipt", "refused", "lost"}]
    <3>1. PICK answer \in {"receipt", "lost", "refused"} : flight' = [flight EXCEPT !.answer = answer]
      BY <1>4 DEF Send
    <3> QED BY <2>1, <3>1
  <2>4. /\ UNCHANGED <<site, known, entered, reported, closing, manifest, used, seen>>
    BY <1>4 DEF Send
  <2> QED BY <2>2, <2>3, <2>4
<1>5. CASE Learn
  <2>1. Greatest({m \in Revisions : site[m] # "unwritten"}) \in 0 .. NumMessages
    BY GreatestType
  <2> QED BY <1>5, <2>1 DEF Learn
<1>6. CASE SendBack \/ Refused \/ StoreVersion \/ CertifyFinal
  BY <1>0, <1>6 DEF SendBack, Refused, StoreVersion, CertifyFinal, NotClosing
<1>7. ASSUME NEW m \in Messages, Compose(m) PROVE TalkType'
  BY <1>7 DEF Compose
<1>8. CASE \/ \E c \in Contents \cup {Missing} : AgentWrites(c)
           \/ \E n \in Phases : CompleteAuthoring(n) \/ \E ok \in BOOLEAN : BeginAuthoring(n, ok)
           \/ \E ok \in BOOLEAN : TakeCheckpoint(ok)
           \/ \E S \in SUBSET Chats, ok \in BOOLEAN : CompleteChats(S, ok)
  BY <1>8 DEF AgentWrites, CompleteAuthoring, BeginAuthoring, TakeCheckpoint, CompleteChats
<1>9. ASSUME NEW v \in Frozen, Freeze(v) \/ ReuseDelivery(v) PROVE TalkType'
  BY <1>9 DEF Freeze, ReuseDelivery
<1>10. ASSUME NEW ok \in BOOLEAN, NEW m \in Messages, Poll(m, ok) PROVE TalkType'
  BY <1>10 DEF Poll, Messages
<1>11. ASSUME NEW ok \in BOOLEAN, NEW m \in Messages,
              Deliver(m, ok) \/ DeliverChat(m, ok) \/ ReconcileDelivery(m, ok)
       PROVE  TalkType'
  BY <1>11 DEF Deliver, DeliverChat, ReconcileDelivery
<1>12. ASSUME NEW ok \in BOOLEAN, Settle(ok) PROVE TalkType'
  BY <1>12 DEF Settle
<1>13. ASSUME NEW ok \in BOOLEAN, InterruptPhase(ok) \/ Validate(ok) \/ BeginFinal(ok) \/ Complete(ok)
       PROVE  TalkType'
  BY <1>13 DEF InterruptPhase, Validate, BeginFinal, Complete, Failing, NotClosing
<1>14. CASE UNCHANGED vars
  BY <1>14 DEF vars
<1> QED BY <1>1, <1>2, <1>3, <1>4, <1>5, <1>6, <1>7, <1>8, <1>9, <1>10, <1>11, <1>12, <1>13, <1>14
        DEF ConversationNext

\* Every value of every reachable state is in its set.
THEOREM ConversationTypeCorrect == ConversationSpec => []ConversationTypeOK
<1>1. ConversationInit => ConversationTypeOK
  <2> SUFFICES ASSUME ConversationInit PROVE ConversationTypeOK
    OBVIOUS
  <2>1. JournalTypeOK
    BY TypeInit DEF ConversationInit
  <2>2. entered \in BOOLEAN
    BY DEF ConversationInit
  <2>3. /\ site = [m \in Messages |-> "unwritten"] /\ manifest = [v \in Frozen |-> 0]
        /\ flight = NoFlight /\ thread = <<>> /\ closing = NotClosing /\ known = 0 /\ reported = 0
        /\ used = {} /\ seen = [v \in Frozen |-> {}]
    BY DEF ConversationInit
  <2> QED BY <2>1, <2>2, <2>3 DEF ConversationTypeOK
<1>2. ConversationTypeOK /\ [ConversationNext]_vars => ConversationTypeOK'
  <2> SUFFICES ASSUME ConversationTypeOK, [ConversationNext]_vars PROVE ConversationTypeOK'
    OBVIOUS
  <2>1. JournalTypeOK'
    BY StepRunsJournal, TypeStep DEF ConversationTypeOK
  <2> QED BY <2>1, TalkTypeStep DEF ConversationTypeOK, TalkType
<1> QED BY <1>1, <1>2, PTL DEF ConversationSpec

\* The bridge uses the journal as Journal describes it: what is proved of the
\* journal holds in the conversation.
THEOREM ConversationRunsJournal == ConversationSpec => JournalSpec
<1>1. ConversationInit => JournalInit
  BY DEF ConversationInit
<1>2. ConversationTypeOK /\ [ConversationNext]_vars => [JournalNext]_jvars
  BY StepRunsJournal
<1> QED BY <1>1, <1>2, ConversationTypeCorrect, PTL DEF ConversationSpec, JournalSpec

(***************************************************************************)
(* Receipts                                                                *)
(***************************************************************************)

\* What holds of the journal on its own, in the conversation.
LEMMA JournalFacts ==
  ConversationSpec => [](ConversationTypeOK /\ MemoryIsDurable /\ CursorsSound)
BY ConversationTypeCorrect, ConversationRunsJournal, MemoryDurable, CursorsStaySound, PTL

\* On disk, a message that reached the model stays so.
LEMMA DiskKeepsSettled ==
  ASSUME JournalTypeOK, MemoryIsDurable, [JournalNext]_jvars
  PROVE  \A m \in Messages : disk.inbox[m].state \in Settled => disk'.inbox[m].state \in Settled
<1>1. CASE Published
  <2>1. PICK t : Event(t) /\ disk' = t /\ disk = mem
    BY <1>1 DEF Published, Commit, MemoryIsDurable
  <2> QED BY <2>1, EventKeepsSettled
<1> QED BY <1>1, StepsPublish

\* The website never shows more than a restarted runner would find.
THEOREM ReceiptsDurable == ConversationSpec => []ReceiptsAreDurable
<1>1. ConversationInit => ReceiptsAreDurable
  BY DEF ConversationInit, ReceiptsAreDurable
<1>2. ConversationTypeOK /\ MemoryIsDurable /\ ReceiptsAreDurable /\ [ConversationNext]_vars
        => ReceiptsAreDurable'
  <2> SUFFICES ASSUME ConversationTypeOK, MemoryIsDurable, ReceiptsAreDurable, [ConversationNext]_vars,
                      NEW m \in Messages, site'[m] \in {"received", "applied"}
               PROVE  disk'.inbox[m].state \in Settled
    BY DEF ReceiptsAreDurable
  <2>1. disk.inbox[m].state \in Settled => disk'.inbox[m].state \in Settled
    BY StepRunsJournal, DiskKeepsSettled DEF ConversationTypeOK
  <2>2. site \in [Messages -> {"unwritten", "pending", "received", "applied"}]
    BY DEF ConversationTypeOK
  <2>3. CASE site[m] \in {"received", "applied"}
    BY <2>1, <2>3 DEF ReceiptsAreDurable
  <2>4. CASE FlushReceived \/ FlushApplied
    <3>1. site[m] \in {"received", "applied"} \/ mem.inbox[m].state \in Settled
      BY <2>4 DEF FlushReceived, FlushApplied, Reached, In
    <3>2. mem.inbox[m].state \in Settled => disk.inbox[m].state \in Settled
      BY DEF MemoryIsDurable
    <3> QED BY <2>1, <2>3, <3>1, <3>2
  <2>5. CASE \E k \in Messages : Compose(k)
    <3>1. site'[m] = site[m] \/ site'[m] = "pending"
      BY <2>2, <2>5 DEF Compose
    <3> QED BY <2>3, <3>1
  <2>6. CASE UNCHANGED site
    BY <2>3, <2>6
  <2>7. FlushReceived \/ FlushApplied \/ (\E k \in Messages : Compose(k)) \/ UNCHANGED site
    BY DEF ConversationNext, vars, StartAttempt, EndAttempt, Send, GiveUpChat, Learn, SendBack, Report,
         StoreVersion, CertifyFinal, Refused, AgentWrites, CompleteAuthoring, Freeze, ReuseDelivery, Poll,
         Deliver, DeliverChat, ReconcileDelivery, CompleteChats, BeginAuthoring, Settle, TakeCheckpoint,
         InterruptPhase, Validate, BeginFinal, Complete
  <2> QED BY <2>4, <2>5, <2>6, <2>7
<1> QED BY <1>1, <1>2, JournalFacts, PTL DEF ConversationSpec

(***************************************************************************)
(* What is accepted                                                        *)
(***************************************************************************)

\* The same messages are accepted in two states.
SameAccepted(s, t) == t.cursor = s.cursor /\ Accepted(t) = Accepted(s)

\* No message changes its place between absent, accepted, sent and settled.
Follows(s, t) ==
  \A m \in Messages : \/ t.inbox[m].state = s.inbox[m].state
                      \/ {t.inbox[m].state, s.inbox[m].state} \subseteq Settled

\* What the events that move messages make of their places.
LEMMA MarkedStates ==
  ASSUME NEW s \in States, NEW m \in Messages, NEW word
  PROVE  \A k \in Messages : Marked(s, m, word).inbox[k].state = IF k = m THEN word ELSE s.inbox[k].state
<1>1. Marked(s, m, word).inbox = [s.inbox EXCEPT ![m].state = word]
  BY DEF Marked, States
<1>2. \A k \in Messages : s.inbox[k] \in [state : MessageStates, artifacts : Receipts]
  BY DEF States
<1>3. DOMAIN s.inbox = Messages
  BY DEF States
<1> QED BY <1>1, <1>2, <1>3

LEMMA ReceivedStates ==
  ASSUME NEW s \in States, NEW m \in Messages
  PROVE  \A k \in Messages : Received(s, m).inbox[k].state = IF k = m THEN "accepted" ELSE s.inbox[k].state
<1>1. Received(s, m).inbox = [s.inbox EXCEPT ![m].state = "accepted"]
  BY DEF Received, States
<1>2. \A k \in Messages : s.inbox[k] \in [state : MessageStates, artifacts : Receipts]
  BY DEF States
<1>3. DOMAIN s.inbox = Messages
  BY DEF States
<1> QED BY <1>1, <1>2, <1>3

LEMMA AppliedFollows ==
  ASSUME NEW s \in States, NEW S \in SUBSET In(s, Settled), NEW receipts
  PROVE  Follows(s, Advanced(Applying(s, S, receipts)))
<1>1. Advanced(Applying(s, S, receipts)).inbox
        = [m \in Messages |-> IF m \in S THEN [state |-> "applied", artifacts |-> receipts] ELSE s.inbox[m]]
  BY DEF Advanced, Applying, States
<1> QED BY <1>1 DEF Follows, In, Settled

\* Of the events only Received accepts a message.
LEMMA OthersAcceptNothing ==
  ASSUME NEW s \in States, NEW t,
         \/ \E v \in Versions : t = RecoveredState(s, v)
         \/ t = Interrupted(s) \/ t = Captured(s)
         \/ \E n \in Phases : t = Begun(s, n)
         \/ \E n, receipts : t = Completed(s, n, receipts)
         \/ \E m \in Accepted(s), word \in Pending \cup {"acknowledged"} : t = Marked(s, m, word)
         \/ \E S \in SUBSET In(s, Settled) : \E receipts : t = Advanced(Applying(s, S, receipts))
  PROVE  SameAccepted(s, t)
<1>1. ASSUME NEW v \in Versions, t = RecoveredState(s, v) PROVE SameAccepted(s, t)
  <2>1. t.cursor = s.cursor /\ t.inbox = [m \in Messages |-> RecoveredMessage(s, m)]
    BY <1>1, RecoveredFields
  <2>2. \A m \in Messages : s.inbox[m] \in [state : MessageStates, artifacts : Receipts]
    BY DEF States
  <2>3. \A m \in Messages : RecoveredMessage(s, m).state = "absent" <=> s.inbox[m].state = "absent"
    BY <2>2 DEF RecoveredMessage
  <2> QED BY <2>1, <2>3 DEF SameAccepted, Accepted, In
<1>2. CASE \/ t = Interrupted(s) \/ t = Captured(s) \/ \E n \in Phases : t = Begun(s, n)
           \/ \E n, receipts : t = Completed(s, n, receipts)
  <2>1. t.cursor = s.cursor /\ t.inbox = s.inbox
    BY <1>2, PhaseFields
  <2> QED BY <2>1 DEF SameAccepted, Accepted, In
<1>3. ASSUME NEW m \in Accepted(s), NEW word \in Pending \cup {"acknowledged"}, t = Marked(s, m, word)
      PROVE  SameAccepted(s, t)
  <2>1. m \in Messages /\ s.inbox[m].state # "absent"
    BY DEF Accepted, In
  <2>2. t.cursor = s.cursor
    BY <1>3 DEF Marked, States
  <2>3. \A k \in Messages : t.inbox[k].state = "absent" <=> s.inbox[k].state = "absent"
    BY <1>3, <2>1, MarkedStates DEF Pending
  <2> QED BY <2>2, <2>3 DEF SameAccepted, Accepted, In
<1>4. ASSUME NEW S \in SUBSET In(s, Settled), NEW receipts, t = Advanced(Applying(s, S, receipts))
      PROVE  SameAccepted(s, t)
  <2>1. Follows(s, t)
    BY <1>4, AppliedFollows
  <2>2. t.cursor = s.cursor
    BY <1>4 DEF Advanced, Applying, States
  <2> QED BY <2>1, <2>2 DEF SameAccepted, Accepted, In, Follows, Settled
<1> QED BY <1>1, <1>2, <1>3, <1>4

\* What is accepted stays as it was, or an attempt ends and its copy is dropped.
Steady ==
  /\ SameAccepted(mem, mem') \/ EndAttempt
  /\ SameAccepted(disk, disk') \/ SameAccepted(mem, disk')

\* Messages are accepted by a poll and by nothing else.
LEMMA OnlyPollAccepts ==
  ASSUME ConversationTypeOK, [ConversationNext]_vars
  PROVE  Steady \/ \E ok \in BOOLEAN, m \in Messages : Poll(m, ok)
<1> USE DEF ConversationTypeOK
<1>0. mem \in States /\ SameAccepted(mem, mem) /\ SameAccepted(disk, disk)
  BY DEF JournalTypeOK, SameAccepted
<1>a. ASSUME NEW t, NEW ok, Commit(t, ok), SameAccepted(mem, t) PROVE Steady
  BY <1>0, <1>a DEF Commit, Steady
<1>b. ASSUME UNCHANGED <<disk, mem>> PROVE Steady
  BY <1>0, <1>b DEF Steady
<1>1. CASE StartAttempt
  <2>1. CASE Open \/ Prepare
    BY <1>b, <2>1 DEF Open, Prepare
  <2>2. ASSUME NEW ok \in BOOLEAN, TakeInputs(ok) PROVE Steady
    BY <1>0, <1>a, <2>2, OthersAcceptNothing DEF TakeInputs
  <2>3. ASSUME NEW ok \in BOOLEAN, NEW v \in Versions, Recover(v, ok) PROVE Steady
    BY <1>0, <1>a, <2>3, OthersAcceptNothing DEF Recover
  <2> QED BY <1>1, <2>1, <2>2, <2>3 DEF StartAttempt
<1>e. CASE EndAttempt
  BY <1>0, <1>e DEF EndAttempt, Stop, Steady
<1>2. CASE \/ FlushReceived \/ FlushApplied \/ Send \/ GiveUpChat \/ Learn \/ SendBack \/ Refused
           \/ Report \/ StoreVersion \/ CertifyFinal
  BY <1>2, <1>b DEF Report, FlushReceived, FlushApplied, Send, GiveUpChat, Learn, SendBack,
     Refused, StoreVersion, Write, CertifyFinal, StartCompletion, jvars
<1>3. CASE \/ \E m \in Messages : Compose(m)
           \/ \E c \in Contents \cup {Missing} : AgentWrites(c)
           \/ \E n \in Phases : CompleteAuthoring(n)
           \/ \E v \in Frozen : Freeze(v) \/ ReuseDelivery(v)
  BY <1>3, <1>b DEF Compose, AgentWrites, Write, CompleteAuthoring, StartCompletion, Freeze, ReuseDelivery, jvars
<1>4. ASSUME NEW ok \in BOOLEAN, NEW m \in Messages, NEW word \in Pending \cup {"acknowledged"},
             mem.inbox[m].state # "absent", Commit(Marked(mem, m, word), ok)
      PROVE  Steady
  <2>1. m \in Accepted(mem)
    BY <1>4 DEF Accepted, In
  <2> QED BY <1>0, <1>a, <1>4, <2>1, OthersAcceptNothing
<1>5. ASSUME NEW ok \in BOOLEAN, NEW m \in Messages,
             Deliver(m, ok) \/ DeliverChat(m, ok) \/ ReconcileDelivery(m, ok)
      PROVE  Steady
  <2>1. CASE Deliver(m, ok) \/ DeliverChat(m, ok)
    BY <1>4, <2>1 DEF Deliver, DeliverChat, BeginDelivery, Pending
  <2>2. CASE ReconcileDelivery(m, ok)
    BY <1>4, <2>2 DEF ReconcileDelivery, Reconcile, After, Pending
  <2> QED BY <1>5, <2>1, <2>2
<1>6. ASSUME NEW ok \in BOOLEAN, Settle(ok) PROVE Steady
  <2>1. flight.message \in Messages
    BY <1>6 DEF Settle, NoFlight
  <2> QED BY <1>4, <1>6, <2>1 DEF Settle, Acknowledge, Reconcile, After, Pending
<1>7. ASSUME NEW ok \in BOOLEAN, NEW S, NEW receipts, MarkApplied(S, receipts, ok) PROVE Steady
  <2>1. S \in SUBSET In(mem, Settled) /\ Commit(Advanced(Applying(mem, S, receipts)), ok)
    BY <1>7 DEF MarkApplied
  <2>2. SameAccepted(mem, Advanced(Applying(mem, S, receipts)))
    BY <1>0, <2>1, OthersAcceptNothing
  <2> QED BY <1>a, <2>1, <2>2
<1>8. ASSUME NEW ok \in BOOLEAN, NEW S \in SUBSET Chats, CompleteChats(S, ok) PROVE Steady
  BY <1>7, <1>8 DEF CompleteChats
<1>9. ASSUME NEW ok \in BOOLEAN, Validate(ok) PROVE Steady
  BY <1>7, <1>9, <1>b DEF Validate, jvars
<1>10. ASSUME NEW ok \in BOOLEAN, NEW n \in Phases, BeginPhase(n, ok) PROVE Steady
  BY <1>0, <1>a, <1>10, OthersAcceptNothing DEF BeginPhase
<1>11. ASSUME NEW ok \in BOOLEAN,
              TakeCheckpoint(ok) \/ InterruptPhase(ok) \/ BeginFinal(ok) \/ \E n \in Phases : BeginAuthoring(n, ok)
       PROVE  Steady
  <2>1. CASE TakeCheckpoint(ok)
    BY <1>0, <1>a, <2>1, OthersAcceptNothing DEF TakeCheckpoint, Checkpoint
  <2>2. CASE InterruptPhase(ok)
    BY <1>0, <1>a, <2>2, OthersAcceptNothing DEF InterruptPhase, Interrupt
  <2>3. CASE BeginFinal(ok) \/ \E n \in Phases : BeginAuthoring(n, ok)
    BY <1>10, <2>3 DEF BeginFinal, BeginAuthoring
  <2> QED BY <1>11, <2>1, <2>2, <2>3
<1>12. ASSUME NEW ok \in BOOLEAN, Complete(ok) PROVE Steady
  <2>1. CASE CaptureCompletion(ok)
    BY <1>0, <1>a, <2>1, OthersAcceptNothing DEF CaptureCompletion
  <2>2. CASE FinishCompletion(ok)
    BY <1>0, <1>a, <2>2, OthersAcceptNothing DEF FinishCompletion
  <2>3. CASE AbandonCompletion
    BY <1>b, <2>3 DEF AbandonCompletion
  <2> QED BY <1>12, <2>1, <2>2, <2>3 DEF Complete
<1>13. CASE UNCHANGED vars
  BY <1>13, <1>b DEF vars
<1> QED BY <1>e, <1>1, <1>2, <1>3, <1>5, <1>6, <1>8, <1>9, <1>11, <1>12, <1>13 DEF ConversationNext

\* The website numbers what it is sent without a gap, and the journal accepts it so.
AcceptedInOrder ==
  /\ \A s \in {disk, mem} : Accepted(s) = 1 .. s.cursor
  /\ \A m \in Accepted(disk) \cup Accepted(mem) : site[m] # "unwritten"
  /\ \A m \in Messages, k \in Messages : k < m /\ site[m] # "unwritten" => site[k] # "unwritten"

\* A row stays one, and rows are written in their order.
LEMMA RowsInOrder ==
  ASSUME ConversationTypeOK, [ConversationNext]_vars
  PROVE  \/ UNCHANGED site
         \/ \A m \in Messages : site'[m] = "unwritten" <=> site[m] = "unwritten"
         \/ \E k \in Messages : Compose(k)
<1>1. CASE FlushReceived \/ FlushApplied
  BY <1>1 DEF FlushReceived, FlushApplied
<1>2. FlushReceived \/ FlushApplied \/ (\E k \in Messages : Compose(k)) \/ UNCHANGED site
  BY DEF ConversationNext, vars, StartAttempt, EndAttempt, Send, GiveUpChat, Learn, SendBack, Report,
     StoreVersion, CertifyFinal, Refused, AgentWrites, CompleteAuthoring, Freeze, ReuseDelivery, Poll,
     Deliver, DeliverChat, ReconcileDelivery, CompleteChats, BeginAuthoring, Settle, TakeCheckpoint,
     InterruptPhase, Validate, BeginFinal, Complete
<1> QED BY <1>1, <1>2

\* A poll takes the message after the last one: nothing between them is missing.
LEMMA PollNext ==
  ASSUME ConversationTypeOK, MemoryIsDurable, ReceiptsAreDurable, AcceptedInOrder,
         NEW m \in Messages, NEW ok \in BOOLEAN, Poll(m, ok)
  PROVE  m = mem.cursor + 1 /\ mem = disk /\ site[m] # "unwritten"
<1>1. m \in Rows /\ \A k \in Rows : m <= k
  BY DEF Poll, NextRow
<1>2. ~stale /\ m > mem.cursor
  BY DEF Poll, AcceptMessage, Fresh, Commit
<1>3. mem = disk
  BY <1>2 DEF MemoryIsDurable
<1>4. mem.cursor \in 0 .. NumMessages
  BY DEF ConversationTypeOK, JournalTypeOK, States
<1>5. site[m] # "unwritten"
  BY <1>1 DEF Rows
<1>6. ASSUME m # mem.cursor + 1 PROVE FALSE
  <2> DEFINE k == mem.cursor + 1
  <2>1. k \in Messages /\ k < m
    BY <1>2, <1>4, <1>6 DEF Messages
  <2>2. k \notin Accepted(mem)
    BY <1>4 DEF AcceptedInOrder
  <2>3. mem.inbox[k].state = "absent"
    BY <2>1, <2>2 DEF Accepted, In
  <2>4. site[k] # "unwritten"
    BY <1>5, <2>1 DEF AcceptedInOrder
  <2>5. site[k] \notin {"received", "applied"}
    BY <1>3, <2>1, <2>3 DEF ReceiptsAreDurable, Settled
  <2>6. site[k] \in {"unwritten", "pending", "received", "applied"}
    BY <2>1 DEF ConversationTypeOK
  <2>7. k \in Rows
    BY <2>1, <2>3, <2>4, <2>5, <2>6 DEF Rows
  <2> HIDE DEF k
  <2> QED BY <1>1, <1>4, <2>1, <2>7 DEF Messages
<1> QED BY <1>3, <1>5, <1>6

LEMMA AcceptedInOrderStep ==
  ASSUME ConversationTypeOK, MemoryIsDurable, ReceiptsAreDurable, AcceptedInOrder, [ConversationNext]_vars
  PROVE  AcceptedInOrder'
<1>0. /\ mem \in States /\ disk \in States /\ mem.cursor \in 0 .. NumMessages
      /\ site \in [Messages -> {"unwritten", "pending", "received", "applied"}]
  BY DEF ConversationTypeOK, JournalTypeOK, States
<1>1. CASE Steady /\ ~\E k \in Messages : Compose(k)
  <2>1. \A t \in {disk', mem'} : Accepted(t) = 1 .. t.cursor /\ Accepted(t) \subseteq Accepted(disk) \cup Accepted(mem)
    BY <1>1 DEF Steady, SameAccepted, AcceptedInOrder, EndAttempt, Stop
  <2>2. \A m \in Messages : site'[m] = "unwritten" <=> site[m] = "unwritten"
    BY <1>1, RowsInOrder
  <2>3. Accepted(disk) \cup Accepted(mem) \subseteq Messages
    BY DEF Accepted
  <2> QED BY <2>1, <2>2, <2>3 DEF AcceptedInOrder
<1>2. ASSUME NEW k \in Messages, Compose(k) PROVE AcceptedInOrder'
  <2>1. /\ site[k] = "unwritten" /\ \A j \in Messages : j < k => site[j] # "unwritten"
        /\ site' = [site EXCEPT ![k] = "pending"] /\ disk' = disk /\ mem' = mem
    BY <1>2 DEF Compose, jvars
  <2>2. \A m \in Messages : site'[m] # "unwritten" <=> m = k \/ site[m] # "unwritten"
    BY <1>0, <2>1
  <2>3. Accepted(disk) \cup Accepted(mem) \subseteq Messages
    BY DEF Accepted
  <2>4. \A s \in {disk', mem'} : Accepted(s) = 1 .. s.cursor
    BY <2>1 DEF AcceptedInOrder
  <2>5. \A m \in Accepted(disk') \cup Accepted(mem') : site'[m] # "unwritten"
    BY <2>1, <2>2, <2>3 DEF AcceptedInOrder
  <2>6. \A m \in Messages, j \in Messages : j < m /\ site'[m] # "unwritten" => site'[j] # "unwritten"
    BY <2>1, <2>2 DEF AcceptedInOrder
  <2> QED BY <2>4, <2>5, <2>6 DEF AcceptedInOrder
<1>3. ASSUME NEW ok \in BOOLEAN, NEW m \in Messages, Poll(m, ok) PROVE AcceptedInOrder'
  <2> DEFINE t == Received(mem, m)
  <2>1. m = mem.cursor + 1 /\ mem = disk /\ site[m] # "unwritten"
    BY <1>3, PollNext
  <2>2. disk' = t /\ mem' \in {t, mem} /\ site' = site
    BY <1>3 DEF Poll, AcceptMessage, Commit
  <2>3. t.cursor = m
    BY <1>0 DEF Received, States
  <2>4. Accepted(t) = Accepted(mem) \cup {m}
    BY <1>0, ReceivedStates DEF Accepted, In
  <2> HIDE DEF t
  <2>5. Accepted(t) = 1 .. t.cursor
    BY <1>0, <2>1, <2>3, <2>4 DEF AcceptedInOrder
  <2>6. \A s \in {disk', mem'} : Accepted(s) = 1 .. s.cursor /\ Accepted(s) \subseteq Accepted(mem) \cup {m}
    BY <2>2, <2>4, <2>5 DEF AcceptedInOrder
  <2>7. \A k \in Accepted(disk') \cup Accepted(mem') : site'[k] # "unwritten"
    BY <2>1, <2>2, <2>6 DEF AcceptedInOrder
  <2> QED BY <2>2, <2>6, <2>7 DEF AcceptedInOrder
<1> QED BY <1>1, <1>2, <1>3, OnlyPollAccepts

LEMMA AcceptedStaysInOrder == ConversationSpec => []AcceptedInOrder
<1>1. ConversationInit => AcceptedInOrder
  <2> SUFFICES ASSUME ConversationInit PROVE AcceptedInOrder
    OBVIOUS
  <2>1. disk = Created /\ mem = Created /\ site = [m \in Messages |-> "unwritten"]
    BY DEF ConversationInit, JournalInit
  <2>2. Accepted(Created) = {} /\ Created.cursor = 0
    BY DEF Created, NoMessage, Accepted, In
  <2> QED BY <2>1, <2>2 DEF AcceptedInOrder
<1>2. /\ ConversationTypeOK /\ MemoryIsDurable /\ ReceiptsAreDurable /\ AcceptedInOrder /\ [ConversationNext]_vars
      => AcceptedInOrder'
  BY AcceptedInOrderStep
<1> QED BY <1>1, <1>2, JournalFacts, ReceiptsDurable, PTL DEF ConversationSpec

\* A row that is still returned is never behind the cursor of the journal
\* (accept_message raises for such a one, and every later attempt would end of it).
THEOREM RowsAreAcceptable == ConversationSpec => []RowsStayAcceptable
<1>1. ConversationTypeOK /\ AcceptedInOrder => RowsStayAcceptable
  <2> SUFFICES ASSUME ConversationTypeOK, AcceptedInOrder, NEW m \in Rows PROVE m > mem.cursor
    BY DEF RowsStayAcceptable
  <2>1. m \in Messages /\ m \notin Accepted(mem)
    BY DEF Rows, Accepted, In
  <2>2. Accepted(mem) = 1 .. mem.cursor /\ mem.cursor \in 0 .. NumMessages
    BY DEF AcceptedInOrder, ConversationTypeOK, JournalTypeOK, States
  <2> QED BY <2>1, <2>2 DEF Messages
<1> QED BY <1>1, AcceptedStaysInOrder, ConversationTypeCorrect, PTL

(***************************************************************************)
(* What a delivered version has seen                                       *)
(***************************************************************************)

InReview == {"frozen", "stored", "validated", "begun"}

\* The process has heard of every revision it accepted; a version was frozen over all
\* revisions up to some point, and up to its delivery none is accepted after that; and
\* no phase but the final one is certified while a version is being closed.
VersionsSaw ==
  /\ attempt # "none" => \A m \in Revisions \cap Accepted(mem) : m <= known
  /\ \A v \in Frozen : \A r \in seen[v], m \in Revisions : m <= r => m \in seen[v]
  /\ closing.step \in InReview => SawEveryRevision(closing.version)
  /\ DeliveredSawEveryRevision
  /\ completing # NotCompleting => closing = NotClosing \/ closing.step = "begun"

LEMMA GreatestBounds ==
  ASSUME NEW S \in SUBSET Messages, NEW m \in S
  PROVE  m <= Greatest(S)
<1>1. \E k \in S : \A j \in S : j <= k
  BY GreatestCursor
<1> QED BY <1>1 DEF Greatest

\* How a version comes nearer to its delivery.
LEMMA ClosingSteps ==
  ASSUME ConversationTypeOK, VersionsSaw, [ConversationNext]_vars, ~EndAttempt,
         ~\E v \in Frozen : Freeze(v) \/ ReuseDelivery(v),
         ~\E ok \in BOOLEAN, m \in Messages : Poll(m, ok)
  PROVE  /\ UNCHANGED seen
         /\ closing'.step \in InReview => closing.step \in InReview /\ closing'.version = closing.version
         /\ closing'.step = "shipping" => \/ closing' = closing /\ manifest' = manifest
                                          \/ closing.step = "begun" /\ closing'.version = closing.version
         /\ completing' # NotCompleting => closing' = NotClosing \/ closing'.step = "begun"
         /\ known' = known \/ known' = AcceptedRevision \/ Learn
         /\ attempt' # "none" => attempt # "none" \/ known' = AcceptedRevision
<1> USE DEF ConversationTypeOK, records, versions, reports, InReview
<1>0. completing # NotCompleting => closing = NotClosing \/ closing.step = "begun"
  BY DEF VersionsSaw
<1>1. CASE StartAttempt
  BY <1>0, <1>1 DEF StartAttempt, Open, Prepare, TakeInputs, Recover
<1>2. CASE FlushReceived \/ FlushApplied \/ Send \/ GiveUpChat \/ Report
  BY <1>0, <1>2 DEF Report, FlushReceived, FlushApplied, Send, GiveUpChat, jvars
<1>3. CASE Learn \/ SendBack \/ Refused
  BY <1>0, <1>3 DEF Learn, SendBack, Refused, jvars, NotClosing
<1>4. CASE StoreVersion
  BY <1>0, <1>4 DEF StoreVersion, Write, NotClosing, Quiet, Ready
<1>5. CASE CertifyFinal
  BY <1>0, <1>5 DEF CertifyFinal, StartCompletion
<1>6. CASE \/ \E m \in Messages : Compose(m)
           \/ \E c \in Contents \cup {Missing} : AgentWrites(c)
           \/ \E n \in Phases : CompleteAuthoring(n)
  BY <1>0, <1>6 DEF Compose, AgentWrites, Write, CompleteAuthoring, StartCompletion, jvars
<1>7. ASSUME NEW ok \in BOOLEAN, NEW m \in Messages,
             Deliver(m, ok) \/ DeliverChat(m, ok) \/ ReconcileDelivery(m, ok)
      PROVE  UNCHANGED <<seen, closing, manifest, completing, known, attempt>>
  BY <1>7 DEF Deliver, DeliverChat, ReconcileDelivery, BeginDelivery, Reconcile
<1>8. ASSUME NEW ok \in BOOLEAN, Settle(ok) PROVE UNCHANGED <<seen, closing, manifest, completing, known, attempt>>
  BY <1>8 DEF Settle, Acknowledge, Reconcile
<1>9. ASSUME NEW ok \in BOOLEAN, NEW S \in SUBSET Chats, CompleteChats(S, ok)
      PROVE  UNCHANGED <<seen, closing, manifest, completing, known, attempt>>
  BY <1>9 DEF CompleteChats, MarkApplied
<1>10. ASSUME NEW ok \in BOOLEAN, TakeCheckpoint(ok) \/ \E n \in Phases : BeginAuthoring(n, ok)
       PROVE  UNCHANGED <<seen, closing, manifest, completing, known, attempt>>
  BY <1>10 DEF TakeCheckpoint, Checkpoint, BeginAuthoring, BeginPhase
<1>11. ASSUME NEW ok \in BOOLEAN, Validate(ok)
       PROVE  /\ UNCHANGED <<seen, manifest, completing, known, attempt>>
              /\ completing = NotCompleting /\ closing.step = "stored"
              /\ closing'.version = closing.version /\ closing'.step \in {"validated", "failed"}
  BY <1>11 DEF Validate, MarkApplied, jvars, Failing, Quiet, Ready, NotClosing
<1>12. ASSUME NEW ok \in BOOLEAN, InterruptPhase(ok)
       PROVE  /\ UNCHANGED <<seen, manifest, completing, known, attempt>>
              /\ completing = NotCompleting /\ (closing' = NotClosing \/ closing'.step = "failed")
  BY <1>12 DEF InterruptPhase, Interrupt, Failing, Quiet, Ready, NotClosing
<1>13. ASSUME NEW ok \in BOOLEAN, BeginFinal(ok)
       PROVE  /\ UNCHANGED <<seen, completing, known, attempt>>
              /\ completing = NotCompleting /\ closing.step = "validated"
              /\ closing'.version = closing.version /\ closing'.step \in {"begun", "failed"}
  BY <1>13 DEF BeginFinal, BeginPhase, Failing, Quiet, Ready, NotClosing
<1>14. ASSUME NEW ok \in BOOLEAN, Complete(ok)
       PROVE  /\ UNCHANGED <<seen, manifest, known, attempt>>
              /\ completing # NotCompleting
              /\ \/ closing' = NotClosing
                 \/ closing.step = "begun" /\ closing' = closing
                 \/ closing.step = "begun" /\ completing' = NotCompleting /\ closing'.version = closing.version
                    /\ closing'.step \in {"shipping", "failed"}
  <2>1. completing # NotCompleting
    BY <1>14 DEF Complete, CaptureCompletion, AbandonCompletion, FinishCompletion, NotCompleting
  <2>2. UNCHANGED <<seen, manifest, known, attempt>>
    BY <1>14 DEF Complete, CaptureCompletion, AbandonCompletion, FinishCompletion
  <2>3. CASE closing = NotClosing
    BY <1>14, <2>1, <2>2, <2>3 DEF Complete
  <2>4. CASE closing.step = "begun" /\ closing # NotClosing
    BY <1>14, <2>1, <2>2, <2>4 DEF Complete, CaptureCompletion, AbandonCompletion, FinishCompletion, Failing
  <2> QED BY <1>0, <2>1, <2>3, <2>4 DEF NotClosing
<1>15. CASE UNCHANGED vars
  BY <1>0, <1>15 DEF vars
<1>16. CASE UNCHANGED <<seen, closing, manifest, completing, known, attempt>>
  BY <1>0, <1>16
<1>17. CASE \E ok \in BOOLEAN : Validate(ok)
  BY <1>11, <1>17
<1>18. CASE \E ok \in BOOLEAN : InterruptPhase(ok)
  BY <1>12, <1>18 DEF NotClosing
<1>19. CASE \E ok \in BOOLEAN : BeginFinal(ok)
  BY <1>13, <1>19
<1>20. CASE \E ok \in BOOLEAN : Complete(ok)
  BY <1>14, <1>20 DEF NotClosing
<1> QED BY <1>1, <1>2, <1>3, <1>4, <1>5, <1>6, <1>7, <1>8, <1>9, <1>10, <1>15, <1>16, <1>17, <1>18, <1>19, <1>20
        DEF ConversationNext

LEMMA VersionsSawStep ==
  ASSUME ConversationTypeOK, AcceptedInOrder, VersionsSaw, [ConversationNext]_vars
  PROVE  VersionsSaw'
<1>0. /\ mem \in States /\ mem.cursor \in 0 .. NumMessages /\ known \in 0 .. NumMessages
      /\ seen \in [Frozen -> SUBSET Revisions] /\ Revisions \subseteq Messages /\ Messages \subseteq Nat
  <2>1. mem \in States /\ known \in 0 .. NumMessages /\ seen \in [Frozen -> SUBSET Revisions]
    BY DEF ConversationTypeOK, JournalTypeOK
  <2>2. mem.cursor \in 0 .. NumMessages
    BY <2>1 DEF States
  <2>3. Revisions \subseteq Messages /\ Messages \subseteq Nat
    BY DEF Messages
  <2> QED BY <2>1, <2>2, <2>3
<1>a. \A m \in Revisions \cap Accepted(mem) : m <= AcceptedRevision
  BY GreatestBounds DEF AcceptedRevision, Accepted
<1>b. AcceptedRevision \in 0 .. NumMessages
  BY GreatestType DEF AcceptedRevision, Accepted
<1>1. CASE EndAttempt
  <2>1. /\ attempt' = "none" /\ closing' = NotClosing /\ completing' = NotCompleting /\ UNCHANGED seen
    BY <1>1 DEF EndAttempt, Stop, versions
  <2> QED BY <2>1 DEF VersionsSaw, InReview, NotClosing, DeliveredSawEveryRevision
<1>2. ASSUME NEW ok \in BOOLEAN, NEW m \in Messages, Poll(m, ok) PROVE VersionsSaw'
  <2>1. /\ mem' = IF ok THEN Received(mem, m) ELSE mem
        /\ attempt = "ready" /\ completing = NotCompleting /\ completing' = completing /\ UNCHANGED seen
    BY <1>2 DEF Poll, AcceptMessage, Commit, Ready, versions
  <2>2. known' = IF ok /\ m \in Revisions /\ m > known THEN m ELSE known
    BY <1>2 DEF Poll
  <2>3. /\ closing' \in {closing, NotClosing} /\ closing'.step \notin {"shipping", "validated", "begun"}
        /\ closing'.step \in InReview /\ ok => m \notin Revisions
    BY <1>2, <2>1 DEF Poll, Public, Reviewing, Ready, NotClosing, InReview
  <2>4. Accepted(mem') = IF ok THEN Accepted(mem) \cup {m} ELSE Accepted(mem)
    <3>1. mem \in States
      BY <1>0
    <3>2. \A k \in Messages : Received(mem, m).inbox[k].state = IF k = m THEN "accepted" ELSE mem.inbox[k].state
      BY <3>1, ReceivedStates
    <3>3. Accepted(Received(mem, m)) = Accepted(mem) \cup {m}
      BY <3>2 DEF Accepted, In
    <3> QED BY <2>1, <3>3
  <2>5. \A k \in Revisions \cap Accepted(mem') : k <= known'
    BY <1>0, <2>1, <2>2, <2>4 DEF VersionsSaw
  <2>6. closing'.step \in InReview => Revisions \cap Accepted(mem') \subseteq seen'[closing'.version]
    BY <2>1, <2>3, <2>4 DEF VersionsSaw, SawEveryRevision, InReview, NotClosing
  <2> QED BY <2>1, <2>3, <2>5, <2>6 DEF VersionsSaw, SawEveryRevision, DeliveredSawEveryRevision
<1>3. ASSUME NEW v \in Frozen, Freeze(v) PROVE VersionsSaw'
  <2>1. /\ closing' = [version |-> v, step |-> "frozen"] /\ seen' = [seen EXCEPT ![v] = Revisions \cap Reached]
        /\ UNCHANGED <<mem, attempt, completing, known>> /\ completing = NotCompleting
        /\ Revisions \cap In(mem, Pending) = {}
    BY <1>3 DEF Freeze, Quiet, Ready, jvars
  <2>2. Revisions \cap Accepted(mem) = Revisions \cap Reached
    BY <1>0, <2>1 DEF Accepted, Reached, In, Settled, Pending, States, MessageStates
  <2>3. \A r \in Revisions \cap Reached, m \in Revisions : m <= r => m \in Revisions \cap Reached
    BY <1>0, <2>2 DEF AcceptedInOrder, Messages
  <2>4. seen'[v] = Revisions \cap Reached /\ \A w \in Frozen \ {v} : seen'[w] = seen[w]
    BY <1>0, <2>1
  <2>5. \A w \in Frozen : \A r \in seen'[w], m \in Revisions : m <= r => m \in seen'[w]
    BY <2>3, <2>4 DEF VersionsSaw
  <2>6. Revisions \cap Accepted(mem') \subseteq seen'[closing'.version]
    BY <2>1, <2>2, <2>4
  <2>7. attempt' # "none" => \A m \in Revisions \cap Accepted(mem') : m <= known'
    BY <2>1 DEF VersionsSaw
  <2> QED BY <2>1, <2>5, <2>6, <2>7 DEF VersionsSaw, SawEveryRevision, DeliveredSawEveryRevision
<1>4. ASSUME NEW v \in Frozen, ReuseDelivery(v) PROVE VersionsSaw'
  <2>1. /\ closing' = [version |-> v, step |-> "shipping"] /\ manifest[v] = known
        /\ UNCHANGED <<mem, attempt, completing, known, seen, manifest>> /\ completing = NotCompleting
        /\ attempt = "ready"
    BY <1>4 DEF ReuseDelivery, Cached, Quiet, Ready, jvars, records, versions
  <2>2. \A m \in Revisions \cap Accepted(mem) : m <= known
    BY <2>1 DEF VersionsSaw
  <2>3. ASSUME known \in seen[v] \cup {0} PROVE Revisions \cap Accepted(mem) \subseteq seen[v]
    <3>1. CASE known = 0
      <4>1. \A m \in Revisions : ~(m <= 0)
        BY DEF Messages
      <4> QED BY <2>2, <3>1, <4>1
    <3>2. CASE known \in seen[v]
      BY <2>2, <3>2 DEF VersionsSaw
    <3> QED BY <2>3, <3>1, <3>2
  <2>4. manifest'[v] \in seen'[v] \cup {0} => Revisions \cap Accepted(mem') \subseteq seen'[v]
    BY <2>1, <2>3
  <2> QED BY <2>1, <2>2, <2>4
          DEF VersionsSaw, InReview, SawEveryRevision, DeliveredSawEveryRevision, Overstated
<1>5. CASE /\ ~EndAttempt
           /\ ~\E v \in Frozen : Freeze(v) \/ ReuseDelivery(v)
           /\ ~\E ok \in BOOLEAN, m \in Messages : Poll(m, ok)
  <2>1. /\ UNCHANGED seen
        /\ closing'.step \in InReview => closing.step \in InReview /\ closing'.version = closing.version
        /\ closing'.step = "shipping" => \/ closing' = closing /\ manifest' = manifest
                                         \/ closing.step = "begun" /\ closing'.version = closing.version
        /\ completing' # NotCompleting => closing' = NotClosing \/ closing'.step = "begun"
        /\ known' = known \/ known' = AcceptedRevision \/ Learn
        /\ attempt' # "none" => attempt # "none" \/ known' = AcceptedRevision
    BY <1>5, ClosingSteps
  <2>2. Accepted(mem') = Accepted(mem)
    BY <1>5, OnlyPollAccepts DEF Steady, SameAccepted
  <2>3. known' \in 0 .. NumMessages
    BY TalkTypeStep DEF TalkType
  <2>4. attempt' # "none" => \A m \in Revisions \cap Accepted(mem') : m <= known'
    <3>1. Learn => known' > known
      BY DEF Learn
    <3> QED BY <1>0, <1>a, <1>b, <2>1, <2>2, <2>3, <3>1 DEF VersionsSaw
  <2>5. closing'.step \in InReview => Revisions \cap Accepted(mem') \subseteq seen'[closing'.version]
    BY <2>1, <2>2 DEF VersionsSaw, SawEveryRevision
  <2>6. closing'.step = "shipping" /\ manifest'[closing'.version] \in seen'[closing'.version] \cup {0}
          => Revisions \cap Accepted(mem') \subseteq seen'[closing'.version]
    BY <2>1, <2>2 DEF VersionsSaw, InReview, SawEveryRevision, DeliveredSawEveryRevision, Overstated
  <2> QED BY <2>1, <2>4, <2>5, <2>6 DEF VersionsSaw, SawEveryRevision, DeliveredSawEveryRevision, Overstated
<1> QED BY <1>1, <1>2, <1>3, <1>4, <1>5

LEMMA VersionsStaySaw == ConversationSpec => []VersionsSaw
<1>1. ConversationInit => VersionsSaw
  BY DEF ConversationInit, JournalInit, VersionsSaw, InReview, NotClosing, DeliveredSawEveryRevision
<1>2. ConversationTypeOK /\ AcceptedInOrder /\ VersionsSaw /\ [ConversationNext]_vars => VersionsSaw'
  BY VersionsSawStep
<1> QED BY <1>1, <1>2, ConversationTypeCorrect, AcceptedStaysInOrder, PTL DEF ConversationSpec

\* A deck goes out only if every revision accepted so far had reached the model when
\* it was frozen, unless its manifest names a revision it never saw (workflow.py, review
\* and reviewed_delivery; the exception is what the run "stale" finds).
THEOREM DeliveriesSawRevisions == ConversationSpec => []DeliveredSawEveryRevision
<1>1. VersionsSaw => DeliveredSawEveryRevision
  BY DEF VersionsSaw
<1> QED BY <1>1, VersionsStaySaw, PTL

(***************************************************************************)
(* What the two statements of a poll cost                                  *)
(***************************************************************************)

\* The process hears of a revision by accepting its row: no response names one that
\* it does not return.
HeardAsAccepted == [][~Learn]_vars

\* What the process publishes and certifies is then what it has accepted.
PublishesAccepted ==
  /\ mem.cursor <= disk.cursor
  /\ attempt # "none" => known = AcceptedRevision
  /\ reported <= AcceptedRevision
  /\ closing.step \in InReview => closing.version \in used
  /\ \A v \in Frozen \ used : manifest[v] = 0
  /\ \A v \in Frozen : ~Overstated(v)

\* Each record of the conversation is written by one operation.
LEMMA RecordWriters ==
  ASSUME [ConversationNext]_vars
  PROVE  /\ UNCHANGED reported \/ Report
         /\ UNCHANGED manifest \/ \E ok \in BOOLEAN : BeginFinal(ok)
         /\ UNCHANGED <<used, seen>> \/ \E v \in Frozen : Freeze(v)
<1> USE DEF vars, records, reports, versions, StartAttempt, EndAttempt, Send, GiveUpChat, FlushReceived,
      FlushApplied, Learn, SendBack, StoreVersion, CertifyFinal, Refused, AgentWrites, CompleteAuthoring,
      ReuseDelivery, Poll, Deliver, DeliverChat, ReconcileDelivery, CompleteChats, BeginAuthoring, Settle,
      TakeCheckpoint, InterruptPhase, Validate, Complete, Compose
<1>1. UNCHANGED reported \/ Report
  BY DEF ConversationNext, Freeze, BeginFinal
<1>2. UNCHANGED manifest \/ \E ok \in BOOLEAN : BeginFinal(ok)
  BY DEF ConversationNext, Freeze, Report
<1>3. UNCHANGED <<used, seen>> \/ \E v \in Frozen : Freeze(v)
  BY DEF ConversationNext, Report, BeginFinal
<1> QED BY <1>1, <1>2, <1>3

\* More accepted messages have no smaller latest revision.
LEMMA GreatestGrows ==
  ASSUME NEW S \in SUBSET Messages, NEW T \in SUBSET Messages, S \subseteq T
  PROVE  Greatest(S) <= Greatest(T)
<1>1. CASE S = {}
  BY <1>1, GreatestType DEF Greatest
<1>2. CASE S # {}
  <2>1. \E m \in S : \A k \in S : k <= m
    BY <1>2, GreatestCursor
  <2>2. Greatest(S) \in S
    BY <1>2, <2>1 DEF Greatest
  <2> QED BY <2>2, GreatestBounds
<1> QED BY <1>1, <1>2

\* The latest of some messages is one of them, and it is the one that bounds them.
LEMMA GreatestIs ==
  ASSUME NEW S \in SUBSET Messages
  PROVE  /\ Greatest(S) \in S \cup {0}
         /\ \A m \in S : (\A k \in S : k <= m) => Greatest(S) = m
<1>1. CASE S = {}
  BY <1>1 DEF Greatest
<1>2. CASE S # {}
  <2>1. \E m \in S : \A k \in S : k <= m
    BY <1>2, GreatestCursor
  <2>2. Greatest(S) \in S /\ \A k \in S : k <= Greatest(S)
    BY <1>2, <2>1 DEF Greatest
  <2>3. ASSUME NEW m \in S, \A k \in S : k <= m PROVE Greatest(S) = m
    <3>1. m <= Greatest(S) /\ Greatest(S) <= m
      BY <2>2, <2>3
    <3>2. Messages \subseteq Nat
      BY DEF Messages
    <3>3. m \in Nat
      BY <3>2
    <3>4. Greatest(S) \in Nat
      BY <2>2, <3>2
    <3> QED BY <3>1, <3>3, <3>4
  <2> QED BY <2>2, <2>3
<1> QED BY <1>1, <1>2

LEMMA PublishesAcceptedStep ==
  ASSUME ConversationTypeOK, MemoryIsDurable, ReceiptsAreDurable, AcceptedInOrder, VersionsSaw,
         PublishesAccepted, [ConversationNext]_vars, ~Learn
  PROVE  PublishesAccepted'
<1>0. /\ mem \in States /\ disk \in States /\ mem.cursor \in 0 .. NumMessages /\ disk.cursor \in 0 .. NumMessages
      /\ known \in 0 .. NumMessages /\ reported \in 0 .. NumMessages
      /\ manifest \in [Frozen -> 0 .. NumMessages] /\ seen \in [Frozen -> SUBSET Revisions] /\ used \subseteq Frozen
  <2>1. mem \in States /\ disk \in States
    BY DEF ConversationTypeOK, JournalTypeOK
  <2>2. mem.cursor \in 0 .. NumMessages /\ disk.cursor \in 0 .. NumMessages
    BY <2>1 DEF States
  <2> QED BY <2>1, <2>2 DEF ConversationTypeOK
<1>a. /\ AcceptedRevision \in 0 .. NumMessages
      /\ AcceptedRevision \in (Revisions \cap Accepted(mem)) \cup {0}
  BY GreatestType, GreatestIs DEF AcceptedRevision, Accepted
<1>1. CASE EndAttempt
  <2>1. /\ attempt' = "none" /\ closing' = NotClosing /\ disk' = disk /\ mem' = disk
        /\ UNCHANGED <<reported, manifest, used, seen>>
    BY <1>1 DEF EndAttempt, Stop, versions
  <2>2. Accepted(mem) \subseteq Accepted(disk)
    BY <1>0 DEF AcceptedInOrder, PublishesAccepted
  <2>3. AcceptedRevision <= AcceptedRevision' /\ AcceptedRevision' \in 0 .. NumMessages
    BY <2>1, <2>2, GreatestGrows, GreatestType DEF AcceptedRevision, Accepted
  <2>4. reported' <= AcceptedRevision'
    BY <1>0, <1>a, <2>1, <2>3 DEF PublishesAccepted
  <2>5. mem'.cursor <= disk'.cursor
    BY <1>0, <2>1
  <2> QED BY <2>1, <2>4, <2>5 DEF PublishesAccepted, Overstated, InReview, NotClosing
<1>2. ASSUME NEW ok \in BOOLEAN, NEW m \in Messages, Poll(m, ok) PROVE PublishesAccepted'
  <2>1. m = mem.cursor + 1 /\ mem = disk
    BY <1>2, PollNext
  <2>2. /\ disk' = Received(mem, m) /\ mem' = IF ok THEN Received(mem, m) ELSE mem
        /\ attempt = "ready" /\ closing' \in {closing, NotClosing}
        /\ known' = IF ok /\ m \in Revisions /\ m > known THEN m ELSE known
        /\ UNCHANGED <<reported, manifest, used, seen>>
    BY <1>2 DEF Poll, AcceptMessage, Commit, Ready, versions, reports
  <2>3. Received(mem, m).cursor = m
    BY <1>0 DEF Received, States
  <2>4. known = AcceptedRevision
    BY <2>2 DEF PublishesAccepted
  <2>5. AcceptedRevision' = IF ok /\ m \in Revisions THEN m ELSE AcceptedRevision
    <3>1. \A k \in Messages : Received(mem, m).inbox[k].state = IF k = m THEN "accepted" ELSE mem.inbox[k].state
      BY <1>0, ReceivedStates
    <3>2. Accepted(Received(mem, m)) = Accepted(mem) \cup {m}
      BY <3>1 DEF Accepted, In
    <3>3. CASE ok /\ m \in Revisions
      <4>1. Accepted(mem') \cap Revisions = (Accepted(mem) \cap Revisions) \cup {m}
        BY <2>2, <3>2, <3>3
      <4>2. \A k \in Accepted(mem) : k <= m
        BY <1>0, <2>1 DEF AcceptedInOrder
      <4>3. (Accepted(mem) \cap Revisions) \cup {m} \in SUBSET Messages
        BY DEF Accepted
      <4>4. Greatest((Accepted(mem) \cap Revisions) \cup {m}) = m
        BY <4>2, <4>3, GreatestIs DEF Messages
      <4> QED BY <3>3, <4>1, <4>4 DEF AcceptedRevision
    <3>4. CASE ~(ok /\ m \in Revisions)
      <4>1. Accepted(mem') \cap Revisions = Accepted(mem) \cap Revisions
        BY <2>2, <3>2, <3>4
      <4> QED BY <3>4, <4>1 DEF AcceptedRevision
    <3> QED BY <3>3, <3>4
  <2>6. AcceptedRevision < m
    <3>1. \A k \in Accepted(mem) : k < m
      BY <1>0, <2>1 DEF AcceptedInOrder
    <3> QED BY <1>a, <3>1 DEF Messages
  <2>7. known' = AcceptedRevision'
    BY <1>0, <1>a, <2>2, <2>4, <2>5, <2>6 DEF Messages
  <2>8. reported' <= AcceptedRevision'
    BY <1>0, <1>a, <2>2, <2>5, <2>6 DEF PublishesAccepted, Messages
  <2>9. mem'.cursor <= disk'.cursor
    BY <1>0, <2>1, <2>2, <2>3 DEF Messages
  <2>10. closing'.step \in InReview => closing'.version \in used'
    BY <2>2 DEF PublishesAccepted, InReview, NotClosing
  <2> QED BY <2>2, <2>7, <2>8, <2>9, <2>10 DEF PublishesAccepted, Overstated
<1>3. CASE ~EndAttempt /\ ~\E ok \in BOOLEAN, m \in Messages : Poll(m, ok)
  <2>1. Accepted(mem') = Accepted(mem) /\ mem'.cursor <= disk'.cursor
    BY <1>0, <1>3, OnlyPollAccepts DEF Steady, SameAccepted, PublishesAccepted
  <2>2. AcceptedRevision' = AcceptedRevision
    BY <2>1 DEF AcceptedRevision
  <2>3. CASE ~\E v \in Frozen : Freeze(v) \/ ReuseDelivery(v)
    <3>1. /\ closing'.step \in InReview => closing.step \in InReview /\ closing'.version = closing.version
          /\ known' = known \/ known' = AcceptedRevision
          /\ attempt' # "none" => attempt # "none" \/ known' = AcceptedRevision
      BY <1>3, <2>3, ClosingSteps
    <3>2. UNCHANGED <<used, seen>>
      BY <2>3, RecordWriters
    <3>3. reported' <= AcceptedRevision'
      <4>1. CASE UNCHANGED reported
        BY <2>2, <4>1 DEF PublishesAccepted
      <4>2. CASE Report
        BY <1>0, <2>2, <4>2 DEF PublishesAccepted, Report, Ready
      <4> QED BY <4>1, <4>2, RecordWriters
    <3>4. /\ \A v \in Frozen \ used : manifest'[v] = 0
          /\ \A v \in Frozen : manifest'[v] \in seen[v] \cup {0}
      <4>1. CASE UNCHANGED manifest
        BY <4>1 DEF PublishesAccepted, Overstated
      <4>2. ASSUME NEW ok \in BOOLEAN, BeginFinal(ok)
            PROVE  /\ \A v \in Frozen \ used : manifest'[v] = 0
                   /\ \A v \in Frozen : manifest'[v] \in seen[v] \cup {0}
        <5>1. /\ attempt = "ready" /\ closing.step = "validated"
              /\ manifest' = [manifest EXCEPT ![closing.version] = known]
          BY <4>2 DEF BeginFinal, Quiet, Ready
        <5>2. closing.version \in used /\ Revisions \cap Accepted(mem) \subseteq seen[closing.version]
          BY <5>1 DEF PublishesAccepted, VersionsSaw, SawEveryRevision, InReview
        <5>3. known \in seen[closing.version] \cup {0}
          BY <1>a, <5>1, <5>2 DEF PublishesAccepted
        <5>4. \A v \in Frozen : manifest'[v] = IF v = closing.version THEN known ELSE manifest[v]
          BY <1>0, <5>1
        <5> QED BY <5>2, <5>3, <5>4 DEF PublishesAccepted, Overstated
      <4> QED BY <4>1, <4>2, RecordWriters
    <3>5. attempt' # "none" => known' = AcceptedRevision'
      BY <2>2, <3>1 DEF PublishesAccepted
    <3>6. closing'.step \in InReview => closing'.version \in used'
      BY <3>1, <3>2 DEF PublishesAccepted
    <3> QED BY <2>1, <3>2, <3>3, <3>4, <3>5, <3>6 DEF PublishesAccepted, Overstated
  <2>4. ASSUME NEW v \in Frozen, Freeze(v) PROVE PublishesAccepted'
    <3>1. /\ closing' = [version |-> v, step |-> "frozen"] /\ used' = used \cup {v} /\ v \notin used
          /\ seen' = [seen EXCEPT ![v] = Revisions \cap Reached]
          /\ UNCHANGED <<attempt, known, reported, manifest>>
      BY <2>4 DEF Freeze, jvars, reports
    <3>2. manifest[v] = 0 /\ \A w \in Frozen \ {v} : seen'[w] = seen[w]
      BY <1>0, <3>1 DEF PublishesAccepted
    <3>3. \A w \in Frozen : manifest[w] \in seen'[w] \cup {0}
      BY <3>2 DEF PublishesAccepted, Overstated
    <3>4. \A w \in Frozen \ used' : manifest[w] = 0
      BY <3>1 DEF PublishesAccepted
    <3> QED BY <2>1, <2>2, <3>1, <3>3, <3>4 DEF PublishesAccepted, Overstated
  <2>5. ASSUME NEW v \in Frozen, ReuseDelivery(v) PROVE PublishesAccepted'
    <3>1. /\ closing'.step = "shipping"
          /\ UNCHANGED <<attempt, known, reported, manifest, used, seen>>
      BY <2>5 DEF ReuseDelivery, jvars, records, reports, versions
    <3> QED BY <2>1, <2>2, <3>1 DEF PublishesAccepted, Overstated, InReview
  <2> QED BY <2>3, <2>4, <2>5
<1> QED BY <1>1, <1>2, <1>3

LEMMA AcceptedIsPublished == ConversationSpec /\ HeardAsAccepted => [](PublishesAccepted /\ VersionsSaw)
<1>1. ConversationInit => PublishesAccepted
  <2> SUFFICES ASSUME ConversationInit PROVE PublishesAccepted
    OBVIOUS
  <2>1. /\ disk = Created /\ mem = Created /\ attempt = "none" /\ reported = 0 /\ closing = NotClosing
        /\ manifest = [v \in Frozen |-> 0]
    BY DEF ConversationInit, JournalInit
  <2>2. Created.cursor = 0 /\ AcceptedRevision \in 0 .. NumMessages
    BY GreatestType DEF Created, AcceptedRevision, Accepted
  <2> QED BY <2>1, <2>2 DEF PublishesAccepted, Overstated, InReview, NotClosing
<1>2. /\ ConversationTypeOK /\ MemoryIsDurable /\ ReceiptsAreDurable /\ AcceptedInOrder /\ VersionsSaw
      /\ PublishesAccepted /\ [ConversationNext]_vars /\ [~Learn]_vars
      => PublishesAccepted'
  <2> SUFFICES ASSUME ConversationTypeOK, MemoryIsDurable, ReceiptsAreDurable, AcceptedInOrder, VersionsSaw,
                      PublishesAccepted, [ConversationNext]_vars, [~Learn]_vars
               PROVE  PublishesAccepted'
    OBVIOUS
  <2>1. CASE ~Learn
    BY <2>1, PublishesAcceptedStep
  <2>2. CASE UNCHANGED vars
    BY <2>2 DEF vars, PublishesAccepted, AcceptedRevision, Accepted, In, Overstated
  <2> QED BY <2>1, <2>2
<1> QED BY <1>1, <1>2, JournalFacts, ReceiptsDurable, AcceptedStaysInOrder, VersionsStaySaw, PTL
        DEF ConversationSpec, HeardAsAccepted

\* Were a response to name no revision but those of its rows, a deck would go out only
\* when it has seen every accepted revision, also one that is reused: the torn poll is
\* all there is to the finding of the run "stale" (conversation.py poll, line 151).
THEOREM NoTornPollNoStaleDeck ==
  ConversationSpec /\ HeardAsAccepted => []StagesInvalidatedByInput
<1>1. ConversationTypeOK /\ PublishesAccepted /\ VersionsSaw => StagesInvalidatedByInput
  <2> SUFFICES ASSUME ConversationTypeOK, PublishesAccepted, VersionsSaw, closing.step = "shipping"
               PROVE  SawEveryRevision(closing.version)
    BY DEF StagesInvalidatedByInput
  <2>1. closing.version \in Frozen
    BY DEF ConversationTypeOK, NotClosing
  <2> QED BY <2>1 DEF PublishesAccepted, VersionsSaw, DeliveredSawEveryRevision
<1> QED BY <1>1, AcceptedIsPublished, ConversationTypeCorrect, PTL

\* Likewise every attempt could enter: no former one has published a revision that it
\* had not accepted (the finding of the run "refused").
THEOREM NoTornPollNoLockout ==
  ConversationSpec /\ HeardAsAccepted => []AttemptsCanEnter
<1>1. ConversationTypeOK /\ PublishesAccepted => AttemptsCanEnter
  <2> SUFFICES ASSUME ConversationTypeOK, PublishesAccepted, Ready PROVE known >= reported
    BY DEF AttemptsCanEnter, NotBehind
  <2>1. known = AcceptedRevision /\ reported <= AcceptedRevision
    BY DEF PublishesAccepted, Ready
  <2> QED BY <2>1 DEF ConversationTypeOK
<1> QED BY <1>1, AcceptedIsPublished, ConversationTypeCorrect, PTL

(***************************************************************************)
(* What is applied                                                         *)
(***************************************************************************)

\* A version that is under review and not written yet.
Unstored == IF closing.step = "frozen" THEN {closing.version} ELSE {}

\* Messages are applied in versions that are written, never in the deck itself.
NamesOnly(s, S) == \A m \in Messages : DOMAIN s.inbox[m].artifacts \subseteq S
Fits(s, tree) == \A m \in In(s, {"applied"}) : Matches(tree, s.inbox[m].artifacts)
Secured(s) == s.snapshot.taken \/ In(s, {"applied"}) = {}

AppliedInStored ==
  /\ \A s \in {disk, mem} : NamesOnly(s, used \ Unstored) /\ Secured(s)
  /\ closing.step \in {"frozen", "stored"} => closing.version \in used
  /\ attempt = "ready" => mem.snapshot.taken
  /\ attempt \in {"prepared", "ready"} => Fits(mem, files)

\* An event that applies nothing.
AppliesNothing(s, t) ==
  /\ \A m \in Messages : /\ t.inbox[m].artifacts = s.inbox[m].artifacts
                         /\ t.inbox[m].state = "applied" => s.inbox[m].state = "applied"
  /\ s.snapshot.taken => t.snapshot.taken

\* So are all events but MarkApplied's.
LEMMA MarkedArtifacts ==
  ASSUME NEW s \in States, NEW m \in Messages, NEW word \in Pending \cup {"acknowledged"}
  PROVE  AppliesNothing(s, Marked(s, m, word))
<1> DEFINE t == Marked(s, m, word)
<1>1. t.inbox = [s.inbox EXCEPT ![m].state = word] /\ t.snapshot = s.snapshot
  BY DEF Marked, States
<1>2. \A k \in Messages : s.inbox[k] \in [state : MessageStates, artifacts : Receipts]
  BY DEF States
<1>3. DOMAIN s.inbox = Messages
  BY DEF States
<1> HIDE DEF t
<1>4. \A k \in Messages : /\ t.inbox[k].artifacts = s.inbox[k].artifacts
                          /\ t.inbox[k].state = "applied" => s.inbox[k].state = "applied"
  BY <1>1, <1>2, <1>3 DEF Pending
<1>5. s.snapshot.taken => t.snapshot.taken
  BY <1>1
<1> QED BY <1>4, <1>5 DEF AppliesNothing, t

LEMMA ReceivedArtifacts ==
  ASSUME NEW s \in States, NEW m \in Messages
  PROVE  AppliesNothing(s, Received(s, m))
<1> DEFINE t == Received(s, m)
<1>1. t.inbox = [s.inbox EXCEPT ![m].state = "accepted"] /\ t.snapshot = s.snapshot
  BY DEF Received, States
<1>2. \A k \in Messages : s.inbox[k] \in [state : MessageStates, artifacts : Receipts]
  BY DEF States
<1>3. DOMAIN s.inbox = Messages
  BY DEF States
<1> HIDE DEF t
<1>4. \A k \in Messages : /\ t.inbox[k].artifacts = s.inbox[k].artifacts
                          /\ t.inbox[k].state = "applied" => s.inbox[k].state = "applied"
  BY <1>1, <1>2, <1>3
<1>5. s.snapshot.taken => t.snapshot.taken
  BY <1>1
<1> QED BY <1>4, <1>5 DEF AppliesNothing, t

LEMMA PhaseArtifacts ==
  ASSUME NEW s \in States, NEW t,
         \/ t = Interrupted(s) \/ t = Captured(s) \/ \E n \in Phases : t = Begun(s, n)
         \/ \E n, receipts : t = Completed(s, n, receipts)
  PROVE  AppliesNothing(s, t)
<1>1. t.inbox = s.inbox
  BY PhaseFields
<1>2. CASE t = Captured(s)
  <2>1. t.snapshot = [taken |-> TRUE, tree |-> files]
    BY <1>2 DEF Captured, States
  <2> QED BY <1>1, <2>1 DEF AppliesNothing
<1>3. CASE t = Interrupted(s) \/ \E n \in Phases : t = Begun(s, n)
  <2>1. t.snapshot = s.snapshot
    BY <1>3 DEF Interrupted, Begun, States
  <2> QED BY <1>1, <2>1 DEF AppliesNothing
<1>4. CASE \E n, receipts : t = Completed(s, n, receipts)
  <2>1. t.snapshot = s.snapshot
    BY <1>4 DEF Completed, States
  <2> QED BY <1>1, <2>1 DEF AppliesNothing
<1> QED BY <1>2, <1>3, <1>4

\* What a recovery leaves applied fits the files it restores.
LEMMA RecoveredArtifacts ==
  ASSUME NEW s \in States, NEW v \in Versions
  PROVE  AppliesNothing(s, RecoveredState(s, v)) /\ Fits(RecoveredState(s, v), s.snapshot.tree)
<1> DEFINE t == RecoveredState(s, v)
<1>1. t.inbox = [m \in Messages |-> RecoveredMessage(s, m)] /\ t.snapshot = s.snapshot
  BY RecoveredFields
<1>2. \A m \in Messages : s.inbox[m] \in [state : MessageStates, artifacts : Receipts]
  BY DEF States
<1>3. \A m \in Messages :
        /\ RecoveredMessage(s, m).artifacts = s.inbox[m].artifacts
        /\ RecoveredMessage(s, m).state = "applied" =>
             s.inbox[m].state = "applied" /\ Matches(s.snapshot.tree, s.inbox[m].artifacts)
  BY <1>2 DEF RecoveredMessage
<1> HIDE DEF t
<1>4. s.snapshot.taken => t.snapshot.taken
  BY <1>1
<1>5. \A m \in Messages : t.inbox[m] = RecoveredMessage(s, m)
  BY <1>1
<1>6. Fits(t, s.snapshot.tree)
  BY <1>3, <1>5 DEF Fits, In
<1>7. AppliesNothing(s, t)
  BY <1>3, <1>4, <1>5 DEF AppliesNothing
<1> QED BY <1>6, <1>7 DEF t

\* An event that applies nothing spoils nothing.
LEMMA NothingSpoiled ==
  ASSUME NEW s, NEW t, AppliesNothing(s, t)
  PROVE  /\ \A S : NamesOnly(s, S) => NamesOnly(t, S)
         /\ \A tree : Fits(s, tree) => Fits(t, tree)
         /\ Secured(s) => Secured(t)
<1>1. In(t, {"applied"}) \subseteq In(s, {"applied"})
  BY DEF AppliesNothing, In
<1>2. \A m \in Messages : t.inbox[m].artifacts = s.inbox[m].artifacts
  BY DEF AppliesNothing
<1>3. s.snapshot.taken => t.snapshot.taken
  BY DEF AppliesNothing
<1>4. \A S : NamesOnly(s, S) => NamesOnly(t, S)
  BY <1>2 DEF NamesOnly
<1>5. \A tree : Fits(s, tree) => Fits(t, tree)
  BY <1>1, <1>2 DEF Fits, In
<1>6. Secured(s) => Secured(t)
  BY <1>1, <1>3 DEF Secured
<1> QED BY <1>4, <1>5, <1>6

\* The versions that are written are never taken back.
StoredGrow ==
  /\ used \ Unstored \subseteq used' \ Unstored'
  /\ closing'.step \in {"frozen", "stored"} => closing'.version \in used'

LEMMA VersionsGrow ==
  ASSUME ConversationTypeOK, AppliedInStored, [ConversationNext]_vars
  PROVE  StoredGrow
<1> USE DEF ConversationTypeOK, Unstored, StoredGrow, AppliedInStored
<1>1. ASSUME UNCHANGED used, \/ UNCHANGED closing \/ closing'.step \notin {"frozen", "stored"}
      PROVE  StoredGrow
  BY <1>1
<1>2. CASE StoreVersion
  BY <1>2 DEF StoreVersion, records, versions
<1>3. CASE \E v \in Frozen : Freeze(v)
  BY <1>3 DEF Freeze, NotClosing
<1>4. \/ UNCHANGED <<used, closing>> \/ (UNCHANGED used /\ closing'.step \notin {"frozen", "stored"})
      \/ StoreVersion \/ \E v \in Frozen : Freeze(v)
  BY DEF ConversationNext, vars, StartAttempt, EndAttempt, Send, GiveUpChat, Learn, SendBack, Report,
     CertifyFinal, Refused, AgentWrites, CompleteAuthoring, ReuseDelivery, Poll, Compose, FlushReceived,
     FlushApplied, Deliver, DeliverChat, ReconcileDelivery, CompleteChats, BeginAuthoring, Settle,
     TakeCheckpoint, InterruptPhase, Validate, BeginFinal, Complete, records, versions, NotClosing, Failing
<1> QED BY <1>1, <1>2, <1>3, <1>4

LEMMA AppliedInStoredStep ==
  ASSUME ConversationTypeOK, AppliedInStored, [ConversationNext]_vars
  PROVE  AppliedInStored'
<1> DEFINE Old == used \ Unstored
           New == used' \ Unstored'
<1>0. /\ mem \in States /\ disk \in States /\ Old \subseteq New /\ files \in Trees
      /\ closing'.step \in {"frozen", "stored"} => closing'.version \in used'
  BY VersionsGrow DEF ConversationTypeOK, JournalTypeOK, StoredGrow
<1>1. /\ NamesOnly(mem, Old) /\ NamesOnly(disk, Old) /\ Secured(mem) /\ Secured(disk)
      /\ attempt = "ready" => mem.snapshot.taken
      /\ attempt \in {"prepared", "ready"} => Fits(mem, files)
  BY DEF AppliedInStored
<1>n. \A s : NamesOnly(s, Old) => NamesOnly(s, New)
  BY <1>0 DEF NamesOnly
<1> HIDE DEF Old, New
<1>q. ASSUME \A s \in {disk', mem'} : NamesOnly(s, New) /\ Secured(s),
             attempt' = "ready" => mem'.snapshot.taken,
             attempt' \in {"prepared", "ready"} => Fits(mem', files')
      PROVE  AppliedInStored'
  BY <1>0, <1>q DEF AppliedInStored, New
<1>a. ASSUME NEW t, NEW ok, Commit(t, ok), AppliesNothing(mem, t), UNCHANGED files,
             UNCHANGED attempt \/ (attempt = "prepared" /\ t.snapshot.taken /\ (attempt' = "ready" => ok))
      PROVE  AppliedInStored'
  <2>1. NamesOnly(t, New) /\ Secured(t) /\ \A tree : Fits(mem, tree) => Fits(t, tree)
    BY <1>1, <1>a, <1>n, NothingSpoiled
  <2>2. disk' = t /\ mem' \in {t, mem} /\ (ok => mem' = t)
    BY <1>a DEF Commit
  <2>3. mem.snapshot.taken => t.snapshot.taken
    BY <1>a DEF AppliesNothing
  <2>4. attempt' = "ready" => mem'.snapshot.taken
    BY <1>1, <1>a, <2>2, <2>3
  <2>5. attempt' \in {"prepared", "ready"} => attempt \in {"prepared", "ready"}
    BY <1>a
  <2>6. attempt' \in {"prepared", "ready"} => Fits(mem', files')
    BY <1>1, <1>a, <2>1, <2>2, <2>5
  <2> QED BY <1>1, <1>n, <1>q, <2>1, <2>2, <2>4, <2>6
<1>b. ASSUME UNCHANGED <<disk, mem, attempt>>, \A p \in Old : files'[p] = files[p] PROVE AppliedInStored'
  <2>1. Fits(mem, files) => Fits(mem, files')
    BY <1>1, <1>b DEF Fits, Matches, NamesOnly, In
  <2> QED BY <1>1, <1>b, <1>n, <1>q, <2>1
<1>c. ASSUME UNCHANGED <<disk, mem, attempt, files>> PROVE AppliedInStored'
  BY <1>b, <1>c
<1>d. ASSUME NEW S \in SUBSET Messages, NEW receipts, NEW ok, MarkApplied(S, receipts, ok), UNCHANGED files,
             DOMAIN receipts \subseteq New, Matches(files, receipts)
      PROVE  AppliedInStored'
  <2> DEFINE t == Advanced(Applying(mem, S, receipts))
  <2>1. /\ t.inbox = [m \in Messages |-> IF m \in S THEN [state |-> "applied", artifacts |-> receipts]
                                                  ELSE mem.inbox[m]]
        /\ t.snapshot = mem.snapshot
    BY <1>0 DEF Advanced, Applying, States
  <2>2. disk' = t /\ mem' \in {t, mem} /\ attempt = "ready" /\ attempt' = attempt
    BY <1>d DEF MarkApplied, Commit, Ready
  <2> HIDE DEF t
  <2>3. NamesOnly(t, New)
    BY <1>1, <1>d, <1>n, <2>1 DEF NamesOnly
  <2>4. t.snapshot.taken /\ mem.snapshot.taken
    BY <1>1, <2>1, <2>2
  <2>5. Secured(t)
    BY <2>4 DEF Secured
  <2>6. Fits(t, files)
    BY <1>1, <1>d, <2>1, <2>2 DEF Fits, In
  <2>7. mem'.snapshot.taken
    BY <2>2, <2>4
  <2> QED BY <1>1, <1>d, <1>n, <1>q, <2>2, <2>3, <2>5, <2>6, <2>7
<1>2. CASE StartAttempt
  <2>1. CASE Open
    BY <1>1, <1>n, <1>q, <2>1 DEF Open
  <2>2. CASE Prepare
    <3>1. Fits(mem, files)
      BY <1>1, <2>2 DEF Prepare, Secured, Fits
    <3> QED BY <1>1, <1>n, <1>q, <2>2, <3>1 DEF Prepare
  <2>3. ASSUME NEW ok \in BOOLEAN, TakeInputs(ok) PROVE AppliedInStored'
    <3>1. Captured(mem).snapshot = [taken |-> TRUE, tree |-> files]
      BY <1>0 DEF Captured, States
    <3>2. Captured(mem).snapshot.taken
      BY <3>1
    <3>3. AppliesNothing(mem, Captured(mem))
      BY <1>0, PhaseArtifacts
    <3> QED BY <1>a, <2>3, <3>2, <3>3 DEF TakeInputs
  <2>4. ASSUME NEW ok \in BOOLEAN, NEW v \in Versions, Recover(v, ok) PROVE AppliedInStored'
    <3> DEFINE t == RecoveredState(mem, v)
    <3>1. AppliesNothing(mem, t) /\ Fits(t, mem.snapshot.tree)
      BY <1>0, RecoveredArtifacts
    <3>2. /\ Commit(t, ok) /\ attempt = "opened"
          /\ IF ok THEN attempt' = "prepared" /\ files' = mem.snapshot.tree ELSE attempt' = "opened"
      BY <2>4 DEF Recover
    <3> HIDE DEF t
    <3>3. NamesOnly(t, New) /\ Secured(t)
      BY <1>1, <1>n, <3>1, NothingSpoiled
    <3>4. disk' = t /\ mem' \in {t, mem} /\ (ok => mem' = t)
      BY <3>2 DEF Commit
    <3> QED BY <1>1, <1>n, <1>q, <3>1, <3>2, <3>3, <3>4
  <2> QED BY <1>2, <2>1, <2>2, <2>3, <2>4 DEF StartAttempt
<1>3. CASE EndAttempt
  BY <1>1, <1>3, <1>n, <1>q DEF EndAttempt, Stop
<1>4. CASE FlushReceived \/ FlushApplied \/ Send \/ GiveUpChat \/ Learn \/ SendBack \/ Refused \/ Report \/ CertifyFinal
  BY <1>4, <1>c DEF Report, FlushReceived, FlushApplied, Send, GiveUpChat, Learn, SendBack,
     Refused, CertifyFinal, StartCompletion, jvars
<1>5. CASE \/ \E m \in Messages : Compose(m)
           \/ \E n \in Phases : CompleteAuthoring(n)
           \/ \E v \in Frozen : Freeze(v) \/ ReuseDelivery(v)
  BY <1>5, <1>c DEF Compose, CompleteAuthoring, StartCompletion, Freeze, ReuseDelivery, jvars
<1>6. CASE StoreVersion
  <2>1. closing.version \notin Old /\ files' = [files EXCEPT ![closing.version] = files[Deck]]
    BY <1>6 DEF StoreVersion, Write, Old, Unstored
  <2>2. \A p \in Old : files'[p] = files[p]
    BY <1>0, <2>1 DEF Trees
  <2> QED BY <1>6, <1>b, <2>2 DEF StoreVersion, Write
<1>7. ASSUME NEW c, AgentWrites(c) PROVE AppliedInStored'
  <2>1. Deck \notin Old
    BY DEF ConversationTypeOK, Old
  <2>2. \A p \in Old : files'[p] = files[p]
    BY <1>0, <1>7, <2>1 DEF AgentWrites, Write, Trees
  <2> QED BY <1>7, <1>b, <2>2 DEF AgentWrites, Write
<1>8. ASSUME NEW ok \in BOOLEAN, NEW m \in Messages,
             Poll(m, ok) \/ Deliver(m, ok) \/ DeliverChat(m, ok) \/ ReconcileDelivery(m, ok)
      PROVE  AppliedInStored'
  <2>1. CASE Poll(m, ok)
    BY <1>0, <1>a, <2>1, ReceivedArtifacts DEF Poll, AcceptMessage
  <2>2. CASE Deliver(m, ok) \/ DeliverChat(m, ok)
    BY <1>0, <1>a, <2>2, MarkedArtifacts DEF Deliver, DeliverChat, BeginDelivery, Pending
  <2>3. CASE ReconcileDelivery(m, ok)
    BY <1>0, <1>a, <2>3, MarkedArtifacts DEF ReconcileDelivery, Reconcile, After, Pending
  <2> QED BY <1>8, <2>1, <2>2, <2>3
<1>9. ASSUME NEW ok \in BOOLEAN, Settle(ok) PROVE AppliedInStored'
  <2>1. flight.message \in Messages
    BY <1>9 DEF Settle, NoFlight, ConversationTypeOK
  <2> QED BY <1>0, <1>9, <1>a, <2>1, MarkedArtifacts DEF Settle, Acknowledge, Reconcile, After, Pending
<1>10. ASSUME NEW ok \in BOOLEAN, NEW S \in SUBSET Chats, CompleteChats(S, ok) PROVE AppliedInStored'
  <2>1. DOMAIN NoReceipt = {} /\ Matches(files, NoReceipt) /\ S \in SUBSET Messages
    BY DEF NoReceipt, Matches, Chats
  <2> QED BY <1>10, <1>d, <2>1 DEF CompleteChats
<1>11. ASSUME NEW ok \in BOOLEAN, Validate(ok) PROVE AppliedInStored'
  <2> DEFINE S == Revisions \cap In(mem, {"acknowledged"})
             receipts == Receipt(files, {closing.version})
  <2>1. CASE S = {}
    BY <1>11, <1>c, <2>1 DEF Validate, jvars
  <2>2. CASE S # {}
    <3>1. MarkApplied(S, receipts, ok) /\ UNCHANGED files
      BY <1>11, <2>2 DEF Validate
    <3>2. closing.step = "stored" /\ closing'.step \notin {"frozen", "stored"} /\ used' = used
      BY <1>11 DEF Validate, Failing, ConversationTypeOK, records, versions, NotClosing
    <3>3. closing.version \in New
      BY <3>2 DEF AppliedInStored, New, Unstored
    <3>4. DOMAIN receipts \subseteq New /\ Matches(files, receipts)
      BY <3>3 DEF Receipt, Matches
    <3>5. S \in SUBSET Messages
      BY DEF In
    <3> HIDE DEF S, receipts
    <3> QED BY <1>d, <3>1, <3>4, <3>5
  <2> QED BY <2>1, <2>2
<1>12. ASSUME NEW ok \in BOOLEAN, NEW n \in Phases, BeginPhase(n, ok) PROVE AppliedInStored'
  BY <1>0, <1>12, <1>a, PhaseArtifacts DEF BeginPhase
<1>13. ASSUME NEW ok \in BOOLEAN,
              TakeCheckpoint(ok) \/ InterruptPhase(ok) \/ BeginFinal(ok) \/ \E n \in Phases : BeginAuthoring(n, ok)
       PROVE  AppliedInStored'
  <2>1. CASE TakeCheckpoint(ok)
    BY <1>0, <1>a, <2>1, PhaseArtifacts DEF TakeCheckpoint, Checkpoint
  <2>2. CASE InterruptPhase(ok)
    BY <1>0, <1>a, <2>2, PhaseArtifacts DEF InterruptPhase, Interrupt
  <2>3. CASE BeginFinal(ok) \/ \E n \in Phases : BeginAuthoring(n, ok)
    BY <1>12, <2>3 DEF BeginFinal, BeginAuthoring
  <2> QED BY <1>13, <2>1, <2>2, <2>3
<1>14. ASSUME NEW ok \in BOOLEAN, Complete(ok) PROVE AppliedInStored'
  <2>1. CASE CaptureCompletion(ok)
    BY <1>0, <1>a, <2>1, PhaseArtifacts DEF CaptureCompletion
  <2>2. CASE FinishCompletion(ok)
    BY <1>0, <1>a, <2>2, PhaseArtifacts DEF FinishCompletion
  <2>3. CASE AbandonCompletion
    BY <1>c, <2>3 DEF AbandonCompletion
  <2> QED BY <1>14, <2>1, <2>2, <2>3 DEF Complete
<1>15. CASE UNCHANGED vars
  BY <1>15, <1>c DEF vars
<1> QED BY <1>2, <1>3, <1>4, <1>5, <1>6, <1>7, <1>8, <1>9, <1>10, <1>11, <1>13, <1>14, <1>15
        DEF ConversationNext

\* The files in which a message was applied are in the workspace of every attempt,
\* also after a restart from an older checkpoint (journal.py, recover).
THEOREM AppliedFilesStay == ConversationSpec => []AppliedFilesKept
<1>1. ConversationInit => AppliedInStored
  <2> SUFFICES ASSUME ConversationInit PROVE AppliedInStored
    OBVIOUS
  <2>1. disk = Created /\ mem = Created /\ attempt = "none" /\ closing = NotClosing
    BY DEF ConversationInit, JournalInit
  <2>2. /\ \A m \in Messages : Created.inbox[m] = NoMessage
        /\ DOMAIN NoReceipt = {} /\ NoMessage.artifacts = NoReceipt /\ NoMessage.state = "absent"
    BY DEF Created, NoMessage, NoReceipt
  <2>3. NamesOnly(Created, used \ Unstored)
    BY <2>2 DEF NamesOnly
  <2>4. Secured(Created)
    BY <2>2 DEF Secured, In
  <2> QED BY <2>1, <2>3, <2>4 DEF AppliedInStored, NotClosing
<1>2. ConversationTypeOK /\ AppliedInStored /\ [ConversationNext]_vars => AppliedInStored'
  BY AppliedInStoredStep
<1>3. AppliedInStored => AppliedFilesKept
  BY DEF AppliedInStored, AppliedFilesKept, Fits
<1> QED BY <1>1, <1>2, <1>3, ConversationTypeCorrect, PTL DEF ConversationSpec
=============================================================================
