--------------------------- MODULE MailboxProofs ---------------------------
(***************************************************************************)
(* The conversation implements Mailbox: for any number of messages and any *)
(* crashes, lost answers and refusals, the model hears each message at     *)
(* most once and in the owner's order, and only heard ones are confirmed.  *)
(***************************************************************************)
EXTENDS ConversationProofs

USE JournalAssumption, ConversationAssumption DEF JournalAssumption, ConversationAssumption

(***************************************************************************)
(* The invariant.  It speaks of the state on disk as well as of the open   *)
(* one, for a restart goes on from the former.                             *)
(***************************************************************************)

\* In s, whatever may still be sent comes after the messages H that were heard
\* and after the one in flight, which is recorded as being delivered.
Ordered(s, H, f) ==
  /\ \A m \in In(s, {"accepted"}) : \A h \in H : h < m
  /\ H \cap In(s, {"absent"}) = {}
  /\ f # NoFlight =>
       /\ s.inbox[f.message].state = "delivering"
       /\ \A m \in In(s, {"accepted"}) : f.message < m

\* The answer tells whether the message in flight was heard.
FlightHonest(H, f) ==
  /\ f.answer \in {"unsent", "refused"} => \A h \in H : h < f.message
  /\ f.answer = "receipt" => f.message \in H

\* A version is under review only while the model has every revision.
ReviewSettled(c, s) == c.step \in {"frozen", "stored"} => Undelivered(s) = {}

Orderly ==
  /\ Ordered(disk, Heard, flight) /\ Ordered(mem, Heard, flight)
  /\ FlightHonest(Heard, flight)
  /\ ReviewSettled(closing, mem)
  /\ attempt # "ready" => flight = NoFlight

Sending == [message : Messages, answer : {"unsent", "receipt", "refused", "lost"}]

(***************************************************************************)
(* How events change the inbox                                             *)
(***************************************************************************)

LEMMA FollowsKeeps ==
  ASSUME NEW s, NEW t, Follows(s, t), NEW H, NEW f \in Sending \cup {NoFlight}, NEW g \in {f, NoFlight},
         Ordered(s, H, f)
  PROVE  Ordered(t, H, g)
<1>1. In(t, {"accepted"}) = In(s, {"accepted"}) /\ In(t, {"absent"}) = In(s, {"absent"})
  BY DEF Follows, In, Settled
<1>2. CASE g # NoFlight
  <2>1. g = f /\ f.message \in Messages
    BY <1>2 DEF Sending
  <2>2. t.inbox[f.message].state = "delivering"
    BY <1>2, <2>1 DEF Follows, Settled, Ordered
  <2> QED BY <1>1, <1>2, <2>1, <2>2 DEF Ordered
<1> QED BY <1>1, <1>2 DEF Ordered

LEMMA FollowsSettles ==
  ASSUME NEW s, NEW t, Follows(s, t)
  PROVE  In(t, Settled) = In(s, Settled) /\ Undelivered(t) = Undelivered(s)
BY DEF Follows, In, Settled, Undelivered, Pending

LEMMA SameFollows == ASSUME NEW s, NEW t, t.inbox = s.inbox PROVE Follows(s, t)
BY DEF Follows

(***************************************************************************)
(* Kinds of steps                                                          *)
(***************************************************************************)

\* Nothing is sent, and no message changes its place in the journal, except
\* that a restart goes back to the state on disk.
Calm ==
  /\ UNCHANGED thread
  /\ flight' \in {flight, NoFlight}
  /\ Follows(disk, disk')
  /\ Follows(mem, mem') \/ Follows(disk, mem')
  /\ closing'.step \in {"frozen", "stored"} =>
       \/ closing.step \in {"frozen", "stored"} /\ Follows(mem, mem')
       \/ Undelivered(mem') = {}
  /\ attempt = "ready" /\ attempt' # "ready" => flight' = NoFlight

LEMMA CommitFollows ==
  ASSUME MemoryIsDurable, NEW t, NEW ok, Commit(t, ok), Follows(mem, t)
  PROVE  Follows(disk, disk') /\ Follows(mem, mem')
BY DEF MemoryIsDurable, Commit, Follows

\* Each step is calm or one of those that move messages.
LEMMA StepKinds ==
  ASSUME ConversationTypeOK, MemoryIsDurable, [ConversationNext]_vars
  PROVE  \/ Calm
         \/ Send
         \/ \E ok \in BOOLEAN :
              \/ Settle(ok)
              \/ \E v \in Versions : Recover(v, ok) /\ UNCHANGED <<thread, flight, closing>>
              \/ \E m \in Messages : Poll(m, ok) \/ Deliver(m, ok) \/ DeliverChat(m, ok) \/ ReconcileDelivery(m, ok)
<1> USE DEF ConversationTypeOK
<1>0. mem \in States /\ disk \in States
  BY DEF JournalTypeOK
<1>a. Follows(mem, mem) /\ Follows(disk, disk)
  BY DEF Follows
<1>1. CASE StartAttempt
  <2>1. CASE Open \/ Prepare
    BY <1>1, <1>a, <2>1 DEF StartAttempt, Open, Prepare, Calm
  <2>2. ASSUME NEW ok \in BOOLEAN, TakeInputs(ok) PROVE Calm
    <3>1. Follows(mem, Captured(mem))
      BY <1>0, PhaseFields, SameFollows
    <3>2. Follows(disk, disk') /\ Follows(mem, mem')
      BY <2>2, <3>1, CommitFollows DEF TakeInputs
    <3> QED BY <1>1, <2>2, <3>2 DEF StartAttempt, TakeInputs, Calm
  <2> QED BY <1>1, <2>1, <2>2 DEF StartAttempt
<1>2. CASE EndAttempt
  BY <1>2, <1>a DEF EndAttempt, Stop, Calm, NotClosing
<1>3. CASE FlushReceived \/ FlushApplied \/ GiveUpChat \/ Learn \/ SendBack \/ Refused \/ Report
  BY <1>3, <1>a DEF Report, FlushReceived, FlushApplied, GiveUpChat, Learn, SendBack, Refused, jvars, Calm, NotClosing
<1>4. CASE StoreVersion \/ CertifyFinal
  BY <1>4, <1>a DEF StoreVersion, CertifyFinal, Write, StartCompletion, Calm
<1>5. ASSUME NEW m \in Messages, Compose(m) PROVE Calm
  BY <1>5, <1>a DEF Compose, jvars, Calm
<1>6. ASSUME NEW c, AgentWrites(c) PROVE Calm
  BY <1>6, <1>a DEF AgentWrites, Write, Calm
<1>7. ASSUME NEW n, CompleteAuthoring(n) PROVE Calm
  BY <1>7, <1>a DEF CompleteAuthoring, StartCompletion, Calm
<1>8. ASSUME NEW v, Freeze(v) \/ ReuseDelivery(v) PROVE Calm
  BY <1>8, <1>a DEF Freeze, ReuseDelivery, jvars, Calm, Undelivered
<1>9. ASSUME NEW ok \in BOOLEAN, NEW S \in SUBSET Chats, CompleteChats(S, ok) PROVE Calm
  <2>1. Follows(mem, Advanced(Applying(mem, S, NoReceipt)))
    BY <1>0, <1>9, AppliedFollows DEF CompleteChats, MarkApplied
  <2>2. Follows(disk, disk') /\ Follows(mem, mem')
    BY <1>9, <2>1, CommitFollows DEF CompleteChats, MarkApplied
  <2> QED BY <1>9, <2>2 DEF CompleteChats, MarkApplied, Calm
<1>10. ASSUME NEW ok \in BOOLEAN, NEW t, Commit(t, ok), UNCHANGED attempt, UNCHANGED thread, UNCHANGED flight,
              \/ t = Interrupted(mem) \/ t = Captured(mem) \/ \E n \in Phases : t = Begun(mem, n)
              \/ \E n, receipts : t = Completed(mem, n, receipts),
              closing'.step \in {"frozen", "stored"} => closing' = closing
       PROVE  Calm
  <2>1. Follows(disk, disk') /\ Follows(mem, mem')
    BY <1>0, <1>10, PhaseFields, SameFollows, CommitFollows
  <2> QED BY <1>10, <2>1 DEF Calm
<1>11. ASSUME NEW ok \in BOOLEAN, NEW n \in Phases, BeginAuthoring(n, ok) PROVE Calm
  BY <1>10, <1>11 DEF BeginAuthoring, BeginPhase
<1>12. ASSUME NEW ok \in BOOLEAN, TakeCheckpoint(ok) \/ InterruptPhase(ok) \/ BeginFinal(ok) PROVE Calm
  BY <1>10, <1>12 DEF TakeCheckpoint, Checkpoint, InterruptPhase, Interrupt, BeginFinal, BeginPhase, NotClosing,
     Failing
<1>13. ASSUME NEW ok \in BOOLEAN, Complete(ok) PROVE Calm
  <2>1. CASE CaptureCompletion(ok)
    BY <1>10, <1>13, <2>1 DEF Complete, CaptureCompletion, Failing
  <2>2. CASE FinishCompletion(ok)
    BY <1>10, <1>13, <2>2 DEF Complete, FinishCompletion, Failing
  <2>3. CASE AbandonCompletion
    BY <1>13, <1>a, <2>3 DEF Complete, AbandonCompletion, Failing, Calm
  <2> QED BY <1>13, <2>1, <2>2, <2>3 DEF Complete
<1>14. ASSUME NEW ok \in BOOLEAN, Validate(ok) PROVE Calm
  <2> DEFINE S == Revisions \cap In(mem, {"acknowledged"})
             receipts == Receipt(files, {closing.version})
  <2>1. closing'.step \notin {"frozen", "stored"}
    BY <1>14 DEF Validate, Failing
  <2>2. Follows(disk, disk') /\ Follows(mem, mem') /\ UNCHANGED attempt
    <3>1. CASE S = {}
      BY <1>14, <1>a, <3>1 DEF Validate, jvars
    <3>2. CASE S # {}
      <4>1. MarkApplied(S, receipts, ok)
        BY <1>14, <3>2 DEF Validate
      <4>2. S \in SUBSET In(mem, Settled)
        BY DEF In, Settled
      <4> HIDE DEF S, receipts
      <4>3. Follows(mem, Advanced(Applying(mem, S, receipts)))
        BY <1>0, <4>2, AppliedFollows
      <4> QED BY <4>1, <4>3, CommitFollows DEF MarkApplied
    <3> QED BY <3>1, <3>2
  <2> QED BY <1>14, <2>1, <2>2 DEF Validate, Calm
<1>15. CASE UNCHANGED vars
  BY <1>15, <1>a DEF vars, Calm
<1> QED BY <1>1, <1>2, <1>3, <1>4, <1>5, <1>6, <1>7, <1>8, <1>9, <1>11, <1>12, <1>13, <1>14, <1>15
        DEF ConversationNext, StartAttempt

(***************************************************************************)
(* The invariant is kept                                                   *)
(***************************************************************************)

\* A message that becomes accepted, or is marked as sent, leaves an ordered
\* state ordered, if nothing at or after it was heard or is in flight.
LEMMA MarkedOrdered ==
  ASSUME NEW s \in States, NEW H \in SUBSET Messages, Ordered(s, H, NoFlight), NEW m \in Messages,
         NEW word \in Pending \cup {"acknowledged"},
         word = "accepted" => \A h \in H : h < m
  PROVE  Ordered(Marked(s, m, word), H, NoFlight)
<1>1. In(Marked(s, m, word), {"accepted"}) \subseteq In(s, {"accepted"}) \cup (IF word = "accepted" THEN {m} ELSE {})
  BY MarkedStates DEF In
<1>2. In(Marked(s, m, word), {"absent"}) \subseteq In(s, {"absent"})
  BY MarkedStates DEF In, Pending
<1> QED BY <1>1, <1>2 DEF Ordered

LEMMA SentOrdered ==
  ASSUME NEW s \in States, NEW H \in SUBSET Messages, Ordered(s, H, NoFlight), NEW m \in In(s, {"accepted"}),
         \A k \in In(s, {"accepted"}) : m <= k
  PROVE  Ordered(Marked(s, m, "delivering"), H, [message |-> m, answer |-> "unsent"])
<1>1. m \in Messages
  BY DEF In
<1>2. Marked(s, m, "delivering").inbox[m].state = "delivering"
  BY <1>1, MarkedStates
<1>3. In(Marked(s, m, "delivering"), {"accepted"}) = In(s, {"accepted"}) \ {m}
  BY <1>1, MarkedStates DEF In
<1>4. In(Marked(s, m, "delivering"), {"absent"}) \subseteq In(s, {"absent"})
  BY <1>1, MarkedStates DEF In
<1>5. \A k \in In(s, {"accepted"}) \ {m} : m < k
  BY <1>1 DEF In, Messages
<1> QED BY <1>2, <1>3, <1>4, <1>5 DEF Ordered

LEMMA ReceivedOrdered ==
  ASSUME NEW s \in States, Sound(s), NEW H \in SUBSET Messages, NEW f \in Sending \cup {NoFlight}, Ordered(s, H, f),
         NEW m \in Messages, m > s.cursor
  PROVE  Ordered(Received(s, m), H, f)
<1>1. In(Received(s, m), {"accepted"}) \subseteq In(s, {"accepted"}) \cup {m}
  BY ReceivedStates DEF In
<1>2. In(Received(s, m), {"absent"}) \subseteq In(s, {"absent"})
  BY ReceivedStates DEF In
<1>3. \A k \in Accepted(s) : k < m
  BY DEF Sound, Accepted, Messages, States
<1>4. H \subseteq Accepted(s)
  BY DEF Ordered, Accepted
<1>5. CASE f # NoFlight
  <2>1. f.message \in Messages
    BY <1>5 DEF Sending
  <2>2. f.message \in Accepted(s)
    BY <1>5, <2>1 DEF Ordered, Accepted, In
  <2>3. Received(s, m).inbox[f.message].state = "delivering"
    BY <1>3, <1>5, <2>1, <2>2, ReceivedStates DEF Ordered, Messages
  <2> QED BY <1>1, <1>2, <1>3, <1>4, <1>5, <2>2, <2>3 DEF Ordered
<1> QED BY <1>1, <1>2, <1>3, <1>4, <1>5 DEF Ordered

LEMMA RecoveredOrdered ==
  ASSUME NEW s \in States, NEW v \in Versions, NEW H, Ordered(s, H, NoFlight)
  PROVE  /\ Ordered(RecoveredState(s, v), H, NoFlight)
         /\ In(RecoveredState(s, v), Settled) = In(s, Settled)
         /\ Undelivered(RecoveredState(s, v)) = Undelivered(s)
<1>0. RecoveredState(s, v).inbox = [m \in Messages |-> RecoveredMessage(s, m)]
  BY RecoveredFields
<1>1. \A m \in Messages : RecoveredState(s, v).inbox[m] = RecoveredMessage(s, m)
  BY <1>0
<1>2. \A m \in Messages :
        \/ RecoveredMessage(s, m).state = s.inbox[m].state
        \/ RecoveredMessage(s, m).state = "uncertain" /\ s.inbox[m].state = "delivering"
        \/ RecoveredMessage(s, m).state = "acknowledged" /\ s.inbox[m].state = "applied"
  BY DEF RecoveredMessage, States
<1>3. \A m \in Messages :
        LET a == RecoveredState(s, v).inbox[m].state  b == s.inbox[m].state
        IN a = b \/ (a = "uncertain" /\ b = "delivering") \/ (a = "acknowledged" /\ b = "applied")
  BY <1>1, <1>2
<1> HIDE DEF RecoveredState
<1> QED BY <1>3 DEF Ordered, In, Settled, Pending, Undelivered

\* No step disturbs the order.
LEMMA OrderlyStep ==
  ASSUME ConversationTypeOK, MemoryIsDurable, CursorsSound, Orderly, [ConversationNext]_vars
  PROVE  Orderly'
<1> USE DEF ConversationTypeOK
<1>0. mem \in States /\ disk \in States /\ Heard \in SUBSET Messages /\ flight \in Sending \cup {NoFlight}
  BY DEF JournalTypeOK, Heard, Sending
<1>a. FlightHonest(Heard, NoFlight)
  BY DEF FlightHonest, NoFlight
<1>b. Heard' = Heard \/ ~ UNCHANGED thread
  BY DEF Heard
<1>1. CASE Calm
  <2>1. Heard' = Heard /\ flight' \in {flight, NoFlight}
    BY <1>1, <1>b DEF Calm
  <2>2. Ordered(disk', Heard, flight') /\ Ordered(mem', Heard, flight')
    BY <1>0, <1>1, <2>1, FollowsKeeps DEF Calm, Orderly
  <2>3. ReviewSettled(closing', mem')
    BY <1>1, FollowsSettles DEF Calm, Orderly, ReviewSettled
  <2> QED BY <1>1, <1>a, <2>1, <2>2, <2>3 DEF Calm, Orderly
<1>2. CASE Send
  <2>1. flight \in Sending /\ flight.answer = "unsent"
    BY <1>0, <1>2 DEF Send, NoFlight
  <2>2. UNCHANGED <<disk, mem, attempt, closing>>
    BY <1>2 DEF Send, jvars, records
  <2>3. PICK answer \in {"receipt", "refused", "lost"} :
          /\ flight' = [flight EXCEPT !.answer = answer]
          /\ \/ answer # "refused" /\ Heard' = Heard \cup {flight.message}
             \/ answer # "receipt" /\ Heard' = Heard
    <3>1. ASSUME thread' = Append(thread, flight.message) PROVE Heard' = Heard \cup {flight.message}
      <4>1. thread \in Seq(Messages)
        OBVIOUS
      <4>2. /\ DOMAIN thread' = 1 .. Len(thread) + 1
            /\ \A i \in 1 .. Len(thread) : thread'[i] = thread[i]
            /\ thread'[Len(thread) + 1] = flight.message
        BY <3>1, <4>1
      <4>3. DOMAIN thread = 1 .. Len(thread) /\ Len(thread) \in Nat
        BY <4>1
      <4>4. Heard = {thread[i] : i \in 1 .. Len(thread)}
        BY <4>3 DEF Heard
      <4>5. Heard' = {thread'[i] : i \in 1 .. Len(thread) + 1}
        BY <4>2 DEF Heard
      <4>6. 1 .. Len(thread) + 1 = (1 .. Len(thread)) \cup {Len(thread) + 1}
        BY <4>3
      <4>7. Heard' = {thread'[i] : i \in 1 .. Len(thread)} \cup {thread'[Len(thread) + 1]}
        BY <4>5, <4>6
      <4>8. {thread'[i] : i \in 1 .. Len(thread)} = {thread[i] : i \in 1 .. Len(thread)}
        BY <4>2
      <4> QED BY <4>2, <4>4, <4>7, <4>8
    <3> QED BY <1>2, <1>b, <3>1 DEF Send
  <2>4. flight' # NoFlight /\ flight'.message = flight.message /\ flight'.answer = answer /\ flight # NoFlight
    BY <2>1, <2>3 DEF Sending, NoFlight
  <2>5. flight.message \in Messages /\ \A h \in Heard : h < flight.message
    BY <2>1 DEF Sending, Orderly, FlightHonest
  <2>6. Ordered(disk, Heard', flight') /\ Ordered(mem, Heard', flight')
    BY <2>3, <2>4, <2>5 DEF Orderly, Ordered, In
  <2>7. FlightHonest(Heard', flight')
    BY <2>3, <2>4, <2>5 DEF FlightHonest
  <2> QED BY <2>2, <2>4, <2>6, <2>7 DEF Orderly
<1>3. ASSUME NEW ok \in BOOLEAN, NEW v \in Versions, Recover(v, ok), UNCHANGED <<thread, flight, closing>>
      PROVE  Orderly'
  <2>1. flight = NoFlight /\ mem = disk /\ disk' = RecoveredState(mem, v) /\ mem' \in {mem, disk'}
    BY <1>3 DEF Recover, Commit, Orderly, MemoryIsDurable
  <2>2. Ordered(disk', Heard, NoFlight) /\ Undelivered(disk') = Undelivered(mem)
    BY <1>0, <2>1, RecoveredOrdered DEF Orderly
  <2> HIDE DEF RecoveredState
  <2> QED BY <1>3, <1>a, <1>b, <2>1, <2>2 DEF Orderly, ReviewSettled
<1>4. ASSUME NEW ok \in BOOLEAN, NEW m \in Messages, Poll(m, ok) PROVE Orderly'
  <2>1. /\ mem = disk /\ disk' = Received(mem, m) /\ m > mem.cursor /\ UNCHANGED <<thread, attempt>>
        /\ mem' = IF ok THEN disk' ELSE mem
    BY <1>4 DEF Poll, AcceptMessage, Fresh, Commit, MemoryIsDurable
  <2>2. Ordered(disk', Heard, flight)
    BY <1>0, <2>1, ReceivedOrdered DEF Orderly, CursorsSound
  <2>3. flight' \in {flight, NoFlight}
    BY <1>4 DEF Poll
  <2>4. Ordered(disk', Heard, flight') /\ Ordered(mem', Heard, flight')
    BY <2>1, <2>2, <2>3 DEF Orderly, Ordered
  <2>5. ReviewSettled(closing', mem')
    <3>1. CASE closing'.step \notin {"frozen", "stored"} \/ ~ok
      BY <1>4, <2>1, <3>1 DEF Poll, ReviewSettled, Orderly, NotClosing
    <3>2. CASE closing'.step \in {"frozen", "stored"} /\ ok
      <4>1. closing' = closing /\ m \notin Revisions
        BY <1>4, <3>2 DEF Poll, NotClosing, Public, Reviewing, AcceptMessage
      <4>2. Undelivered(mem') \subseteq Undelivered(mem)
        BY <1>0, <2>1, <3>2, <4>1, ReceivedStates DEF Undelivered, In
      <4> QED BY <4>1, <4>2 DEF Orderly, ReviewSettled
    <3> QED BY <3>1, <3>2
  <2> QED BY <1>a, <1>b, <2>1, <2>3, <2>4, <2>5 DEF Orderly
<1>5. ASSUME NEW ok \in BOOLEAN, NEW m \in Messages, Deliver(m, ok) \/ DeliverChat(m, ok) PROVE Orderly'
  <2> DEFINE f == [message |-> m, answer |-> "unsent"]
  <2>1. /\ flight = NoFlight /\ UNCHANGED <<thread, attempt, closing>> /\ m \in In(mem, {"accepted"})
        /\ mem = disk /\ disk' = Marked(mem, m, "delivering") /\ attempt = "ready"
        /\ \/ ok /\ mem' = disk' /\ flight' = f
           \/ ~ok /\ mem' = mem /\ flight' = NoFlight
    BY <1>5 DEF Deliver, DeliverChat, BeginDelivery, Quiet, Ready, Commit, MemoryIsDurable, In
  <2>2. \A k \in In(mem, {"accepted"}) : m <= k
    <3>1. CASE Deliver(m, ok)
      BY <3>1 DEF Deliver
    <3>2. CASE DeliverChat(m, ok)
      <4>1. In(mem, {"accepted"}) \subseteq Chats
        BY <3>2 DEF DeliverChat, Reviewing, Orderly, ReviewSettled, Undelivered, Pending, In, Chats
      <4> QED BY <3>2, <4>1 DEF DeliverChat
    <3> QED BY <1>5, <3>1, <3>2
  <2>3. Ordered(disk', Heard, f)
    BY <1>0, <2>1, <2>2, SentOrdered DEF Orderly
  <2>4. Ordered(disk', Heard, NoFlight)
    BY <2>3 DEF Ordered
  <2>5. FlightHonest(Heard, f)
    BY <2>1 DEF FlightHonest, Orderly, Ordered
  <2>6. Undelivered(disk') = Undelivered(mem)
    <3>1. m \in Messages /\ mem.inbox[m].state = "accepted"
      BY <2>1 DEF In
    <3>2. \A k \in Messages : disk'.inbox[k].state = IF k = m THEN "delivering" ELSE mem.inbox[k].state
      BY <1>0, <2>1, <3>1, MarkedStates
    <3> QED BY <3>1, <3>2 DEF Undelivered, In, Pending
  <2> HIDE DEF f
  <2> QED BY <1>a, <1>b, <2>1, <2>3, <2>4, <2>5, <2>6 DEF Orderly, ReviewSettled
<1>6. ASSUME NEW m \in Messages, NEW word \in Pending \cup {"acknowledged"}, NEW ok \in BOOLEAN,
             mem.inbox[m].state \in Pending, Commit(Marked(mem, m, word), ok), UNCHANGED <<attempt, thread, closing>>,
             flight' = NoFlight,
             word = "accepted" => \A h \in Heard : h < m
      PROVE  Orderly'
  <2>1. mem = disk /\ disk' = Marked(mem, m, word) /\ mem' \in {mem, disk'}
    BY <1>6 DEF Commit, MemoryIsDurable
  <2>2. Ordered(mem, Heard, NoFlight)
    BY DEF Orderly, Ordered
  <2>3. Ordered(disk', Heard, NoFlight)
    BY <1>0, <1>6, <2>1, <2>2, MarkedOrdered
  <2>4. Undelivered(disk') \subseteq Undelivered(mem)
    <3>1. \A k \in Messages : disk'.inbox[k].state = IF k = m THEN word ELSE mem.inbox[k].state
      BY <1>0, <2>1, MarkedStates
    <3> QED BY <1>6, <3>1 DEF Undelivered, In
  <2> QED BY <1>6, <1>a, <1>b, <2>1, <2>2, <2>3, <2>4 DEF Orderly, ReviewSettled
<1>7. ASSUME NEW ok \in BOOLEAN, Settle(ok) PROVE Orderly'
  <2>1. flight \in Sending /\ flight.message \in Messages
    BY <1>0, <1>7 DEF Settle, NoFlight, Sending
  <2>2. PICK word \in {"acknowledged", "accepted", "uncertain"} :
          /\ Commit(Marked(mem, flight.message, word), ok) /\ UNCHANGED attempt
          /\ mem.inbox[flight.message].state \in Pending
          /\ word = "accepted" => flight.answer = "refused"
    BY <1>7 DEF Settle, Acknowledge, Reconcile, After, Pending
  <2>3. word = "accepted" => \A h \in Heard : h < flight.message
    BY <2>2 DEF Orderly, FlightHonest
  <2> QED BY <1>6, <1>7, <2>1, <2>2, <2>3 DEF Settle, Pending
<1>8. ASSUME NEW ok \in BOOLEAN, NEW m \in Messages, ReconcileDelivery(m, ok) PROVE Orderly'
  <2>1. PICK word \in {"acknowledged", "uncertain"} :
          /\ Commit(Marked(mem, m, word), ok) /\ UNCHANGED attempt
          /\ mem.inbox[m].state \in Pending
    BY <1>8 DEF ReconcileDelivery, Reconcile, After, Pending
  <2> QED BY <1>6, <1>8, <2>1 DEF ReconcileDelivery, Quiet, Pending
<1> QED BY <1>1, <1>2, <1>3, <1>4, <1>5, <1>7, <1>8, StepKinds

\* What is heard and confirmed changes as in Mailbox.
LEMMA StepIsMail ==
  ASSUME ConversationTypeOK, MemoryIsDurable, Orderly, [ConversationNext]_vars
  PROVE  [M!Next]_<<thread, In(disk, Settled)>>
<1> USE DEF ConversationTypeOK
<1> DEFINE confirmed == In(disk, Settled)
<1>0. mem \in States /\ disk \in States /\ flight \in Sending \cup {NoFlight}
  BY DEF JournalTypeOK, Sending
<1>1. CASE Calm
  BY <1>1, FollowsSettles DEF Calm
<1>2. CASE Send
  <2>1. flight.message \in Messages /\ \A h \in Heard : h < flight.message
    BY <1>0, <1>2 DEF Send, NoFlight, Sending, Orderly, FlightHonest
  <2>2. UNCHANGED disk /\ (UNCHANGED thread \/ thread' = Append(thread, flight.message))
    BY <1>2 DEF Send, jvars
  <2>3. UNCHANGED confirmed
    BY <2>2 DEF In
  <2> QED BY <2>1, <2>2, <2>3 DEF M!Next, M!Hear, M!HeardNothingAbove, Heard
<1>3. ASSUME NEW ok \in BOOLEAN, NEW v \in Versions, Recover(v, ok), UNCHANGED thread
      PROVE  UNCHANGED <<thread, confirmed>>
  <2>1. mem = disk /\ disk' = RecoveredState(mem, v)
    BY <1>3 DEF Recover, Commit, MemoryIsDurable
  <2>2. Ordered(mem, Heard, NoFlight)
    BY DEF Orderly, Ordered
  <2> QED BY <1>0, <1>3, <2>1, <2>2, RecoveredOrdered
<1>4. ASSUME NEW ok \in BOOLEAN, NEW m \in Messages, Poll(m, ok) PROVE UNCHANGED <<thread, confirmed>>
  <2>1. mem = disk /\ disk' = Received(mem, m) /\ UNCHANGED thread /\ mem.inbox[m].state = "absent"
    BY <1>4 DEF Poll, AcceptMessage, Fresh, Commit, MemoryIsDurable
  <2>2. \A k \in Messages : disk'.inbox[k].state = IF k = m THEN "accepted" ELSE disk.inbox[k].state
    BY <1>0, <2>1, ReceivedStates
  <2> QED BY <2>1, <2>2 DEF In, Settled
<1>5. ASSUME NEW ok \in BOOLEAN, NEW m \in Messages, NEW word \in Pending \cup {"acknowledged"},
             mem.inbox[m].state \in Pending, Commit(Marked(mem, m, word), ok), UNCHANGED thread,
             word = "acknowledged" => m \in Heard
      PROVE  [M!Next]_<<thread, confirmed>>
  <2>1. mem = disk /\ disk' = Marked(mem, m, word)
    BY <1>5 DEF Commit, MemoryIsDurable
  <2>2. \A k \in Messages : disk'.inbox[k].state = IF k = m THEN word ELSE disk.inbox[k].state
    BY <1>0, <2>1, MarkedStates
  <2>3. CASE word # "acknowledged"
    <3>1. UNCHANGED confirmed
      BY <1>5, <2>1, <2>2, <2>3 DEF In, Settled, Pending
    <3> QED BY <1>5, <3>1
  <2>4. CASE word = "acknowledged"
    <3>1. confirmed' = confirmed \cup {m}
      BY <2>2, <2>4 DEF In, Settled
    <3>2. \E i \in DOMAIN thread : thread[i] = m
      BY <1>5, <2>4 DEF Heard
    <3> QED BY <1>5, <3>1, <3>2 DEF M!Next, M!Confirm
  <2> QED BY <2>3, <2>4
<1>6. ASSUME NEW ok \in BOOLEAN, NEW m \in Messages, Deliver(m, ok) \/ DeliverChat(m, ok)
      PROVE  [M!Next]_<<thread, confirmed>>
  <2>1. Commit(Marked(mem, m, "delivering"), ok) /\ mem.inbox[m].state \in Pending /\ UNCHANGED thread
    BY <1>6 DEF Deliver, DeliverChat, BeginDelivery, Pending
  <2> QED BY <1>5, <2>1 DEF Pending
<1>7. ASSUME NEW ok \in BOOLEAN, Settle(ok) PROVE [M!Next]_<<thread, confirmed>>
  <2>1. flight.message \in Messages
    BY <1>0, <1>7 DEF Settle, NoFlight, Sending
  <2>2. PICK word \in {"acknowledged", "accepted", "uncertain"} :
          /\ Commit(Marked(mem, flight.message, word), ok) /\ UNCHANGED thread
          /\ mem.inbox[flight.message].state \in Pending
          /\ word = "acknowledged" => flight.answer = "receipt"
    BY <1>7 DEF Settle, Acknowledge, Reconcile, After, Pending
  <2>3. word = "acknowledged" => flight.message \in Heard
    BY <2>2 DEF Orderly, FlightHonest
  <2> QED BY <1>5, <2>1, <2>2, <2>3 DEF Pending
<1>8. ASSUME NEW ok \in BOOLEAN, NEW m \in Messages, ReconcileDelivery(m, ok) PROVE [M!Next]_<<thread, confirmed>>
  <2>1. PICK word \in {"acknowledged", "uncertain"} :
          /\ Commit(Marked(mem, m, word), ok) /\ UNCHANGED thread
          /\ mem.inbox[m].state \in Pending
          /\ word = "acknowledged" => m \in Heard
    BY <1>8 DEF ReconcileDelivery, Reconcile, After, Pending
  <2> QED BY <1>5, <2>1 DEF Pending
<1> HIDE DEF confirmed
<1>9. [M!Next]_<<thread, confirmed>>
  BY <1>1, <1>2, <1>3, <1>4, <1>6, <1>7, <1>8, StepKinds DEF confirmed
<1> QED BY <1>9 DEF confirmed

(***************************************************************************)
(* The conversation is a mailbox: the model is given each message at most  *)
(* once and in the owner's order, and nothing is confirmed that it was not *)
(* given (accept, deliver, reconcile_delivery, recover).                   *)
(***************************************************************************)
THEOREM DeliveredInOrder == ConversationSpec => MailboxSpec
<1>1. ConversationInit => Orderly
  <2> SUFFICES ASSUME ConversationInit PROVE Orderly
    OBVIOUS
  <2>1. Heard = {} /\ flight = NoFlight /\ closing = NotClosing /\ disk = Created /\ mem = Created
    BY DEF ConversationInit, JournalInit, Heard
  <2>2. In(Created, {"accepted"}) = {}
    BY DEF In, Created, NoMessage
  <2> QED BY <2>1, <2>2 DEF Orderly, Ordered, FlightHonest, ReviewSettled, NoFlight, NotClosing
<1>2. ConversationInit => M!Init
  BY DEF ConversationInit, JournalInit, M!Init, In, Created, NoMessage, Settled
<1>3. ConversationTypeOK /\ MemoryIsDurable /\ CursorsSound /\ Orderly /\ [ConversationNext]_vars => Orderly'
  BY OrderlyStep
<1>4. ConversationTypeOK /\ MemoryIsDurable /\ Orderly /\ [ConversationNext]_vars
        => [M!Next]_<<thread, In(disk, Settled)>>
  BY StepIsMail
<1> QED BY <1>1, <1>2, <1>3, <1>4, JournalFacts, PTL DEF ConversationSpec, MailboxSpec, M!Spec
=============================================================================
