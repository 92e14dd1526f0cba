-------------------------- MODULE ExecutionProofs --------------------------
(***************************************************************************)
(* Proofs about Execution.                                                 *)
(***************************************************************************)
EXTENDS Execution, FiniteSetTheorems, TLAPS

Constants == Latency \in Nat /\ Silence \in Nat \ {0} /\ Expiry \in Nat /\ MaxRevisions \in Nat
             /\ MaxBuilds \in Nat /\ MaxEvents \in Nat /\ MaxStrays \in Nat
             /\ Tries \in Nat \ {0} /\ MaxAttempts \in Nat \ {0}

LEMMA ConstantsNatural == Constants
BY ExecutionAssumption DEF ExecutionAssumption, Constants

\* An age that a request has just reset.
LEMMA Fresh == 0 \in 0 .. Expiry + 1
BY ConstantsNatural DEF Constants

\* Columns that are written keep the row a row.
LEMMA StatusJob ==
  ASSUME NEW r \in Jobs, NEW word \in Words
  PROVE  [r EXCEPT !.status = word] \in Jobs
BY DEF Jobs

LEMMA PausedJob ==
  ASSUME NEW r \in Jobs
  PROVE  [r EXCEPT !.status = "paused", !.asked = r.status = "running", !.announced = FALSE] \in Jobs
BY DEF Jobs, Words

LEMMA QueuedJob ==
  ASSUME NEW r \in Jobs
  PROVE  [r EXCEPT !.status = "queued", !.lease = 0, !.asked = FALSE, !.announced = FALSE] \in Jobs
<1>1. 0 \in 0 .. MaxAttempts
  BY ConstantsNatural DEF Constants
<1> QED BY <1>1 DEF Jobs, Words

LEMMA LeasedJob ==
  ASSUME NEW r \in Jobs, NEW l \in 0 .. MaxAttempts
  PROVE  [r EXCEPT !.status = "running", !.lease = l] \in Jobs
BY DEF Jobs, Words

LEMMA AnnouncedJob ==
  ASSUME NEW r \in Jobs
  PROVE  [r EXCEPT !.announced = TRUE] \in Jobs
BY DEF Jobs

LEMMA ReportedJob ==
  ASSUME NEW r \in Jobs
  PROVE  [r EXCEPT !.asked = FALSE] \in Jobs
BY DEF Jobs

LEMMA CompleteJob ==
  ASSUME NEW r \in Jobs, NEW f \in Files
  PROVE  [r EXCEPT !.status = "complete", !.announced = FALSE, !.file = f] \in Jobs
BY DEF Jobs, Words

LEMMA AnswerType ==
  ASSUME RowType, NEW l \in 0 .. MaxAttempts, Answer(l)
  PROVE  row' \in Jobs /\ age' \in 0 .. Expiry + 1
BY Fresh, StatusJob, LeasedJob DEF RowType, Answer, Words

LEMMA CompleteType ==
  ASSUME RowType, committed \subseteq [lease : 0 .. MaxAttempts, digest : 0 .. MaxBuilds, revision : 0 .. MaxRevisions],
         NEW a \in 0 .. MaxAttempts, NEW b \in Deck, Complete(a, b)
  PROVE  /\ row' \in Jobs /\ age' \in 0 .. Expiry + 1
         /\ committed' \subseteq [lease : 0 .. MaxAttempts, digest : 0 .. MaxBuilds, revision : 0 .. MaxRevisions]
<1>2. [lease |-> a, digest |-> b.digest] \in Files
  BY DEF Deck, Files
<1>3. [lease |-> a, digest |-> b.digest, revision |-> b.revision]
        \in [lease : 0 .. MaxAttempts, digest : 0 .. MaxBuilds, revision : 0 .. MaxRevisions]
  BY DEF Deck
<1>4. row' \in Jobs /\ age' \in 0 .. Expiry + 1
  BY Fresh, <1>2, CompleteJob DEF Complete, RowType
<1> QED BY <1>3, <1>4 DEF Complete

LEMMA NoClaimType == NoClaim \in Claims
<1>1. 0 \in 0 .. MaxAttempts /\ 0 \in 0 .. Latency
  BY ConstantsNatural DEF Constants
<1> QED BY <1>1 DEF NoClaim, Claims

\* Where an execution can be, and how it gets from one place to another.
Places == Live \cup {"none", "ended"}

LEMMA GotoType ==
  ASSUME ThreadType, NEW a \in Attempts, NEW to \in Places, Goto(a, to)
  PROVE  pc' \in [Attempts -> Places] /\ verdict' = verdict
BY DEF ThreadType, Goto, Places

LEMMA RaiseType ==
  ASSUME ThreadType, NEW a \in Attempts, NEW error, Raise(a, error)
  PROVE  /\ pc' \in [Attempts -> Places]
         /\ verdict' \in [Attempts -> {"none", "failed", "paused", "refused"}]
BY DEF ThreadType, Raise, Places, Live, Locked

LEMMA AgainType ==
  ASSUME ThreadType, NEW a \in Attempts, pc[a] = "uploading", Again(a)
  PROVE  /\ pc' \in [Attempts -> Places] /\ verdict' = verdict
         /\ tries' \in [Attempts -> 0 .. Tries]
         /\ \A b \in Attempts : pc'[b] = "uploading" => tries'[b] > 0
<1>1. pc' = [pc EXCEPT ![a] = IF tries[a] > 1 THEN "uploading" ELSE "asking"]
  BY DEF Again, Goto
<1>2. tries[a] \in 1 .. Tries /\ tries' = [tries EXCEPT ![a] = @ - 1]
  BY DEF ThreadType, Again
<1>3. tries' \in [Attempts -> 0 .. Tries]
  BY <1>2, ConstantsNatural DEF ThreadType, Constants
<1>4. \A b \in Attempts : pc'[b] = "uploading" => tries'[b] > 0
  BY <1>1, <1>2, ConstantsNatural DEF ThreadType, Constants
<1> QED BY <1>1, <1>3, <1>4 DEF Again, Goto, ThreadType, Places, Live, Locked, AtWork

LEMMA TypeStep == TypeOK /\ [Next]_vars => TypeOK'
<1> SUFFICES ASSUME TypeOK, [Next]_vars PROVE TypeOK'
  OBVIOUS
<1> USE ConstantsNatural DEF Constants, Attempts
<1>0. CASE UNCHANGED vars
  BY <1>0 DEF vars, TypeOK, RowType, PoolType, ThreadType, KeeperType, StraysType, CountType, GhostType
<1>1. CASE Tick
  <2>1. RowType'
    BY <1>1 DEF TypeOK, Tick, RowType, Older
  <2>2. PoolType'
    BY <1>1 DEF TypeOK, Tick, PoolType, Claims
  <2>3. KeeperType'
    <3>1. \A a \in Attempts : beat[a] \in Beats => beat'[a] \in Beats
      BY <1>1 DEF Tick, NoBeat, Beats
    <3>2. \A a \in Attempts : quiet'[a] \in 0 .. Silence
      BY <1>1 DEF TypeOK, KeeperType, Tick, Older
    <3> QED BY <1>1, <3>1, <3>2 DEF TypeOK, KeeperType, Tick
  <2>4. ThreadType' /\ StraysType' /\ CountType' /\ GhostType'
    BY <1>1 DEF TypeOK, Tick, thread, ThreadType, StraysType, CountType, GhostType
  <2> QED BY <2>1, <2>2, <2>3, <2>4 DEF TypeOK
<1>2. CASE Pause
  <2>1. RowType'
    BY <1>2, PausedJob, Fresh DEF TypeOK, Pause, RowType
  <2>2. CountType'
    BY <1>2 DEF TypeOK, Pause, CountType, Happens
  <2>3. PoolType' /\ ThreadType' /\ KeeperType' /\ StraysType' /\ GhostType'
    BY <1>2 DEF TypeOK, Pause, pool, thread, keeper, PoolType, ThreadType, KeeperType, StraysType, GhostType, Happens
  <2> QED BY <2>1, <2>2, <2>3 DEF TypeOK
<1>3. CASE Requeue
  <2>1. RowType'
    BY <1>3, QueuedJob, Fresh DEF TypeOK, Requeue, RowType
  <2>2. CountType'
    BY <1>3 DEF TypeOK, Requeue, CountType, Happens
  <2>3. PoolType' /\ ThreadType' /\ KeeperType' /\ StraysType' /\ GhostType'
    BY <1>3 DEF TypeOK, Requeue, pool, thread, keeper, PoolType, ThreadType, KeeperType, StraysType, GhostType, Happens
  <2> QED BY <2>1, <2>2, <2>3 DEF TypeOK
<1>4. CASE Revise
  <2>1. RowType'
    BY <1>4 DEF TypeOK, Revise, RowType
  <2>2. CountType'
    BY <1>4 DEF TypeOK, Revise, CountType, Happens
  <2>3. PoolType' /\ ThreadType' /\ KeeperType' /\ StraysType' /\ GhostType'
    BY <1>4 DEF TypeOK, Revise, pool, thread, keeper, PoolType, ThreadType, KeeperType, StraysType, GhostType, Happens
  <2> QED BY <2>1, <2>2, <2>3 DEF TypeOK
<1>5. CASE Withdraw
  <2>1. RowType'
    BY <1>5 DEF TypeOK, Withdraw, RowType, Jobs
  <2>2. PoolType' /\ ThreadType' /\ KeeperType' /\ StraysType' /\ CountType' /\ GhostType'
    BY <1>5 DEF TypeOK, Withdraw, pool, thread, keeper, PoolType, ThreadType, KeeperType, StraysType, CountType, GhostType
  <2> QED BY <2>1, <2>2 DEF TypeOK
<1>6. CASE BeginSave
  <2>1. RowType'
    BY <1>6 DEF TypeOK, BeginSave, RowType
  <2>2. CountType'
    BY <1>6 DEF TypeOK, BeginSave, CountType, Happens
  <2>3. PoolType' /\ ThreadType' /\ KeeperType' /\ StraysType' /\ GhostType'
    BY <1>6 DEF TypeOK, BeginSave, pool, thread, keeper, PoolType, ThreadType, KeeperType, StraysType, GhostType, Happens
  <2> QED BY <2>1, <2>2, <2>3 DEF TypeOK
<1>7. CASE EndSave
  <2>1. RowType'
    <3>1. revision' \in {revision, revision + 1} /\ revision' \in 0 .. MaxRevisions
      BY <1>7 DEF TypeOK, EndSave, RowType
    <3>2. applied \in 0 .. revision'
      BY <3>1 DEF TypeOK, RowType
    <3> QED BY <1>7, <3>1, <3>2 DEF TypeOK, EndSave, RowType
  <2>2. PoolType' /\ ThreadType' /\ KeeperType' /\ StraysType' /\ CountType' /\ GhostType'
    BY <1>7 DEF TypeOK, EndSave, pool, thread, keeper, PoolType, ThreadType, KeeperType, StraysType, CountType, GhostType
  <2> QED BY <2>1, <2>2 DEF TypeOK
<1>8. CASE SendClaim
  <2>1. PoolType'
    BY <1>8 DEF TypeOK, SendClaim, PoolType, NoClaim, Claims
  <2>2. RowType' /\ ThreadType' /\ KeeperType' /\ StraysType' /\ CountType' /\ GhostType'
    BY <1>8 DEF TypeOK, SendClaim, site, thread, keeper, RowType, ThreadType, KeeperType, StraysType, CountType, GhostType
  <2> QED BY <2>1, <2>2 DEF TypeOK
<1>9. CASE HandleClaim
  <2>1. RowType'
    BY <1>9, AnswerType DEF TypeOK, HandleClaim, RowType
  <2>2. PoolType'
    <3>1. PICK l \in 0 .. MaxAttempts :
            claim' = IF l = 0 THEN NoClaim ELSE [claim EXCEPT !.step = "answered", !.lease = l]
      BY <1>9 DEF HandleClaim
    <3>2. NoClaim \in Claims
      BY NoClaimType
    <3>3. [claim EXCEPT !.step = "answered", !.lease = l] \in Claims
      BY DEF TypeOK, PoolType, Claims
    <3> QED BY <1>9, <3>1, <3>2, <3>3 DEF TypeOK, PoolType, HandleClaim
  <2>3. CountType'
    BY <1>9 DEF TypeOK, HandleClaim, CountType, Answer
  <2>4. ThreadType' /\ KeeperType' /\ StraysType' /\ GhostType'
    BY <1>9 DEF TypeOK, HandleClaim, thread, keeper, ThreadType, KeeperType, StraysType, GhostType
  <2> QED BY <2>1, <2>2, <2>3, <2>4 DEF TypeOK
<1>10. CASE ReceiveClaim
  <2>1. PoolType'
    BY <1>10 DEF TypeOK, ReceiveClaim, PoolType, NoClaim, Claims
  <2>2. ThreadType'
    BY <1>10 DEF TypeOK, ReceiveClaim, ThreadType, Started, PoolType, Claims, Live
  <2>3. KeeperType'
    <3>1. 0 \in 0 .. Silence
      OBVIOUS
    <3> QED BY <1>10, <3>1 DEF TypeOK, ReceiveClaim, KeeperType
  <2>4. RowType' /\ StraysType' /\ CountType' /\ GhostType'
    BY <1>10 DEF TypeOK, ReceiveClaim, site, RowType, StraysType, CountType, GhostType
  <2> QED BY <2>1, <2>2, <2>3, <2>4 DEF TypeOK
<1>11. CASE LoseClaim
  <2>1. PoolType'
    BY <1>11 DEF TypeOK, LoseClaim, PoolType, NoClaim, Claims
  <2>2. StraysType'
    BY <1>11 DEF TypeOK, LoseClaim, StraysType, WithStrays, LostClaim, NoBuild, Deck
  <2>3. GhostType'
    <3>1. {claim.lease} \ {0} \subseteq Attempts
      BY DEF TypeOK, PoolType, Claims
    <3> QED BY <1>11, <3>1 DEF TypeOK, LoseClaim, GhostType
  <2>4. RowType' /\ ThreadType' /\ KeeperType' /\ CountType'
    BY <1>11 DEF TypeOK, LoseClaim, site, thread, keeper, RowType, ThreadType, KeeperType, CountType
  <2> QED BY <2>1, <2>2, <2>3, <2>4 DEF TypeOK
<1>12. CASE Drain
  <2>1. PoolType'
    BY <1>12 DEF TypeOK, Drain, PoolType
  <2>2. CountType'
    BY <1>12 DEF TypeOK, Drain, CountType, Happens
  <2>3. RowType' /\ ThreadType' /\ KeeperType' /\ StraysType' /\ GhostType'
    BY <1>12 DEF TypeOK, Drain, site, thread, keeper, RowType, ThreadType, KeeperType, StraysType, GhostType, Happens
  <2> QED BY <2>1, <2>2, <2>3 DEF TypeOK
<1>13. CASE Exit
  <2>1. PoolType'
    BY <1>13 DEF TypeOK, Exit, PoolType
  <2>2. RowType' /\ ThreadType' /\ KeeperType' /\ StraysType' /\ CountType' /\ GhostType'
    BY <1>13 DEF TypeOK, Exit, site, thread, keeper, RowType, ThreadType, KeeperType, StraysType, CountType, GhostType
  <2> QED BY <2>1, <2>2 DEF TypeOK
<1>14. CASE Die
  <2>1. PoolType'
    BY <1>14 DEF TypeOK, Die, PoolType, NoClaim, Claims
  <2>2. ThreadType'
    BY <1>14 DEF TypeOK, Die, ThreadType, Gone
  <2>3. KeeperType'
    BY <1>14 DEF TypeOK, Die, KeeperType, Gone, NoBeat, Beats
  <2>4. StraysType'
    BY <1>14 DEF TypeOK, Die, StraysType, WithStrays, LostClaim, Stray, NoBuild, Deck, ThreadType
  <2>5. CountType'
    BY <1>14 DEF TypeOK, Die, CountType, Happens
  <2>6. GhostType'
    <3>1. {claim.lease} \ {0} \subseteq Attempts
      BY DEF TypeOK, PoolType, Claims
    <3> QED BY <1>14, <3>1 DEF TypeOK, Die, GhostType
  <2>7. RowType'
    BY <1>14 DEF TypeOK, Die, site, RowType, Happens
  <2> QED BY <2>1, <2>2, <2>3, <2>4, <2>5, <2>6, <2>7 DEF TypeOK
<1>15. CASE Launch
  <2>1. PoolType'
    BY <1>15 DEF TypeOK, Launch, PoolType
  <2>2. RowType' /\ ThreadType' /\ KeeperType' /\ StraysType' /\ CountType' /\ GhostType'
    BY <1>15 DEF TypeOK, Launch, site, thread, keeper, RowType, ThreadType, KeeperType, StraysType, CountType, GhostType
  <2> QED BY <2>1, <2>2 DEF TypeOK
<1>16. ASSUME NEW a \in Attempts, SendBeat(a) PROVE TypeOK'
  <2>1. KeeperType'
    BY <1>16 DEF TypeOK, SendBeat, KeeperType, NoBeat, Beats
  <2>2. RowType' /\ PoolType' /\ ThreadType' /\ StraysType' /\ CountType' /\ GhostType'
    BY <1>16 DEF TypeOK, SendBeat, site, pool, thread, RowType, PoolType, ThreadType, StraysType, CountType, GhostType
  <2> QED BY <2>1, <2>2 DEF TypeOK
<1>17. ASSUME NEW a \in Attempts, HandleBeat(a) PROVE TypeOK'
  <2>1. RowType'
    BY <1>17 DEF TypeOK, HandleBeat, RowType
  <2>2. KeeperType'
    BY <1>17 DEF TypeOK, HandleBeat, KeeperType, Acknowledged, Beats
  <2>3. PoolType' /\ ThreadType' /\ StraysType' /\ CountType' /\ GhostType'
    BY <1>17 DEF TypeOK, HandleBeat, pool, thread, PoolType, ThreadType, StraysType, CountType, GhostType
  <2> QED BY <2>1, <2>2, <2>3 DEF TypeOK
<1>18. ASSUME NEW a \in Attempts, ReceiveBeat(a) PROVE TypeOK'
  <2>1. KeeperType'
    BY <1>18 DEF TypeOK, ReceiveBeat, KeeperType, NoBeat, Beats
  <2>2. RowType' /\ PoolType' /\ ThreadType' /\ StraysType' /\ CountType' /\ GhostType'
    BY <1>18 DEF TypeOK, ReceiveBeat, site, pool, thread, RowType, PoolType, ThreadType, StraysType, CountType, GhostType
  <2> QED BY <2>1, <2>2 DEF TypeOK
<1>19. ASSUME NEW a \in Attempts, LoseBeat(a) PROVE TypeOK'
  <2>1. KeeperType'
    BY <1>19 DEF TypeOK, LoseBeat, KeeperType, NoBeat, Beats
  <2>2. StraysType'
    BY <1>19 DEF TypeOK, LoseBeat, StraysType, WithStrays, Stray, ThreadType
  <2>3. RowType' /\ PoolType' /\ ThreadType' /\ CountType' /\ GhostType'
    BY <1>19 DEF TypeOK, LoseBeat, site, pool, thread, RowType, PoolType, ThreadType, CountType, GhostType
  <2> QED BY <2>1, <2>2, <2>3 DEF TypeOK
<1>20. ASSUME NEW a \in Attempts, OpenJournal(a) PROVE TypeOK'
  <2>1. ThreadType'
    BY <1>20 DEF TypeOK, OpenJournal, ThreadType, Goto, Live, Locked, AtWork
  <2>2. RowType' /\ PoolType' /\ KeeperType' /\ StraysType' /\ CountType' /\ GhostType'
    BY <1>20 DEF TypeOK, OpenJournal, site, pool, keeper, RowType, PoolType, KeeperType, StraysType, CountType, GhostType
  <2> QED BY <2>1, <2>2 DEF TypeOK
<1>21. ASSUME NEW a \in Attempts, Refused(a) PROVE TypeOK'
  <2>1. ThreadType'
    BY <1>21 DEF TypeOK, Refused, ThreadType, Raise, Live, Locked
  <2>2. GhostType'
    BY <1>21 DEF TypeOK, Refused, GhostType
  <2>3. RowType' /\ PoolType' /\ KeeperType' /\ StraysType' /\ CountType'
    BY <1>21 DEF TypeOK, Refused, site, pool, keeper, RowType, PoolType, KeeperType, StraysType, CountType
  <2> QED BY <2>1, <2>2, <2>3 DEF TypeOK
<1>22. ASSUME NEW a \in Attempts, Build(a) PROVE TypeOK'
  <2>1. RowType'
    BY <1>22 DEF TypeOK, Build, RowType
  <2>2. ThreadType'
    BY <1>22 DEF TypeOK, Build, ThreadType, Goto, Live, Locked, AtWork, Deck, RowType, CountType
  <2>3. CountType'
    BY <1>22 DEF TypeOK, Build, CountType
  <2>4. PoolType' /\ KeeperType' /\ StraysType' /\ GhostType'
    BY <1>22 DEF TypeOK, Build, pool, keeper, PoolType, KeeperType, StraysType, GhostType
  <2> QED BY <2>1, <2>2, <2>3, <2>4 DEF TypeOK
<1>23. ASSUME NEW a \in Attempts, Trouble(a) PROVE TypeOK'
  <2>1. ThreadType'
    BY <1>23 DEF TypeOK, Trouble, ThreadType, Raise, Live, Locked, KeeperType
  <2>2. RowType' /\ PoolType' /\ KeeperType' /\ StraysType' /\ CountType' /\ GhostType'
    BY <1>23 DEF TypeOK, Trouble, site, pool, keeper, RowType, PoolType, KeeperType, StraysType, CountType, GhostType
  <2> QED BY <2>1, <2>2 DEF TypeOK
<1>24. ASSUME NEW a \in Attempts, Announce(a) PROVE TypeOK'
  <2>1. RowType'
    BY <1>24, AnnouncedJob DEF TypeOK, Announce, RowType
  <2>2. ThreadType'
    <3>1. tries' \in [Attempts -> 0 .. Tries] /\ tries'[a] > 0
      BY <1>24 DEF TypeOK, ThreadType, Announce
    <3>2. pc' \in [Attempts -> Places] /\ verdict' \in [Attempts -> {"none", "failed", "paused", "refused"}]
      BY <1>24, RaiseType, GotoType DEF TypeOK, Announce, ThreadType, Places, Live, Locked, AtWork
    <3>3. \A b \in Attempts \ {a} : pc'[b] = pc[b] /\ tries'[b] = tries[b]
      BY <1>24 DEF TypeOK, ThreadType, Announce, Raise, Goto
    <3> QED BY <1>24, <3>1, <3>2, <3>3 DEF TypeOK, Announce, ThreadType, Places
  <2>3. PoolType' /\ KeeperType' /\ StraysType' /\ CountType' /\ GhostType'
    BY <1>24 DEF TypeOK, Announce, pool, keeper, PoolType, KeeperType, StraysType, CountType, GhostType
  <2> QED BY <2>1, <2>2, <2>3 DEF TypeOK
<1>25. ASSUME NEW a \in Attempts, AnnounceLate(a) PROVE TypeOK'
  <2>1. ThreadType'
    BY <1>25 DEF TypeOK, AnnounceLate, ThreadType, Raise, Live, Locked
  <2>2. StraysType'
    BY <1>25 DEF TypeOK, AnnounceLate, StraysType, WithStrays, Stray, ThreadType
  <2>3. RowType' /\ PoolType' /\ KeeperType' /\ CountType' /\ GhostType'
    BY <1>25 DEF TypeOK, AnnounceLate, site, pool, keeper, RowType, PoolType, KeeperType, CountType, GhostType
  <2> QED BY <2>1, <2>2, <2>3 DEF TypeOK
<1>26. ASSUME NEW a \in Attempts, Upload(a) PROVE TypeOK'
  <2>1. RowType'
    <3>1. build[a] \in Deck /\ a \in 0 .. MaxAttempts
      BY DEF TypeOK, ThreadType
    <3> QED BY <1>26, <3>1, CompleteType DEF TypeOK, Upload, RowType, GhostType
  <2>2. ThreadType'
    <3>1. CASE Again(a)
      BY <1>26, <3>1, AgainType DEF TypeOK, Upload, ThreadType, Places
    <3>2. CASE UNCHANGED tries
      <4>1. pc' \in [Attempts -> Places] /\ verdict' \in [Attempts -> {"none", "failed", "paused", "refused"}]
        BY <1>26, <3>2, RaiseType, GotoType, AgainType DEF TypeOK, Upload, ThreadType, Places, Live, Locked, AtWork
      <4>2. \A b \in Attempts : pc'[b] = "uploading" => pc[b] = "uploading"
        BY <1>26 DEF TypeOK, ThreadType, Upload, Raise, Goto, Again
      <4> QED BY <1>26, <3>2, <4>1, <4>2 DEF TypeOK, Upload, ThreadType, Places
    <3> QED BY <1>26, <3>1, <3>2 DEF Upload
  <2>3. GhostType'
    BY <1>26 DEF TypeOK, Upload, GhostType, Complete, ThreadType, Deck
  <2>4. PoolType' /\ KeeperType' /\ StraysType' /\ CountType'
    BY <1>26 DEF TypeOK, Upload, pool, keeper, PoolType, KeeperType, StraysType, CountType
  <2> QED BY <2>1, <2>2, <2>3, <2>4 DEF TypeOK
<1>27. ASSUME NEW a \in Attempts, UploadLate(a) PROVE TypeOK'
  <2>1. ThreadType'
    BY <1>27, AgainType DEF TypeOK, UploadLate, ThreadType, Places
  <2>2. StraysType'
    BY <1>27 DEF TypeOK, UploadLate, StraysType, WithStrays, Stray, ThreadType
  <2>3. RowType' /\ PoolType' /\ KeeperType' /\ CountType' /\ GhostType'
    BY <1>27 DEF TypeOK, UploadLate, site, pool, keeper, RowType, PoolType, KeeperType, CountType, GhostType
  <2> QED BY <2>1, <2>2, <2>3 DEF TypeOK
<1>28. ASSUME NEW a \in Attempts, Ask(a) PROVE TypeOK'
  <2>1. ThreadType'
    BY <1>28 DEF TypeOK, Ask, ThreadType, Raise, Goto, Live, Locked
  <2>2. RowType' /\ PoolType' /\ KeeperType' /\ StraysType' /\ CountType' /\ GhostType'
    BY <1>28 DEF TypeOK, Ask, site, pool, keeper, RowType, PoolType, KeeperType, StraysType, CountType, GhostType
  <2> QED BY <2>1, <2>2 DEF TypeOK
<1>29. ASSUME NEW a \in Attempts, Reset(a) PROVE TypeOK'
  <2>1. RowType'
    BY <1>29 DEF TypeOK, Reset, RowType, Jobs
  <2>2. ThreadType'
    BY <1>29 DEF TypeOK, Reset, ThreadType, Raise, Goto, Live, Locked, AtWork
  <2>3. PoolType' /\ KeeperType' /\ StraysType' /\ CountType' /\ GhostType'
    BY <1>29 DEF TypeOK, Reset, pool, keeper, PoolType, KeeperType, StraysType, CountType, GhostType
  <2> QED BY <2>1, <2>2, <2>3 DEF TypeOK
<1>30. ASSUME NEW a \in Attempts, Recheck(a) PROVE TypeOK'
  <2>1. RowType'
    BY <1>30 DEF TypeOK, Recheck, RowType
  <2>2. ThreadType'
    BY <1>30 DEF TypeOK, Recheck, ThreadType, Live, Locked
  <2>3. PoolType' /\ KeeperType' /\ StraysType' /\ CountType' /\ GhostType'
    BY <1>30 DEF TypeOK, Recheck, pool, keeper, PoolType, KeeperType, StraysType, CountType, GhostType
  <2> QED BY <2>1, <2>2, <2>3 DEF TypeOK
<1>31. ASSUME NEW a \in Attempts, LastCheckpoint(a) PROVE TypeOK'
  <2>1. RowType'
    BY <1>31, ReportedJob DEF TypeOK, LastCheckpoint, RowType
  <2>2. ThreadType'
    BY <1>31 DEF TypeOK, LastCheckpoint, ThreadType, Goto, Live, Locked
  <2>3. PoolType' /\ KeeperType' /\ StraysType' /\ CountType' /\ GhostType'
    BY <1>31 DEF TypeOK, LastCheckpoint, pool, keeper, PoolType, KeeperType, StraysType, CountType, GhostType
  <2> QED BY <2>1, <2>2, <2>3 DEF TypeOK
<1>32. ASSUME NEW a \in Attempts, Leave(a) PROVE TypeOK'
  <2>1. ThreadType'
    BY <1>32 DEF TypeOK, Leave, ThreadType, Goto, Live
  <2>2. RowType' /\ PoolType' /\ KeeperType' /\ StraysType' /\ CountType' /\ GhostType'
    BY <1>32 DEF TypeOK, Leave, site, pool, keeper, RowType, PoolType, KeeperType, StraysType, CountType, GhostType
  <2> QED BY <2>1, <2>2 DEF TypeOK
<1>33. ASSUME NEW a \in Attempts, End(a) PROVE TypeOK'
  <2>1. RowType'
    BY <1>33, StatusJob, Fresh DEF TypeOK, End, Failing, RowType, Words
  <2>2. ThreadType'
    BY <1>33 DEF TypeOK, End, ThreadType, Gone
  <2>3. KeeperType'
    BY <1>33 DEF TypeOK, End, KeeperType, Gone
  <2>4. PoolType' /\ StraysType' /\ CountType' /\ GhostType'
    BY <1>33 DEF TypeOK, End, pool, PoolType, StraysType, CountType, GhostType
  <2> QED BY <2>1, <2>2, <2>3, <2>4 DEF TypeOK
<1>34. ASSUME NEW a \in Attempts, EndUnreported(a) PROVE TypeOK'
  <2>1. ThreadType'
    BY <1>34 DEF TypeOK, EndUnreported, ThreadType, Gone
  <2>2. KeeperType'
    BY <1>34 DEF TypeOK, EndUnreported, KeeperType, Gone
  <2>3. StraysType'
    BY <1>34 DEF TypeOK, EndUnreported, StraysType, WithStrays, Stray, ThreadType
  <2>4. GhostType'
    BY <1>34 DEF TypeOK, EndUnreported, GhostType
  <2>5. RowType' /\ PoolType' /\ CountType'
    BY <1>34 DEF TypeOK, EndUnreported, site, pool, RowType, PoolType, CountType
  <2> QED BY <2>1, <2>2, <2>3, <2>4, <2>5 DEF TypeOK
<1>35. ASSUME NEW s \in strays, Arrive(s) PROVE TypeOK'
  <2>1. RowType'
    <3>1. s.build \in Deck /\ s.lease \in 0 .. MaxAttempts
      BY DEF TypeOK, StraysType
    <3>2. row' \in Jobs /\ age' \in 0 .. Expiry + 1
      <4>1. CASE s.kind = "claim"
        BY <4>1, <1>35, AnswerType DEF TypeOK, Arrive
      <4>2. CASE s.kind = "complete"
        BY <4>2, <1>35, <3>1, CompleteType DEF TypeOK, Arrive, GhostType
      <4>3. CASE s.kind \in {"renew", "announce", "fail"}
        BY <4>3, <1>35, Fresh, AnnouncedJob, StatusJob DEF TypeOK, Arrive, Failing, RowType, Words
      <4> QED BY <1>35, <4>1, <4>2, <4>3 DEF Arrive
    <3> QED BY <1>35, <3>2 DEF TypeOK, Arrive, RowType
  <2>2. StraysType'
    BY <1>35 DEF TypeOK, Arrive, StraysType
  <2>3. CountType'
    BY <1>35 DEF TypeOK, Arrive, CountType, Answer
  <2>4. GhostType'
    <3>1. s.build \in Deck /\ s.lease \in 0 .. MaxAttempts
      BY DEF TypeOK, StraysType
    <3>2. \A l \in 0 .. MaxAttempts : {l} \ {0} \subseteq Attempts
      OBVIOUS
    <3> QED BY <1>35, <3>1, <3>2, CompleteType DEF TypeOK, Arrive, GhostType
  <2>5. PoolType' /\ ThreadType' /\ KeeperType'
    BY <1>35 DEF TypeOK, Arrive, pool, thread, keeper, PoolType, ThreadType, KeeperType
  <2> QED BY <2>1, <2>2, <2>3, <2>4, <2>5 DEF TypeOK
<1> QED BY <1>0, <1>1, <1>2, <1>3, <1>4, <1>5, <1>6, <1>7, <1>8, <1>9, <1>10, <1>11, <1>12, <1>13, <1>14, <1>15, <1>16, <1>17, <1>18, <1>19, <1>20, <1>21, <1>22, <1>23, <1>24, <1>25, <1>26, <1>27, <1>28, <1>29, <1>30, <1>31, <1>32, <1>33, <1>34, <1>35 DEF Next, Owner, Supervisor, Keeper, Execute, Delivery, Ending

\* An execution, its keeper and the website never leave the values they are
\* made for: the type invariant, for every number of attempts and every bound.
THEOREM ExecutionTyped == Spec => []TypeOK
<1>1. Init => TypeOK
  <2> SUFFICES ASSUME Init PROVE TypeOK
    OBVIOUS
  <2> USE ConstantsNatural DEF Constants, Init, Attempts
  <2>1. RowType
    <3>1. 0 \in 0 .. MaxAttempts /\ 0 \in 0 .. MaxBuilds /\ 0 \in 0 .. MaxRevisions /\ 0 \in 0 .. 0
      OBVIOUS
    <3>2. row \in Jobs
      BY <3>1 DEF Jobs, Words, Files, NoFile
    <3> QED BY <3>1, <3>2, Fresh DEF RowType
  <2>2. PoolType
    BY NoClaimType DEF PoolType
  <2>3. ThreadType
    BY DEF ThreadType, NoBuild, Deck
  <2>4. KeeperType
    BY DEF KeeperType, NoBeat, Beats
  <2>5. StraysType /\ CountType /\ GhostType
    BY DEF StraysType, CountType, GhostType
  <2> QED BY <2>1, <2>2, <2>3, <2>4, <2>5 DEF TypeOK
<1> QED BY <1>1, TypeStep, PTL DEF Spec
\* The timing argument.  An execution that still passes its check got its last
\* acknowledgement less than Silence ago, the website gave it at most Latency
\* before that, and Silence + Latency is no more than Expiry: the row is too
\* young to be failed, and too young to be resumed under a pause.
Early == AtWork \cup {"starting"}
Owns(a) == row.lease = a /\ row.status \in {"running", "paused"}
Credited(a) == \E c \in committed : c.lease = a
Claimed(a) == claim.step = "answered" /\ claim.lease = a

LeasesKnown ==
  /\ \A a \in Attempts : Claimed(a) => a <= issued /\ pc[a] = "none"
  /\ \A a \in Attempts : pc[a] # "none" => a <= issued
  /\ row.lease <= issued /\ (row.status = "queued" => row.lease = 0)
  /\ \A a \in Attempts : beat[a].step # "idle" => pc[a] # "none"
  /\ claim.step = "answered" => claim.lease # 0
EndsKnown ==
  /\ \A s \in strays : s.kind = "fail" => s.lease \in Attempts /\ pc[s.lease] = "ended"
  /\ row.status = "complete" => Credited(row.lease)
  /\ \A a \in Attempts : row.status = "paused" /\ ~row.asked /\ row.lease = a => pc[a] \notin Early \cup {"none"}
Clocks ==
  \A a \in Attempts : Owns(a) =>
    /\ pc[a] \in Early /\ quiet[a] < Silence => age <= quiet[a] + Latency
    /\ beat[a].step = "ok" => age <= beat[a].wait
    /\ Claimed(a) => age <= claim.wait
Gripping(a) == (pc[a] \in Early /\ (Passes(a) \/ beat[a].step = "ok")) \/ Claimed(a)
Grip == \A a \in Attempts : Gripping(a) => Owns(a) \/ Credited(a)
Timing == LeasesKnown /\ EndsKnown /\ Clocks /\ Grip

\* What most steps leave alone.
Frame ==
  /\ row'.lease = row.lease /\ row'.status = row.status /\ age' \in {age, 0}
  /\ row'.asked = row.asked \/ \E a \in Attempts : row.lease = a /\ pc[a] = "closing"
  /\ issued' = issued /\ committed' = committed
  /\ claim' = claim \/ claim'.step # "answered"
  /\ \A b \in Attempts :
       \/ pc'[b] = pc[b]
       \/ pc[b] \notin {"none", "ended"} /\ pc'[b] # "none" /\ (pc'[b] \in Early => pc[b] \in Early)
  /\ \A b \in Attempts : pc'[b] \in Early => quiet'[b] = quiet[b] /\ fatal'[b] = fatal[b]
  /\ \A b \in Attempts :
       \/ beat'[b] = beat[b]
       \/ beat'[b].step # "ok" /\ (beat'[b].step # "idle" => pc[b] # "none")
  /\ \A s \in strays' : s.kind = "fail" => s \in strays \/ (s.lease \in Attempts /\ pc'[s.lease] = "ended")

LEMMA EarlyPlaces == "none" \notin Early /\ "ended" \notin Early /\ "closing" \notin Early /\ "left" \notin Early
BY DEF Early, AtWork

LEMMA FrameKeeps == ASSUME TypeOK, Timing, Frame PROVE Timing'
<1> USE DEF Attempts
<1>1. LeasesKnown'
  BY DEF Timing, LeasesKnown, Frame, Claimed
<1>2. EndsKnown'
  <2>1. \A s \in strays' : s.kind = "fail" => s.lease \in Attempts /\ pc'[s.lease] = "ended"
    BY EarlyPlaces DEF Timing, EndsKnown, Frame
  <2>2. row'.status = "complete" => Credited(row.lease)'
    BY DEF Timing, EndsKnown, Frame, Credited
  <2>3. \A a \in Attempts : row'.status = "paused" /\ ~row'.asked /\ row'.lease = a => pc'[a] \notin Early \cup {"none"}
    BY EarlyPlaces DEF Timing, EndsKnown, Frame
  <2> QED BY <2>1, <2>2, <2>3 DEF EndsKnown
<1>3. Clocks'
  <2>1. ASSUME NEW a \in Attempts, Owns(a)' PROVE
          /\ pc'[a] \in Early /\ quiet'[a] < Silence => age' <= quiet'[a] + Latency
          /\ beat'[a].step = "ok" => age' <= beat'[a].wait
          /\ Claimed(a)' => age' <= claim'.wait
    <3>1. Owns(a)
      BY <2>1 DEF Owns, Frame
    <3>2. age \in Nat /\ age' \in Nat /\ age' <= age
      BY ConstantsNatural DEF TypeOK, RowType, Frame, Constants
    <3>3. quiet[a] \in Nat /\ beat[a].wait \in Nat /\ claim.wait \in Nat /\ Latency \in Nat
      BY ConstantsNatural DEF TypeOK, KeeperType, PoolType, Beats, Claims, Constants
    <3>4. pc'[a] \in Early => pc[a] \in Early /\ quiet'[a] = quiet[a]
      BY DEF Frame
    <3>5. beat'[a].step = "ok" => beat'[a] = beat[a]
      BY DEF Frame
    <3>6. Claimed(a)' => claim' = claim /\ Claimed(a)
      BY DEF Frame, Claimed
    <3>7. /\ pc[a] \in Early /\ quiet[a] < Silence => age <= quiet[a] + Latency
          /\ beat[a].step = "ok" => age <= beat[a].wait
          /\ Claimed(a) => age <= claim.wait
      BY <3>1 DEF Timing, Clocks
    <3> QED BY <3>2, <3>3, <3>4, <3>5, <3>6, <3>7
  <2> QED BY <2>1 DEF Clocks
<1>4. Grip'
  <2>1. \A a \in Attempts : Owns(a) => Owns(a)'
    BY DEF Owns, Frame
  <2>2. \A a \in Attempts : Credited(a) => Credited(a)'
    BY DEF Credited, Frame
  <2>3. \A a \in Attempts : pc'[a] \in Early /\ (Passes(a)' \/ beat'[a].step = "ok")
                           => pc[a] \in Early /\ (Passes(a) \/ beat[a].step = "ok")
    BY DEF Frame, Passes
  <2>4. \A a \in Attempts : Claimed(a)' => Claimed(a)
    BY DEF Frame, Claimed
  <2> QED BY <2>1, <2>2, <2>3, <2>4 DEF Timing, Grip, Gripping
<1> QED BY <1>1, <1>2, <1>3, <1>4 DEF Timing

LEMMA Framed ==
  ASSUME TypeOK
  PROVE  /\ Revise \/ Withdraw \/ BeginSave \/ EndSave \/ SendClaim \/ LoseClaim \/ Drain \/ Exit \/ Die \/ Launch => Frame
         /\ \A a \in Attempts : SendBeat(a) \/ LoseBeat(a) \/ OpenJournal(a) \/ Refused(a) \/ Build(a) \/ Trouble(a) \/ Announce(a) \/ AnnounceLate(a) \/ UploadLate(a) \/ Ask(a) \/ Reset(a) \/ Recheck(a) \/ LastCheckpoint(a) \/ Leave(a) \/ EndUnreported(a) => Frame
<1>1. ASSUME Revise PROVE Frame
  BY <1>1 DEF TypeOK, RowType, ThreadType, KeeperType, Jobs, Frame, Early, AtWork, Revise, Happens, pool, thread, keeper
<1>2. ASSUME Withdraw PROVE Frame
  BY <1>2 DEF TypeOK, RowType, ThreadType, KeeperType, Jobs, Frame, Early, AtWork, Withdraw, pool, thread, keeper
<1>3. ASSUME BeginSave PROVE Frame
  BY <1>3 DEF TypeOK, RowType, ThreadType, KeeperType, Jobs, Frame, Early, AtWork, BeginSave, Happens, pool, thread, keeper
<1>4. ASSUME EndSave PROVE Frame
  BY <1>4 DEF TypeOK, RowType, ThreadType, KeeperType, Jobs, Frame, Early, AtWork, EndSave, pool, thread, keeper
<1>5. ASSUME SendClaim PROVE Frame
  BY <1>5 DEF TypeOK, RowType, ThreadType, KeeperType, Jobs, Frame, Early, AtWork, SendClaim, NoClaim, site, thread, keeper
<1>6. ASSUME LoseClaim PROVE Frame
  BY <1>6 DEF TypeOK, RowType, ThreadType, KeeperType, Jobs, Frame, Early, AtWork, LoseClaim, WithStrays, LostClaim, NoClaim, site, thread, keeper
<1>7. ASSUME Drain PROVE Frame
  BY <1>7 DEF TypeOK, RowType, ThreadType, KeeperType, Jobs, Frame, Early, AtWork, Drain, site, thread, keeper
<1>8. ASSUME Exit PROVE Frame
  BY <1>8 DEF TypeOK, RowType, ThreadType, KeeperType, Jobs, Frame, Early, AtWork, Exit, site, thread, keeper
<1>9. ASSUME Die PROVE Frame
  BY <1>9 DEF TypeOK, RowType, ThreadType, KeeperType, Jobs, Frame, Early, AtWork, Die, WithStrays, LostClaim, Stray, NoClaim, NoBeat, Gone, Working, Live, Locked, site
<1>10. ASSUME Launch PROVE Frame
  BY <1>10 DEF TypeOK, RowType, ThreadType, KeeperType, Jobs, Frame, Early, AtWork, Launch, site, thread, keeper
<1>11. ASSUME NEW a \in Attempts, SendBeat(a) PROVE Frame
  BY <1>11 DEF TypeOK, RowType, ThreadType, KeeperType, Jobs, Frame, Early, AtWork, SendBeat, Beating, Live, Locked, AtWork, NoBeat, site, pool, thread
<1>12. ASSUME NEW a \in Attempts, LoseBeat(a) PROVE Frame
  BY <1>12 DEF TypeOK, RowType, ThreadType, KeeperType, Jobs, Frame, Early, AtWork, LoseBeat, NoBeat, WithStrays, Stray, site, pool, thread
<1>13. ASSUME NEW a \in Attempts, OpenJournal(a) PROVE Frame
  BY <1>13 DEF TypeOK, RowType, ThreadType, KeeperType, Jobs, Frame, Early, AtWork, OpenJournal, Goto, site, pool, keeper
<1>14. ASSUME NEW a \in Attempts, Refused(a) PROVE Frame
  BY <1>14 DEF TypeOK, RowType, ThreadType, KeeperType, Jobs, Frame, Early, AtWork, Refused, Raise, site, pool, keeper
<1>15. ASSUME NEW a \in Attempts, Build(a) PROVE Frame
  BY <1>15 DEF TypeOK, RowType, ThreadType, KeeperType, Jobs, Frame, Early, AtWork, Build, Goto, pool, keeper
<1>16. ASSUME NEW a \in Attempts, Trouble(a) PROVE Frame
  BY <1>16 DEF TypeOK, RowType, ThreadType, KeeperType, Jobs, Frame, Early, AtWork, Trouble, Raise, site, pool, keeper
<1>17. ASSUME NEW a \in Attempts, Announce(a) PROVE Frame
  BY <1>17 DEF TypeOK, RowType, ThreadType, KeeperType, Jobs, Frame, Early, AtWork, Announce, Goto, Raise, pool, keeper
<1>18. ASSUME NEW a \in Attempts, AnnounceLate(a) PROVE Frame
  BY <1>18 DEF TypeOK, RowType, ThreadType, KeeperType, Jobs, Frame, Early, AtWork, AnnounceLate, Raise, WithStrays, Stray, site, pool, keeper
<1>19. ASSUME NEW a \in Attempts, UploadLate(a) PROVE Frame
  BY <1>19 DEF TypeOK, RowType, ThreadType, KeeperType, Jobs, Frame, Early, AtWork, UploadLate, Again, Goto, WithStrays, Stray, site, pool, keeper
<1>20. ASSUME NEW a \in Attempts, Ask(a) PROVE Frame
  BY <1>20 DEF TypeOK, RowType, ThreadType, KeeperType, Jobs, Frame, Early, AtWork, Ask, Goto, Raise, site, pool, keeper
<1>21. ASSUME NEW a \in Attempts, Reset(a) PROVE Frame
  BY <1>21 DEF TypeOK, RowType, ThreadType, KeeperType, Jobs, Frame, Early, AtWork, Reset, Goto, Raise, pool, keeper
<1>22. ASSUME NEW a \in Attempts, Recheck(a) PROVE Frame
  BY <1>22 DEF TypeOK, RowType, ThreadType, KeeperType, Jobs, Frame, Early, AtWork, Recheck, pool, keeper
<1>23. ASSUME NEW a \in Attempts, LastCheckpoint(a) PROVE Frame
  BY <1>23 DEF TypeOK, RowType, ThreadType, KeeperType, Jobs, Frame, Early, AtWork, LastCheckpoint, Goto, pool, keeper
<1>24. ASSUME NEW a \in Attempts, Leave(a) PROVE Frame
  BY <1>24 DEF TypeOK, RowType, ThreadType, KeeperType, Jobs, Frame, Early, AtWork, Leave, Goto, site, pool, keeper
<1>25. ASSUME NEW a \in Attempts, EndUnreported(a) PROVE Frame
  BY <1>25 DEF TypeOK, RowType, ThreadType, KeeperType, Jobs, Frame, Early, AtWork, EndUnreported, Gone, WithStrays, Stray, site, pool
<1> QED BY <1>1, <1>2, <1>3, <1>4, <1>5, <1>6, <1>7, <1>8, <1>9, <1>10, <1>11, <1>12, <1>13, <1>14, <1>15, <1>16, <1>17, <1>18, <1>19, <1>20, <1>21, <1>22, <1>23, <1>24, <1>25

\* What holds the task while the row is too old for a claim, or is not leased.
LEMMA TooOldToGrip ==
  ASSUME TypeOK, Timing, age >= Expiry, NEW a \in Attempts, Owns(a), Gripping(a)
  PROVE  FALSE
<1>1. Latency \in Nat /\ Silence \in Nat \ {0} /\ Expiry \in Nat /\ Latency + Silence <= Expiry
  BY ConstantsNatural, ExecutionAssumption DEF Constants, ExecutionAssumption
<1>2. age \in Nat /\ quiet[a] \in Nat /\ beat[a].wait \in 0 .. Latency /\ claim.wait \in 0 .. Latency
  BY ConstantsNatural DEF TypeOK, RowType, KeeperType, PoolType, Beats, Claims, Constants
<1>3. /\ pc[a] \in Early /\ quiet[a] < Silence => age <= quiet[a] + Latency
      /\ beat[a].step = "ok" => age <= beat[a].wait
      /\ Claimed(a) => age <= claim.wait
  BY DEF Timing, Clocks
<1> QED BY <1>1, <1>2, <1>3 DEF Gripping, Passes

LEMMA AnswerKeepsGrip ==
  ASSUME TypeOK, Timing, NEW l \in 0 .. MaxAttempts, Answer(l), NEW a \in Attempts, Gripping(a)
  PROVE  Owns(a)' \/ Credited(a)
<1>1. Owns(a) \/ Credited(a)
  BY DEF Timing, Grip
<1>2. ASSUME Owns(a), row.status = "running", Expired PROVE FALSE
  <2>1. age >= Expiry
    BY <1>2, ConstantsNatural DEF Expired, TypeOK, RowType, Constants
  <2> QED BY <1>2, <2>1, TooOldToGrip
<1> QED BY <1>1, <1>2 DEF Answer, Owns

LEMMA AnswerLeases ==
  ASSUME TypeOK, Timing, NEW l \in 0 .. MaxAttempts, Answer(l)
  PROVE  /\ issued' \in Nat /\ issued' >= issued
         /\ row'.lease <= issued' /\ (row'.status = "queued" => row'.lease = 0)
         /\ row'.status \in {"complete", "paused"} => row' = row
         /\ l # 0 => l = issued + 1 /\ l = issued' /\ row'.lease = l /\ row'.status = "running" /\ age' = 0
         /\ \A a \in Attempts : Owns(a)' /\ a # l => Owns(a) /\ age' = age
<1> USE ConstantsNatural DEF Attempts, Constants
<1>1. row \in Jobs /\ row.lease <= issued /\ issued \in 0 .. MaxAttempts /\ row.lease \in 0 .. MaxAttempts
  BY DEF TypeOK, RowType, CountType, Timing, LeasesKnown, Jobs
<1>2. CASE row.status = "running" /\ Expired /\ l = 0 /\ row' = [row EXCEPT !.status = "failed"] /\ UNCHANGED issued
  <2>1. row'.status = "failed" /\ row'.lease = row.lease
    BY <1>1, <1>2 DEF Jobs
  <2> QED BY <1>1, <1>2, <2>1 DEF Owns
<1>3. CASE row.status = "queued" /\ l = issued + 1 /\ row' = [row EXCEPT !.status = "running", !.lease = l]
           /\ age' = 0 /\ issued' = l
  <2>1. row'.status = "running" /\ row'.lease = l
    BY <1>1, <1>3 DEF Jobs
  <2> QED BY <1>1, <1>3, <2>1 DEF Owns
<1>4. CASE l = 0 /\ UNCHANGED <<row, age, issued>>
  BY <1>1, <1>4 DEF Owns, Timing, LeasesKnown
<1> QED BY <1>2, <1>3, <1>4 DEF Answer

\* A completion that is accepted credits the attempt that owned the task.
LEMMA CompleteKeeps ==
  ASSUME TypeOK, Timing, NEW a \in 0 .. MaxAttempts, NEW b, Accepted(a, b), Complete(a, b),
         UNCHANGED <<claim, issued, quiet, fatal, beat>>,
         \A c \in Attempts : pc'[c] = pc[c] \/ (pc[c] \in Early /\ pc'[c] # "none"),
         \A c \in Attempts : pc'[c] \in Early => pc[c] \in Early,
         strays' \subseteq strays
  PROVE  Timing'
<1> USE DEF Attempts
<1>1. /\ row'.lease = row.lease /\ row'.status = "complete" /\ row.status = "running" /\ row.lease = a
      /\ Credited(a)'
  <2>1. row'.lease = row.lease /\ row'.status = "complete" /\ row.status = "running" /\ row.lease = a
    BY DEF Complete, Accepted, Holds, TypeOK, RowType, Jobs
  <2>2. [lease |-> a, digest |-> b.digest, revision |-> b.revision] \in committed'
    BY DEF Complete
  <2> QED BY <2>1, <2>2 DEF Credited
<1>2. LeasesKnown'
  BY <1>1, EarlyPlaces DEF Timing, LeasesKnown, Claimed
<1>3. EndsKnown'
  BY <1>1, EarlyPlaces DEF Timing, EndsKnown, Credited
<1>4. Clocks'
  BY <1>1 DEF Clocks, Owns
<1>5. \A c \in Attempts : Credited(c) => Credited(c)'
  BY DEF Complete, Credited
<1>6. Grip'
  BY <1>1, <1>5 DEF Timing, Grip, Gripping, Owns, Claimed, Passes
<1> QED BY <1>2, <1>3, <1>4, <1>6 DEF Timing

\* A failure that is reported ends what an execution that left had owned.
LEMMA FailKeeps ==
  ASSUME TypeOK, Timing, NEW a \in Attempts, pc[a] \in {"left", "ended"}, Holds(a), Failing(a),
         UNCHANGED <<claim, issued, committed, beat>>, strays' \subseteq strays,
         \A c \in Attempts : pc'[c] = pc[c] \/ (pc'[c] = "ended" /\ pc[c] = "left"),
         \A c \in Attempts : pc'[c] \in Early => quiet'[c] = quiet[c] /\ fatal'[c] = fatal[c]
  PROVE  Timing'
<1> USE DEF Attempts
<1>1. row'.lease = row.lease /\ row'.status = "failed" /\ row.lease = a
  BY DEF Failing, Holds, TypeOK, RowType, Jobs
<1>2. LeasesKnown'
  BY <1>1, EarlyPlaces DEF Timing, LeasesKnown, Claimed
<1>3. EndsKnown'
  BY <1>1, EarlyPlaces DEF Timing, EndsKnown, Credited
<1>4. Clocks'
  BY <1>1 DEF Clocks, Owns
<1>5. \A c \in Attempts : Gripping(c)' => Gripping(c) /\ c # a
  BY EarlyPlaces DEF Gripping, Claimed, Passes, Timing, LeasesKnown
<1>6. Grip'
  BY <1>1, <1>5 DEF Timing, Grip, Owns, Credited
<1> QED BY <1>2, <1>3, <1>4, <1>6 DEF Timing

LEMMA TimingStep == TypeOK /\ Timing /\ [Next]_vars => Timing'
<1> SUFFICES ASSUME TypeOK, Timing, [Next]_vars PROVE Timing'
  OBVIOUS
<1> USE DEF Attempts
<1>0. CASE UNCHANGED vars
  BY <1>0 DEF vars, Timing, LeasesKnown, EndsKnown, Clocks, Grip, Gripping, Owns, Credited, Claimed, Passes
<1>1. CASE Tick
  <2>1. /\ claim'.step = claim.step /\ claim'.lease = claim.lease
        /\ \A a \in Attempts : beat'[a].step = beat[a].step
    BY <1>1 DEF Tick, TypeOK, PoolType, KeeperType, Claims, Beats, NoBeat
  <2>2. LeasesKnown' /\ EndsKnown'
    BY <1>1, <2>1 DEF Tick, Timing, LeasesKnown, EndsKnown, Claimed, Credited, thread
  <2>3. ASSUME NEW a \in Attempts, Owns(a) PROVE
          /\ pc[a] \in Early /\ quiet'[a] < Silence => age' <= quiet'[a] + Latency
          /\ beat[a].step = "ok" => age' <= beat'[a].wait
          /\ Claimed(a) => age' <= claim'.wait
    <3>1. age \in Nat /\ age' \in Nat /\ age' <= age + 1 /\ Silence \in Nat /\ Latency \in Nat
      BY <1>1, ConstantsNatural DEF Tick, Older, TypeOK, RowType, Constants
    <3>2. pc[a] \in Early /\ quiet'[a] < Silence => quiet[a] < Silence /\ quiet'[a] = quiet[a] + 1 /\ quiet[a] \in Nat
      BY <1>1, <3>1 DEF Tick, Older, TypeOK, KeeperType, Working, Live, Locked, Early
    <3>3. beat[a].step = "ok" => beat'[a].wait = beat[a].wait + 1 /\ beat[a].wait \in Nat
      BY <1>1 DEF Tick, TypeOK, KeeperType, Beats
    <3>4. Claimed(a) => claim'.wait = claim.wait + 1 /\ claim.wait \in Nat
      BY <1>1 DEF Tick, TypeOK, PoolType, Claims, Claimed
    <3>5. /\ pc[a] \in Early /\ quiet[a] < Silence => age <= quiet[a] + Latency
          /\ beat[a].step = "ok" => age <= beat[a].wait
          /\ Claimed(a) => age <= claim.wait
      BY <2>3 DEF Timing, Clocks
    <3> QED BY <3>1, <3>2, <3>3, <3>4, <3>5
  <2>4. Clocks'
    BY <1>1, <2>1, <2>3 DEF Tick, Clocks, Owns, Claimed, thread
  <2>5. \A a \in Attempts : Passes(a)' => Passes(a)
    BY <1>1, ConstantsNatural DEF Tick, Older, Passes, TypeOK, KeeperType, Constants
  <2>6. Grip'
    BY <1>1, <2>1, <2>5 DEF Tick, Timing, Grip, Gripping, Owns, Credited, Claimed, thread
  <2> QED BY <2>2, <2>4, <2>6 DEF Timing
<1>2. CASE Pause
  <2>1. /\ row'.lease = row.lease /\ row'.status = "paused" /\ row'.asked = (row.status = "running")
        /\ row.status \in {"queued", "running"} /\ age' = 0
    BY <1>2 DEF Pause, TypeOK, RowType, Jobs
  <2>2. LeasesKnown'
    BY <1>2, <2>1 DEF Pause, Timing, LeasesKnown, Claimed, pool, thread, keeper
  <2>5. row.status = "queued" => \A a \in Attempts : row'.lease # a
    BY <2>1 DEF Timing, LeasesKnown
  <2>6. row.status = "running" => row'.asked
    BY <2>1
  <2>7. EndsKnown'
    BY <1>2, <2>1, <2>5, <2>6 DEF Pause, Timing, EndsKnown, Credited, pool, thread, keeper
  <2>3. Clocks'
    BY <1>2, <2>1, ConstantsNatural DEF Pause, Clocks, Claimed, pool, thread, keeper,
       TypeOK, KeeperType, PoolType, Beats, Claims, Constants
  <2>4. Grip'
    BY <1>2, <2>1 DEF Pause, Timing, Grip, Gripping, Owns, Credited, Claimed, Passes, pool, thread, keeper
  <2> QED BY <2>2, <2>3, <2>4, <2>7 DEF Timing
<1>3. CASE Requeue
  <2>1. /\ row'.lease = 0 /\ row'.status = "queued"
        /\ row.status \in {"failed", "complete", "paused"}
        /\ row.status = "paused" /\ row.asked => age >= Expiry
    BY <1>3 DEF Requeue, TypeOK, RowType, Jobs
  <2>2. LeasesKnown' /\ EndsKnown' /\ Clocks'
    BY <1>3, <2>1, ConstantsNatural DEF Requeue, Timing, LeasesKnown, EndsKnown, Clocks, Owns, Claimed, Credited,
       pool, thread, keeper, TypeOK, CountType, Constants
  <2>3. ASSUME NEW a \in Attempts, Gripping(a) PROVE Credited(a)
    <3>1. CASE Owns(a) /\ row.asked
      BY <2>1, <2>3, <3>1, TooOldToGrip DEF Owns
    <3>2. CASE Owns(a) /\ ~row.asked
      BY <2>1, <2>3, <3>2 DEF Timing, EndsKnown, LeasesKnown, Owns, Gripping
    <3> QED BY <2>3, <3>1, <3>2 DEF Timing, Grip
  <2>4. Grip'
    BY <1>3, <2>3 DEF Requeue, Grip, Gripping, Credited, Claimed, Passes, pool, thread, keeper
  <2> QED BY <2>2, <2>4 DEF Timing
<1>4. CASE HandleClaim
  <2>1. PICK l \in 0 .. MaxAttempts : Answer(l) /\ claim.step = "sent"
          /\ claim' = IF l = 0 THEN NoClaim ELSE [claim EXCEPT !.step = "answered", !.lease = l]
    BY <1>4 DEF HandleClaim
  <2>2. /\ l = 0 => claim'.step # "answered"
        /\ l # 0 => claim'.step = "answered" /\ claim'.lease = l /\ claim'.wait = claim.wait
        /\ claim.wait \in Nat
    BY <2>1 DEF NoClaim, TypeOK, PoolType, Claims
  <2>3. \A a \in Attempts : ~Claimed(a) /\ (Claimed(a)' => a = l /\ a # 0)
    BY <2>1, <2>2 DEF Claimed
  <2>4. LeasesKnown'
    BY <1>4, <2>1, <2>2, <2>3, AnswerLeases DEF HandleClaim, Timing, LeasesKnown, thread, keeper, TypeOK, CountType
  <2>5. EndsKnown'
    BY <1>4, <2>1, AnswerLeases DEF HandleClaim, Timing, EndsKnown, Credited, thread, keeper
  <2>6. Clocks'
    <3>1. ASSUME NEW a \in Attempts, Owns(a)', a # l PROVE Owns(a) /\ age' = age
      BY <2>1, <3>1, AnswerLeases
    <3>2. l # 0 => age' = 0 /\ l \in Attempts /\ pc[l] = "none" /\ beat[l].step = "idle"
      BY <2>1, AnswerLeases DEF Timing, LeasesKnown, TypeOK, CountType
    <3> QED BY <1>4, <2>2, <2>3, <3>1, <3>2, EarlyPlaces DEF HandleClaim, Timing, Clocks, thread, keeper
  <2>7. Grip'
    <3>1. \A a \in Attempts : Gripping(a)' => Gripping(a) \/ (a = l /\ a # 0)
      BY <1>4, <2>3 DEF HandleClaim, Gripping, Passes, thread, keeper
    <3>2. l # 0 => Owns(l)'
      BY <2>1, AnswerLeases DEF Owns
    <3>3. \A a \in Attempts : Credited(a) => Credited(a)'
      BY <1>4 DEF HandleClaim, Credited
    <3> QED BY <2>1, <3>1, <3>2, <3>3, AnswerKeepsGrip DEF Grip
  <2> QED BY <2>4, <2>5, <2>6, <2>7 DEF Timing
<1>5. CASE ReceiveClaim
  <2> DEFINE l == claim.lease
  <2>1. /\ Claimed(l) /\ l \in Attempts /\ l <= issued /\ pc[l] = "none" /\ claim' = NoClaim
        /\ pc' = [pc EXCEPT ![l] = "starting"] /\ quiet' = [quiet EXCEPT ![l] = 0]
    BY <1>5 DEF ReceiveClaim, Started, Claimed, Timing, LeasesKnown, TypeOK, PoolType, Claims
  <2>2. /\ pc'[l] = "starting" /\ quiet'[l] = 0
        /\ \A a \in Attempts \ {l} : pc'[a] = pc[a] /\ quiet'[a] = quiet[a]
    BY <2>1 DEF TypeOK, ThreadType, KeeperType
  <2>3. \A a \in Attempts : ~Claimed(a)'
    BY <2>1 DEF Claimed, NoClaim
  <2>4. LeasesKnown'
    BY <1>5, <2>1, <2>2, <2>3 DEF ReceiveClaim, Timing, LeasesKnown, site, NoClaim
  <2>5. EndsKnown'
    BY <1>5, <2>1, <2>2 DEF ReceiveClaim, Timing, EndsKnown, Credited, site
  <2>6. Owns(l) => age <= Latency
    BY <2>1, ConstantsNatural DEF Timing, Clocks, TypeOK, RowType, PoolType, Claims, Constants
  <2>7. Clocks'
    BY <1>5, <2>2, <2>3, <2>6, ConstantsNatural DEF ReceiveClaim, Timing, Clocks, Owns, site, Constants,
       TypeOK, RowType
  <2>8. Grip'
    BY <1>5, <2>1, <2>2, <2>3 DEF ReceiveClaim, Timing, Grip, Gripping, Owns, Credited, Passes, site
  <2> QED BY <2>4, <2>5, <2>7, <2>8 DEF Timing
<1>6. ASSUME NEW a \in Attempts, HandleBeat(a) PROVE Timing'
  <2>1. /\ beat[a].step = "sent" /\ beat'[a].step = Acknowledged(a) /\ beat'[a].wait = beat[a].wait
        /\ beat[a].wait \in Nat
        /\ \A b \in Attempts \ {a} : beat'[b] = beat[b]
    BY <1>6 DEF HandleBeat, TypeOK, KeeperType, Beats
  <2>2. Acknowledged(a) = "ok" => Holds(a)
    BY DEF Acknowledged
  <2>3. age' = 0 \/ (age' = age /\ ~Holds(a))
    BY <1>6 DEF HandleBeat
  <2>4. LeasesKnown' /\ EndsKnown'
    BY <1>6, <2>1 DEF HandleBeat, Timing, LeasesKnown, EndsKnown, Claimed, Credited, pool, thread
  <2>5. \A b \in Attempts : beat'[b].step = "ok" => beat[b].step = "ok" \/ (b = a /\ Holds(a))
    BY <2>1, <2>2
  <2>6. \A b \in Attempts : quiet[b] \in Nat /\ beat[b].wait \in Nat /\ beat'[b].wait = beat[b].wait
    BY <2>1 DEF TypeOK, KeeperType, Beats
  <2>7. claim.wait \in Nat /\ Latency \in Nat
    BY ConstantsNatural DEF TypeOK, PoolType, Claims, Constants
  <2>8. Clocks'
    <3>1. CASE age' = 0
      BY <1>6, <2>6, <2>7, <3>1 DEF HandleBeat, Clocks, Claimed, pool, thread
    <3>2. CASE age' = age /\ ~Holds(a)
      BY <1>6, <2>5, <2>6, <3>2 DEF HandleBeat, Timing, Clocks, Claimed, Owns, pool, thread
    <3> QED BY <2>3, <3>1, <3>2
  <2>9. Grip'
    BY <1>6, <2>5 DEF HandleBeat, Timing, Grip, Gripping, Owns, Holds, Credited, Claimed, Passes, pool, thread
  <2> QED BY <2>4, <2>8, <2>9 DEF Timing
<1>7. ASSUME NEW a \in Attempts, ReceiveBeat(a) PROVE Timing'
  <2>1. /\ beat'[a].step = "idle" /\ \A b \in Attempts \ {a} : beat'[b] = beat[b] /\ quiet'[b] = quiet[b] /\ fatal'[b] = fatal[b]
        /\ IF beat[a].step = "ok" THEN quiet'[a] = 0 /\ fatal'[a] = fatal[a] ELSE quiet'[a] = quiet[a]
        /\ fatal'[a] = "none" => fatal[a] = "none"
    BY <1>7 DEF ReceiveBeat, TypeOK, KeeperType, NoBeat
  <2>2. LeasesKnown' /\ EndsKnown'
    BY <1>7, <2>1 DEF ReceiveBeat, Timing, LeasesKnown, EndsKnown, Claimed, Credited, site, pool, thread
  <2>3. ASSUME NEW b \in Attempts, Owns(b) PROVE
          /\ pc[b] \in Early /\ quiet'[b] < Silence => age <= quiet'[b] + Latency
          /\ beat'[b].step = "ok" => age <= beat'[b].wait
    <3>1. age \in Nat /\ Latency \in Nat /\ beat[b].wait \in 0 .. Latency
      BY ConstantsNatural DEF TypeOK, RowType, KeeperType, Beats, Constants
    <3> QED BY <2>1, <2>3, <3>1 DEF Timing, Clocks
  <2>4. Clocks'
    BY <1>7, <2>3 DEF ReceiveBeat, Timing, Clocks, Owns, Claimed, site, pool, thread
  <2>5. Grip'
    BY <1>7, <2>1 DEF ReceiveBeat, Timing, Grip, Gripping, Owns, Credited, Claimed, Passes, site, pool, thread
  <2> QED BY <2>2, <2>4, <2>5 DEF Timing
<1>8. ASSUME NEW a \in Attempts, Upload(a) PROVE Timing'
  <2>1. /\ \A c \in Attempts : pc'[c] = pc[c] \/ (pc[c] \in Early /\ pc'[c] # "none")
        /\ \A c \in Attempts : pc'[c] \in Early => pc[c] \in Early
    BY <1>8 DEF Upload, Again, Goto, Raise, TypeOK, ThreadType, Early, AtWork
  <2>2. CASE Accepted(a, build[a])
    BY <1>8, <2>1, <2>2, CompleteKeeps DEF Upload, pool, keeper
  <2>3. CASE ~Accepted(a, build[a])
    BY <1>8, <2>1, <2>3, FrameKeeps, EarlyPlaces DEF Upload, Complete, Frame, pool, keeper
  <2> QED BY <2>2, <2>3
<1>9. ASSUME NEW a \in Attempts, End(a) PROVE Timing'
  <2>1. /\ pc[a] = "left" /\ pc'[a] = "ended" /\ \A c \in Attempts \ {a} : pc'[c] = pc[c]
        /\ \A c \in Attempts : pc'[c] \in Early => quiet'[c] = quiet[c] /\ fatal'[c] = fatal[c]
    BY <1>9, EarlyPlaces DEF End, Gone, TypeOK, ThreadType
  <2>2. CASE verdict[a] = "failed" /\ Holds(a)
    BY <1>9, <2>1, <2>2, FailKeeps DEF End, pool
  <2>3. CASE ~(verdict[a] = "failed" /\ Holds(a))
    BY <1>9, <2>1, <2>3, FrameKeeps, EarlyPlaces DEF End, Failing, Frame, pool
  <2> QED BY <2>2, <2>3
<1>10. ASSUME NEW s \in strays, Arrive(s) PROVE Timing'
  <2>1. strays' \subseteq strays /\ UNCHANGED <<claim, quiet, fatal, beat, pc>>
    BY <1>10 DEF Arrive, pool, thread, keeper
  <2>2. s.lease \in 0 .. MaxAttempts
    BY DEF TypeOK, StraysType
  <2>3. CASE s.kind = "claim"
    <3>1. PICK l \in 0 .. MaxAttempts : Answer(l) /\ committed' = committed
      BY <1>10, <2>3 DEF Arrive
    <3>2. LeasesKnown'
      BY <2>1, <3>1, AnswerLeases DEF Timing, LeasesKnown, Claimed, TypeOK, CountType
    <3>3. EndsKnown'
      BY <2>1, <3>1, AnswerLeases DEF Timing, EndsKnown, Credited
    <3>4. Clocks'
      <4>1. ASSUME NEW a \in Attempts, Owns(a)', a # l PROVE Owns(a) /\ age' = age
        BY <3>1, <4>1, AnswerLeases
      <4>2. l # 0 => age' = 0 /\ l \in Attempts /\ pc[l] = "none" /\ beat[l].step = "idle" /\ ~Claimed(l)
        BY <3>1, AnswerLeases DEF Timing, LeasesKnown, TypeOK, CountType
      <4> QED BY <2>1, <4>1, <4>2, EarlyPlaces DEF Timing, Clocks, Claimed
    <3>5. Grip'
      BY <2>1, <3>1, AnswerKeepsGrip DEF Grip, Gripping, Passes, Claimed, Credited
    <3> QED BY <3>2, <3>3, <3>4, <3>5 DEF Timing
  <2>4. CASE s.kind = "complete" /\ Accepted(s.lease, s.build)
    BY <1>10, <2>1, <2>2, <2>4, CompleteKeeps DEF Arrive
  <2>5. CASE s.kind = "fail" /\ Holds(s.lease)
    <3>1. s.lease \in Attempts /\ pc[s.lease] = "ended"
      BY <2>5 DEF Timing, EndsKnown
    <3> QED BY <1>10, <2>1, <2>5, <3>1, FailKeeps DEF Arrive
  <2>6. CASE \/ s.kind = "complete" /\ ~Accepted(s.lease, s.build)
             \/ s.kind = "fail" /\ ~Holds(s.lease)
             \/ s.kind \in {"renew", "announce"}
    <3>1. /\ row'.lease = row.lease /\ row'.status = row.status /\ row'.asked = row.asked /\ age' \in {age, 0}
          /\ issued' = issued /\ committed' = committed
      BY <1>10, <2>6 DEF Arrive, Complete, Failing, TypeOK, RowType, Jobs
    <3> QED BY <2>1, <3>1, FrameKeeps DEF Frame
  <2> QED BY <1>10, <2>3, <2>4, <2>5, <2>6 DEF Arrive
<1>11. ASSUME Frame PROVE Timing'
  BY <1>11, FrameKeeps
<1> QED BY <1>0, <1>1, <1>2, <1>3, <1>4, <1>5, <1>6, <1>7, <1>8, <1>9, <1>10, <1>11, Framed
       DEF Next, Owner, Supervisor, Keeper, Execute, Delivery, Ending

LEMMA ExecutionSound == Spec => [](TypeOK /\ Timing)
<1>1. Init => Timing
  BY ConstantsNatural, EarlyPlaces DEF Init, Timing, LeasesKnown, EndsKnown, Clocks, Grip, Gripping,
     Owns, Claimed, NoClaim, NoBeat, Attempts, Constants
<1> QED BY <1>1, ExecutionTyped, TimingStep, PTL DEF Spec

\* For every Latency, Silence and Expiry with Latency + Silence <= Expiry, and
\* however many attempts, restarts, pauses and lost or late requests there are:
\* an execution whose check passes has not lost its task (LeaseKeeper.check
\* before every phase, against the sweep of the claim and the wait of resume).
THEOREM ExecutionHoldsTask == Spec => []PassingAttemptsHold
<1>1. TypeOK /\ Timing => PassingAttemptsHold
  BY DEF PassingAttemptsHold, Timing, Grip, Gripping, Owns, Credited, Early
<1> QED BY <1>1, ExecutionSound, PTL

\* What makes late completions harmless.  A deck is only replaced by its own
\* attempt, after the website refused it with 412; that answer always means a
\* newer revision, because the announcement keeps direct saves out; and a newer
\* revision refuses every later arrival of the old deck.
Upstream == {"starting", "working", "ready", "resetting"}
Delivered(a) == [lease |-> a, digest |-> build[a].digest, revision |-> build[a].revision] \in committed

Receipts ==
  /\ \A c \in committed : c.lease \in Attempts /\ c.lease <= issued /\ ~Holds(c.lease)
                          /\ c.digest = build[c.lease].digest /\ c.revision = build[c.lease].revision
  /\ row.status = "complete" =>
       \E c \in committed : c.lease = row.lease /\ c.digest = row.file.digest
  /\ \A a \in Attempts : pc[a] = "delivered" => Delivered(a)
LateOnes ==
  \A s \in strays : s.kind = "complete" =>
    /\ s.lease \in Attempts /\ pc[s.lease] # "none"
    /\ s.build = build[s.lease] \/ s.build.revision < revision
    /\ pc[s.lease] \in Upstream /\ Holds(s.lease) => s.build.revision < revision
Announcements ==
  /\ \A a \in Attempts : build[a].revision <= applied
  /\ \A a \in Attempts : pc[a] = "uploading" /\ Holds(a) =>
       build[a].revision < revision \/ (row.announced /\ ~saving)
Replaced == Receipts /\ LateOnes /\ Announcements

\* What most steps leave alone.
Calm ==
  /\ committed' = committed /\ build' = build /\ applied' = applied /\ issued' \in Nat /\ issued' >= issued
  /\ revision' \in Nat /\ revision' >= revision
  /\ row'.status = "complete" => row.status = "complete" /\ row'.lease = row.lease /\ row'.file = row.file
  /\ \A a \in Attempts : Holds(a)' => Holds(a) \/ a > issued
  /\ \A a \in Attempts : Holds(a)' /\ Holds(a) =>
       /\ (row'.announced /\ ~saving') \/ ~(row.announced /\ ~saving) \/ applied < revision
             \/ pc'[a] # "uploading"
  /\ \A a \in Attempts :
       \/ pc'[a] = pc[a]
       \/ /\ pc[a] # "none" /\ pc'[a] \notin {"none", "delivered"}
          /\ pc'[a] \in Upstream => pc[a] \in Upstream
          /\ pc'[a] = "uploading" => pc[a] = "uploading"
  /\ \A s \in strays' : s.kind = "complete" =>
       \/ s \in strays
       \/ s.lease \in Attempts /\ pc[s.lease] = "uploading" /\ pc'[s.lease] \notin Upstream \cup {"none"} /\ s.build = build[s.lease]

LEMMA CalmKeeps == ASSUME TypeOK, Timing, Replaced, Calm PROVE Replaced'
<1> USE DEF Attempts
<1>0. /\ revision \in Nat /\ revision' >= revision /\ applied \in Nat /\ issued \in Nat
      /\ \A a \in Attempts : build[a].revision \in Nat
      /\ \A s \in strays : s.build.revision \in Nat
  BY ConstantsNatural DEF TypeOK, RowType, ThreadType, StraysType, CountType, Deck, Constants, Calm
<1>4. \A a \in Attempts : pc[a] # "none" => (Holds(a)' => Holds(a))
  BY <1>0 DEF Calm, Timing, LeasesKnown
<1>1. Receipts'
  <2>1. ASSUME NEW c \in committed' PROVE
          /\ c.lease \in Attempts /\ c.lease <= issued' /\ ~Holds(c.lease)'
          /\ c.digest = build'[c.lease].digest /\ c.revision = build'[c.lease].revision
    <3>1. c \in committed /\ c.lease \in Attempts /\ c.lease <= issued /\ ~Holds(c.lease)
      BY DEF Replaced, Receipts, Calm
    <3>2. ~Holds(c.lease)'
      BY <1>0, <3>1 DEF Calm
    <3>3. c.lease <= issued'
      BY <1>0, <3>1 DEF Calm, TypeOK, CountType
    <3> QED BY <3>1, <3>2, <3>3 DEF Replaced, Receipts, Calm
  <2>2. row'.status = "complete" => \E c \in committed' : c.lease = row'.lease /\ c.digest = row'.file.digest
    BY DEF Replaced, Receipts, Calm
  <2>3. \A a \in Attempts : pc'[a] = "delivered" => Delivered(a)'
    BY DEF Replaced, Receipts, Calm, Delivered
  <2> QED BY <2>1, <2>2, <2>3 DEF Receipts
<1>2. LateOnes'
  <2> SUFFICES ASSUME NEW s \in strays', s.kind = "complete" PROVE
          /\ s.lease \in Attempts /\ pc'[s.lease] # "none"
          /\ s.build = build'[s.lease] \/ s.build.revision < revision'
          /\ pc'[s.lease] \in Upstream /\ Holds(s.lease)' => s.build.revision < revision'
    BY DEF LateOnes
  <2>1. CASE s \in strays
    <3>1. s.lease \in Attempts /\ pc[s.lease] # "none" /\ s.build.revision \in Nat
      BY <1>0, <2>1 DEF Replaced, LateOnes
    <3>2. pc'[s.lease] # "none" /\ (pc'[s.lease] \in Upstream => pc[s.lease] \in Upstream)
      BY <3>1 DEF Calm
    <3>3. s.build = build[s.lease] \/ s.build.revision < revision
      BY <2>1 DEF Replaced, LateOnes
    <3>4. pc[s.lease] \in Upstream /\ Holds(s.lease) => s.build.revision < revision
      BY <2>1 DEF Replaced, LateOnes
    <3>5. s.build.revision < revision => s.build.revision < revision'
      BY <1>0, <3>1 DEF Calm, TypeOK, RowType
    <3> QED BY <1>4, <3>1, <3>2, <3>3, <3>4, <3>5 DEF Calm
  <2>2. CASE s \notin strays
    BY <2>2 DEF Calm
  <2> QED BY <2>1, <2>2
<1>3. Announcements'
  <2>1. ASSUME NEW a \in Attempts, pc'[a] = "uploading", Holds(a)' PROVE
          build[a].revision < revision' \/ (row'.announced /\ ~saving')
    <3>1. pc[a] = "uploading" /\ Holds(a)
      BY <1>4, <2>1 DEF Calm
    <3>2. build[a].revision < revision \/ (row.announced /\ ~saving)
      BY <3>1 DEF Replaced, Announcements
    <3>3. (row'.announced /\ ~saving') \/ ~(row.announced /\ ~saving) \/ applied < revision
      BY <2>1, <3>1 DEF Calm
    <3>4. build[a].revision <= applied
      BY DEF Replaced, Announcements
    <3>5. revision' \in Nat
      BY <1>0 DEF Calm
    <3> QED BY <1>0, <3>2, <3>3, <3>4, <3>5
  <2> QED BY <2>1 DEF Replaced, Announcements, Calm
<1> QED BY <1>1, <1>2, <1>3 DEF Replaced

LEMMA AnswerCalm ==
  ASSUME TypeOK, Timing, NEW l \in 0 .. MaxAttempts, Answer(l), strays' \subseteq strays,
         UNCHANGED <<committed, build, applied, revision, saving, pc>>
  PROVE  Calm
<1> USE DEF Attempts
<1>2. /\ issued' \in Nat /\ issued' >= issued /\ issued \in Nat
      /\ row'.status = "complete" => row' = row
      /\ l # 0 => l = issued + 1 /\ row'.lease = l
  BY AnswerLeases DEF TypeOK, CountType
<1>3. l = 0 => row' = row \/ row'.status = "failed"
  BY <1>2 DEF Answer, TypeOK, RowType, Jobs
<1>4. l # 0 => row.status = "queued"
  BY DEF Answer
<1>5. \A a \in Attempts : Holds(a)' => (Holds(a) /\ row' = row) \/ (a > issued /\ ~Holds(a))
  BY <1>2, <1>3, <1>4 DEF Holds
<1> QED BY <1>2, <1>5 DEF TypeOK, RowType, Calm

LEMMA Calmed ==
  ASSUME TypeOK, Timing
  PROVE  /\ Tick \/ Pause \/ Requeue \/ Revise \/ Withdraw \/ BeginSave \/ EndSave \/ SendClaim \/ HandleClaim \/ LoseClaim \/ Drain \/ Exit \/ Die \/ Launch => Calm
         /\ \A a \in Attempts : SendBeat(a) \/ HandleBeat(a) \/ ReceiveBeat(a) \/ LoseBeat(a) \/ OpenJournal(a) \/ Refused(a) \/ Trouble(a) \/ AnnounceLate(a) \/ UploadLate(a) \/ Reset(a) \/ Recheck(a) \/ LastCheckpoint(a) \/ Leave(a) \/ End(a) \/ EndUnreported(a) => Calm
<1>1. ASSUME Tick PROVE Calm
  BY <1>1 DEF TypeOK, RowType, ThreadType, CountType, Jobs, Calm, Upstream, Holds, Attempts, Tick, thread
<1>2. ASSUME Pause PROVE Calm
  BY <1>2 DEF TypeOK, RowType, ThreadType, CountType, Jobs, Calm, Upstream, Holds, Attempts, Pause, Happens, pool, thread, keeper
<1>3. ASSUME Requeue PROVE Calm
  BY <1>3 DEF TypeOK, RowType, ThreadType, CountType, Jobs, Calm, Upstream, Holds, Attempts, Requeue, Happens, pool, thread, keeper
<1>4. ASSUME Revise PROVE Calm
  BY <1>4 DEF TypeOK, RowType, ThreadType, CountType, Jobs, Calm, Upstream, Holds, Attempts, Revise, Happens, pool, thread, keeper
<1>5. ASSUME Withdraw PROVE Calm
  <2>1. /\ row'.status = row.status /\ row'.lease = row.lease
        /\ row.announced => row'.announced \/ applied < revision
    BY <1>5 DEF Withdraw, TypeOK, RowType, Jobs
  <2>2. row'.file = row.file
    BY <1>5 DEF Withdraw, TypeOK, RowType, Jobs
  <2> QED BY <1>5, <2>1, <2>2 DEF Withdraw, TypeOK, RowType, CountType, Calm, Holds, pool, thread, keeper
<1>6. ASSUME BeginSave PROVE Calm
  BY <1>6 DEF TypeOK, RowType, ThreadType, CountType, Jobs, Calm, Upstream, Holds, Attempts, BeginSave, OpenSave, Happens, pool, thread, keeper
<1>7. ASSUME EndSave PROVE Calm
  BY <1>7 DEF TypeOK, RowType, ThreadType, CountType, Jobs, Calm, Upstream, Holds, Attempts, EndSave, pool, thread, keeper
<1>8. ASSUME SendClaim PROVE Calm
  BY <1>8 DEF TypeOK, RowType, ThreadType, CountType, Jobs, Calm, Upstream, Holds, Attempts, SendClaim, site, thread, keeper
<1>9. ASSUME HandleClaim PROVE Calm
  <2>1. PICK l \in 0 .. MaxAttempts : Answer(l)
    BY <1>9 DEF HandleClaim
  <2> QED BY <1>9, <2>1, AnswerCalm DEF HandleClaim, thread
<1>10. ASSUME LoseClaim PROVE Calm
  BY <1>10 DEF TypeOK, RowType, ThreadType, CountType, Jobs, Calm, Upstream, Holds, Attempts, LoseClaim, WithStrays, LostClaim, site, thread, keeper
<1>11. ASSUME Drain PROVE Calm
  BY <1>11 DEF TypeOK, RowType, ThreadType, CountType, Jobs, Calm, Upstream, Holds, Attempts, Drain, site, thread, keeper
<1>12. ASSUME Exit PROVE Calm
  BY <1>12 DEF TypeOK, RowType, ThreadType, CountType, Jobs, Calm, Upstream, Holds, Attempts, Exit, site, thread, keeper
<1>13. ASSUME Die PROVE Calm
  BY <1>13 DEF TypeOK, RowType, ThreadType, CountType, Jobs, Calm, Upstream, Holds, Attempts, Die, WithStrays, LostClaim, Stray, Working, Live, Locked, AtWork, site
<1>14. ASSUME Launch PROVE Calm
  BY <1>14 DEF TypeOK, RowType, ThreadType, CountType, Jobs, Calm, Upstream, Holds, Attempts, Launch, site, thread, keeper
<1>15. ASSUME NEW a \in Attempts, SendBeat(a) PROVE Calm
  BY <1>15 DEF TypeOK, RowType, ThreadType, CountType, Jobs, Calm, Upstream, Holds, Attempts, SendBeat, site, pool, thread
<1>16. ASSUME NEW a \in Attempts, HandleBeat(a) PROVE Calm
  BY <1>16 DEF TypeOK, RowType, ThreadType, CountType, Jobs, Calm, Upstream, Holds, Attempts, HandleBeat, pool, thread
<1>17. ASSUME NEW a \in Attempts, ReceiveBeat(a) PROVE Calm
  BY <1>17 DEF TypeOK, RowType, ThreadType, CountType, Jobs, Calm, Upstream, Holds, Attempts, ReceiveBeat, site, pool, thread
<1>18. ASSUME NEW a \in Attempts, LoseBeat(a) PROVE Calm
  BY <1>18 DEF TypeOK, RowType, ThreadType, CountType, Jobs, Calm, Upstream, Holds, Attempts, LoseBeat, WithStrays, Stray, site, pool, thread
<1>19. ASSUME NEW a \in Attempts, OpenJournal(a) PROVE Calm
  <2>1. PICK to \in {"left", "working"} : pc' = [pc EXCEPT ![a] = to] /\ pc[a] = "starting"
    BY <1>19 DEF OpenJournal, Goto
  <2> QED BY <1>19, <2>1 DEF TypeOK, RowType, ThreadType, CountType, Calm, Upstream, Holds, OpenJournal, site, pool, keeper
<1>20. ASSUME NEW a \in Attempts, Refused(a) PROVE Calm
  <2>1. PICK to \in {"left", "closing", "rechecking"} : pc' = [pc EXCEPT ![a] = to] /\ pc[a] \in {"starting", "working"}
    BY <1>20 DEF Refused, Raise
  <2> QED BY <1>20, <2>1 DEF TypeOK, RowType, ThreadType, CountType, Calm, Upstream, Holds, Refused, site, pool, keeper
<1>21. ASSUME NEW a \in Attempts, Trouble(a) PROVE Calm
  BY <1>21 DEF TypeOK, RowType, ThreadType, CountType, Jobs, Calm, Upstream, Holds, Attempts, Trouble, Raise, site, pool, keeper
<1>22. ASSUME NEW a \in Attempts, AnnounceLate(a) PROVE Calm
  BY <1>22 DEF TypeOK, RowType, ThreadType, CountType, Jobs, Calm, Upstream, Holds, Attempts, AnnounceLate, Raise, WithStrays, Stray, site, pool, keeper
<1>23. ASSUME NEW a \in Attempts, UploadLate(a) PROVE Calm
  BY <1>23 DEF TypeOK, RowType, ThreadType, CountType, Jobs, Calm, Upstream, Holds, Attempts, UploadLate, Again, Goto, WithStrays, Stray, site, pool, keeper
<1>24. ASSUME NEW a \in Attempts, Reset(a) PROVE Calm
  <2>1. PICK to \in {"working", "closing", "rechecking"} : pc' = [pc EXCEPT ![a] = to] /\ pc[a] = "resetting"
    BY <1>24 DEF Reset, Goto, Raise
  <2>2. /\ row'.status = row.status /\ row'.lease = row.lease /\ row'.file = row.file
        /\ row'.announced = row.announced \/ Holds(a)
    BY <1>24 DEF Reset, TypeOK, RowType, Jobs
  <2>3. row'.status = "complete" => row' = row
    BY <1>24, <2>2 DEF Reset, Holds, TypeOK, RowType, Jobs
  <2>4. \A b \in Attempts : Holds(b)' => Holds(b) /\ (row'.announced = row.announced \/ pc'[b] /= "uploading")
    BY <2>1, <2>2 DEF Holds, TypeOK, ThreadType
  <2> QED BY <1>24, <2>1, <2>3, <2>4 DEF TypeOK, RowType, ThreadType, CountType, Calm, Upstream, Reset, pool, keeper, Attempts
<1>25. ASSUME NEW a \in Attempts, Recheck(a) PROVE Calm
  BY <1>25 DEF TypeOK, RowType, ThreadType, CountType, Jobs, Calm, Upstream, Holds, Attempts, Recheck, pool, keeper
<1>26. ASSUME NEW a \in Attempts, LastCheckpoint(a) PROVE Calm
  BY <1>26 DEF TypeOK, RowType, ThreadType, CountType, Jobs, Calm, Upstream, Holds, Attempts, LastCheckpoint, Goto, pool, keeper
<1>27. ASSUME NEW a \in Attempts, Leave(a) PROVE Calm
  BY <1>27 DEF TypeOK, RowType, ThreadType, CountType, Jobs, Calm, Upstream, Holds, Attempts, Leave, Goto, site, pool, keeper
<1>28. ASSUME NEW a \in Attempts, End(a) PROVE Calm
  BY <1>28 DEF TypeOK, RowType, ThreadType, CountType, Jobs, Calm, Upstream, Holds, Attempts, End, Failing, pool
<1>29. ASSUME NEW a \in Attempts, EndUnreported(a) PROVE Calm
  BY <1>29 DEF TypeOK, RowType, ThreadType, CountType, Jobs, Calm, Upstream, Holds, Attempts, EndUnreported, WithStrays, Stray, site, pool
<1> QED BY <1>1, <1>2, <1>3, <1>4, <1>5, <1>6, <1>7, <1>8, <1>9, <1>10, <1>11, <1>12, <1>13, <1>14, <1>15, <1>16, <1>17, <1>18, <1>19, <1>20, <1>21, <1>22, <1>23, <1>24, <1>25, <1>26, <1>27, <1>28, <1>29

\* An arriving completion finds the deck of its attempt, or is refused.
LEMMA CompleteReceipts ==
  ASSUME TypeOK, Timing, Replaced, NEW a \in Attempts, NEW b, Complete(a, b), Accepted(a, b) => b = build[a],
         UNCHANGED <<build, issued, applied, revision, saving>>,
         \A c \in Attempts : pc'[c] = "delivered" => pc[c] = "delivered" \/ Delivered(c)',
         \A c \in Attempts : pc'[c] = "uploading" => pc[c] = "uploading"
  PROVE  Receipts' /\ Announcements' /\ (\A c \in Attempts : Holds(c)' => Holds(c))
<1> USE DEF Attempts
<1>1. CASE Accepted(a, b)
  <2>1. /\ row'.status = "complete" /\ row'.lease = row.lease /\ row.lease = a /\ row'.file = [lease |-> a, digest |-> b.digest]
    BY <1>1 DEF Complete, Accepted, Holds, TypeOK, RowType, Jobs
  <2>2. /\ committed' = committed \cup {[lease |-> a, digest |-> b.digest, revision |-> b.revision]}
        /\ b = build[a]
    BY <1>1 DEF Complete
  <2>3. \A c \in Attempts : ~Holds(c)'
    BY <2>1 DEF Holds
  <2>4. a <= issued
    BY <2>1 DEF Timing, LeasesKnown
  <2>5. \A c \in committed' : c.lease \in Attempts /\ c.lease <= issued' /\ ~Holds(c.lease)'
                          /\ c.digest = build'[c.lease].digest /\ c.revision = build'[c.lease].revision
    BY <2>2, <2>3, <2>4 DEF Replaced, Receipts
  <2>6. \E c \in committed' : c.lease = row'.lease /\ c.digest = row'.file.digest
    <3>1. [lease |-> a, digest |-> b.digest, revision |-> b.revision] \in committed'
      BY <2>2
    <3> WITNESS [lease |-> a, digest |-> b.digest, revision |-> b.revision] \in committed'
    <3> QED BY <2>1, <3>1
  <2>7. \A c \in Attempts : pc'[c] = "delivered" => Delivered(c)'
    BY <2>2 DEF Replaced, Receipts, Delivered
  <2>8. Receipts'
    BY <2>5, <2>6, <2>7 DEF Receipts
  <2>9. Announcements'
    BY <2>3 DEF Replaced, Announcements
  <2> QED BY <2>3, <2>8, <2>9
<1>2. CASE ~Accepted(a, b)
  <2>1. UNCHANGED <<row, committed>>
    BY <1>2 DEF Complete
  <2> QED BY <2>1 DEF Replaced, Receipts, Announcements, Delivered, Holds
<1> QED BY <1>1, <1>2

LEMMA LateStep ==
  ASSUME TypeOK, Timing, Replaced, UNCHANGED <<build, revision>>, strays' \subseteq strays,
         \A c \in Attempts : Holds(c)' => Holds(c),
         \A c \in Attempts : pc[c] # "none" =>
           /\ pc'[c] # "none"
           /\ pc'[c] \in Upstream => pc[c] \in Upstream \/ ~Holds(c) \/ build[c].revision < revision
  PROVE  LateOnes'
BY DEF Replaced, LateOnes

LEMMA ReplacedStep == TypeOK /\ Timing /\ Replaced /\ [Next]_vars => Replaced'
<1> SUFFICES ASSUME TypeOK, Timing, Replaced, [Next]_vars PROVE Replaced'
  OBVIOUS
<1> USE DEF Attempts
<1>0. CASE UNCHANGED vars
  BY <1>0 DEF vars, Replaced, Receipts, LateOnes, Announcements, Delivered, Holds
<1>1. CASE ReceiveClaim
  <2>1. claim.lease \in Attempts /\ pc[claim.lease] = "none" /\ pc' = [pc EXCEPT ![claim.lease] = "starting"]
    BY <1>1, ConstantsNatural DEF ReceiveClaim, Started, Timing, LeasesKnown, Claimed, TypeOK, PoolType, Claims, Constants
  <2>2. UNCHANGED <<row, build, committed, issued, strays, applied, revision, saving>>
    BY <1>1 DEF ReceiveClaim, site
  <2>3. \A a \in Attempts : pc'[a] = pc[a] \/ (pc[a] = "none" /\ pc'[a] = "starting")
    BY <2>1 DEF TypeOK, ThreadType
  <2> QED BY <2>2, <2>3 DEF Replaced, Receipts, LateOnes, Announcements, Delivered, Holds
<1>2. ASSUME NEW a \in Attempts, Announce(a) PROVE Replaced'
  <2>1. PICK to \in {"uploading", "resetting", "rechecking", "closing"} :
          /\ pc' = [pc EXCEPT ![a] = to] /\ pc[a] = "ready"
          /\ to = "uploading" => Announced(a)
    BY <1>2 DEF Announce, Goto, Raise
  <2>2. /\ UNCHANGED <<build, committed, issued, strays, applied, revision, saving>>
        /\ row'.status = row.status /\ row'.lease = row.lease /\ row'.file = row.file
        /\ row.announced => row'.announced
        /\ Announced(a) => row'.announced /\ ~saving
    BY <1>2 DEF Announce, Announced, Fenced, TypeOK, RowType, Jobs
  <2>3. /\ pc'[a] = to /\ \A c \in Attempts \ {a} : pc'[c] = pc[c]
    BY <2>1 DEF TypeOK, ThreadType
  <2>4. Receipts'
    BY <2>1, <2>2, <2>3 DEF Replaced, Receipts, Delivered, Holds
  <2>5. LateOnes'
    BY <2>1, <2>2, <2>3, LateStep DEF Holds, Upstream
  <2>6. Announcements'
    BY <2>1, <2>2, <2>3 DEF Replaced, Announcements, Holds
  <2> QED BY <2>4, <2>5, <2>6 DEF Replaced
<1>3. ASSUME NEW a \in Attempts, Upload(a) PROVE Replaced'
  <2>1. PICK to \in {"delivered", "resetting", "rechecking", "closing", "uploading", "asking"} :
          /\ pc' = [pc EXCEPT ![a] = to]
          /\ to = "delivered" => Accepted(a, build[a]) \/ Stored(a, build[a])
          /\ to = "resetting" => Holds(a) /\ Fenced(build[a].revision)
    BY <1>3 DEF Upload, Goto, Raise, Again
  <2>2. pc[a] = "uploading" /\ Complete(a, build[a]) /\ UNCHANGED <<build, issued, strays, applied, revision, saving>>
    BY <1>3 DEF Upload
  <2>3. pc'[a] = to /\ \A c \in Attempts \ {a} : pc'[c] = pc[c]
    BY <2>1 DEF TypeOK, ThreadType
  <2>4. ASSUME to = "delivered" PROVE Delivered(a)'
    <3>1. CASE Accepted(a, build[a])
      BY <2>2, <3>1 DEF Complete, Delivered
    <3>2. CASE Stored(a, build[a])
      <4>1. ~Accepted(a, build[a]) /\ committed' = committed
        BY <2>2, <3>2 DEF Stored, Accepted, Holds, Complete
      <4>2. PICK c \in committed : c.lease = a
        BY <3>2 DEF Stored, Replaced, Receipts
      <4>3. c = [lease |-> a, digest |-> build[a].digest, revision |-> build[a].revision]
        BY <4>2 DEF Replaced, Receipts, TypeOK, GhostType
      <4> QED BY <2>2, <4>1, <4>2, <4>3 DEF Delivered
    <3> QED BY <2>1, <2>4, <3>1, <3>2
  <2>5. \A c \in Attempts : pc'[c] = "delivered" => pc[c] = "delivered" \/ Delivered(c)'
    BY <2>3, <2>4
  <2>6. \A c \in Attempts : pc'[c] = "uploading" => pc[c] = "uploading"
    BY <2>2, <2>3
  <2>7. Receipts' /\ Announcements' /\ \A c \in Attempts : Holds(c)' => Holds(c)
    BY <2>2, <2>5, <2>6, CompleteReceipts
  <2>8. to = "resetting" => build[a].revision < revision
    <3>1. build[a].revision \in Nat /\ revision \in Nat /\ applied \in Nat /\ build[a].revision <= applied
      BY ConstantsNatural DEF TypeOK, RowType, ThreadType, Deck, Constants, Replaced, Announcements
    <3>2. Holds(a) => build[a].revision < revision \/ ~saving
      BY <2>2 DEF Replaced, Announcements
    <3> QED BY <2>1, <3>1, <3>2 DEF Fenced
  <2>9. LateOnes'
    BY <2>1, <2>2, <2>3, <2>7, <2>8, LateStep DEF Upstream
  <2> QED BY <2>7, <2>9 DEF Replaced
<1>4. ASSUME NEW a \in Attempts, Ask(a) PROVE Replaced'
  <2>1. PICK to \in {"delivered", "rechecking", "closing"} :
          /\ pc' = [pc EXCEPT ![a] = to] /\ pc[a] = "asking"
          /\ to = "delivered" => Receipt(a)
    BY <1>4 DEF Ask, Goto, Raise
  <2>2. UNCHANGED <<row, build, committed, issued, strays, applied, revision, saving>>
    BY <1>4 DEF Ask, site
  <2>3. pc'[a] = to /\ \A c \in Attempts \ {a} : pc'[c] = pc[c]
    BY <2>1 DEF TypeOK, ThreadType
  <2>4. ASSUME to = "delivered" PROVE Delivered(a)
    <3>1. PICK c \in committed : c.lease = a
      BY <2>1, <2>4 DEF Receipt, Replaced, Receipts
    <3>2. c = [lease |-> a, digest |-> build[a].digest, revision |-> build[a].revision]
      BY <3>1 DEF Replaced, Receipts, TypeOK, GhostType
    <3> QED BY <3>1, <3>2 DEF Delivered
  <2>5. LateOnes'
    BY <2>1, <2>2, <2>3, LateStep DEF Upstream, Holds
  <2>6. Receipts'
    BY <2>2, <2>3, <2>4 DEF Replaced, Receipts, Delivered, Holds
  <2>7. Announcements'
    BY <2>1, <2>2, <2>3 DEF Replaced, Announcements, Holds
  <2> QED BY <2>5, <2>6, <2>7 DEF Replaced
<1>5. ASSUME NEW a \in Attempts, Build(a) PROVE Replaced'
  <2>1. PICK r \in applied .. revision :
          /\ applied' = r /\ build' = [build EXCEPT ![a] = [digest |-> builds + 1, revision |-> r]]
    BY <1>5 DEF Build
  <2>2. /\ pc[a] = "working" /\ Holds(a) /\ pc' = [pc EXCEPT ![a] = "ready"]
        /\ UNCHANGED <<row, revision, saving, issued, committed, strays>>
    BY <1>5 DEF Build, Goto
  <2>3. /\ pc'[a] = "ready" /\ build'[a].revision = r
        /\ \A c \in Attempts \ {a} : pc'[c] = pc[c] /\ build'[c] = build[c]
    BY <2>1, <2>2 DEF TypeOK, ThreadType
  <2>4. applied \in Nat /\ r \in Nat /\ applied <= r /\ \A c \in Attempts : build[c].revision \in Nat
    BY ConstantsNatural DEF TypeOK, RowType, ThreadType, Deck, Constants
  <2>5. Receipts'
    BY <2>2, <2>3 DEF Replaced, Receipts, Delivered, Holds
  <2>6. ASSUME NEW s \in strays, s.kind = "complete" PROVE
          /\ s.lease \in Attempts /\ pc'[s.lease] # "none"
          /\ s.build = build'[s.lease] \/ s.build.revision < revision
          /\ pc'[s.lease] \in Upstream /\ Holds(s.lease) => s.build.revision < revision
    <3>1. CASE s.lease = a
      BY <2>2, <2>3, <2>6, <3>1 DEF Replaced, LateOnes, Upstream
    <3>2. CASE s.lease # a
      BY <2>3, <2>6, <3>2 DEF Replaced, LateOnes
    <3> QED BY <3>1, <3>2
  <2>7. LateOnes'
    BY <2>2, <2>6 DEF LateOnes, Holds
  <2>8. Announcements'
    BY <2>1, <2>2, <2>3, <2>4 DEF Replaced, Announcements, Holds
  <2> QED BY <2>5, <2>7, <2>8 DEF Replaced
<1>6. ASSUME NEW s \in strays, Arrive(s) PROVE Replaced'
  <2>1. strays' \subseteq strays /\ UNCHANGED <<pc, build, revision, applied, saving>>
    BY <1>6 DEF Arrive, thread
  <2>2. CASE s.kind = "claim"
    <3>1. PICK l \in 0 .. MaxAttempts : Answer(l) /\ committed' = committed
      BY <1>6, <2>2 DEF Arrive
    <3>2. UNCHANGED saving /\ strays' \subseteq strays /\ UNCHANGED <<committed, build, applied, revision, pc>>
      BY <2>1, <3>1
    <3> QED BY <3>1, <3>2, AnswerCalm, CalmKeeps
  <2>3. CASE s.kind = "complete"
    <3>1. Complete(s.lease, s.build) /\ issued' = issued
      BY <1>6, <2>3 DEF Arrive
    <3>2. Accepted(s.lease, s.build) => s.build = build[s.lease]
      <4>1. s.build = build[s.lease] \/ s.build.revision < revision
        BY <2>3 DEF Replaced, LateOnes
      <4> QED BY <4>1 DEF Accepted, Fenced
    <3>3. s.lease \in Attempts
      BY <2>3 DEF Replaced, LateOnes
    <3>4. Receipts' /\ Announcements' /\ \A c \in Attempts : Holds(c)' => Holds(c)
      BY <2>1, <3>1, <3>2, <3>3, CompleteReceipts
    <3>5. LateOnes'
      BY <2>1, <3>4, LateStep
    <3> QED BY <3>4, <3>5 DEF Replaced
  <2>4. CASE s.kind \in {"renew", "announce", "fail"}
    <3>1. /\ committed' = committed /\ issued' = issued
          /\ row'.lease = row.lease /\ row'.file = row.file
          /\ row'.status = row.status \/ row'.status = "failed"
          /\ row.announced => row'.announced
      BY <1>6, <2>4 DEF Arrive, Failing, TypeOK, RowType, Jobs
    <3>2. \A c \in Attempts : Holds(c)' => Holds(c)
      BY <3>1 DEF Holds
    <3>3. Receipts'
      BY <2>1, <3>1, <3>2 DEF Replaced, Receipts, Delivered
    <3>4. LateOnes'
      BY <2>1, <3>2, LateStep
    <3>5. Announcements'
      BY <2>1, <3>1, <3>2 DEF Replaced, Announcements
    <3> QED BY <3>3, <3>4, <3>5 DEF Replaced
  <2> QED BY <1>6, <2>2, <2>3, <2>4 DEF Arrive
<1>7. ASSUME Calm PROVE Replaced'
  BY <1>7, CalmKeeps
<1> QED BY <1>0, <1>1, <1>2, <1>3, <1>4, <1>5, <1>6, <1>7, Calmed
       DEF Next, Owner, Supervisor, Keeper, Execute, Delivery, Ending

LEMMA ExecutionReceipts == Spec => [](TypeOK /\ Replaced)
<1>1. Init => Replaced
  BY DEF Init, Replaced, Receipts, LateOnes, Announcements, NoBuild
<1> QED BY <1>1, ExecutionSound, ReplacedStep, PTL DEF Spec

\* However many answers and requests are lost, late or repeated, and however
\* often the runner and the owner intervene: what deliver takes for delivered is
\* committed, with the bytes and the revision of its deck.
THEOREM ExecutionDelivers == Spec => []BelievedDelivered
<1>1. Replaced => BelievedDelivered
  BY DEF Replaced, Receipts, BelievedDelivered, Delivered
<1> QED BY <1>1, ExecutionReceipts, PTL

\* A completion that arrives late never delivers a deck that its attempt has
\* replaced: the attempt replaces it only after a 412, which a newer revision
\* caused, and that revision fences the late one too.
THEOREM ExecutionDeliversLast == Spec => []DeliveredIsLastBuild
<1>1. Replaced => DeliveredIsLastBuild
  BY DEF Replaced, Receipts, DeliveredIsLastBuild
<1> QED BY <1>1, ExecutionReceipts, PTL

\* However often a completion is sent again and however late one arrives, an attempt is
\* credited with one deck (complete: the UPDATE is conditional on the running lease).
CreditedOnce == \A c \in committed, d \in committed : c.lease = d.lease => c = d

THEOREM ExecutionCreditedOnce == Spec => []CreditedOnce
<1>1. TypeOK /\ Replaced => CreditedOnce
  BY DEF TypeOK, GhostType, Replaced, Receipts, CreditedOnce
<1> QED BY <1>1, ExecutionReceipts, PTL

\* Who reports the end of a task.  A keeper that was told to stop or refused, and a
\* verdict that ends without a report, are only about a task that is not held any
\* more, unless the attempt is excused; a delivered attempt does not hold it either.
Rejected(a) ==
  \/ verdict[a] \in {"paused", "refused"} \/ fatal[a] # "none" \/ beat[a].step \in {"stop", "refused"}
  \/ pc[a] = "left" /\ verdict[a] = "none"
Refusals == \A a \in Attempts : Holds(a) /\ a \notin excused => ~Rejected(a)
Verdicts ==
  /\ \A a \in Attempts : pc[a] \in {"rechecking", "closing", "leaving"} => verdict[a] # "none"
  /\ \A a \in Attempts : pc[a] = "none" => verdict[a] = "none" /\ fatal[a] = "none"
Reporting == OnlyLossesStrand /\ Refusals /\ Verdicts

LEMMA DeliveredLeft ==
  ASSUME Replaced, NEW a \in Attempts, pc[a] = "delivered" PROVE ~Holds(a)
BY DEF Replaced, Receipts, Delivered

\* A new lease is that of an attempt of which nothing is known yet.
LEMMA AnswerReports ==
  ASSUME TypeOK, Timing, Reporting, NEW l \in 0 .. MaxAttempts, Answer(l),
         UNCHANGED <<pc, verdict, fatal, beat>>, excused' \in {excused, excused \cup ({l} \ {0})},
         \A a \in Attempts : Claimed(a) => Claimed(a)',
         l # 0 => Claimed(l)' \/ l \in excused'
  PROVE  Reporting'
<1>1. ASSUME NEW a \in Attempts, Holds(a)' PROVE Holds(a) \/ (a = l /\ a = issued + 1)
  BY <1>1 DEF Answer, Holds, Attempts, TypeOK, RowType, Jobs
<1>2. ASSUME NEW a \in Attempts, a = issued + 1 PROVE pc[a] = "none" /\ beat[a].step = "idle"
  BY <1>2 DEF Timing, LeasesKnown, Attempts, TypeOK, CountType
<1>3. OnlyLossesStrand'
  BY <1>1 DEF Reporting, OnlyLossesStrand, Claimed, Working, Attempts
<1>4. Refusals'
  BY <1>1, <1>2 DEF Reporting, Refusals, Verdicts, Rejected
<1> QED BY <1>3, <1>4 DEF Reporting, Verdicts

LEMMA ReportingStep == TypeOK /\ Timing /\ Replaced /\ Reporting /\ [Next]_vars => Reporting'
<1> SUFFICES ASSUME TypeOK, Timing, Replaced, Reporting, [Next]_vars PROVE Reporting'
  OBVIOUS
<1>0. /\ fatal \in [Attempts -> {"none", "paused", "refused"}] /\ beat \in [Attempts -> Beats]
      /\ pc \in [Attempts -> Live \cup {"none", "ended"}] /\ row \in Jobs
      /\ verdict \in [Attempts -> {"none", "failed", "paused", "refused"}]
      /\ claim \in Claims /\ excused \subseteq Attempts
  BY DEF TypeOK, RowType, PoolType, ThreadType, KeeperType, GhostType
<1>c. ASSUME NEW a, NEW b, Complete(a, b)
      PROVE  row'.lease = row.lease /\ (row'.status = row.status \/ row'.status = "complete")
  BY <1>0, <1>c DEF Complete, Jobs
<1>f. ASSUME NEW a, Failing(a)
      PROVE  row'.lease = row.lease /\ (row'.status = row.status \/ row'.status = "failed")
  BY <1>0, <1>f DEF Failing, Jobs
<1> USE <1>0 DEF Reporting, OnlyLossesStrand, Refusals, Verdicts, Rejected, Holds, Working, Jobs, Beats, Claims,
                 Live, Locked, AtWork, site, pool, thread, keeper
<1>1. ASSUME Tick PROVE Reporting'
  <2>1. UNCHANGED <<row, pc, verdict, fatal, excused>> /\ claim'.step = claim.step /\ claim'.lease = claim.lease
    BY <1>1 DEF Tick
  <2>2. \A a \in Attempts : beat'[a].step = beat[a].step
    BY <1>1 DEF Tick, NoBeat
  <2> QED BY <2>1, <2>2
<1>2. ASSUME Pause PROVE Reporting'
  BY <1>2 DEF Pause, Happens
<1>3. ASSUME Requeue PROVE Reporting'
  BY <1>3 DEF Requeue, Happens
<1>4. ASSUME Revise PROVE Reporting'
  BY <1>4 DEF Revise, Happens
<1>5. ASSUME Withdraw PROVE Reporting'
  BY <1>5 DEF Withdraw
<1>6. ASSUME BeginSave PROVE Reporting'
  BY <1>6 DEF BeginSave, Happens
<1>7. ASSUME EndSave PROVE Reporting'
  BY <1>7 DEF EndSave
<1>8. ASSUME SendClaim PROVE Reporting'
  BY <1>8 DEF SendClaim, NoClaim
<1>9. ASSUME HandleClaim PROVE Reporting'
  <2>1. PICK l \in 0 .. MaxAttempts :
          Answer(l) /\ claim' = IF l = 0 THEN NoClaim ELSE [claim EXCEPT !.step = "answered", !.lease = l]
    BY <1>9 DEF HandleClaim
  <2>2. claim.step = "sent" /\ UNCHANGED <<pc, verdict, fatal, beat, excused>>
    BY <1>9 DEF HandleClaim
  <2>3. \A a \in Attempts : Claimed(a) => Claimed(a)'
    BY <2>2 DEF Claimed
  <2>4. l # 0 => Claimed(l)'
    BY <2>1 DEF Claimed
  <2> QED BY <2>1, <2>2, <2>3, <2>4, AnswerReports
<1>10. ASSUME ReceiveClaim PROVE Reporting'
  BY <1>10 DEF ReceiveClaim, NoClaim, Started
<1>11. ASSUME LoseClaim PROVE Reporting'
  BY <1>11 DEF LoseClaim, NoClaim, Attempts
<1>12. ASSUME Drain PROVE Reporting'
  BY <1>12 DEF Drain, Happens
<1>13. ASSUME Exit PROVE Reporting'
  BY <1>13 DEF Exit
<1>14. ASSUME Die PROVE Reporting'
  BY <1>14 DEF Die, Happens, Gone, NoBeat, NoClaim, Attempts
<1>15. ASSUME Launch PROVE Reporting'
  BY <1>15 DEF Launch
<1>16. ASSUME NEW a \in Attempts, SendBeat(a) PROVE Reporting'
  BY <1>16 DEF SendBeat, NoBeat
<1>17. ASSUME NEW a \in Attempts, HandleBeat(a) PROVE Reporting'
  BY <1>17 DEF HandleBeat, Acknowledged
<1>18. ASSUME NEW a \in Attempts, ReceiveBeat(a) PROVE Reporting'
  <2>1. UNCHANGED <<row, pc, verdict, claim, excused>> /\ beat' = [beat EXCEPT ![a] = NoBeat]
    BY <1>18 DEF ReceiveBeat
  <2>2. \A b \in Attempts \ {a} : fatal'[b] = fatal[b]
    BY <1>18 DEF ReceiveBeat
  <2>3. fatal'[a] = fatal[a] \/ beat[a].step \in {"stop", "refused"}
    BY <1>18 DEF ReceiveBeat
  <2>4. pc[a] # "none"
    BY <1>18 DEF ReceiveBeat, Timing, LeasesKnown
  <2> QED BY <2>1, <2>2, <2>3, <2>4 DEF NoBeat
<1>19. ASSUME NEW a \in Attempts, LoseBeat(a) PROVE Reporting'
  BY <1>19 DEF LoseBeat, NoBeat
<1>20. ASSUME NEW a \in Attempts, OpenJournal(a) PROVE Reporting'
  BY <1>20 DEF OpenJournal, Goto
<1>21. ASSUME NEW a \in Attempts, Refused(a) PROVE Reporting'
  BY <1>21 DEF Refused, Raise
<1>22. ASSUME NEW a \in Attempts, Build(a) PROVE Reporting'
  BY <1>22 DEF Build, Goto
<1>23. ASSUME NEW a \in Attempts, Trouble(a) PROVE Reporting'
  BY <1>23 DEF Trouble, Raise
<1>24. ASSUME NEW a \in Attempts, Announce(a) PROVE Reporting'
  BY <1>24 DEF Announce, Raise, Goto, Announced
<1>25. ASSUME NEW a \in Attempts, AnnounceLate(a) PROVE Reporting'
  BY <1>25 DEF AnnounceLate, Raise
<1>26. ASSUME NEW a \in Attempts, Upload(a) PROVE Reporting'
  <2>1. UNCHANGED <<claim, fatal, beat, excused>> /\ pc[a] = "uploading"
    BY <1>26 DEF Upload
  <2>2. row'.lease = row.lease /\ (row'.status = row.status \/ row'.status = "complete")
    BY <1>26, <1>c DEF Upload
  <2>3. CASE Goto(a, "delivered") \/ Goto(a, "resetting") \/ Again(a)
    BY <2>1, <2>2, <2>3 DEF Goto, Again
  <2>4. CASE ~Holds(a) /\ Raise(a, "refused")
    BY <2>1, <2>2, <2>4 DEF Raise
  <2> QED BY <1>26, <2>3, <2>4 DEF Upload
<1>27. ASSUME NEW a \in Attempts, UploadLate(a) PROVE Reporting'
  BY <1>27 DEF UploadLate, Again, Goto
<1>28. ASSUME NEW a \in Attempts, Ask(a) PROVE Reporting'
  BY <1>28 DEF Ask, Goto, Raise
<1>29. ASSUME NEW a \in Attempts, Reset(a) PROVE Reporting'
  BY <1>29 DEF Reset, Goto, Raise
<1>30. ASSUME NEW a \in Attempts, Recheck(a) PROVE Reporting'
  BY <1>30 DEF Recheck, Acknowledged
<1>31. ASSUME NEW a \in Attempts, LastCheckpoint(a) PROVE Reporting'
  BY <1>31 DEF LastCheckpoint, Goto
<1>32. ASSUME NEW a \in Attempts, Leave(a) PROVE Reporting'
  BY <1>32, DeliveredLeft DEF Leave, Goto
<1>33. ASSUME NEW a \in Attempts, End(a) PROVE Reporting'
  BY <1>33 DEF End, Failing, Gone
<1>34. ASSUME NEW a \in Attempts, EndUnreported(a) PROVE Reporting'
  BY <1>34 DEF EndUnreported, Gone
<1>35. ASSUME NEW s \in strays, Arrive(s) PROVE Reporting'
  <2>1. ASSUME NEW l \in 0 .. MaxAttempts, Answer(l), excused' = excused \cup ({l} \ {0}) PROVE Reporting'
    <3>1. UNCHANGED <<pc, verdict, fatal, beat, claim>>
      BY <1>35 DEF Arrive
    <3> QED BY <2>1, <3>1, AnswerReports DEF Claimed
  <2>2. ASSUME UNCHANGED excused, row'.lease = row.lease, row'.status = row.status \/ row'.status \in {"complete", "failed"}
        PROVE  Reporting'
    <3>1. UNCHANGED <<pc, verdict, fatal, beat, claim>>
      BY <1>35 DEF Arrive
    <3> QED BY <2>2, <3>1
  <2> QED BY <1>35, <1>c, <1>f, <2>1, <2>2 DEF Arrive
<1>36. ASSUME UNCHANGED vars PROVE Reporting'
  BY <1>36 DEF vars
<1> QED
  BY <1>1, <1>2, <1>3, <1>4, <1>5, <1>6, <1>7, <1>8, <1>9, <1>10, <1>11, <1>12, <1>13, <1>14, <1>15, <1>16, <1>17, <1>18, <1>19, <1>20, <1>21, <1>22, <1>23, <1>24, <1>25, <1>26, <1>27, <1>28, <1>29, <1>30, <1>31, <1>32, <1>33, <1>34, <1>35, <1>36
  DEF Next, Owner, Supervisor, Keeper, Delivery, Ending, Execute

\* A running row without an execution is the trace of a kill, a lost answer or a
\* rejection: an execution that ends by itself has reported (execute_task, deliver).
THEOREM ExecutionStrandsByLoss == Spec => []OnlyLossesStrand
<1>1. Init => Reporting
  BY DEF Init, Reporting, OnlyLossesStrand, Refusals, Verdicts, Rejected, Holds, NoBeat
<1>2. TypeOK /\ Timing /\ Replaced /\ Reporting /\ [Next]_vars => Reporting'
  BY ReportingStep
<1> QED BY <1>1, <1>2, ExecutionSound, ExecutionReceipts, PTL DEF Spec, Reporting

(***************************************************************************)
(* The row implements Attempts                                             *)
(***************************************************************************)

\* The phase of an attempt, as the row and the count of leases show it: the table of
\* one task, which has room for one open attempt.
PhaseFor(word) ==
  IF word = "running" THEN "open" ELSE IF word = "paused" THEN "stopping"
  ELSE IF word = "complete" THEN "delivered" ELSE "ended"
PhaseOf(l) ==
  IF l > issued THEN "unissued" ELSE IF row.lease = l THEN PhaseFor(row.status) ELSE "ended"
Phase == [l \in Attempts |-> PhaseOf(l)]

Table == INSTANCE Attempts WITH Leases <- Attempts, Capacity <- 1, phase <- [l \in Attempts |-> PhaseOf(l)]

\* The row carries a lease that was issued, one while it runs and none while it waits.
LeaseIssued ==
  /\ row.lease <= issued
  /\ row.status = "running" => row.lease # 0
  /\ row.status = "queued" => row.lease = 0

\* What a step may do to the status and the lease of the row.
Stays   == row'.status = row.status /\ row'.lease = row.lease /\ issued' = issued
Leaves  == /\ row.status = "running" /\ row'.status \in {"paused", "failed", "complete"}
           /\ row'.lease = row.lease /\ issued' = issued
Shelved == /\ row.status = "queued" /\ row'.status = "paused"
           /\ row'.lease = row.lease /\ issued' = issued
Waits   == /\ row.status \in {"failed", "complete", "paused"} /\ row'.status = "queued"
           /\ row'.lease = 0 /\ issued' = issued
Leased  == /\ row.status = "queued" /\ row'.status = "running"
           /\ issued < MaxAttempts /\ issued' = issued + 1 /\ row'.lease = issued + 1
RowMoves == Stays \/ Leaves \/ Shelved \/ Waits \/ Leased

LEMMA EveryStepMovesRow == ASSUME TypeOK, [Next]_vars PROVE RowMoves
<1>0. row \in Jobs
  BY DEF TypeOK, RowType
<1>a. ASSUME NEW l, Answer(l) PROVE RowMoves
  BY <1>0, <1>a DEF Answer, Jobs, RowMoves, Stays, Leaves, Leased
<1>b. ASSUME NEW a, NEW b, Complete(a, b), UNCHANGED issued PROVE RowMoves
  BY <1>0, <1>b DEF Complete, Accepted, Holds, Jobs, RowMoves, Stays, Leaves
<1>c. ASSUME NEW a, Failing(a), UNCHANGED issued PROVE RowMoves
  BY <1>0, <1>c DEF Failing, Holds, Jobs, RowMoves, Stays, Leaves
<1>d. ASSUME NEW r, row' = [row EXCEPT !.announced = r] \/ row' = [row EXCEPT !.asked = r], UNCHANGED issued
      PROVE  RowMoves
  BY <1>0, <1>d DEF Jobs, RowMoves, Stays
<1>e. ASSUME UNCHANGED <<row, issued>> PROVE RowMoves
  BY <1>e DEF RowMoves, Stays
<1>1. CASE Pause
  <2>1. /\ row' = [row EXCEPT !.status = "paused", !.asked = row.status = "running", !.announced = FALSE]
        /\ row.status \in {"queued", "running"} /\ UNCHANGED issued
    BY <1>1 DEF Pause
  <2> QED BY <1>0, <2>1 DEF Jobs, RowMoves, Leaves, Shelved
<1>2. CASE Requeue
  <2>1. /\ row' = [row EXCEPT !.status = "queued", !.lease = 0, !.asked = FALSE, !.announced = FALSE]
        /\ row.status \in {"failed", "complete", "paused"} /\ UNCHANGED issued
    BY <1>2 DEF Requeue
  <2> QED BY <1>0, <2>1 DEF Jobs, RowMoves, Waits
<1>3. CASE Withdraw
  BY <1>3, <1>d DEF Withdraw
<1>4. CASE HandleClaim
  BY <1>4, <1>a DEF HandleClaim
<1>5. ASSUME NEW a \in Attempts, Announce(a) PROVE RowMoves
  BY <1>5, <1>d, <1>e DEF Announce
<1>6. ASSUME NEW a \in Attempts, Upload(a) PROVE RowMoves
  BY <1>6, <1>b DEF Upload
<1>7. ASSUME NEW a \in Attempts, Reset(a) PROVE RowMoves
  BY <1>7, <1>d, <1>e DEF Reset
<1>8. ASSUME NEW a \in Attempts, LastCheckpoint(a) PROVE RowMoves
  BY <1>8, <1>d, <1>e DEF LastCheckpoint
<1>9. ASSUME NEW a \in Attempts, End(a) PROVE RowMoves
  BY <1>9, <1>c, <1>e DEF End
<1>10. ASSUME NEW s \in strays, Arrive(s) PROVE RowMoves
  BY <1>10, <1>a, <1>b, <1>c, <1>d, <1>e DEF Arrive
<1>11. CASE \/ Tick \/ Revise \/ BeginSave \/ EndSave \/ SendClaim \/ ReceiveClaim \/ LoseClaim
            \/ Drain \/ Exit \/ Die \/ Launch \/ UNCHANGED vars
  BY <1>11, <1>e DEF Tick, Revise, BeginSave, EndSave, SendClaim, ReceiveClaim, LoseClaim, Drain, Exit, Die,
     Launch, vars, site
<1>12. ASSUME NEW a \in Attempts,
              \/ Keeper(a) \/ OpenJournal(a) \/ Refused(a) \/ Build(a) \/ Trouble(a) \/ AnnounceLate(a)
              \/ UploadLate(a) \/ Ask(a) \/ Recheck(a) \/ Leave(a) \/ EndUnreported(a)
       PROVE  RowMoves
  BY <1>12, <1>e DEF Keeper, SendBeat, HandleBeat, ReceiveBeat, LoseBeat, OpenJournal, Refused, Build, Trouble,
     AnnounceLate, UploadLate, Ask, Recheck, Leave, EndUnreported, site
<1> QED
  BY <1>1, <1>2, <1>3, <1>4, <1>5, <1>6, <1>7, <1>8, <1>9, <1>10, <1>11, <1>12
  DEF Next, Owner, Supervisor, Delivery, Ending, Execute

LEMMA LeaseIssuedStep == ASSUME TypeOK, LeaseIssued, RowMoves PROVE LeaseIssued'
<1>1. row.lease \in Nat /\ issued \in Nat
  BY ConstantsNatural DEF Constants, TypeOK, RowType, CountType, Jobs
<1> QED BY <1>1 DEF LeaseIssued, RowMoves, Stays, Leaves, Shelved, Waits, Leased

\* The two modules count alike.
LEMMA SameCount == \A S : Table!Cardinality(S) = Cardinality(S)
BY DEF Table!Cardinality, Cardinality

LEMMA StepIsTable ==
  ASSUME TypeOK, LeaseIssued, RowMoves
  PROVE  [Table!Next]_Phase
<1>0. /\ row.lease \in Nat /\ issued \in Nat /\ row.lease <= issued /\ MaxAttempts \in Nat
      /\ Attempts = 1 .. MaxAttempts /\ row.status \in Words
      /\ row.lease # 0 => row.lease \in Attempts
  <2>1. row \in Jobs /\ issued \in 0 .. MaxAttempts
    BY DEF TypeOK, RowType, CountType
  <2>2. row.lease \in 0 .. MaxAttempts /\ row.status \in Words
    BY <2>1 DEF Jobs
  <2> QED BY <2>1, <2>2, ConstantsNatural DEF Constants, Attempts, LeaseIssued
<1>1. CASE Stays
  <2>1. \A l \in Attempts : PhaseOf(l)' = PhaseOf(l)
    BY <1>1 DEF Stays, PhaseOf
  <2> QED BY <2>1 DEF Phase
<1>2. CASE Shelved
  <2>1. row.lease = 0 /\ row'.lease = 0 /\ issued' = issued
    BY <1>2 DEF Shelved, LeaseIssued
  <2>2. \A l \in Attempts : PhaseOf(l)' = PhaseOf(l)
    BY <1>0, <2>1 DEF PhaseOf
  <2> QED BY <2>2 DEF Phase
<1>3. CASE Leaves
  <2> DEFINE h == row.lease
  <2>1. h \in Attempts /\ PhaseOf(h) = "open" /\ h \in Table!InPhase({"open"})
    BY <1>0, <1>3 DEF Leaves, LeaseIssued, PhaseOf, PhaseFor, Table!InPhase
  <2>2. \A l \in Attempts : PhaseOf(l)' = IF l \in {h} THEN PhaseFor(row'.status) ELSE PhaseOf(l)
    BY <1>0, <1>3 DEF Leaves, PhaseOf
  <2>3. Table!Move({h}, PhaseFor(row'.status))
    BY <2>2, Zenon DEF Table!Move
  <2>4. {h} \in SUBSET Table!InPhase({"open"}) /\ {h} \in SUBSET Table!InPhase({"open", "stopping", "delivered"})
    BY <2>1 DEF Table!InPhase
  <2> HIDE DEF h
  <2>5. PhaseFor(row'.status) \in {"stopping", "ended", "delivered"}
    BY <1>3 DEF Leaves, PhaseFor
  <2>6. Table!Stop \/ Table!End \/ Table!Deliver
    BY <2>1, <2>3, <2>4, <2>5 DEF Table!Stop, Table!End, Table!Deliver
  <2> QED BY <2>6 DEF Table!Next
<1>4. CASE Waits
  <2>1. row'.lease = 0 /\ issued' = issued
    BY <1>4 DEF Waits
  <2>2. \A l \in Attempts : PhaseOf(l)' = IF l = row.lease THEN "ended" ELSE PhaseOf(l)
    BY <1>0, <2>1 DEF PhaseOf
  <2>3. CASE row.lease = 0 \/ row.status = "failed"
    <3>1. \A l \in Attempts : PhaseOf(l)' = PhaseOf(l)
      BY <1>0, <2>2, <2>3 DEF PhaseOf, PhaseFor
    <3> QED BY <3>1 DEF Phase
  <2>4. CASE row.lease # 0 /\ row.status \in {"complete", "paused"}
    <3> DEFINE h == row.lease
    <3>1. h \in Attempts /\ PhaseOf(h) \in {"open", "stopping", "delivered"}
      BY <1>0, <2>4 DEF PhaseOf, PhaseFor
    <3>2. {h} \in SUBSET Table!InPhase({"open", "stopping", "delivered"})
      BY <3>1 DEF Table!InPhase
    <3>3. Table!Move({h}, "ended")
      BY <2>2, Zenon DEF Table!Move
    <3> HIDE DEF h
    <3>4. Table!End
      BY <3>2, <3>3 DEF Table!End
    <3> QED BY <3>4 DEF Table!Next
  <2> QED BY <1>4, <2>3, <2>4 DEF Waits
<1>5. CASE Leased
  <2> DEFINE n == issued + 1
  <2>1. n \in Attempts /\ row.lease = 0 /\ row'.lease = n /\ issued' = n /\ row'.status = "running"
    BY <1>0, <1>5 DEF Leased, LeaseIssued
  <2>2. \A l \in Attempts : PhaseOf(l) = IF l > issued THEN "unissued" ELSE "ended"
    BY <1>0, <2>1 DEF PhaseOf
  <2>3. \A l \in Attempts : PhaseOf(l)' = IF l = n THEN "open" ELSE PhaseOf(l)
    BY <1>0, <2>1, <2>2 DEF PhaseOf, PhaseFor
  <2>4. Phase' = [Phase EXCEPT ![n] = "open"]
    BY <2>1, <2>3 DEF Phase
  <2>5. Table!InPhase({"open"}) = {}
    BY <2>2 DEF Table!InPhase
  <2>6. Cardinality(Table!InPhase({"open"})) < 1
    BY <2>5, FS_EmptySet
  <2>7. PhaseOf(n) = "unissued" /\ \A m \in Attempts : m < n => PhaseOf(m) # "unissued"
    BY <1>0, <2>1, <2>2
  <2> HIDE DEF n
  <2>8. Table!Open(n)
    BY <2>1, <2>4, <2>6, <2>7, SameCount DEF Table!Open, Phase
  <2> QED BY <2>1, <2>8 DEF Table!Next
<1> QED BY <1>1, <1>2, <1>3, <1>4, <1>5 DEF RowMoves

\* With requests lost, late and sent again, and a supervisor that dies, the task still
\* has at most one open attempt; a lease is handed out once, delivers at most once, and
\* never works again after a stop, a delivery or a failure (worker/[id]/route.ts: the
\* UPDATEs that name a lease and a status).  It is the promise TaskQueue keeps too.
THEOREM ExecutionImplementsAttempts == Spec => Table!Spec
<1>1. Init => Table!Init /\ LeaseIssued
  <2> SUFFICES ASSUME Init PROVE Phase = [l \in Attempts |-> "unissued"] /\ LeaseIssued
    BY DEF Table!Init, Phase
  <2>1. issued = 0 /\ row.lease = 0 /\ row.status = "queued"
    BY DEF Init
  <2>2. \A l \in Attempts : PhaseOf(l) = "unissued"
    BY <2>1, ConstantsNatural DEF Constants, PhaseOf, Attempts
  <2> QED BY <2>1, <2>2 DEF Phase, LeaseIssued
<1>2. TypeOK /\ LeaseIssued /\ [Next]_vars => LeaseIssued' /\ [Table!Next]_Phase
  BY EveryStepMovesRow, LeaseIssuedStep, StepIsTable
<1> QED BY <1>1, <1>2, ExecutionTyped, PTL DEF Spec, Table!Spec, Phase
=============================================================================
