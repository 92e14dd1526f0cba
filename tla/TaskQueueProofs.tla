-------------------------- MODULE TaskQueueProofs --------------------------
(***************************************************************************)
(* The promises of the task table for any number of tasks, owners, accounts*)
(* and attempts.                                                           *)
(***************************************************************************)
EXTENDS TaskQueue, FiniteSetTheorems, TLAPS

\* The bounds are natural numbers.
LEMMA Bounds ==
  /\ IsFiniteSet(Jobs)
  /\ Quota \in Nat /\ MaxActive \in Nat /\ Capacity \in Nat
  /\ MaxClaims \in Nat /\ MaxSaves \in Nat
BY QueueAssumption DEF QueueAssumption

USE Bounds

(***************************************************************************)
(* Types                                                                   *)
(***************************************************************************)

\* The number of admitted tasks, which orders admissions, is a natural number.
LEMMA CountsAreNat ==
  ASSUME NEW S \in SUBSET Jobs
  PROVE  IsFiniteSet(S) /\ Cardinality(S) \in Nat
BY FS_Subset, FS_CardinalityType

LEMMA TypeInit == Init => TypeOK
<1> SUFFICES ASSUME Init PROVE TypeOK
  OBVIOUS
<1>1. 0 \in 0 .. MaxClaims /\ 0 \in 0 .. MaxSaves /\ 0 \in 0 .. MaxClaims + MaxSaves
  OBVIOUS
<1>2. edit \in [Jobs -> [live : BOOLEAN, of : 0 .. MaxClaims + MaxSaves]]
  BY <1>1 DEF Init, NoEdit
<1>3. saved \in [Jobs -> SUBSET {"recovery", "draft"}]
  BY DEF Init
<1> QED BY <1>1, <1>2, <1>3 DEF Init, TypeOK, Statuses, Summaries

LEMMA TypeStep == TypeOK /\ [Next]_vars => TypeOK'
<1> SUFFICES ASSUME TypeOK, [Next]_vars PROVE TypeOK'
  OBVIOUS
<1> USE DEF TypeOK, Touch, row, fences, requests, Statuses, Summaries
<1>1. ASSUME NEW j \in Jobs, Submit(j) PROVE TypeOK'
  <2>1. Cardinality(Admitted) + 1 \in Nat
    BY CountsAreNat DEF Admitted, In
  <2> QED BY <1>1, <2>1 DEF Submit
<1>2. ASSUME NEW can \in Capabilities, ExpireStale(can) PROVE TypeOK'
  BY <1>2 DEF ExpireStale, Stale, Unless
<1>3. ASSUME NEW j \in Jobs, NEW can \in Capabilities, Claim(j, can) PROVE TypeOK'
  <2>1. issued + 1 \in 0 .. MaxClaims
    BY <1>3 DEF Claim
  <2> QED BY <1>3, <2>1 DEF Claim
<1>4. ASSUME NEW can \in Capabilities, ClaimNothing(can) PROVE TypeOK'
  BY <1>4 DEF ClaimNothing
<1>5. ASSUME NEW j \in Jobs, Silence(j) PROVE TypeOK'
  BY <1>5 DEF Silence
<1>6. ASSUME NEW j \in Jobs, NEW l \in Leases, Renew(j, l) PROVE TypeOK'
  BY <1>6 DEF Renew
<1>7. ASSUME NEW j \in Jobs, NEW l \in Leases, DeliveryReady(j, l) PROVE TypeOK'
  BY <1>7 DEF DeliveryReady
<1>8. ASSUME NEW j \in Jobs, NEW l \in Leases, DeliveryReset(j, l) PROVE TypeOK'
  BY <1>8 DEF DeliveryReset
<1>9. ASSUME NEW j \in Jobs, NEW l \in Leases, Complete(j, l) PROVE TypeOK'
  BY <1>9 DEF Complete, ResultOf, Leases
<1>10. ASSUME NEW j \in Jobs, NEW l \in Leases, Fail(j, l) PROVE TypeOK'
  BY <1>10 DEF Fail, Unless
<1>11. ASSUME NEW j \in Jobs, NEW l \in Leases, Applied(j, l) PROVE TypeOK'
  BY <1>11 DEF Applied
<1>12. ASSUME NEW j \in Jobs, NEW l \in Leases, NEW resumable \in BOOLEAN,
              NEW phase \in {"paused", "other"}, Checkpoint(j, l, resumable, phase)
       PROVE  TypeOK'
  <2>1. saved' \in [Jobs -> SUBSET {"recovery", "draft"}]
    BY <1>12 DEF Checkpoint
  <2>2. CASE summary' = [summary EXCEPT ![j] = "paused"] /\ Touch({j})
    BY <1>12, <2>1, <2>2 DEF Checkpoint
  <2>3. CASE UNCHANGED <<summary, silent, resuming>>
    BY <1>12, <2>1, <2>3 DEF Checkpoint
  <2> QED BY <1>12, <2>2, <2>3 DEF Checkpoint
<1>13. ASSUME NEW j \in Jobs, NEW l \in Leases, SaveDraft(j, l) PROVE TypeOK'
  BY <1>13 DEF SaveDraft
<1>14. ASSUME NEW j \in Jobs, Pause(j) PROVE TypeOK'
  BY <1>14 DEF Pause
<1>15. ASSUME NEW j \in Jobs, BeginResume(j) PROVE TypeOK'
  BY <1>15 DEF BeginResume
<1>16. ASSUME NEW j \in Jobs, Resume(j) PROVE TypeOK'
  BY <1>16 DEF Resume, Requeue
<1>17. ASSUME NEW j \in Jobs, Retry(j) PROVE TypeOK'
  BY <1>17 DEF Retry, Requeue
<1>18. ASSUME NEW j \in Jobs, PostRevision(j) PROVE TypeOK'
  BY <1>18 DEF PostRevision
<1>19. ASSUME NEW j \in Jobs, ClearDeliveryPending(j) PROVE TypeOK'
  BY <1>19 DEF ClearDeliveryPending
<1>20. ASSUME NEW j \in Jobs, NEW live \in BOOLEAN, NativeSave(j, live) PROVE TypeOK'
  BY <1>20 DEF NativeSave
<1>21. ASSUME NEW j \in Jobs, NativeFinish(j) PROVE TypeOK'
  <2>1. edit' \in [Jobs -> [live : BOOLEAN, of : 0 .. MaxClaims + MaxSaves]]
    BY <1>21 DEF NativeFinish, NoEdit
  <2>2. /\ result' \in [Jobs -> 0 .. MaxClaims + MaxSaves] /\ saves' \in 0 .. MaxSaves
        /\ silent' \in [Jobs -> BOOLEAN] /\ resuming' \subseteq Jobs
    <3>1. CASE edit[j].live
      BY <1>21, <3>1 DEF NativeFinish
    <3>2. CASE ~edit[j].live
      <4>1. saves + 1 \in 0 .. MaxSaves /\ MaxClaims + saves + 1 \in 0 .. MaxClaims + MaxSaves
        BY <1>21, <3>2 DEF NativeFinish
      <4>2. /\ result' = [result EXCEPT ![j] = MaxClaims + saves + 1] /\ saves' = saves + 1
            /\ silent' = [k \in Jobs |-> silent[k] /\ k \notin {j}] /\ resuming' = resuming \ {j}
        BY <1>21, <3>2 DEF NativeFinish
      <4>3. /\ result \in [Jobs -> 0 .. MaxClaims + MaxSaves] /\ resuming \subseteq Jobs
            /\ silent \in [Jobs -> BOOLEAN]
        OBVIOUS
      <4> HIDE DEF TypeOK
      <4> QED BY <4>1, <4>2, <4>3
    <3> QED BY <3>1, <3>2
  <2>3. unapplied' \in [Jobs -> BOOLEAN]
    BY <1>21 DEF NativeFinish
  <2> QED BY <1>21, <2>1, <2>2, <2>3 DEF NativeFinish
<1>22. ASSUME NEW j \in Jobs, NativeFail(j) PROVE TypeOK'
  BY <1>22 DEF NativeFail, NoEdit
<1>23. ASSUME NEW j \in Jobs, NEW id \in EditIds, BeginVisualEdit(j, id) PROVE TypeOK'
  <2> DEFINE live == status[j] = "running"
             read == [job |-> j, id |-> id, progressive |-> live,
                      target |-> IF live THEN lease[j] ELSE result[j]]
  <2>1. read \in EditReads
    BY DEF EditReads
  <2>2. editReads' = editReads \cup {read}
    BY <1>23 DEF BeginVisualEdit
  <2> HIDE DEF read
  <2> QED BY <1>23, <2>1, <2>2 DEF BeginVisualEdit
<1>24. ASSUME NEW r \in editReads, VisualEdit(r) PROVE TypeOK'
  <2>1. r.job \in Jobs /\ r.id \in EditIds
    BY DEF EditReads
  <2>2. noted' \subseteq Jobs \X EditIds /\ editReads' \subseteq EditReads
    BY <1>24, <2>1 DEF VisualEdit
  <2>3. clearing' \subseteq Jobs /\ resuming' \subseteq Jobs
    BY <1>24 DEF VisualEdit, Requeue
  <2>4. /\ status' \in [Jobs -> Statuses]
        /\ lease' \in [Jobs -> 0 .. MaxClaims]
        /\ summary' \in [Jobs -> Summaries]
        /\ silent' \in [Jobs -> BOOLEAN]
    <3>1. CASE ~Updated(r) /\ UNCHANGED <<status, lease, summary, silent, resuming>>
      BY <3>1
    <3>2. CASE Requeue(r.job, "resume_requested")
      BY <2>1, <3>2 DEF Requeue
    <3>3. CASE /\ summary' = [summary EXCEPT ![r.job] = "none"]
               /\ Touch({r.job})
               /\ UNCHANGED <<status, lease>>
      BY <2>1, <3>3
    <3> QED BY <1>24, <3>1, <3>2, <3>3 DEF VisualEdit
  <2>5. Inserted(r) \in BOOLEAN
    BY DEF Inserted
  <2>6. unapplied' \in [Jobs -> BOOLEAN]
    BY <1>24, <2>1, <2>5 DEF VisualEdit
  <2> QED BY <1>24, <2>2, <2>3, <2>4, <2>6 DEF VisualEdit
<1>25. ASSUME NEW a \in Accounts, Disconnect(a) PROVE TypeOK'
  BY <1>25 DEF Disconnect
<1>26. CASE UNCHANGED vars
  BY <1>26 DEF vars
<1> HIDE DEF TypeOK, Touch, row, fences, requests, Statuses, Summaries
<1> QED
  BY <1>1, <1>2, <1>3, <1>4, <1>5, <1>6, <1>7, <1>8, <1>9, <1>10, <1>11, <1>12, <1>13,
     <1>14, <1>15, <1>16, <1>17, <1>18, <1>19, <1>20, <1>21, <1>22, <1>23, <1>24, <1>25,
     <1>26 DEF Next, Worker, User

\* Every row and every request stays within the values the code can store.
THEOREM TypeCorrect == Spec => []TypeOK
BY TypeInit, TypeStep, PTL DEF Spec

(***************************************************************************)
(* Leases                                                                  *)
(***************************************************************************)

LEMMA LeaseInit == Init => LeaseDiscipline
BY DEF Init, LeaseDiscipline

\* Sending a task back to the queue takes its lease away.
LEMMA RequeueKeepsLeases ==
  ASSUME TypeOK, LeaseDiscipline, issued' = issued, NEW j \in Jobs, NEW word, Requeue(j, word)
  PROVE  LeaseDiscipline'
BY DEF TypeOK, LeaseDiscipline, Requeue

LEMMA LeaseStep == TypeOK /\ LeaseDiscipline /\ [Next]_vars => LeaseDiscipline'
<1> SUFFICES ASSUME TypeOK, LeaseDiscipline, [Next]_vars PROVE LeaseDiscipline'
  OBVIOUS
<1> USE DEF TypeOK, LeaseDiscipline
\* Most requests leave status, lease and the lease counter alone ...
<1>0. CASE UNCHANGED <<status, lease, issued>>
  BY <1>0
\* ... and these change them.
<1>1. ASSUME NEW j \in Jobs, Submit(j) PROVE LeaseDiscipline'
  BY <1>1 DEF Submit
<1>2. ASSUME NEW can \in Capabilities, ExpireStale(can) PROVE LeaseDiscipline'
  BY <1>2 DEF ExpireStale, Stale
<1>3. ASSUME NEW j \in Jobs, NEW can \in Capabilities, Claim(j, can) PROVE LeaseDiscipline'
  BY <1>3 DEF Claim
<1>4. ASSUME NEW j \in Jobs, NEW l \in Leases, Complete(j, l) PROVE LeaseDiscipline'
  BY <1>4 DEF Complete, Holds
<1>5. ASSUME NEW j \in Jobs, NEW l \in Leases, Fail(j, l) PROVE LeaseDiscipline'
  BY <1>5 DEF Fail, Holds
<1>6. ASSUME NEW j \in Jobs, Pause(j) PROVE LeaseDiscipline'
  BY <1>6 DEF Pause
<1>7. ASSUME NEW j \in Jobs, Resume(j) PROVE LeaseDiscipline'
  BY <1>7, RequeueKeepsLeases DEF Resume
<1>8. ASSUME NEW j \in Jobs, Retry(j) PROVE LeaseDiscipline'
  BY <1>8, RequeueKeepsLeases DEF Retry
<1>9. ASSUME NEW r \in editReads, VisualEdit(r) PROVE LeaseDiscipline'
  <2>1. r.job \in Jobs
    BY DEF EditReads
  <2> QED BY <1>0, <1>9, <2>1, RequeueKeepsLeases DEF VisualEdit
<1>10. ASSUME NEW a \in Accounts, Disconnect(a) PROVE LeaseDiscipline'
  BY <1>10 DEF Disconnect, Active, In
<1>11. ASSUME NEW j \in Jobs, NEW l \in Leases,
              \/ Renew(j, l) \/ DeliveryReady(j, l) \/ DeliveryReset(j, l) \/ Applied(j, l)
              \/ SaveDraft(j, l)
              \/ \E resumable \in BOOLEAN, phase \in {"paused", "other"} :
                    Checkpoint(j, l, resumable, phase)
       PROVE  UNCHANGED <<status, lease, issued>>
  BY <1>11 DEF Renew, DeliveryReady, DeliveryReset, Applied, SaveDraft, Checkpoint, row
<1>12. ASSUME NEW j \in Jobs,
              \/ Silence(j) \/ BeginResume(j) \/ PostRevision(j) \/ ClearDeliveryPending(j)
              \/ NativeFinish(j) \/ NativeFail(j)
              \/ \E live \in BOOLEAN : NativeSave(j, live)
              \/ \E id \in EditIds : BeginVisualEdit(j, id)
       PROVE  UNCHANGED <<status, lease, issued>>
  BY <1>12 DEF Silence, BeginResume, PostRevision, ClearDeliveryPending, NativeFinish,
               NativeFail, NativeSave, BeginVisualEdit, row
<1>13. ASSUME NEW can \in Capabilities, ClaimNothing(can) PROVE UNCHANGED <<status, lease, issued>>
  BY <1>13 DEF ClaimNothing, row
<1>14. CASE UNCHANGED vars
  BY <1>14 DEF vars
<1> QED
  BY <1>0, <1>1, <1>2, <1>3, <1>4, <1>5, <1>6, <1>7, <1>8, <1>9, <1>10, <1>11, <1>12,
     <1>13, <1>14 DEF Next, Worker, User

\* At most one attempt owns a task, and no lease is handed out twice.
THEOREM LeasesAreExclusive == Spec => []LeaseDiscipline
BY TypeInit, TypeStep, LeaseInit, LeaseStep, PTL DEF Spec

(***************************************************************************)
(* Bounds                                                                  *)
(***************************************************************************)

\* Counting a set that gained at most one element.
LEMMA CountGrowsByOne ==
  ASSUME NEW S \in SUBSET Jobs, NEW T \in SUBSET Jobs, NEW N \in Nat, Cardinality(S) <= N,
         \/ T \subseteq S
         \/ Cardinality(S) < N /\ \E j \in Jobs : T \subseteq S \cup {j}
  PROVE  Cardinality(T) <= N
<1>1. IsFiniteSet(S) /\ Cardinality(S) \in Nat /\ IsFiniteSet(T) /\ Cardinality(T) \in Nat
  BY CountsAreNat
<1>2. CASE T \subseteq S
  BY <1>1, <1>2, FS_Subset
<1>3. ASSUME Cardinality(S) < N, NEW j \in Jobs, T \subseteq S \cup {j}
      PROVE  Cardinality(T) <= N
  <2>1. /\ IsFiniteSet(S \cup {j})
        /\ Cardinality(S \cup {j}) = IF j \in S THEN Cardinality(S) ELSE Cardinality(S) + 1
    BY <1>1, FS_AddElement
  <2>2. Cardinality(T) <= Cardinality(S \cup {j})
    BY <1>3, <2>1, FS_Subset
  <2> QED BY <1>1, <1>3, <2>1, <2>2
<1> QED BY <1>2, <1>3

LEMMA NothingRunsAtFirst == Init => CapacityRespected /\ QueueBound
<1> SUFFICES ASSUME Init PROVE CapacityRespected /\ QueueBound
  OBVIOUS
<1>1. Running = {} /\ Active = {}
  BY DEF Init, Running, Active, In
<1> QED BY <1>1, FS_EmptySet DEF CapacityRespected, QueueBound

\* Only a claim, with a free slot, adds a running task.
LEMMA OnlyClaimsRun ==
  ASSUME TypeOK, [Next]_vars
  PROVE  \/ Running' \subseteq Running
         \/ \E j \in Jobs : HasSlot /\ Running' \subseteq Running \cup {j}
<1> DEFINE P == Running' \subseteq Running
<1> USE DEF TypeOK, Running, In
<1>0. ASSUME UNCHANGED status PROVE P
  BY <1>0
<1>1. ASSUME NEW j \in Jobs, NEW can \in Capabilities, Claim(j, can)
      PROVE  HasSlot /\ Running' \subseteq Running \cup {j}
  BY <1>1 DEF Claim
<1>2. ASSUME NEW j \in Jobs,
             Submit(j) \/ Pause(j) \/ Resume(j) \/ Retry(j)
             \/ \E l \in Leases : Complete(j, l) \/ Fail(j, l)
      PROVE  P
  BY <1>2 DEF Submit, Pause, Resume, Retry, Requeue, Complete, Fail
<1>3. ASSUME NEW can \in Capabilities, ExpireStale(can) PROVE P
  BY <1>3 DEF ExpireStale
<1>4. ASSUME NEW r \in editReads, VisualEdit(r) PROVE P
  <2>1. r.job \in Jobs
    BY DEF EditReads
  <2> QED BY <1>4, <2>1 DEF VisualEdit, Requeue
<1>5. ASSUME NEW a \in Accounts, Disconnect(a) PROVE P
  BY <1>5 DEF Disconnect
<1>6. ASSUME NEW j \in Jobs,
             \/ Silence(j) \/ BeginResume(j) \/ PostRevision(j) \/ ClearDeliveryPending(j)
             \/ NativeFinish(j) \/ NativeFail(j)
             \/ \E live \in BOOLEAN : NativeSave(j, live)
             \/ \E id \in EditIds : BeginVisualEdit(j, id)
             \/ \E l \in Leases :
                  \/ Renew(j, l) \/ DeliveryReady(j, l) \/ DeliveryReset(j, l) \/ Applied(j, l)
                  \/ SaveDraft(j, l)
                  \/ \E resumable \in BOOLEAN, phase \in {"paused", "other"} :
                        Checkpoint(j, l, resumable, phase)
      PROVE  UNCHANGED status
  BY <1>6 DEF Silence, BeginResume, PostRevision, ClearDeliveryPending, NativeFinish,
              NativeFail, NativeSave, BeginVisualEdit, Renew, DeliveryReady, DeliveryReset,
              Applied, SaveDraft, Checkpoint, row
<1>7. ASSUME NEW can \in Capabilities, ClaimNothing(can) PROVE UNCHANGED status
  BY <1>7 DEF ClaimNothing, row
<1>8. ASSUME UNCHANGED vars PROVE UNCHANGED status
  BY <1>8 DEF vars
<1>9. CASE \E can \in Capabilities, j \in Jobs : Claim(j, can)
  BY <1>1, <1>9
<1>10. ASSUME ~\E can \in Capabilities, j \in Jobs : Claim(j, can) PROVE P
  <2> HIDE DEF P
  <2> QED
    BY <1>0, <1>2, <1>3, <1>4, <1>5, <1>6, <1>7, <1>8, <1>10 DEF Next, Worker, User
<1> QED BY <1>9, <1>10, Zenon

LEMMA CapacityStep == TypeOK /\ CapacityRespected /\ [Next]_vars => CapacityRespected'
<1> SUFFICES ASSUME TypeOK, CapacityRespected, [Next]_vars PROVE CapacityRespected'
  OBVIOUS
<1>1. Running \in SUBSET Jobs /\ Running' \in SUBSET Jobs
  BY DEF Running, In
<1> QED BY <1>1, OnlyClaimsRun, CountGrowsByOne DEF CapacityRespected, HasSlot

\* No interleaving of claims runs more tasks than there are slots.
THEOREM CapacityHolds == Spec => []CapacityRespected
BY TypeInit, TypeStep, NothingRunsAtFirst, CapacityStep, PTL DEF Spec

\* Whatever enters the queue, but for a visual edit that is sent again, found room in it.
LEMMA OnlyWithRoom ==
  ASSUME TypeOK, [Next]_vars, ~RepeatedEdit
  PROVE  \/ Active' \subseteq Active
         \/ \E j \in Jobs : HasRoom /\ Active' \subseteq Active \cup {j}
<1> DEFINE Shrinks == Active' \subseteq Active
           Enters(j) == HasRoom /\ Active' \subseteq Active \cup {j}
<1> USE DEF TypeOK, Active, In
<1>0. ASSUME UNCHANGED status PROVE Shrinks
  BY <1>0
<1>1. ASSUME NEW j \in Jobs, Submit(j) \/ Resume(j) \/ Retry(j)
      PROVE  Enters(j)
  BY <1>1 DEF Submit, Resume, Retry, Requeue
<1>2. ASSUME NEW j \in Jobs,
             \/ Pause(j) \/ \E can \in Capabilities : Claim(j, can)
             \/ \E l \in Leases : Complete(j, l) \/ Fail(j, l)
      PROVE  Shrinks
  BY <1>2 DEF Pause, Claim, Complete, Fail
<1>3. ASSUME NEW can \in Capabilities, ExpireStale(can) PROVE Shrinks
  BY <1>3 DEF ExpireStale
<1>4. ASSUME NEW r \in editReads, VisualEdit(r)
      PROVE  UNCHANGED status \/ Enters(r.job)
  <2>1. Updated(r) => HasRoom
    BY <1>4 DEF Updated, Inserted, RepeatedEdit
  <2> QED BY <1>4, <2>1 DEF VisualEdit, Requeue
<1>5. ASSUME NEW a \in Accounts, Disconnect(a) PROVE Shrinks
  BY <1>5 DEF Disconnect
<1>6. ASSUME NEW j \in Jobs,
             \/ Silence(j) \/ BeginResume(j) \/ PostRevision(j) \/ ClearDeliveryPending(j)
             \/ NativeFinish(j) \/ NativeFail(j)
             \/ \E live \in BOOLEAN : NativeSave(j, live)
             \/ \E id \in EditIds : BeginVisualEdit(j, id)
             \/ \E l \in Leases :
                  \/ Renew(j, l) \/ DeliveryReady(j, l) \/ DeliveryReset(j, l) \/ Applied(j, l)
                  \/ SaveDraft(j, l)
                  \/ \E resumable \in BOOLEAN, phase \in {"paused", "other"} :
                        Checkpoint(j, l, resumable, phase)
      PROVE  UNCHANGED status
  BY <1>6 DEF Silence, BeginResume, PostRevision, ClearDeliveryPending, NativeFinish,
              NativeFail, NativeSave, BeginVisualEdit, Renew, DeliveryReady, DeliveryReset,
              Applied, SaveDraft, Checkpoint, row
<1>7. ASSUME NEW can \in Capabilities, ClaimNothing(can) PROVE UNCHANGED status
  BY <1>7 DEF ClaimNothing, row
<1>8. ASSUME UNCHANGED vars PROVE UNCHANGED status
  BY <1>8 DEF vars
<1>9. \A r \in editReads : r.job \in Jobs
  BY DEF EditReads
<1> HIDE DEF Shrinks, Enters
<1>10. Shrinks \/ \E j \in Jobs : Enters(j)
  BY <1>0, <1>1, <1>2, <1>3, <1>4, <1>5, <1>6, <1>7, <1>8, <1>9 DEF Next, Worker, User
<1> QED BY <1>10, Zenon DEF Shrinks, Enters

\* A step that no repeated edit takes does not carry the queue over a bound.
LEMMA QueueStep ==
  ASSUME TypeOK, [Next]_vars, ~RepeatedEdit
  PROVE  /\ QueueBound => QueueBound'
         /\ Cardinality(Active') > Cardinality(Active) => Cardinality(Active') <= MaxActive
<1>1. Active \in SUBSET Jobs /\ Active' \in SUBSET Jobs
  BY DEF Active, In
<1>2. Cardinality(Active) \in Nat /\ Cardinality(Active') \in Nat
  BY <1>1, CountsAreNat
<1>3. QueueBound => QueueBound'
  BY <1>1, OnlyWithRoom, CountGrowsByOne DEF QueueBound, HasRoom
<1>4. Active' \subseteq Active => Cardinality(Active') <= Cardinality(Active)
  BY <1>1, CountsAreNat, FS_Subset
<1>5. ~(Active' \subseteq Active) => HasRoom
  BY OnlyWithRoom
<1>6. HasRoom => QueueBound
  BY <1>2 DEF HasRoom, QueueBound
<1> QED BY <1>2, <1>3, <1>4, <1>5, <1>6 DEF QueueBound

\* No submission, resume, retry or new visual edit, and no interleaving of them, makes
\* the queue grow beyond its limit.
THEOREM QueueBounded == Spec => QueueWithinBound
<1> DEFINE Grown == Cardinality(Active') > Cardinality(Active)
                       => Cardinality(Active') <= MaxActive \/ RepeatedEdit
<1>1. TypeOK /\ [Next]_vars => Grown
  BY QueueStep
<1>2. TypeOK /\ [Next]_vars => [Grown]_vars
  BY <1>1
<1> QED BY <1>2, TypeInit, TypeStep, PTL DEF Spec, QueueWithinBound

\* A visual edit that is sent again is the only way to more than MaxActive tasks.
THEOREM OnlyRepeatsOverfill == Spec /\ NoRepeatedEdit => []QueueBound
<1>1. TypeOK /\ QueueBound /\ [Next]_vars /\ [~RepeatedEdit]_vars => QueueBound'
  <2>1. CASE UNCHANGED vars
    BY <2>1 DEF QueueBound, Active, In, vars
  <2>2. CASE ~RepeatedEdit
    BY <2>2, QueueStep
  <2> QED BY <2>1, <2>2
<1> QED BY <1>1, TypeInit, TypeStep, NothingRunsAtFirst, PTL DEF Spec, NoRepeatedEdit

(***************************************************************************)
(* What a finished task shows, and what is announced                       *)
(***************************************************************************)

\* Only a task at work, or one whose attempt failed, has an announced delivery:
\* the queue hands none out that is already announced.
AnnouncedAtWork ==
  \A j \in Jobs : summary[j] = "delivery_pending" => status[j] \in {"running", "failed"}

Shown == AnnouncedAtWork /\ DeliveryPendingHonest /\ ShownFileHonest

\* A task that goes back to the queue is neither announced nor complete.
LEMMA RequeueKeepsShown ==
  ASSUME TypeOK, Shown, NEW j \in Jobs, NEW word \in Summaries \ {"delivery_pending"}, Requeue(j, word),
         clearing' = clearing, edit' = edit, result' = result, saves' = saves,
         \A k \in Jobs \ {j} : unapplied'[k] = unapplied[k]
  PROVE  Shown'
<1> USE DEF TypeOK, Shown, ShownFileHonest
<1>1. AnnouncedAtWork'
  BY DEF AnnouncedAtWork, Requeue
<1>2. DeliveryPendingHonest'
  BY DEF DeliveryPendingHonest, Requeue
<1>3. DeliveredByHolder'
  BY DEF DeliveredByHolder, Requeue
<1>4. SaveBasedOnShown'
  BY DEF SaveBasedOnShown, Based, Requeue
<1> QED BY <1>1, <1>2, <1>3, <1>4

LEMMA ShownStep == TypeOK /\ Shown /\ [Next]_vars => Shown'
<1> SUFFICES ASSUME TypeOK, Shown, [Next]_vars PROVE Shown'
  OBVIOUS
<1> USE DEF TypeOK, Shown, ShownFileHonest, AnnouncedAtWork, DeliveryPendingHonest, DeliveredByHolder,
            SaveBasedOnShown, Based, Deliverable, row, fences, requests
<1>0. ASSUME UNCHANGED <<row, fences, saves, clearing>> PROVE Shown'
  BY <1>0
<1>1. ASSUME NEW j \in Jobs, Submit(j) \/ Pause(j) PROVE Shown'
  BY <1>1 DEF Submit, Pause
<1>2. ASSUME NEW can \in Capabilities, ExpireStale(can) PROVE Shown'
  BY <1>2 DEF ExpireStale, Stale, Unless
<1>3. ASSUME NEW j \in Jobs, NEW can \in Capabilities, Claim(j, can) PROVE Shown'
  BY <1>3 DEF Claim
<1>4. ASSUME NEW j \in Jobs, NEW l \in Leases, DeliveryReady(j, l) \/ DeliveryReset(j, l) PROVE Shown'
  BY <1>4 DEF DeliveryReady, DeliveryReset, Holds
<1>5. ASSUME NEW j \in Jobs, NEW l \in Leases, Complete(j, l) PROVE Shown'
  BY <1>5 DEF Complete, Holds, ResultOf
<1>6. ASSUME NEW j \in Jobs, NEW l \in Leases, Fail(j, l) PROVE Shown'
  BY <1>6 DEF Fail, Holds, Unless
<1>7. ASSUME NEW j \in Jobs, NEW l \in Leases, Applied(j, l) PROVE Shown'
  BY <1>7 DEF Applied
<1>8. ASSUME NEW j \in Jobs, NEW l \in Leases, NEW resumable \in BOOLEAN,
             NEW phase \in {"paused", "other"}, Checkpoint(j, l, resumable, phase)
      PROVE  Shown'
  BY <1>8 DEF Checkpoint
<1>9. ASSUME NEW j \in Jobs, Resume(j) \/ Retry(j) PROVE Shown'
  BY <1>9, RequeueKeepsShown DEF Resume, Retry, Summaries
<1>10. ASSUME NEW j \in Jobs, PostRevision(j) \/ ClearDeliveryPending(j) PROVE Shown'
  BY <1>10 DEF PostRevision, ClearDeliveryPending
<1>11. ASSUME NEW j \in Jobs, NEW live \in BOOLEAN, NativeSave(j, live) PROVE Shown'
  BY <1>11 DEF NativeSave
<1>12. ASSUME NEW j \in Jobs, NativeFinish(j) PROVE Shown'
  BY <1>12 DEF NativeFinish
<1>13. ASSUME NEW j \in Jobs, NativeFail(j) PROVE Shown'
  BY <1>13 DEF NativeFail
<1>14. ASSUME NEW r \in editReads, VisualEdit(r) PROVE Shown'
  <2>1. r.job \in Jobs
    BY DEF EditReads
  <2>2. CASE Updated(r) /\ status[r.job] = "complete" /\ Requeue(r.job, "resume_requested")
    BY <1>14, <2>1, <2>2, RequeueKeepsShown DEF VisualEdit, Summaries
  <2>3. CASE ~Updated(r) /\ UNCHANGED <<status, lease, summary, silent, resuming>>
    <3>1. UNCHANGED <<row, fences, saves, clearing>>
      BY <1>14, <2>1, <2>3 DEF VisualEdit, Updated
    <3> QED BY <1>0, <3>1
  <2>4. CASE /\ status[r.job] # "complete"
             /\ summary' = [summary EXCEPT ![r.job] = "none"] /\ UNCHANGED <<status, lease>>
    BY <1>14, <2>1, <2>4 DEF VisualEdit
  <2> QED BY <1>14, <2>2, <2>3, <2>4 DEF VisualEdit
<1>15. ASSUME NEW a \in Accounts, Disconnect(a) PROVE Shown'
  BY <1>15 DEF Disconnect, Active, In
<1>16. ASSUME NEW j \in Jobs,
              \/ Silence(j) \/ BeginResume(j) \/ \E id \in EditIds : BeginVisualEdit(j, id)
              \/ \E l \in Leases : Renew(j, l) \/ SaveDraft(j, l)
       PROVE  UNCHANGED <<row, fences, saves, clearing>>
  BY <1>16 DEF Silence, BeginResume, BeginVisualEdit, Renew, SaveDraft
<1>17. ASSUME NEW can \in Capabilities, ClaimNothing(can) PROVE UNCHANGED <<row, fences, saves, clearing>>
  BY <1>17 DEF ClaimNothing
<1>18. CASE UNCHANGED vars
  BY <1>0, <1>18 DEF vars
<1> HIDE DEF TypeOK, Shown, row, fences
<1> QED
  BY <1>0, <1>1, <1>2, <1>3, <1>4, <1>5, <1>6, <1>7, <1>8, <1>9, <1>10, <1>11, <1>12,
     <1>13, <1>14, <1>15, <1>16, <1>17, <1>18 DEF Next, Worker, User

LEMMA ShownAlways == Spec => []Shown
<1>1. Init => Shown
  BY DEF Init, Shown, AnnouncedAtWork, DeliveryPendingHonest, ShownFileHonest, DeliveredByHolder,
         SaveBasedOnShown
<1> QED BY <1>1, TypeInit, TypeStep, ShownStep, PTL DEF Spec

\* No announced delivery misses a stored revision or races an open save.
THEOREM AnnouncementsHonest == Spec => []DeliveryPendingHonest
BY ShownAlways, PTL DEF Shown

\* A finished task shows what its attempt delivered or what was saved on that.
THEOREM ShownFileIsHonest == Spec => []ShownFileHonest
BY ShownAlways, PTL DEF Shown

(***************************************************************************)
(* Ways back into the queue                                                *)
(***************************************************************************)

\* A task enters the queue by one of four requests.
LEMMA WaysIntoQueue ==
  ASSUME TypeOK, [Next]_vars, NEW j \in Jobs, status[j] # "queued", status'[j] = "queued"
  PROVE  \/ status[j] \in {"absent", "failed"}
         \/ Resume(j)
         \/ \E r \in editReads : r.job = j /\ status[j] = "complete" /\ Updated(r) /\ VisualEdit(r)
<1> USE DEF TypeOK
<1>1. ASSUME NEW k \in Jobs, Submit(k) PROVE status[j] = "absent"
  BY <1>1 DEF Submit
<1>2. ASSUME NEW k \in Jobs, Retry(k) PROVE status[j] = "failed"
  BY <1>2 DEF Retry, Requeue
<1>3. ASSUME NEW k \in Jobs, Resume(k) PROVE Resume(j)
  BY <1>3 DEF Resume, Requeue
<1>4. ASSUME NEW r \in editReads, VisualEdit(r)
      PROVE  r.job = j /\ status[j] = "complete" /\ Updated(r)
  <2>1. r.job \in Jobs
    BY DEF EditReads
  <2> QED BY <1>4, <2>1 DEF VisualEdit, Requeue
<1>5. ASSUME NEW k \in Jobs,
             \/ Pause(k) \/ \E can \in Capabilities : Claim(k, can)
             \/ \E l \in Leases : Complete(k, l) \/ Fail(k, l)
      PROVE  FALSE
  BY <1>5 DEF Pause, Claim, Complete, Fail
<1>6. CASE (\E can \in Capabilities : ExpireStale(can)) \/ \E a \in Accounts : Disconnect(a)
  BY <1>6 DEF ExpireStale, Disconnect
<1>7. ASSUME NEW k \in Jobs,
             \/ Silence(k) \/ BeginResume(k) \/ PostRevision(k) \/ ClearDeliveryPending(k)
             \/ NativeFinish(k) \/ NativeFail(k)
             \/ \E live \in BOOLEAN : NativeSave(k, live)
             \/ \E id \in EditIds : BeginVisualEdit(k, id)
             \/ \E l \in Leases :
                  \/ Renew(k, l) \/ DeliveryReady(k, l) \/ DeliveryReset(k, l) \/ Applied(k, l)
                  \/ SaveDraft(k, l)
                  \/ \E resumable \in BOOLEAN, phase \in {"paused", "other"} :
                        Checkpoint(k, l, resumable, phase)
      PROVE  FALSE
  BY <1>7 DEF Silence, BeginResume, PostRevision, ClearDeliveryPending, NativeFinish,
              NativeFail, NativeSave, BeginVisualEdit, Renew, DeliveryReady, DeliveryReset,
              Applied, SaveDraft, Checkpoint, row
<1>8. CASE UNCHANGED vars \/ \E can \in Capabilities : ClaimNothing(can)
  BY <1>8 DEF vars, ClaimNothing, row
<1> HIDE DEF TypeOK
<1> QED
  BY <1>1, <1>2, <1>3, <1>4, <1>5, <1>6, <1>7, <1>8 DEF Next, Worker, User

\* A resume request past its checks is still right about the row, or about a row
\* that it will not match any more.
ResumesChecked == \A j \in resuming : MayRestart(j)

LEMMA ResumesStep == TypeOK /\ ResumesChecked /\ [Next]_vars => ResumesChecked'
<1> SUFFICES ASSUME TypeOK, ResumesChecked, [Next]_vars PROVE ResumesChecked'
  OBVIOUS
<1> USE DEF TypeOK, ResumesChecked, MayRestart, Touch, row, requests
<1>1. ASSUME NEW j \in Jobs,
             \/ Submit(j) \/ Pause(j) \/ Resume(j) \/ Retry(j) \/ Silence(j) \/ BeginResume(j)
             \/ \E can \in Capabilities : Claim(j, can)
      PROVE  ResumesChecked'
  BY <1>1 DEF Submit, Pause, Resume, Retry, Silence, BeginResume, Claim, Requeue
<1>2. ASSUME NEW j \in Jobs, NEW l \in Leases,
             \/ Complete(j, l) \/ Fail(j, l) \/ DeliveryReady(j, l) \/ DeliveryReset(j, l)
      PROVE  ResumesChecked'
  BY <1>2 DEF Complete, Fail, DeliveryReady, DeliveryReset, Holds
<1>3. ASSUME NEW j \in Jobs, NEW l \in Leases, NEW resumable \in BOOLEAN,
             NEW phase \in {"paused", "other"}, Checkpoint(j, l, resumable, phase)
      PROVE  ResumesChecked'
  BY <1>3 DEF Checkpoint
<1>4. ASSUME NEW j \in Jobs, PostRevision(j) \/ ClearDeliveryPending(j) PROVE ResumesChecked'
  BY <1>4 DEF PostRevision, ClearDeliveryPending
<1>5. ASSUME NEW j \in Jobs,
             \/ NativeFinish(j) \/ NativeFail(j) \/ \E live \in BOOLEAN : NativeSave(j, live)
             \/ \E id \in EditIds : BeginVisualEdit(j, id)
             \/ \E l \in Leases : Renew(j, l) \/ SaveDraft(j, l) \/ Applied(j, l)
      PROVE  ResumesChecked'
  BY <1>5 DEF NativeFinish, NativeFail, NativeSave, BeginVisualEdit, Renew, SaveDraft, Applied
<1>6. ASSUME NEW can \in Capabilities, ExpireStale(can) PROVE ResumesChecked'
  BY <1>6 DEF ExpireStale
<1>7. ASSUME NEW a \in Accounts, Disconnect(a) PROVE ResumesChecked'
  BY <1>7 DEF Disconnect, Active, In
<1>8. ASSUME NEW r \in editReads, VisualEdit(r) PROVE ResumesChecked'
  <2>1. r.job \in Jobs
    BY DEF EditReads
  <2> QED BY <1>8, <2>1 DEF VisualEdit, Requeue
<1>9. CASE UNCHANGED vars \/ \E can \in Capabilities : ClaimNothing(can)
  BY <1>9 DEF vars, ClaimNothing
<1> HIDE DEF TypeOK, ResumesChecked
<1> QED
  BY <1>1, <1>2, <1>3, <1>4, <1>5, <1>6, <1>7, <1>8, <1>9 DEF Next, Worker, User

\* A task whose attempt was asked to stop and still reports is not queued again.
THEOREM ResumesWait == Spec => ResumeWaitsForStop
<1>1. Init => ResumesChecked
  BY DEF Init, ResumesChecked
<1> DEFINE Waits == \A j \in Jobs : status[j] = "paused" /\ summary[j] = "pause_requested" /\ ~silent[j]
                                       => status'[j] # "queued"
<1>2. TypeOK /\ ResumesChecked /\ [Next]_vars => Waits
  <2> SUFFICES ASSUME TypeOK, ResumesChecked, [Next]_vars, NEW j \in Jobs,
                      status[j] = "paused", summary[j] = "pause_requested", ~silent[j],
                      status'[j] = "queued"
               PROVE  FALSE
    OBVIOUS
  <2>1. Resume(j)
    BY WaysIntoQueue
  <2> QED BY <2>1 DEF Resume, ResumesChecked, MayRestart
<1>3. TypeOK /\ ResumesChecked /\ [Next]_vars => [Waits]_vars
  BY <1>2
<1> QED BY <1>1, <1>3, TypeInit, TypeStep, ResumesStep, PTL DEF Spec, ResumeWaitsForStop

\* A finished task is queued again by its owner or with work to do, unless a visual
\* edit is sent again: that is the only way to the finding of run empty.
THEOREM RequeuesHaveWork == Spec /\ NoRepeatedEdit => NoEmptyRequeue
<1> DEFINE Works == \A j \in Jobs : status[j] = "complete" /\ status'[j] = "queued"
                                       => unapplied'[j] \/ j \in resuming
<1>1. TypeOK /\ [Next]_vars /\ ~RepeatedEdit => Works
  <2> SUFFICES ASSUME TypeOK, [Next]_vars, ~RepeatedEdit, NEW j \in Jobs,
                      status[j] = "complete", status'[j] = "queued", j \notin resuming
               PROVE  unapplied'[j]
    OBVIOUS
  <2>1. PICK r \in editReads : r.job = j /\ Updated(r) /\ VisualEdit(r)
    BY WaysIntoQueue DEF Resume
  <2>2. Inserted(r)
    BY <2>1 DEF Updated, RepeatedEdit
  <2> QED BY <2>1, <2>2 DEF VisualEdit, TypeOK
<1>2. TypeOK /\ [Next]_vars /\ [~RepeatedEdit]_vars => [Works]_vars
  BY <1>1
<1> QED BY <1>2, TypeInit, TypeStep, PTL DEF Spec, NoEmptyRequeue, NoRepeatedEdit

(***************************************************************************)
(* The table implements Attempts                                           *)
(***************************************************************************)

\* The phase of an attempt, from the status of the row that carries its lease.
PhaseFor(word) ==
  IF word = "running" THEN "open" ELSE IF word = "paused" THEN "stopping"
  ELSE IF word = "complete" THEN "delivered" ELSE "ended"

LEMMA PhaseOfHolder ==
  ASSUME LeaseDiscipline, TypeOK, NEW j \in Jobs, lease[j] # 0
  PROVE  lease[j] \in Leases /\ PhaseOf(lease[j]) = PhaseFor(status[j])
BY DEF LeaseDiscipline, TypeOK, Leases, PhaseOf, PhaseFor

LEMMA PhaseWithoutHolder ==
  ASSUME LeaseDiscipline, TypeOK, NEW l \in Leases, \A j \in Jobs : lease[j] # l
  PROVE  PhaseOf(l) = IF l > issued THEN "unissued" ELSE "ended"
BY DEF LeaseDiscipline, TypeOK, Leases, PhaseOf

\* What the two lemmas say, of this state and of the next.
PhasesFollow ==
  /\ \A j \in Jobs : lease[j] # 0 => lease[j] \in Leases /\ PhaseOf(lease[j]) = PhaseFor(status[j])
  /\ \A l \in Leases : (\A j \in Jobs : lease[j] # l)
                         => PhaseOf(l) = IF l > issued THEN "unissued" ELSE "ended"

LEMMA PhasesAlwaysFollow == LeaseDiscipline /\ TypeOK => PhasesFollow
BY PhaseOfHolder, PhaseWithoutHolder DEF PhasesFollow

Phase == [l \in Leases |-> PhaseOf(l)]

\* Rows that keep their lease while their status moves.
LEMMA RowsMove ==
  ASSUME PhasesFollow, PhasesFollow', UNCHANGED <<lease, issued>>, NEW S \in SUBSET Jobs, NEW to,
         \A j \in Jobs \ S : status'[j] = status[j] \/ lease[j] = 0,
         \A j \in S : lease[j] # 0 /\ PhaseFor(status'[j]) = to
  PROVE  Attempt!Move({lease[j] : j \in S}, to)
<1>1. ASSUME NEW l \in Leases
      PROVE  PhaseOf(l)' = IF l \in {lease[j] : j \in S} THEN to ELSE PhaseOf(l)
  <2>1. CASE \A j \in Jobs : lease[j] # l
    BY <2>1 DEF PhasesFollow
  <2>2. ASSUME NEW j \in Jobs, lease[j] = l
        PROVE  PhaseOf(l)' = IF l \in {lease[k] : k \in S} THEN to ELSE PhaseOf(l)
    <3>1. l # 0
      BY DEF Leases
    <3>2. PhaseOf(l)' = PhaseFor(status'[j]) /\ PhaseOf(l) = PhaseFor(status[j])
      BY <2>2, <3>1 DEF PhasesFollow
    <3>3. CASE j \in S
      BY <2>2, <3>2, <3>3
    <3>4. CASE l \in {lease[k] : k \in S}
      <4>1. PICK k \in S : lease[k] = l
        BY <3>4
      <4>2. PhaseOf(l)' = PhaseFor(status'[k])
        BY <3>1, <4>1 DEF PhasesFollow
      <4> QED BY <3>4, <4>1, <4>2
    <3>5. CASE j \notin S /\ l \notin {lease[k] : k \in S}
      BY <2>2, <3>1, <3>2, <3>5
    <3> QED BY <3>3, <3>4, <3>5
  <2> QED BY <2>1, <2>2
<1> QED BY <1>1, Zenon DEF Attempt!Move

LEMMA RowReleased ==
  ASSUME PhasesFollow, PhasesFollow', TypeOK, LeaseDiscipline, UNCHANGED issued, NEW j \in Jobs,
         lease' = [lease EXCEPT ![j] = 0], \A k \in Jobs \ {j} : status'[k] = status[k]
  PROVE  UNCHANGED Phase \/ Attempt!End
<1>1. ASSUME NEW l \in Leases, l # lease[j] PROVE PhaseOf(l)' = PhaseOf(l)
  <2>1. CASE \A k \in Jobs : lease[k] # l
    BY <1>1, <2>1 DEF PhasesFollow, TypeOK, Leases
  <2>2. ASSUME NEW k \in Jobs, lease[k] = l PROVE PhaseOf(l)' = PhaseOf(l)
    BY <1>1, <2>2 DEF PhasesFollow, TypeOK, Leases
  <2> QED BY <2>1, <2>2
<1>2. CASE lease[j] = 0
  BY <1>1, <1>2 DEF Phase, Leases
<1>3. CASE lease[j] # 0
  <2>1. PICK l \in Leases : l = lease[j] /\ PhaseOf(l) = PhaseFor(status[j])
    BY <1>3 DEF PhasesFollow
  <2>2. \A k \in Jobs : lease'[k] # l
    BY <1>3, <2>1 DEF TypeOK, LeaseDiscipline, Leases
  <2>3. PhaseOf(l)' = "ended"
    BY <2>1, <2>2 DEF PhasesFollow, LeaseDiscipline, TypeOK, Leases
  <2>4. Attempt!Move({l}, "ended")
    BY <1>1, <2>1, <2>3 DEF Attempt!Move
  <2>5. CASE PhaseOf(l) = "ended"
    BY <1>1, <2>1, <2>3, <2>5 DEF Phase
  <2>6. CASE PhaseOf(l) # "ended"
    <3>1. {l} \in SUBSET Attempt!InPhase({"open", "stopping", "delivered"})
      BY <2>1, <2>6 DEF PhaseFor, Attempt!InPhase
    <3> QED BY <2>4, <3>1 DEF Attempt!End
  <2> QED BY <2>5, <2>6
<1> QED BY <1>2, <1>3

\* Rows at work that move to another status.
LEMMA RowsStop ==
  ASSUME PhasesFollow, PhasesFollow', TypeOK, LeaseDiscipline, UNCHANGED <<lease, issued>>,
         NEW S \in SUBSET Running, NEW word \in {"paused", "failed"},
         \A j \in S : status'[j] = word,
         \A j \in Jobs \ S : status'[j] = status[j] \/ lease[j] = 0
  PROVE  Attempt!Stop \/ Attempt!End
<1> DEFINE T == {lease[j] : j \in S}
<1>1. S \in SUBSET Jobs /\ \A j \in S : lease[j] # 0 /\ status[j] = "running"
  BY DEF Running, In, LeaseDiscipline
<1>2. T \in SUBSET Attempt!InPhase({"open"})
  BY <1>1 DEF PhasesFollow, PhaseFor, Attempt!InPhase
<1>3. Attempt!Move(T, PhaseFor(word))
  BY <1>1, RowsMove
<1>4. CASE word = "paused"
  BY <1>2, <1>3, <1>4 DEF PhaseFor, Attempt!Stop
<1>5. CASE word = "failed"
  <2>1. T \in SUBSET Attempt!InPhase({"open", "stopping", "delivered"})
    BY <1>2 DEF Attempt!InPhase
  <2> QED BY <1>3, <1>5, <2>1 DEF PhaseFor, Attempt!End
<1> QED BY <1>4, <1>5

\* The two modules count alike.
LEMMA SameCount == \A S : Attempt!Cardinality(S) = Cardinality(S)
BY DEF Attempt!Cardinality, Cardinality

\* No more attempts are open than tasks run.
LEMMA OpenAttemptsRun ==
  ASSUME TypeOK, LeaseDiscipline, PhasesFollow
  PROVE  Cardinality(Attempt!InPhase({"open"})) <= Cardinality(Running)
<1> DEFINE T == Attempt!InPhase({"open"})
           R == {j \in Running : lease[j] \in T}
           f == [j \in R |-> lease[j]]
<1>1. Running \in SUBSET Jobs /\ R \in SUBSET Jobs /\ R \subseteq Running
  BY DEF Running, In
<1>2. IsFiniteSet(Running) /\ IsFiniteSet(R)
  BY <1>1, CountsAreNat
<1>3. \A l \in T : \E j \in R : lease[j] = l
  BY DEF Attempt!InPhase, PhaseOf, Running, In
<1>4. f \in Surjection(R, T)
  BY <1>3 DEF Surjection
<1>5. IsFiniteSet(T) /\ Cardinality(T) <= Cardinality(R)
  BY <1>2, <1>4, FS_Surjection
<1>6. Cardinality(R) <= Cardinality(Running)
  BY <1>1, <1>2, FS_Subset
<1>7. Cardinality(T) \in Nat /\ Cardinality(R) \in Nat /\ Cardinality(Running) \in Nat
  BY <1>2, <1>5, FS_CardinalityType
<1> QED BY <1>5, <1>6, <1>7

LEMMA ClaimOpens ==
  ASSUME PhasesFollow, PhasesFollow', TypeOK, LeaseDiscipline, NEW j \in Jobs, NEW can, Claim(j, can)
  PROVE  \E l \in Leases : Attempt!Open(l)
<1>0. issued \in Nat /\ issued + 1 \in Leases /\ lease[j] = 0
  BY DEF Claim, TypeOK, Leases, LeaseDiscipline
<1>1. PICK l \in Leases :
        /\ l = issued + 1 /\ issued \in Nat /\ issued' = l /\ lease[j] = 0
        /\ lease' = [lease EXCEPT ![j] = l] /\ status' = [status EXCEPT ![j] = "running"]
  BY <1>0 DEF Claim
<1>2. \A k \in Jobs : lease[k] # l
  BY <1>1 DEF LeaseDiscipline, TypeOK
<1>3. PhaseOf(l) = "unissued"
  BY <1>1, <1>2 DEF PhasesFollow
<1>4. ASSUME NEW m \in Leases, m < l PROVE PhaseOf(m) # "unissued"
  BY <1>1, <1>4 DEF PhasesFollow, PhaseFor, Leases
<1>5. Cardinality(Attempt!InPhase({"open"})) < Capacity
  <2>1. Running \in SUBSET Jobs /\ Cardinality(Running) < Capacity
    BY DEF Claim, HasSlot, Running, In
  <2>2. Cardinality(Running) \in Nat
    BY <2>1, CountsAreNat
  <2>3. IsFiniteSet(Attempt!InPhase({"open"}))
    <3>1. IsFiniteSet(Leases)
      BY FS_Interval DEF Leases
    <3>2. Attempt!InPhase({"open"}) \subseteq Leases
      BY DEF Attempt!InPhase
    <3> QED BY <3>1, <3>2, FS_Subset
  <2> QED BY <2>1, <2>2, <2>3, OpenAttemptsRun, FS_CardinalityType
<1>6. PhaseOf(l)' = "open"
  BY <1>1 DEF PhasesFollow, PhaseFor, TypeOK, Leases
<1>7. ASSUME NEW m \in Leases, m # l PROVE PhaseOf(m)' = PhaseOf(m)
  <2>1. CASE \A k \in Jobs : lease[k] # m
    <3>1. \A k \in Jobs : lease'[k] # m
      BY <1>1, <1>7, <2>1 DEF TypeOK
    <3> QED BY <1>1, <1>7, <2>1, <3>1 DEF PhasesFollow, Leases
  <2>2. ASSUME NEW k \in Jobs, lease[k] = m PROVE PhaseOf(m)' = PhaseOf(m)
    <3>1. k # j /\ m # 0
      BY <1>1, <2>2 DEF Leases
    <3>2. lease'[k] = m /\ status'[k] = status[k]
      BY <1>1, <2>2, <3>1 DEF TypeOK
    <3> QED BY <2>2, <3>1, <3>2 DEF PhasesFollow
  <2> QED BY <2>1, <2>2
<1>8. Phase' = [Phase EXCEPT ![l] = "open"]
  BY <1>1, <1>6, <1>7 DEF Phase
<1> QED BY <1>3, <1>4, <1>5, <1>8, SameCount DEF Attempt!Open, Phase

LEMMA StepIsAttempts ==
  ASSUME TypeOK, TypeOK', LeaseDiscipline, LeaseDiscipline', [Next]_vars
  PROVE  [Attempt!Next]_Phase
<1>0. PhasesFollow /\ PhasesFollow'
  BY PhasesAlwaysFollow, PTL
<1> DEFINE Same == UNCHANGED Phase
<1>1. ASSUME UNCHANGED <<status, lease, issued>> PROVE Same
  BY <1>1 DEF Phase, PhaseOf
<1>2. ASSUME NEW j \in Jobs, Submit(j) PROVE Same
  <2>1. lease' = lease /\ issued' = issued /\ lease[j] = 0 /\ status' = [status EXCEPT ![j] = "queued"]
    BY <1>2 DEF Submit, LeaseDiscipline, row
  <2> QED BY <2>1 DEF Phase, PhaseOf, Leases, TypeOK
<1>3. ASSUME NEW j \in Jobs, NEW can \in Capabilities, Claim(j, can) PROVE \E l \in Leases : Attempt!Open(l)
  BY <1>0, <1>3, ClaimOpens
<1>4. ASSUME NEW j \in Jobs, NEW l \in Leases, Complete(j, l) PROVE Attempt!Deliver
  <2>1. /\ lease[j] = l /\ status[j] = "running" /\ UNCHANGED <<lease, issued>>
        /\ status' = [status EXCEPT ![j] = "complete"]
    BY <1>4 DEF Complete, Holds
  <2>2. lease[j] # 0 /\ PhaseFor(status'[j]) = "delivered" /\ \A k \in Jobs \ {j} : status'[k] = status[k]
    BY <2>1 DEF TypeOK, Leases, PhaseFor
  <2>3. Attempt!Move({lease[k] : k \in {j}}, "delivered")
    BY <1>0, <2>1, <2>2, RowsMove
  <2>4. l \in Attempt!InPhase({"open"})
    BY <1>0, <2>1, <2>2 DEF PhasesFollow, PhaseFor, Attempt!InPhase
  <2>5. {lease[k] : k \in {j}} = {l}
    BY <2>1
  <2> QED BY <2>3, <2>4, <2>5 DEF Attempt!Deliver
<1>5. ASSUME NEW j \in Jobs, NEW l \in Leases, Fail(j, l) PROVE Attempt!Stop \/ Attempt!End
  <2>1. /\ {j} \in SUBSET Running /\ UNCHANGED <<lease, issued>>
        /\ \A k \in {j} : status'[k] = "failed"
        /\ \A k \in Jobs \ {j} : status'[k] = status[k]
    BY <1>5 DEF Fail, Holds, Running, In, TypeOK
  <2> QED BY <1>0, <2>1, RowsStop
<1>6. ASSUME NEW can \in Capabilities, ExpireStale(can) PROVE Attempt!Stop \/ Attempt!End
  <2>1. /\ Stale \in SUBSET Running /\ UNCHANGED <<lease, issued>>
        /\ \A k \in Stale : status'[k] = "failed"
        /\ \A k \in Jobs \ Stale : status'[k] = status[k]
    BY <1>6 DEF ExpireStale, Stale, Running, In
  <2> QED BY <1>0, <2>1, RowsStop
<1>7. ASSUME NEW j \in Jobs, Pause(j) PROVE Attempt!Stop \/ Attempt!End
  <2> DEFINE S == IF status[j] = "running" THEN {j} ELSE {}
  <2>1. /\ S \in SUBSET Running /\ UNCHANGED <<lease, issued>>
        /\ \A k \in S : status'[k] = "paused"
        /\ \A k \in Jobs \ S : status'[k] = status[k] \/ lease[k] = 0
    BY <1>7 DEF Pause, Running, In, TypeOK, LeaseDiscipline
  <2> HIDE DEF S
  <2> QED BY <1>0, <2>1, RowsStop
<1>8. ASSUME NEW a \in Accounts, Disconnect(a) PROVE Attempt!Stop \/ Attempt!End
  <2> DEFINE S == {k \in Running : Account[k] = a}
  <2>1. /\ S \in SUBSET Running /\ UNCHANGED <<lease, issued>>
        /\ \A k \in S : status'[k] = "paused"
        /\ \A k \in Jobs \ S : status'[k] = status[k] \/ lease[k] = 0
    BY <1>8 DEF Disconnect, Active, Running, In, LeaseDiscipline
  <2> HIDE DEF S
  <2> QED BY <1>0, <2>1, RowsStop
<1>9. ASSUME NEW j \in Jobs, NEW word, Requeue(j, word), UNCHANGED issued PROVE Same \/ Attempt!End
  <2>1. lease' = [lease EXCEPT ![j] = 0] /\ \A k \in Jobs \ {j} : status'[k] = status[k]
    BY <1>9 DEF Requeue, TypeOK
  <2> QED BY <1>0, <1>9, <2>1, RowReleased
<1>10. ASSUME NEW j \in Jobs, Resume(j) \/ Retry(j) PROVE Same \/ Attempt!End
  BY <1>9, <1>10 DEF Resume, Retry
<1>11. ASSUME NEW r \in editReads, VisualEdit(r) PROVE Same \/ Attempt!End
  <2>1. r.job \in Jobs
    BY DEF EditReads, TypeOK
  <2> QED BY <1>1, <1>9, <1>11, <2>1 DEF VisualEdit
<1>12. ASSUME NEW j \in Jobs,
              \/ Silence(j) \/ BeginResume(j) \/ PostRevision(j) \/ ClearDeliveryPending(j)
              \/ NativeFinish(j) \/ NativeFail(j)
              \/ \E live \in BOOLEAN : NativeSave(j, live)
              \/ \E id \in EditIds : BeginVisualEdit(j, id)
              \/ \E l \in Leases :
                   \/ Renew(j, l) \/ DeliveryReady(j, l) \/ DeliveryReset(j, l) \/ Applied(j, l)
                   \/ SaveDraft(j, l)
                   \/ \E resumable \in BOOLEAN, phase \in {"paused", "other"} :
                         Checkpoint(j, l, resumable, phase)
       PROVE  UNCHANGED <<status, lease, issued>>
  BY <1>12 DEF Silence, BeginResume, PostRevision, ClearDeliveryPending, NativeFinish,
               NativeFail, NativeSave, BeginVisualEdit, Renew, DeliveryReady, DeliveryReset,
               Applied, SaveDraft, Checkpoint, row
<1>13. ASSUME NEW can \in Capabilities, ClaimNothing(can) PROVE UNCHANGED <<status, lease, issued>>
  BY <1>13 DEF ClaimNothing, row
<1>14. ASSUME UNCHANGED vars PROVE UNCHANGED <<status, lease, issued>>
  BY <1>14 DEF vars
<1> HIDE DEF Same
<1>15. Attempt!Next \/ Same
  BY <1>1, <1>2, <1>3, <1>4, <1>5, <1>6, <1>7, <1>8, <1>10, <1>11, <1>12, <1>13, <1>14
     DEF Next, Worker, User, Attempt!Next
<1> QED BY <1>15 DEF Same

\* The table implements Attempts: whatever requests and sweeps interleave, an attempt
\* is opened once and in order, and none works again that was stopped, has delivered
\* or was given up.
THEOREM TableImplementsAttempts == Spec => AttemptsSpec
<1>1. Init => Attempt!Init
  <2> SUFFICES ASSUME Init PROVE Phase = [l \in Leases |-> "unissued"]
    BY DEF Attempt!Init, Phase
  <2>1. \A l \in Leases : PhaseOf(l) = "unissued"
    BY DEF Init, PhaseOf, Leases
  <2> QED BY <2>1 DEF Phase
<1>2. TypeOK /\ TypeOK' /\ LeaseDiscipline /\ LeaseDiscipline' /\ [Next]_vars => [Attempt!Next]_Phase
  BY StepIsAttempts
<1> QED
  BY <1>1, <1>2, TypeInit, TypeStep, LeaseInit, LeaseStep, PTL DEF Spec, AttemptsSpec, Attempt!Spec, Phase
=============================================================================
