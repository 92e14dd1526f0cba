------------------------- MODULE SiteRecordsProofs -------------------------
(***************************************************************************)
(* Theorems about what the website records of a task, besides its queue:   *)
(* submissions with their staged files, and the progress downloads.        *)
(***************************************************************************)
EXTENDS Submission, Drafts, FiniteSetTheorems, TLAPS

(***************************************************************************)
(* Submissions                                                             *)
(***************************************************************************)

USE SubmissionAssumption DEF SubmissionAssumption, Keys

PostType == [step : Steps, key : Keys, files : SUBSET Uploads, funded : BOOLEAN,
             placed : SUBSET Uploads, answer : Replies, repeats : BOOLEAN, excused : BOOLEAN]
RowType  == [by : Posts, files : SUBSET Uploads, funded : BOOLEAN]

\* Before the copies, and once the INSERT may have been executed.
Early == {"unsent", "sent", "fresh", "prior", "resolved"}
Late  == {"doubt", "leaving", "ended"}

Under(p, key) == IF key \in JobKeys THEN p ELSE key
ObjectAt(p, key, f) == [under |-> Under(p, key), file |-> f]

\* What a request at x knows of the rows and has left among the objects.
PostOK(p, x, rows, places) ==
  LET row == rows[x.key] IN
  /\ x.placed \subseteq x.files
  /\ x.step \in Early => x.placed = {}
  /\ x.step = "unsent" => ~x.repeats
  /\ x.answer # "none" => x.step \in {"leaving", "ended"}
  /\ x.step = "prior" => row # NoRow
  /\ x.step = "leaving" => x.key \in JobKeys
  /\ x.step = "copying" => \A f \in x.placed : ObjectAt(p, x.key, f) \in places
  /\ row.by = p => x.step \in Late
  /\ x.repeats => row # NoRow /\ row.files = x.files /\ row.funded = x.funded /\ x.step \in {"sent", "ended"}
  /\ x.key \in JobKeys /\ x.step = "ended" /\ ~x.excused /\ row.by # p =>
       \A f \in Uploads : [under |-> p, file |-> f] \notin places
  /\ x.answer = "accepted" => row # NoRow
  /\ x.key \in JobKeys /\ x.answer \in {"refused", "failed"} => row.by # p
  /\ x.repeats => x.answer \in {"none", "accepted", "unsure"}

\* A row was inserted by a POST of its key, which is past it, and its files are there.
RowsOK(rows, P, places) ==
  \A k \in Keys : rows[k] # NoRow =>
    /\ P[rows[k].by].key = k /\ P[rows[k].by].step \in Late
    /\ \A f \in rows[k].files : ObjectAt(rows[k].by, k, f) \in places

\* What lies under the id of a task was put there by its POST, which has noted it.
ObjectsOK(places, P) ==
  \A o \in places : o.under \in Posts =>
    P[o.under].key \in JobKeys /\ o.file \in P[o.under].placed

Shapes ==
  /\ posts \in [Posts -> PostType] /\ admitted \in [Keys -> {NoRow} \cup RowType]
  /\ stored \subseteq Objects /\ staged \subseteq [under : Keys, file : Uploads] /\ connected \in BOOLEAN

\* The quota of tasks and that of messages.
Taken(keys, rows) == {k \in keys : rows[k] # NoRow}
WithinQuota(rows) ==
  /\ IsFiniteSet(Taken(JobKeys, rows)) /\ Cardinality(Taken(JobKeys, rows)) <= MaxJobs
  /\ IsFiniteSet(Taken(MessageKeys, rows)) /\ Cardinality(Taken(MessageKeys, rows)) <= MaxMessages

SubmissionInv ==
  /\ Shapes /\ WithinQuota(admitted)
  /\ RowsOK(admitted, posts, stored) /\ ObjectsOK(stored, posts)
  /\ \A p \in Posts : PostOK(p, posts[p], admitted, stored)

LEMMA UnsentTyped ==
  /\ Unsent \in PostType /\ Unsent.step = "unsent" /\ Unsent.files = {} /\ Unsent.placed = {}
  /\ Unsent.answer = "none" /\ Unsent.repeats = FALSE /\ Unsent.excused = FALSE
<1>1. (CHOOSE k \in Keys : TRUE) \in Keys
  OBVIOUS
<1> QED BY <1>1 DEF Unsent, PostType, Steps, Replies

LEMMA SubmissionStart == SubmissionInit => SubmissionInv
<1> SUFFICES ASSUME SubmissionInit PROVE SubmissionInv
  OBVIOUS
<1>1. Shapes
  BY UnsentTyped DEF SubmissionInit, Shapes
<1>2. WithinQuota(admitted)
  <2>1. Taken(JobKeys, admitted) = {} /\ Taken(MessageKeys, admitted) = {}
    BY DEF SubmissionInit, Taken
  <2> QED BY <2>1, FS_EmptySet DEF WithinQuota
<1>3. RowsOK(admitted, posts, stored) /\ ObjectsOK(stored, posts)
  BY DEF SubmissionInit, RowsOK, ObjectsOK
<1>4. ASSUME NEW p \in Posts PROVE PostOK(p, posts[p], admitted, stored)
  <2>1. posts[p] = Unsent /\ Unsent.key \in Keys /\ admitted[Unsent.key] = NoRow /\ NoRow.by # p
    BY UnsentTyped DEF SubmissionInit, PostType, NoRow
  <2> QED BY <2>1, UnsentTyped DEF PostOK, Late
<1> QED BY <1>1, <1>2, <1>3, <1>4 DEF SubmissionInv

\* A request x becomes y: it stays the same request, at another step, with another
\* answer, other noted places or another excuse.
Turned(x, y, s, a, fs, excuse) ==
  /\ y \in PostType
  /\ y.key = x.key /\ y.files = x.files /\ y.funded = x.funded /\ y.repeats = x.repeats
  /\ y.step = s /\ y.answer = a /\ y.placed = fs /\ y.excused = excuse

\* Of all requests only p does.
Becomes(P, R, p, s, a, fs, excuse) ==
  /\ R \in [Posts -> PostType] /\ (\A q \in Posts : q # p => R[q] = P[q])
  /\ Turned(P[p], R[p], s, a, fs, excuse)

LEMMA RecordUpdates ==
  ASSUME NEW x \in PostType
  PROVE  /\ \A s \in Steps : Turned(x, [x EXCEPT !.step = s], s, x.answer, x.placed, x.excused)
         /\ \A a \in Replies : Turned(x, [x EXCEPT !.answer = a], x.step, a, x.placed, x.excused)
         /\ \A fs \in SUBSET Uploads : Turned(x, [x EXCEPT !.placed = fs], x.step, x.answer, fs, x.excused)
         /\ Turned(x, [x EXCEPT !.excused = TRUE], x.step, x.answer, x.placed, TRUE)
<1>1. \A s \in Steps : Turned(x, [x EXCEPT !.step = s], s, x.answer, x.placed, x.excused)
  BY DEF PostType, Turned
<1>2. \A a \in Replies : Turned(x, [x EXCEPT !.answer = a], x.step, a, x.placed, x.excused)
  BY DEF PostType, Turned
<1>3. \A fs \in SUBSET Uploads : Turned(x, [x EXCEPT !.placed = fs], x.step, x.answer, fs, x.excused)
  BY DEF PostType, Turned
<1>4. Turned(x, [x EXCEPT !.excused = TRUE], x.step, x.answer, x.placed, TRUE)
  BY DEF PostType, Turned
<1> QED BY <1>1, <1>2, <1>3, <1>4

LEMMA OnePost ==
  ASSUME NEW P \in [Posts -> PostType], NEW p \in Posts, NEW y, NEW s, NEW a, NEW fs, NEW excuse,
         Turned(P[p], y, s, a, fs, excuse)
  PROVE  Becomes(P, [P EXCEPT ![p] = y], p, s, a, fs, excuse)
<1>1. y \in PostType
  BY DEF Turned
<1> QED BY <1>1 DEF Becomes

LEMMA PostUpdates ==
  ASSUME NEW P \in [Posts -> PostType], NEW p \in Posts
  PROVE  /\ \A s \in Steps : Becomes(P, [P EXCEPT ![p].step = s], p, s, P[p].answer, P[p].placed, P[p].excused)
         /\ \A a \in Replies : Becomes(P, [P EXCEPT ![p].answer = a], p, P[p].step, a, P[p].placed, P[p].excused)
         /\ \A fs \in SUBSET Uploads :
              Becomes(P, [P EXCEPT ![p].placed = fs], p, P[p].step, P[p].answer, fs, P[p].excused)
         /\ Becomes(P, [P EXCEPT ![p].excused = TRUE], p, P[p].step, P[p].answer, P[p].placed, TRUE)
<1>1. P[p] \in PostType
  OBVIOUS
<1> QED BY <1>1, RecordUpdates, OnePost

LEMMA Twice ==
  ASSUME NEW P, NEW Q, NEW R, NEW p \in Posts, NEW s, NEW a, NEW fs, NEW e, NEW s2, NEW a2, NEW fs2, NEW e2,
         Becomes(P, Q, p, s, a, fs, e), Becomes(Q, R, p, s2, a2, fs2, e2)
  PROVE  Becomes(P, R, p, s2, a2, fs2, e2)
BY DEF Becomes, Turned

\* The request p moves on to this step, answer, places and excuse.
Moves(p, s, a, fs, excuse) == Becomes(posts, posts', p, s, a, fs, excuse)

LEMMA GotoMoves ==
  ASSUME posts \in [Posts -> PostType], NEW p \in Posts, NEW s \in Steps, Goto(p, s)
  PROVE  Moves(p, s, posts[p].answer, posts[p].placed, posts[p].excused)
BY PostUpdates DEF Goto, Moves

LEMMA ReplyMoves ==
  ASSUME posts \in [Posts -> PostType], NEW p \in Posts, NEW s \in Steps, NEW a \in Replies, Reply(p, a, s)
  PROVE  Moves(p, s, a, posts[p].placed, posts[p].excused)
<1> DEFINE A == [posts EXCEPT ![p].answer = a]
           B == [A EXCEPT ![p].step = s]
<1>1. Becomes(posts, A, p, posts[p].step, a, posts[p].placed, posts[p].excused)
  BY PostUpdates
<1>2. posts' = B
  BY Zenon DEF Reply, A, B
<1> HIDE DEF A
<1>3. Becomes(A, B, p, s, A[p].answer, A[p].placed, A[p].excused)
  BY <1>1, PostUpdates DEF Becomes
<1>4. A[p].answer = a /\ A[p].placed = posts[p].placed /\ A[p].excused = posts[p].excused
  BY <1>1 DEF Becomes, Turned
<1> HIDE DEF B
<1> QED BY <1>1, <1>2, <1>3, <1>4, Twice DEF Moves

\* A copy, and one that raised.
LEMMA CopyMoves ==
  ASSUME posts \in [Posts -> PostType], NEW p \in Posts, NEW fs \in SUBSET Uploads
  PROVE  /\ posts' = [posts EXCEPT ![p].placed = fs] =>
              Moves(p, posts[p].step, posts[p].answer, fs, posts[p].excused)
         /\ posts' = [posts EXCEPT ![p].placed = fs, ![p].step = "doubt"] =>
              Moves(p, "doubt", posts[p].answer, fs, posts[p].excused)
<1>1. posts' = [posts EXCEPT ![p].placed = fs] => Moves(p, posts[p].step, posts[p].answer, fs, posts[p].excused)
  <2> DEFINE A == [posts EXCEPT ![p].placed = fs]
  <2>1. Becomes(posts, A, p, posts[p].step, posts[p].answer, fs, posts[p].excused)
    BY PostUpdates
  <2> QED BY <2>1 DEF Moves
<1>2. ASSUME posts' = [posts EXCEPT ![p].placed = fs, ![p].step = "doubt"]
      PROVE  Moves(p, "doubt", posts[p].answer, fs, posts[p].excused)
  <2> DEFINE A == [posts EXCEPT ![p].placed = fs]
             B == [A EXCEPT ![p].step = "doubt"]
  <2>1. Becomes(posts, A, p, posts[p].step, posts[p].answer, fs, posts[p].excused)
    BY PostUpdates
  <2>2. posts' = B
    BY <1>2, Zenon DEF A, B
  <2> HIDE DEF A
  <2>3. "doubt" \in Steps
    BY DEF Steps
  <2>4. Becomes(A, B, p, "doubt", A[p].answer, A[p].placed, A[p].excused)
    BY <2>1, <2>3, PostUpdates DEF Becomes
  <2>5. A[p].answer = posts[p].answer /\ A[p].placed = fs /\ A[p].excused = posts[p].excused
    BY <2>1 DEF Becomes, Turned
  <2> HIDE DEF B
  <2> QED BY <2>1, <2>2, <2>4, <2>5, Twice DEF Moves
<1> QED BY <1>1, <1>2

\* The end of a request that failed, or was cut off and has no answer.
LEMMA EndMoves ==
  ASSUME posts \in [Posts -> PostType], NEW p \in Posts
  PROVE  /\ posts' = [posts EXCEPT ![p].step = "ended", ![p].excused = TRUE] =>
              Moves(p, "ended", posts[p].answer, posts[p].placed, TRUE)
         /\ posts' = [posts EXCEPT ![p].step = "ended", ![p].answer = "none", ![p].excused = TRUE] =>
              Moves(p, "ended", "none", posts[p].placed, TRUE)
<1> DEFINE A == [posts EXCEPT ![p].step = "ended"]
           B == [A EXCEPT ![p].excused = TRUE]
           C == [A EXCEPT ![p].answer = "none"]
           D == [C EXCEPT ![p].excused = TRUE]
<1>1. "ended" \in Steps /\ "none" \in Replies
  BY DEF Steps, Replies
<1>2. Becomes(posts, A, p, "ended", posts[p].answer, posts[p].placed, posts[p].excused)
  BY <1>1, PostUpdates
<1>3. posts' = [posts EXCEPT ![p].step = "ended", ![p].excused = TRUE] => posts' = B
  BY Zenon DEF A, B
<1>4. posts' = [posts EXCEPT ![p].step = "ended", ![p].answer = "none", ![p].excused = TRUE] => posts' = D
  BY Zenon DEF A, C, D
<1> HIDE DEF A
<1>5. A \in [Posts -> PostType] /\ A[p].step = "ended" /\ A[p].answer = posts[p].answer /\ A[p].placed = posts[p].placed
  BY <1>2 DEF Becomes, Turned
<1>6. Becomes(A, B, p, "ended", posts[p].answer, posts[p].placed, TRUE)
  BY <1>5, PostUpdates
<1>7. Becomes(A, C, p, "ended", "none", posts[p].placed, A[p].excused)
  BY <1>1, <1>5, PostUpdates
<1> HIDE DEF B, C
<1>8. C \in [Posts -> PostType] /\ C[p].step = "ended" /\ C[p].answer = "none" /\ C[p].placed = posts[p].placed
  BY <1>7 DEF Becomes, Turned
<1>9. Becomes(C, D, p, "ended", "none", posts[p].placed, TRUE)
  BY <1>8, PostUpdates
<1> HIDE DEF D
<1>10. Becomes(posts, B, p, "ended", posts[p].answer, posts[p].placed, TRUE)
  BY <1>2, <1>6 DEF Becomes, Turned
<1>11. Becomes(posts, C, p, "ended", "none", posts[p].placed, A[p].excused)
  BY <1>2, <1>7, Twice
<1>12. Becomes(posts, D, p, "ended", "none", posts[p].placed, TRUE)
  BY <1>9, <1>11 DEF Becomes, Turned
<1> QED BY <1>3, <1>4, <1>10, <1>12 DEF Moves
-----------------------------------------------------------------------------
\* What a handler may do to the objects: put what p has noted, or a message's; and
\* of a task that was not inserted, take away its own.
Handles(p, fs) ==
  /\ stored' \subseteq Objects
  /\ \A o \in stored : o \notin stored' => o.under = p /\ IsJob(p) /\ admitted[posts[p].key].by # p
  /\ \A o \in stored' : o \notin stored =>
       \/ o.under = p /\ IsJob(p) /\ o.file \in fs
       \/ o.under \in MessageKeys

LEMMA PostTyped ==
  ASSUME SubmissionInv, NEW p \in Posts
  PROVE  /\ posts \in [Posts -> PostType] /\ posts[p] \in PostType /\ posts[p].key \in Keys
         /\ posts[p].files \subseteq Uploads /\ posts[p].placed \subseteq Uploads
         /\ posts[p].step \in Steps /\ posts[p].answer \in Replies
         /\ admitted[posts[p].key] \in {NoRow} \cup RowType
         /\ PostOK(p, posts[p], admitted, stored)
<1>1. posts \in [Posts -> PostType] /\ PostOK(p, posts[p], admitted, stored) /\ admitted \in [Keys -> {NoRow} \cup RowType]
  BY DEF SubmissionInv, Shapes
<1>2. posts[p] \in PostType
  BY <1>1
<1> QED BY <1>1, <1>2 DEF PostType

\* The other requests see no row go and none of their objects.
LEMMA OthersStay ==
  ASSUME SubmissionInv, NEW p \in Posts, NEW q \in Posts, q # p, NEW fs, Handles(p, fs), admitted' = admitted
  PROVE  PostOK(q, posts[q], admitted', stored')
<1>1. PostOK(q, posts[q], admitted, stored) /\ posts[q].key \in Keys /\ posts[q].placed \subseteq Uploads
  BY PostTyped
<1>2. ASSUME NEW f, ObjectAt(q, posts[q].key, f) \in stored PROVE ObjectAt(q, posts[q].key, f) \in stored'
  BY <1>1, <1>2 DEF Handles, ObjectAt, Under
<1>3. ASSUME NEW f, [under |-> q, file |-> f] \notin stored PROVE [under |-> q, file |-> f] \notin stored'
  BY <1>3 DEF Handles
<1> QED BY <1>1, <1>2, <1>3 DEF PostOK

LEMMA HandlerSteps ==
  ASSUME SubmissionInv, NEW p \in Posts, NEW s, NEW a, NEW fs, NEW excuse, Moves(p, s, a, fs, excuse),
         posts[p].step \in Late => s \in Late, posts[p].placed \subseteq fs, Handles(p, fs),
         UNCHANGED <<admitted, staged, connected>>,
         PostOK(p, posts'[p], admitted, stored')
  PROVE  SubmissionInv'
<1>1. /\ posts' \in [Posts -> PostType] /\ (\A q \in Posts : q # p => posts'[q] = posts[q])
      /\ posts'[p].key = posts[p].key /\ posts'[p].step = s /\ posts'[p].placed = fs
  BY DEF Moves, Becomes, Turned
<1>2. Shapes' /\ WithinQuota(admitted)'
  BY <1>1 DEF SubmissionInv, Shapes, Handles, WithinQuota
<1>3. RowsOK(admitted', posts', stored')
  <2> SUFFICES ASSUME NEW k \in Keys, admitted[k] # NoRow
               PROVE  /\ posts'[admitted[k].by].key = k /\ posts'[admitted[k].by].step \in Late
                      /\ \A f \in admitted[k].files : ObjectAt(admitted[k].by, k, f) \in stored'
    BY DEF RowsOK
  <2>1. /\ posts[admitted[k].by].key = k /\ posts[admitted[k].by].step \in Late
        /\ \A f \in admitted[k].files : ObjectAt(admitted[k].by, k, f) \in stored
    BY DEF SubmissionInv, RowsOK
  <2>2. admitted[k].by \in Posts
    BY DEF SubmissionInv, Shapes, RowType
  <2>3. posts'[admitted[k].by].key = k /\ posts'[admitted[k].by].step \in Late
    BY <1>1, <2>1, <2>2
  <2>4. ASSUME NEW f \in admitted[k].files PROVE ObjectAt(admitted[k].by, k, f) \in stored'
    BY <2>1, <2>2 DEF Handles, ObjectAt, Under, IsJob
  <2> QED BY <2>3, <2>4
<1>4. ObjectsOK(stored', posts')
  <2> SUFFICES ASSUME NEW o \in stored', o.under \in Posts
               PROVE  posts'[o.under].key \in JobKeys /\ o.file \in posts'[o.under].placed
    BY DEF ObjectsOK
  <2>1. CASE o \in stored
    <3>1. posts[o.under].key \in JobKeys /\ o.file \in posts[o.under].placed
      BY <2>1 DEF SubmissionInv, ObjectsOK
    <3> QED BY <1>1, <3>1
  <2>2. CASE o \notin stored
    BY <1>1, <2>2 DEF Handles, IsJob
  <2> QED BY <2>1, <2>2
<1>5. \A q \in Posts : PostOK(q, posts'[q], admitted', stored')
  BY <1>1, OthersStay
<1> QED BY <1>2, <1>3, <1>4, <1>5 DEF SubmissionInv
-----------------------------------------------------------------------------
\* Steps before the copies: nothing is placed, and no row is this request's.
LEMMA BeforeCopies ==
  ASSUME SubmissionInv, NEW p \in Posts, posts[p].step \notin Late, NEW fs
  PROVE  /\ posts[p].answer = "none" /\ admitted[posts[p].key].by # p
         /\ Handles(p, fs) \/ stored' # stored
         /\ posts[p].step \in Early =>
              posts[p].placed = {} /\ \A f \in Uploads : IsJob(p) => [under |-> p, file |-> f] \notin stored
<1>1. PostOK(p, posts[p], admitted, stored) /\ ObjectsOK(stored, posts) /\ stored \subseteq Objects
  BY PostTyped DEF SubmissionInv, Shapes
<1>2. posts[p].answer = "none" /\ admitted[posts[p].key].by # p
  BY <1>1 DEF PostOK, Late
<1>3. Handles(p, fs) \/ stored' # stored
  BY <1>1 DEF Handles
<1>4. ASSUME posts[p].step \in Early
      PROVE  posts[p].placed = {} /\ \A f \in Uploads : IsJob(p) => [under |-> p, file |-> f] \notin stored
  BY <1>1, <1>4 DEF PostOK, ObjectsOK
<1> QED BY <1>2, <1>3, <1>4

LEMMA LookUpSteps ==
  ASSUME SubmissionInv, NEW p \in Posts, LookUp(p)
  PROVE  SubmissionInv'
<1>0. /\ PostOK(p, posts[p], admitted, stored) /\ posts \in [Posts -> PostType]
      /\ posts[p].key \in Keys /\ posts[p].step = "sent" /\ stored' = stored
      /\ UNCHANGED <<admitted, staged, connected>>
  BY PostTyped DEF LookUp
<1>1. /\ posts[p].answer = "none" /\ admitted[posts[p].key].by # p /\ Handles(p, posts[p].placed) /\ posts[p].placed = {}
      /\ \A f \in Uploads : IsJob(p) => [under |-> p, file |-> f] \notin stored
  BY <1>0, BeforeCopies DEF Early, Late
<1>2. {"fresh", "prior", "ended"} \subseteq Steps /\ {"accepted", "refused", "unsure"} \subseteq Replies
  BY DEF Steps, Replies
<1>3. CASE ~Exists(p) /\ Goto(p, "fresh")
  <2>1. Moves(p, "fresh", posts[p].answer, posts[p].placed, posts[p].excused)
    BY <1>0, <1>2, <1>3, GotoMoves
  <2>2. PostOK(p, posts'[p], admitted, stored')
    BY <1>0, <1>1, <1>3, <2>1 DEF Moves, Becomes, Turned, PostOK, Early, Late, Exists, Row
  <2> QED BY <1>0, <1>1, <2>1, <2>2, HandlerSteps DEF Late
<1>4. CASE Exists(p) /\ ~Confirmed(p) /\ Goto(p, "prior")
  <2>1. Moves(p, "prior", posts[p].answer, posts[p].placed, posts[p].excused)
    BY <1>0, <1>2, <1>4, GotoMoves
  <2>2. PostOK(p, posts'[p], admitted, stored')
    BY <1>0, <1>1, <1>4, <2>1 DEF Moves, Becomes, Turned, PostOK, Early, Late, Exists, Row, Confirmed
  <2> QED BY <1>0, <1>1, <2>1, <2>2, HandlerSteps DEF Late
<1>5. CASE Exists(p) /\ Confirmed(p) /\ Reply(p, IF Same(p) THEN "accepted" ELSE "refused", "ended")
  <2> DEFINE answer == IF Same(p) THEN "accepted" ELSE "refused"
  <2>1. Moves(p, "ended", answer, posts[p].placed, posts[p].excused)
    BY <1>0, <1>2, <1>5, ReplyMoves
  <2>2. posts[p].repeats => Same(p)
    BY <1>0, <1>5 DEF PostOK, Same, Row, IsJob, Confirmed
  <2>3. PostOK(p, posts'[p], admitted, stored')
    BY <1>0, <1>1, <1>5, <2>1, <2>2 DEF Moves, Becomes, Turned, PostOK, Early, Late, Exists, Row, IsJob
  <2> QED BY <1>0, <1>1, <2>1, <2>3, HandlerSteps DEF Late
<1>6. CASE Reply(p, "unsure", "ended")
  <2>1. Moves(p, "ended", "unsure", posts[p].placed, posts[p].excused)
    BY <1>0, <1>2, <1>6, ReplyMoves
  <2>2. PostOK(p, posts'[p], admitted, stored')
    BY <1>0, <1>1, <2>1 DEF Moves, Becomes, Turned, PostOK, Early, Late, IsJob
  <2> QED BY <1>0, <1>1, <2>1, <2>2, HandlerSteps DEF Late
<1> QED BY <1>3, <1>4, <1>5, <1>6 DEF LookUp

LEMMA ResolveSteps ==
  ASSUME SubmissionInv, NEW p \in Posts, Resolve(p)
  PROVE  SubmissionInv'
<1>0. /\ PostOK(p, posts[p], admitted, stored) /\ posts \in [Posts -> PostType]
      /\ posts[p].key \in Keys /\ posts[p].step \in {"fresh", "prior"} /\ stored' = stored
      /\ UNCHANGED <<admitted, staged, connected>>
  BY PostTyped DEF Resolve
<1>1. /\ posts[p].answer = "none" /\ admitted[posts[p].key].by # p /\ Handles(p, posts[p].placed) /\ posts[p].placed = {}
      /\ \A f \in Uploads : IsJob(p) => [under |-> p, file |-> f] \notin stored
  BY <1>0, BeforeCopies DEF Early, Late
<1>2. {"resolved", "ended"} \subseteq Steps /\ {"accepted", "refused"} \subseteq Replies
  BY DEF Steps, Replies
<1>3. \/ Reply(p, "refused", "ended") \/ Goto(p, "resolved")
      \/ posts[p].step = "prior" /\ Reply(p, "accepted", "ended")
  BY <1>0 DEF Resolve
<1>4. CASE Goto(p, "resolved")
  <2>1. Moves(p, "resolved", posts[p].answer, posts[p].placed, posts[p].excused)
    BY <1>0, <1>2, <1>4, GotoMoves
  <2>2. PostOK(p, posts'[p], admitted, stored')
    BY <1>0, <1>1, <2>1 DEF Moves, Becomes, Turned, PostOK, Early, Late
  <2> QED BY <1>0, <1>1, <2>1, <2>2, HandlerSteps DEF Late
<1>5. CASE Reply(p, "refused", "ended")
  <2>1. Moves(p, "ended", "refused", posts[p].placed, posts[p].excused)
    BY <1>0, <1>2, <1>5, ReplyMoves
  <2>2. PostOK(p, posts'[p], admitted, stored')
    BY <1>0, <1>1, <2>1 DEF Moves, Becomes, Turned, PostOK, Early, Late, IsJob
  <2> QED BY <1>0, <1>1, <2>1, <2>2, HandlerSteps DEF Late
<1>6. CASE posts[p].step = "prior" /\ Reply(p, "accepted", "ended")
  <2>1. Moves(p, "ended", "accepted", posts[p].placed, posts[p].excused)
    BY <1>0, <1>2, <1>6, ReplyMoves
  <2>2. PostOK(p, posts'[p], admitted, stored')
    BY <1>0, <1>1, <1>6, <2>1 DEF Moves, Becomes, Turned, PostOK, Early, Late, IsJob
  <2> QED BY <1>0, <1>1, <2>1, <2>2, HandlerSteps DEF Late
<1> QED BY <1>3, <1>4, <1>5, <1>6

LEMMA CountSteps ==
  ASSUME SubmissionInv, NEW p \in Posts, Count(p)
  PROVE  SubmissionInv'
<1>0. /\ PostOK(p, posts[p], admitted, stored) /\ posts \in [Posts -> PostType]
      /\ posts[p].key \in Keys /\ posts[p].step = "resolved" /\ stored' = stored
      /\ UNCHANGED <<admitted, staged, connected>>
  BY PostTyped DEF Count
<1>1. /\ posts[p].answer = "none" /\ admitted[posts[p].key].by # p /\ Handles(p, posts[p].placed) /\ posts[p].placed = {}
      /\ \A f \in Uploads : IsJob(p) => [under |-> p, file |-> f] \notin stored
  BY <1>0, BeforeCopies DEF Early, Late
<1>2. {"copying", "ended"} \subseteq Steps /\ "refused" \in Replies
  BY DEF Steps, Replies
<1>3. CASE Goto(p, "copying")
  <2>1. Moves(p, "copying", posts[p].answer, posts[p].placed, posts[p].excused)
    BY <1>0, <1>2, <1>3, GotoMoves
  <2>2. PostOK(p, posts'[p], admitted, stored')
    BY <1>0, <1>1, <2>1 DEF Moves, Becomes, Turned, PostOK, Early, Late
  <2> QED BY <1>0, <1>1, <2>1, <2>2, HandlerSteps DEF Late
<1>4. CASE Reply(p, "refused", "ended")
  <2>1. Moves(p, "ended", "refused", posts[p].placed, posts[p].excused)
    BY <1>0, <1>2, <1>4, ReplyMoves
  <2>2. PostOK(p, posts'[p], admitted, stored')
    BY <1>0, <1>1, <2>1 DEF Moves, Becomes, Turned, PostOK, Early, Late, IsJob
  <2> QED BY <1>0, <1>1, <2>1, <2>2, HandlerSteps DEF Late
<1> QED BY <1>3, <1>4 DEF Count

LEMMA CopySteps ==
  ASSUME SubmissionInv, NEW p \in Posts, NEW f \in Uploads, Copy(p, f)
  PROVE  SubmissionInv'
<1> DEFINE fs == posts[p].placed \cup {f}
<1>0. /\ PostOK(p, posts[p], admitted, stored) /\ posts \in [Posts -> PostType] /\ posts[p].placed \subseteq fs
      /\ posts[p].key \in Keys /\ posts[p].step = "copying" /\ UNCHANGED <<admitted, staged, connected>>
      /\ fs \in SUBSET Uploads /\ fs \subseteq posts[p].files
      /\ Noted(p, f) = fs /\ Place(p, f) = ObjectAt(p, posts[p].key, f) /\ f \in fs
  BY PostTyped DEF Copy, PostOK, Noted, Place, ObjectAt, Under, IsJob
<1>1. posts[p].answer = "none" /\ admitted[posts[p].key].by # p /\ ~posts[p].repeats
  BY <1>0 DEF PostOK, Late
<1>2. stored' \in {stored, stored \cup {Place(p, f)}}
  BY DEF Copy
<1>3. Handles(p, fs)
  <2>1. Place(p, f) \in Objects
    BY <1>0 DEF Objects, ObjectAt, Under
  <2>2. stored \subseteq Objects
    BY DEF SubmissionInv, Shapes
  <2> QED BY <1>0, <1>2, <2>1, <2>2 DEF Handles, ObjectAt, Under, IsJob
<1> HIDE DEF fs
<1>4. CASE stored' = stored \cup {Place(p, f)} /\ posts' = [posts EXCEPT ![p].placed = fs]
  <2>1. Moves(p, "copying", "none", fs, posts[p].excused)
    BY <1>0, <1>1, <1>4, CopyMoves
  <2>2. \A g \in fs : ObjectAt(p, posts[p].key, g) \in stored'
    BY <1>0, <1>4 DEF PostOK, fs
  <2>3. PostOK(p, posts'[p], admitted, stored')
    BY <1>0, <1>1, <2>1, <2>2 DEF Moves, Becomes, Turned, PostOK, Early, Late
  <2> QED BY <1>0, <1>3, <2>1, <2>3, HandlerSteps DEF Late
<1>5. CASE posts' = [posts EXCEPT ![p].placed = fs, ![p].step = "doubt"]
  <2>1. Moves(p, "doubt", "none", fs, posts[p].excused)
    BY <1>0, <1>1, <1>5, CopyMoves
  <2>2. PostOK(p, posts'[p], admitted, stored')
    BY <1>0, <1>1, <2>1 DEF Moves, Becomes, Turned, PostOK, Early, Late
  <2> QED BY <1>0, <1>3, <2>1, <2>2, HandlerSteps DEF Late
<1> QED BY <1>0, <1>4, <1>5 DEF Copy

\* The row of p is there: its quota was not used up, and nobody's row changes.
LEMMA QuotaKept ==
  ASSUME SubmissionInv, NEW p \in Posts, Admits(p)
  PROVE  WithinQuota(Entered(p))
<1> DEFINE key == posts[p].key
           rows == Entered(p)
<1>1. key \in Keys /\ admitted \in [Keys -> {NoRow} \cup RowType] /\ admitted[key] = NoRow
  BY PostTyped DEF SubmissionInv, Shapes, Admits, Exists, Row
<1>2. rows[key] # NoRow /\ \A k \in Keys : k # key => rows[k] = admitted[k]
  BY <1>1 DEF Entered, NoRow
<1>3. /\ IsFiniteSet(Taken(JobKeys, admitted)) /\ Cardinality(Taken(JobKeys, admitted)) <= MaxJobs
      /\ IsFiniteSet(Taken(MessageKeys, admitted)) /\ Cardinality(Taken(MessageKeys, admitted)) <= MaxMessages
  BY DEF SubmissionInv, WithinQuota
<1>4. /\ key \in JobKeys => Cardinality(Taken(JobKeys, admitted)) < MaxJobs
      /\ key \in MessageKeys => Cardinality(Taken(MessageKeys, admitted)) < MaxMessages
  BY DEF Admits, HasPlace, IsJob, Taken
<1> HIDE DEF rows
<1>5. CASE key \in JobKeys
  <2>1. Taken(JobKeys, rows) = Taken(JobKeys, admitted) \cup {key} /\ key \notin Taken(JobKeys, admitted)
    BY <1>1, <1>2, <1>5 DEF Taken
  <2>2. Taken(MessageKeys, rows) = Taken(MessageKeys, admitted)
    BY <1>1, <1>2, <1>5 DEF Taken
  <2>3. Cardinality(Taken(JobKeys, admitted)) \in Nat
    BY <1>3, FS_CardinalityType
  <2>4. IsFiniteSet(Taken(JobKeys, rows)) /\ Cardinality(Taken(JobKeys, rows)) = Cardinality(Taken(JobKeys, admitted)) + 1
    BY <1>3, <2>1, FS_AddElement
  <2>5. Cardinality(Taken(JobKeys, rows)) <= MaxJobs
    BY <1>4, <1>5, <2>3, <2>4
  <2>6. WithinQuota(rows)
    BY <1>3, <2>2, <2>4, <2>5 DEF WithinQuota
  <2> QED BY <2>6 DEF rows
<1>6. CASE key \in MessageKeys
  <2>1. Taken(MessageKeys, rows) = Taken(MessageKeys, admitted) \cup {key} /\ key \notin Taken(MessageKeys, admitted)
    BY <1>1, <1>2, <1>6 DEF Taken
  <2>2. Taken(JobKeys, rows) = Taken(JobKeys, admitted)
    BY <1>1, <1>2, <1>6 DEF Taken
  <2>3. Cardinality(Taken(MessageKeys, admitted)) \in Nat
    BY <1>3, FS_CardinalityType
  <2>4. /\ IsFiniteSet(Taken(MessageKeys, rows))
        /\ Cardinality(Taken(MessageKeys, rows)) = Cardinality(Taken(MessageKeys, admitted)) + 1
    BY <1>3, <2>1, FS_AddElement
  <2>5. Cardinality(Taken(MessageKeys, rows)) <= MaxMessages
    BY <1>4, <1>6, <2>3, <2>4
  <2>6. WithinQuota(rows)
    BY <1>3, <2>2, <2>4, <2>5 DEF WithinQuota
  <2> QED BY <2>6 DEF rows
<1> QED BY <1>1, <1>5, <1>6

LEMMA EntrySteps ==
  ASSUME SubmissionInv, NEW p \in Posts, Admits(p), admitted' = Entered(p),
         posts[p].step = "copying", posts[p].placed = posts[p].files,
         NEW s \in {"doubt", "ended"}, NEW a \in {"none", "accepted"}, s = "doubt" => a = "none",
         Moves(p, s, a, posts[p].placed, posts[p].excused), UNCHANGED <<stored, staged, connected>>
  PROVE  SubmissionInv'
<1> DEFINE key == posts[p].key
           row == [by |-> p, files |-> posts[p].files, funded |-> posts[p].funded]
<1>0. /\ PostOK(p, posts[p], admitted, stored) /\ key \in Keys /\ admitted \in [Keys -> {NoRow} \cup RowType]
      /\ admitted[key] = NoRow
  BY PostTyped DEF SubmissionInv, Shapes, Admits, Exists, Row
<1>1. row \in RowType /\ row.by = p /\ row.files = posts[p].files /\ row # NoRow
  <2>1. posts[p] \in PostType
    BY PostTyped
  <2>2. row.by = p /\ NoRow.by # p
    BY DEF NoRow
  <2>3. row \in RowType
    BY <2>1 DEF PostType, RowType
  <2> QED BY <2>2, <2>3
<1>2. /\ admitted' \in [Keys -> {NoRow} \cup RowType] /\ admitted'[key] = row
      /\ \A k \in Keys : k # key => admitted'[k] = admitted[k]
  BY <1>0, <1>1 DEF Entered
<1> HIDE DEF row
<1>3. /\ posts' \in [Posts -> PostType] /\ (\A q \in Posts : q # p => posts'[q] = posts[q])
      /\ posts'[p].key = key /\ posts'[p].step = s /\ posts'[p].placed = posts[p].placed
      /\ posts'[p].files = posts[p].files /\ posts'[p].answer = a /\ posts'[p].repeats = posts[p].repeats
  BY DEF Moves, Becomes, Turned
<1>4. Shapes' /\ WithinQuota(admitted')
  BY <1>2, <1>3, QuotaKept DEF SubmissionInv, Shapes
<1>5. RowsOK(admitted', posts', stored')
  <2>1. \A f \in row.files : ObjectAt(p, key, f) \in stored
    BY <1>0, <1>1 DEF PostOK
  <2>2. ASSUME NEW k \in Keys, k # key, admitted'[k] # NoRow
        PROVE  /\ posts'[admitted'[k].by].key = k /\ posts'[admitted'[k].by].step \in Late
               /\ \A f \in admitted'[k].files : ObjectAt(admitted'[k].by, k, f) \in stored'
    <3>1. /\ posts[admitted[k].by].key = k /\ posts[admitted[k].by].step \in Late
          /\ \A f \in admitted[k].files : ObjectAt(admitted[k].by, k, f) \in stored
      BY <1>2, <2>2 DEF SubmissionInv, RowsOK
    <3>2. admitted[k].by \in Posts
      BY <1>0, <1>2, <2>2 DEF RowType
    <3> QED BY <1>2, <1>3, <2>2, <3>1, <3>2
  <2>3. s \in Late
    BY DEF Late
  <2> QED BY <1>1, <1>2, <1>3, <2>1, <2>2, <2>3 DEF RowsOK
<1>6. ObjectsOK(stored', posts')
  BY <1>3 DEF SubmissionInv, ObjectsOK
<1>7. ASSUME NEW q \in Posts PROVE PostOK(q, posts'[q], admitted', stored')
  <2>1. CASE q = p
    BY <1>0, <1>1, <1>2, <1>3, <2>1 DEF PostOK, Early, Late
  <2>2. CASE q # p
    <3>1. PostOK(q, posts[q], admitted, stored) /\ posts[q].key \in Keys
      BY PostTyped
    <3>2. CASE posts[q].key # key
      BY <1>2, <1>3, <2>2, <3>1, <3>2 DEF PostOK
    <3>3. CASE posts[q].key = key
      <4>1. NoRow.by # q
        BY DEF NoRow
      <4> QED BY <1>0, <1>1, <1>2, <1>3, <2>2, <3>1, <3>3, <4>1 DEF PostOK
    <3> QED BY <3>2, <3>3
  <2> QED BY <2>1, <2>2
<1> QED BY <1>4, <1>5, <1>6, <1>7 DEF SubmissionInv

LEMMA InsertSteps ==
  ASSUME SubmissionInv, NEW p \in Posts, Insert(p)
  PROVE  SubmissionInv'
<1>0. /\ PostOK(p, posts[p], admitted, stored) /\ posts \in [Posts -> PostType]
      /\ posts[p].key \in Keys /\ posts[p].step = "copying" /\ posts[p].placed = posts[p].files
      /\ UNCHANGED <<stored, staged, connected>>
  BY PostTyped DEF Insert
<1>1. posts[p].answer = "none" /\ admitted[posts[p].key].by # p /\ ~posts[p].repeats /\ Handles(p, posts[p].placed)
  BY <1>0, BeforeCopies DEF PostOK, Late
<1>2. {"doubt", "repeated", "ended"} \subseteq Steps /\ "accepted" \in Replies
  BY DEF Steps, Replies
<1>3. CASE Admits(p) /\ admitted' = Entered(p) /\ Reply(p, "accepted", "ended")
  <2>1. Moves(p, "ended", "accepted", posts[p].placed, posts[p].excused)
    BY <1>0, <1>2, <1>3, ReplyMoves
  <2> QED BY <1>0, <1>3, <2>1, EntrySteps
<1>4. CASE Admits(p) /\ admitted' = Entered(p) /\ Goto(p, "doubt")
  <2>1. Moves(p, "doubt", "none", posts[p].placed, posts[p].excused)
    BY <1>0, <1>1, <1>2, <1>4, GotoMoves
  <2> QED BY <1>0, <1>4, <2>1, EntrySteps
<1>5. ASSUME NEW s \in {"repeated", "doubt"}, Goto(p, s), UNCHANGED admitted PROVE SubmissionInv'
  <2>1. Moves(p, s, "none", posts[p].placed, posts[p].excused)
    BY <1>0, <1>1, <1>2, <1>5, GotoMoves
  <2>2. PostOK(p, posts'[p], admitted, stored')
    BY <1>0, <1>1, <1>5, <2>1 DEF Moves, Becomes, Turned, PostOK, Early, Late
  <2> QED BY <1>0, <1>1, <1>5, <2>1, <2>2, HandlerSteps DEF Late
<1> QED BY <1>3, <1>4, <1>5 DEF Insert

LEMMA RepeatSteps ==
  ASSUME SubmissionInv, NEW p \in Posts, Repeat(p)
  PROVE  SubmissionInv'
<1> DEFINE answer == IF Exists(p) /\ Same(p) THEN "accepted" ELSE "refused"
<1>0. /\ PostOK(p, posts[p], admitted, stored) /\ posts \in [Posts -> PostType] /\ ObjectsOK(stored, posts)
      /\ posts[p].key \in Keys /\ posts[p].step = "repeated" /\ stored' = stored
      /\ UNCHANGED <<admitted, staged, connected>>
  BY PostTyped DEF Repeat, SubmissionInv
<1>1. posts[p].answer = "none" /\ admitted[posts[p].key].by # p /\ ~posts[p].repeats /\ Handles(p, posts[p].placed)
  BY <1>0, BeforeCopies DEF PostOK, Late
<1>2. {"doubt", "leaving", "ended"} \subseteq Steps /\ {"accepted", "refused"} \subseteq Replies
  BY DEF Steps, Replies
<1>3. CASE Goto(p, "doubt")
  <2>1. Moves(p, "doubt", "none", posts[p].placed, posts[p].excused)
    BY <1>0, <1>1, <1>2, <1>3, GotoMoves
  <2>2. PostOK(p, posts'[p], admitted, stored')
    BY <1>0, <1>1, <2>1 DEF Moves, Becomes, Turned, PostOK, Early, Late
  <2> QED BY <1>0, <1>1, <2>1, <2>2, HandlerSteps DEF Late
<1>4. CASE Reply(p, answer, Onward(p))
  <2>1. Onward(p) \in {"leaving", "ended"} /\ (Onward(p) = "leaving" => IsJob(p))
        /\ (Onward(p) = "ended" /\ IsJob(p) => posts[p].placed = {})
    BY DEF Onward
  <2>2. answer \in {"accepted", "refused"} /\ (answer = "accepted" => Exists(p))
    OBVIOUS
  <2> HIDE DEF answer
  <2>3. Moves(p, Onward(p), answer, posts[p].placed, posts[p].excused)
    BY <1>0, <1>2, <1>4, <2>1, <2>2, ReplyMoves
  <2>4. posts[p].placed = {} /\ IsJob(p) => \A f \in Uploads : [under |-> p, file |-> f] \notin stored
    BY <1>0 DEF ObjectsOK
  <2>5. PostOK(p, posts'[p], admitted, stored')
    BY <1>0, <1>1, <2>1, <2>2, <2>3, <2>4 DEF Moves, Becomes, Turned, PostOK, Early, Late, IsJob, Exists, Row
  <2> QED BY <1>0, <1>1, <2>1, <2>3, <2>5, HandlerSteps DEF Late
<1> QED BY <1>3, <1>4 DEF Repeat

LEMMA DoubtSteps ==
  ASSUME SubmissionInv, NEW p \in Posts, Doubt(p)
  PROVE  SubmissionInv'
<1>0. /\ PostOK(p, posts[p], admitted, stored) /\ posts \in [Posts -> PostType] /\ ObjectsOK(stored, posts)
      /\ posts[p].key \in Keys /\ posts[p].step = "doubt" /\ stored' = stored /\ stored \subseteq Objects
      /\ UNCHANGED <<admitted, staged, connected>>
  BY PostTyped DEF Doubt, SubmissionInv, Shapes
<1>1. posts[p].answer = "none" /\ ~posts[p].repeats /\ Handles(p, posts[p].placed)
  BY <1>0 DEF PostOK, Handles
<1>2. {"leaving", "ended"} \subseteq Steps /\ {"accepted", "refused", "failed", "unsure"} \subseteq Replies
  BY DEF Steps, Replies
<1>3. ASSUME NEW s \in {"leaving", "ended"}, NEW a \in {"accepted", "refused", "failed", "unsure"}, Reply(p, a, s),
             s = "leaving" => IsJob(p),
             s = "ended" /\ IsJob(p) /\ ~Mine(p) => posts[p].placed = {},
             a = "accepted" => Exists(p), IsJob(p) /\ a \in {"refused", "failed"} => ~Mine(p)
      PROVE  SubmissionInv'
  <2>1. Moves(p, s, a, posts[p].placed, posts[p].excused)
    BY <1>0, <1>2, <1>3, ReplyMoves
  <2>2. posts[p].placed = {} /\ IsJob(p) => \A f \in Uploads : [under |-> p, file |-> f] \notin stored
    BY <1>0 DEF ObjectsOK
  <2>3. PostOK(p, posts'[p], admitted, stored')
    BY <1>0, <1>1, <1>3, <2>1, <2>2 DEF Moves, Becomes, Turned, PostOK, Early, Late, IsJob, Exists, Row, Mine
  <2> QED BY <1>0, <1>1, <2>1, <2>3, HandlerSteps DEF Late
<1>4. /\ Onward(p) \in {"leaving", "ended"} /\ (Onward(p) = "leaving" => IsJob(p))
      /\ (Onward(p) = "ended" /\ IsJob(p) => posts[p].placed = {})
  BY DEF Onward
<1>5. Mine(p) => Exists(p)
  BY DEF Mine, Exists, Row, NoRow
<1>6. CASE Committed(p) /\ IF IsJob(p) THEN Reply(p, "accepted", "ended")
                           ELSE Reply(p, IF Same(p) THEN "accepted" ELSE "refused", "ended")
  <2>1. CASE IsJob(p)
    BY <1>3, <1>5, <1>6, <2>1 DEF Committed
  <2>2. CASE ~IsJob(p)
    BY <1>3, <1>6, <2>2 DEF Committed
  <2> QED BY <2>1, <2>2
<1>7. CASE ~Committed(p) /\ Reply(p, IF IsJob(p) THEN "failed" ELSE "unsure", Onward(p))
  <2>1. CASE IsJob(p)
    BY <1>3, <1>4, <1>7, <2>1 DEF Committed
  <2>2. CASE ~IsJob(p)
    BY <1>3, <1>4, <1>7, <2>2
  <2> QED BY <2>1, <2>2
<1>8. CASE Reply(p, "unsure", Onward(p))
  BY <1>3, <1>4, <1>8
<1> QED BY <1>6, <1>7, <1>8 DEF Doubt

LEMMA CleanUpSteps ==
  ASSUME SubmissionInv, NEW p \in Posts, CleanUp(p)
  PROVE  SubmissionInv'
<1>0. /\ PostOK(p, posts[p], admitted, stored) /\ posts \in [Posts -> PostType] /\ ObjectsOK(stored, posts)
      /\ posts[p].key \in Keys /\ posts[p].step = "leaving" /\ stored \subseteq Objects
      /\ UNCHANGED <<admitted, staged, connected>>
  BY PostTyped DEF CleanUp, SubmissionInv, Shapes
<1>1. IsJob(p) /\ ~posts[p].repeats /\ "ended" \in Steps /\ posts[p].key \in JobKeys
  BY <1>0 DEF PostOK, IsJob, Steps
<1>2. CASE MayDelete(p) /\ stored' = stored \ Places(p, posts[p].placed) /\ Goto(p, "ended")
  <2>1. Moves(p, "ended", posts[p].answer, posts[p].placed, posts[p].excused)
    BY <1>0, <1>1, <1>2, GotoMoves
  <2>2. Handles(p, posts[p].placed)
    BY <1>0, <1>1, <1>2 DEF Handles, Places, Place, MayDelete, Mine, Row
  <2>3. \A f \in Uploads : [under |-> p, file |-> f] \notin stored'
    <3> SUFFICES ASSUME NEW f \in Uploads, [under |-> p, file |-> f] \in stored PROVE f \in posts[p].placed
      BY <1>1, <1>2 DEF Places, Place
    <3> QED BY <1>0 DEF ObjectsOK
  <2>4. PostOK(p, posts'[p], admitted, stored')
    BY <1>0, <1>1, <2>1, <2>3 DEF Moves, Becomes, Turned, PostOK, Early, Late
  <2> QED BY <1>0, <2>1, <2>2, <2>4, HandlerSteps DEF Late
<1>3. CASE ~MayDelete(p) /\ Goto(p, "ended") /\ UNCHANGED stored
  <2>1. Moves(p, "ended", posts[p].answer, posts[p].placed, posts[p].excused)
    BY <1>0, <1>1, <1>3, GotoMoves
  <2>2. Handles(p, posts[p].placed)
    BY <1>0, <1>3 DEF Handles
  <2>3. PostOK(p, posts'[p], admitted, stored')
    BY <1>0, <1>1, <1>3, <2>1 DEF Moves, Becomes, Turned, PostOK, Early, Late, MayDelete, Mine, Row
  <2> QED BY <1>0, <2>1, <2>2, <2>3, HandlerSteps DEF Late
<1>4. CASE posts' = [posts EXCEPT ![p].step = "ended", ![p].excused = TRUE] /\ UNCHANGED stored
  <2>1. Moves(p, "ended", posts[p].answer, posts[p].placed, TRUE)
    BY <1>0, <1>4, EndMoves
  <2>2. Handles(p, posts[p].placed)
    BY <1>0, <1>4 DEF Handles
  <2>3. PostOK(p, posts'[p], admitted, stored')
    BY <1>0, <1>1, <1>4, <2>1 DEF Moves, Becomes, Turned, PostOK, Early, Late
  <2> QED BY <1>0, <2>1, <2>2, <2>3, HandlerSteps DEF Late
<1> QED BY <1>2, <1>3, <1>4 DEF CleanUp

LEMMA CutOffSteps ==
  ASSUME SubmissionInv, NEW p \in Posts, CutOff(p)
  PROVE  SubmissionInv'
<1>0. /\ PostOK(p, posts[p], admitted, stored) /\ posts \in [Posts -> PostType] /\ stored \subseteq Objects
      /\ stored' = stored /\ UNCHANGED <<admitted, staged, connected>>
      /\ posts' = [posts EXCEPT ![p].step = "ended", ![p].answer = "none", ![p].excused = TRUE]
  BY PostTyped DEF CutOff, SubmissionInv, Shapes
<1>1. Moves(p, "ended", "none", posts[p].placed, TRUE)
  BY <1>0, EndMoves
<1>2. Handles(p, posts[p].placed)
  BY <1>0 DEF Handles
<1>3. PostOK(p, posts'[p], admitted, stored')
  BY <1>0, <1>1 DEF Moves, Becomes, Turned, PostOK, Early, Late
<1> QED BY <1>0, <1>1, <1>2, <1>3, HandlerSteps DEF Late

\* A new request is on its way, or refused at once.
Handed(k, files, funded, again, s, a) ==
  [Unsent EXCEPT !.key = k, !.files = files, !.funded = funded, !.repeats = again, !.step = s, !.answer = a]
HandedRight(y, k, files, funded, again, s, a) ==
  /\ y \in PostType /\ y.key = k /\ y.files = files /\ y.funded = funded /\ y.repeats = again
  /\ y.step = s /\ y.answer = a /\ y.placed = {}

LEMMA HandTyped ==
  \A k \in Keys, files \in SUBSET Uploads, funded \in BOOLEAN, again \in BOOLEAN, s \in Steps, a \in Replies :
    HandedRight(Handed(k, files, funded, again, s, a), k, files, funded, again, s, a)
<1> TAKE k \in Keys, files \in SUBSET Uploads, funded \in BOOLEAN, again \in BOOLEAN, s \in Steps, a \in Replies
<1> DEFINE z == [step |-> s, key |-> k, files |-> files, funded |-> funded,
                 placed |-> {}, answer |-> a, repeats |-> again, excused |-> FALSE]
<1> SUFFICES ASSUME NEW y, y = Handed(k, files, funded, again, s, a)
             PROVE  HandedRight(y, k, files, funded, again, s, a)
  OBVIOUS
<1>1. y = z
  BY DEF Unsent, Handed
<1>2. z \in PostType
  BY DEF PostType
<1>3. z.step = s /\ z.key = k /\ z.files = files /\ z.placed = {} /\ z.answer = a
  OBVIOUS
<1>4. z.funded = funded
  BY Zenon
<1>5. z.repeats = again
  BY Zenon
<1> HIDE DEF z
<1> QED BY <1>1, <1>2, <1>3, <1>4, <1>5 DEF HandedRight

LEMMA HandSteps ==
  ASSUME SubmissionInv, NEW p \in Posts, NEW k \in Keys, NEW files \in SUBSET Uploads, NEW funded \in BOOLEAN,
         Hand(p, k, files, funded)
  PROVE  SubmissionInv'
<1> DEFINE again == /\ admitted[k] # NoRow /\ admitted[k].files = files
                    /\ admitted[k].funded = funded /\ (funded => connected)
           s == IF funded /\ ~connected THEN "ended" ELSE "sent"
           a == IF funded /\ ~connected THEN "refused" ELSE "none"
           y == Handed(k, files, funded, again, s, a)
<1>0. /\ PostOK(p, posts[p], admitted, stored) /\ posts \in [Posts -> PostType] /\ ObjectsOK(stored, posts)
      /\ admitted \in [Keys -> {NoRow} \cup RowType] /\ connected \in BOOLEAN
      /\ posts[p].step = "unsent" /\ UNCHANGED <<admitted, stored, staged, connected>>
  BY PostTyped DEF Hand, SubmissionInv, Shapes
<1>1. posts' = [posts EXCEPT ![p] = y]
  BY DEF Hand, Handed
<1>2. again \in BOOLEAN /\ s \in Steps /\ a \in Replies
  BY DEF Steps, Replies
<1>3. s \in {"sent", "ended"} /\ (s = "sent" => a = "none") /\ (s = "ended" => a = "refused" /\ ~again)
  OBVIOUS
<1>4. again => admitted[k] # NoRow /\ admitted[k].files = files /\ admitted[k].funded = funded
  OBVIOUS
<1> HIDE DEF again, s, a
<1>5. /\ y \in PostType /\ y.key = k /\ y.files = files /\ y.funded = funded /\ y.repeats = again
      /\ y.step = s /\ y.answer = a /\ y.placed = {}
  <2>1. HandedRight(y, k, files, funded, again, s, a)
    BY <1>2, HandTyped, Zenon
  <2> HIDE DEF y
  <2> QED BY <2>1, Zenon DEF HandedRight
<1> HIDE DEF y
<1>6. posts' \in [Posts -> PostType] /\ posts'[p] = y /\ \A q \in Posts : q # p => posts'[q] = posts[q]
  BY <1>0, <1>1, <1>5
<1>7. \A f : [under |-> p, file |-> f] \notin stored
  BY <1>0 DEF ObjectsOK, PostOK, Early
<1>8. \A j \in Keys : admitted[j] # NoRow => admitted[j].by # p
  BY <1>0 DEF SubmissionInv, RowsOK, Late
<1>9. admitted[k].by # p
  BY <1>8 DEF NoRow
<1>10. PostOK(p, posts'[p], admitted', stored')
  <2>1. PostOK(p, y, admitted, stored)
    BY <1>3, <1>4, <1>5, <1>7, <1>9 DEF PostOK, Early, Late
  <2> QED BY <1>0, <1>6, <2>1
<1>11. RowsOK(admitted', posts', stored')
  BY <1>0, <1>6, <1>8 DEF SubmissionInv, RowsOK, RowType
<1>12. ObjectsOK(stored', posts')
  <2> SUFFICES ASSUME NEW o \in stored, o.under \in Posts
               PROVE  posts'[o.under].key \in JobKeys /\ o.file \in posts'[o.under].placed
    BY <1>0 DEF ObjectsOK
  <2>1. posts[o.under].key \in JobKeys /\ o.file \in posts[o.under].placed
    BY <1>0 DEF ObjectsOK
  <2>2. o.under # p
    BY <1>0, <2>1 DEF PostOK, Early
  <2> QED BY <1>6, <2>1, <2>2
<1>13. \A q \in Posts : PostOK(q, posts'[q], admitted', stored')
  <2> SUFFICES ASSUME NEW q \in Posts, q # p PROVE PostOK(q, posts'[q], admitted', stored')
    BY <1>10
  <2>1. PostOK(q, posts[q], admitted, stored)
    BY PostTyped
  <2> QED BY <1>0, <1>6, <2>1
<1> QED BY <1>0, <1>6, <1>11, <1>12, <1>13 DEF SubmissionInv, Shapes, WithinQuota

LEMMA BrowserSteps ==
  ASSUME SubmissionInv,
         \/ \E k \in Keys : Discard(k) \/ \E f \in Uploads : Stage(k, f)
         \/ DisconnectAccount \/ UNCHANGED submissionVars
  PROVE  SubmissionInv'
<1>1. UNCHANGED <<posts, admitted, stored>>
  BY DEF Discard, Stage, DisconnectAccount, submissionVars
<1>2. staged' \subseteq [under : Keys, file : Uploads]
  <2>1. staged \subseteq [under : Keys, file : Uploads]
    BY DEF SubmissionInv, Shapes
  <2>2. ASSUME NEW k \in Keys, Discard(k) PROVE staged' \subseteq staged
    BY <2>2 DEF Discard
  <2>3. ASSUME NEW k \in Keys, NEW f \in Uploads, Stage(k, f)
        PROVE  staged' = staged \cup {[under |-> k, file |-> f]} /\ [under |-> k, file |-> f] \in [under : Keys, file : Uploads]
    BY <2>3 DEF Stage
  <2>4. DisconnectAccount \/ UNCHANGED submissionVars => staged' = staged
    BY DEF DisconnectAccount, submissionVars
  <2> QED BY <2>1, <2>2, <2>3, <2>4
<1>3. connected' \in BOOLEAN
  BY DEF Discard, Stage, DisconnectAccount, submissionVars, SubmissionInv, Shapes
<1> QED BY <1>1, <1>2, <1>3 DEF SubmissionInv, Shapes, WithinQuota, RowsOK, ObjectsOK

\* Requests, rows and objects stay together at every step.
THEOREM SubmissionHolds == SubmissionSpec => []SubmissionInv
<1>1. ASSUME SubmissionInv, [SubmissionNext]_submissionVars PROVE SubmissionInv'
  <2>1. CASE \/ \E k \in Keys : Discard(k) \/ \E f \in Uploads : Stage(k, f)
             \/ DisconnectAccount \/ UNCHANGED submissionVars
    BY <1>1, <2>1, BrowserSteps
  <2>2. ASSUME NEW p \in Posts, NEW k \in Keys, NEW files \in SUBSET Uploads, NEW funded \in BOOLEAN,
               Hand(p, k, files, funded) PROVE SubmissionInv'
    BY <1>1, <2>2, HandSteps
  <2>3. ASSUME NEW p \in Posts,
               LookUp(p) \/ Resolve(p) \/ Count(p) \/ Insert(p) \/ Repeat(p) \/ Doubt(p) \/ CleanUp(p) \/ CutOff(p)
        PROVE SubmissionInv'
    BY <1>1, <2>3, LookUpSteps, ResolveSteps, CountSteps, InsertSteps, RepeatSteps, DoubtSteps, CleanUpSteps, CutOffSteps
  <2>4. ASSUME NEW p \in Posts, NEW f \in Uploads, Copy(p, f) PROVE SubmissionInv'
    BY <1>1, <2>4, CopySteps
  <2> QED BY <1>1, <2>1, <2>2, <2>3, <2>4 DEF SubmissionNext
<1> QED BY SubmissionStart, <1>1, PTL DEF SubmissionSpec

\* What the variables of a submission hold, the two quotas included: two POSTs that
\* counted the same tasks do not both insert the last one (jobs/route.ts).
THEOREM SubmissionTyped == SubmissionSpec => []SubmissionTypeOK
<1>1. SubmissionInv => SubmissionTypeOK
  BY DEF SubmissionInv, Shapes, WithinQuota, Taken, PostType, RowType, SubmissionTypeOK
<1> QED BY SubmissionHolds, <1>1, PTL

\* Whatever answer of the database is lost and whatever is cleaned up after it
\* (jobs/route.ts, its catch and finally), the files that an accepted task or
\* message names are there, and a POST that ends without its task leaves none.
THEOREM FilesAlwaysFollowRows == SubmissionSpec => []FilesFollowRows
<1>1. SubmissionInv => AcceptedFilesExist
  BY DEF SubmissionInv, RowsOK, ObjectAt, Under, AcceptedFilesExist, HasFiles
<1>2. SubmissionInv => NothingLeftBehind
  <2> SUFFICES ASSUME SubmissionInv, NEW p \in Posts, NEW f \in Uploads,
                      IsJob(p) /\ posts[p].step = "ended" /\ ~posts[p].excused /\ ~Mine(p)
               PROVE  Place(p, f) \notin stored
    BY DEF NothingLeftBehind
  <2> QED BY PostTyped DEF PostOK, IsJob, Mine, Row, Place
<1> QED BY SubmissionHolds, <1>1, <1>2, PTL DEF FilesFollowRows

\* What the sender of a POST is told is so, and stays so.
THEOREM AnswersAreTrue == SubmissionSpec => []AnswersHold
<1>1. SubmissionInv => AnswersHold
  <2> SUFFICES ASSUME SubmissionInv, NEW p \in Posts
               PROVE  /\ posts[p].answer = "accepted" => Exists(p)
                      /\ IsJob(p) /\ posts[p].answer \in {"refused", "failed"} => ~Mine(p)
                      /\ posts[p].repeats => posts[p].answer \in {"none", "accepted", "unsure"}
    BY DEF AnswersHold
  <2> QED BY PostTyped DEF PostOK, IsJob, Mine, Row, Exists
<1> QED BY SubmissionHolds, <1>1, PTL

\* The rows are changed by INSERTs alone.
LEMMA RowsEntered ==
  ASSUME [SubmissionNext]_submissionVars
  PROVE  UNCHANGED admitted \/ \E p \in Posts : Admits(p) /\ admitted' = Entered(p)
<1>1. ASSUME NEW p \in Posts, Insert(p)
      PROVE  UNCHANGED admitted \/ (Admits(p) /\ admitted' = Entered(p))
  BY <1>1 DEF Insert
<1>2. ASSUME NEW p \in Posts,
             \/ LookUp(p) \/ Resolve(p) \/ Count(p) \/ Repeat(p) \/ Doubt(p) \/ CleanUp(p) \/ CutOff(p)
             \/ \E f \in Uploads : Copy(p, f)
             \/ \E k \in Keys, files \in SUBSET Uploads, funded \in BOOLEAN : Hand(p, k, files, funded)
      PROVE  UNCHANGED admitted
  BY <1>2 DEF LookUp, Resolve, Count, Repeat, Doubt, CleanUp, CutOff, Copy, Hand
<1>3. ASSUME \/ \E k \in Keys : Discard(k) \/ \E f \in Uploads : Stage(k, f)
             \/ DisconnectAccount \/ UNCHANGED submissionVars
      PROVE  UNCHANGED admitted
  BY <1>3 DEF Discard, Stage, DisconnectAccount, submissionVars
<1> QED BY <1>1, <1>2, <1>3 DEF SubmissionNext

\* The two modules count alike.
LEMMA SameCount == \A S : Admitting!Cardinality(S) = Cardinality(S)
BY DEF Admitting!Cardinality, Cardinality

\* A reader finds every row whole.
Read == [k \in Keys |-> AsRead(k)]
ReadIsRows == Read = admitted

LEMMA ReadsRows == SubmissionInv => ReadIsRows
<1> SUFFICES ASSUME SubmissionInv PROVE Read = admitted
  BY DEF ReadIsRows
<1>1. ASSUME NEW k \in Keys PROVE AsRead(k) = admitted[k]
  BY DEF SubmissionInv, RowsOK, ObjectAt, Under, AsRead, HasFiles, NoRow
<1>2. admitted \in [Keys -> {NoRow} \cup RowType]
  BY DEF SubmissionInv, Shapes
<1> QED BY <1>1, <1>2 DEF Read

LEMMA StepIsAdmission ==
  ASSUME SubmissionInv, SubmissionInv', [SubmissionNext]_submissionVars
  PROVE  [Admitting!Next]_Read
<1>0. ReadIsRows /\ ReadIsRows'
  BY ReadsRows, PTL
<1>1. Read = admitted /\ Read' = admitted'
  BY <1>0 DEF ReadIsRows
<1>2. CASE UNCHANGED admitted
  BY <1>1, <1>2
<1>3. ASSUME NEW p \in Posts, Admits(p), admitted' = Entered(p) PROVE Admitting!Next
  <2> DEFINE key == posts[p].key
  <2>1. /\ key \in Keys /\ posts[p].files \in SUBSET Uploads /\ posts[p].funded \in BOOLEAN
        /\ admitted[key] = NoRow
    BY <1>3, PostTyped DEF Admits, Exists, Row, PostType
  <2>2. Cardinality({j \in Admitting!Like(key) : admitted[j] # NoRow}) < Admitting!Limit(key)
    BY <1>3 DEF Admits, HasPlace, IsJob, Admitting!Like, Admitting!Limit
  <2>3. /\ admitted' = [admitted EXCEPT ![key] = [by |-> p, files |-> posts[p].files, funded |-> posts[p].funded]]
        /\ admitted'[key] = [by |-> p, files |-> posts[p].files, funded |-> posts[p].funded]
    BY <1>3, <2>1 DEF Entered, SubmissionInv, Shapes
  <2> HIDE DEF key
  <2>4. admitted'[key] \in Admitting!Acceptances
    BY <2>1, <2>3 DEF Admitting!Acceptances
  <2>5. Admitting!Admit(key)
    BY <1>1, <2>1, <2>2, <2>3, <2>4, SameCount DEF Admitting!Admit, Read
  <2> QED BY <2>1, <2>5 DEF Admitting!Next, Keys
<1> QED BY <1>2, <1>3, RowsEntered

\* Handing in is atomic: whatever is copied before the INSERT, repeated after it or
\* removed when a POST leaves, what a reader of the rows and objects finds appears at
\* once, whole and within the quota, and stays as it is (jobs/route.ts,
\* conversation/route.ts).
THEOREM SubmissionImplementsAdmission == SubmissionSpec => AdmissionSpec
<1>1. SubmissionInit /\ SubmissionInv => Admitting!Init
  BY ReadsRows DEF ReadIsRows, SubmissionInit, Admitting!Init, Read
<1>2. SubmissionInv /\ SubmissionInv' /\ [SubmissionNext]_submissionVars => [Admitting!Next]_Read
  BY StepIsAdmission
<1> QED BY SubmissionHolds, <1>1, <1>2, PTL DEF SubmissionSpec, AdmissionSpec, Admitting!Spec, Read

HIDE SubmissionAssumption DEF SubmissionAssumption, Keys
-----------------------------------------------------------------------------
(***************************************************************************)
(* Progress downloads                                                      *)
(***************************************************************************)

USE DraftAssumption DEF DraftAssumption

\* What synchronize is at, and what a request may be.
Looking  == [step : {"looking"}, lease : 1 .. MaxAttempt, label : [content : {"none"}, at : {0}, input : 0 .. MaxInput]]
Asking   == [step : OnTheWay \cup Answered, lease : 1 .. MaxAttempt, label : Labels]
\* Before the row names its bytes they are in the object store.
Kept(r)  == r.step \in {"stored", "inserted"} => r.label.content \in objects

Workspace ==
  /\ exports \subseteq Exports /\ captured \subseteq Exports
  /\ clock \in 0 .. MaxExports /\ newest \in 0 .. MaxExports /\ input \in 0 .. MaxInput
  /\ publisher \in 0 .. MaxAttempt /\ running \in 0 .. MaxAttempt /\ issues \in 0 .. MaxAttempt
  /\ fresh \in BOOLEAN /\ sent \subseteq CompleteDecks
Website ==
  /\ shown \subseteq CompleteDecks /\ objects \subseteq CompleteDecks
  /\ draft = NoDraft \/ (draft \in Labels /\ draft.content \in objects)
Requested ==
  /\ sending \in {NoSend} \cup Looking \cup Asking /\ Kept(sending)
  /\ \A r \in underway : r \in Asking /\ r.step \in OnTheWay /\ Kept(r)

DraftsInv == Workspace /\ Website /\ Requested

LEMMA Limits ==
  /\ MaxExports \in Nat /\ MaxInput \in Nat /\ MaxAttempt \in Nat /\ CompleteDecks \subseteq Decks
  /\ TRUE \in BOOLEAN /\ FALSE \in BOOLEAN
OBVIOUS

LEMMA DraftsStart == DraftsInit => DraftsInv
<1> SUFFICES ASSUME DraftsInit PROVE DraftsInv
  OBVIOUS
<1>1. Workspace
  <2>1. /\ exports = {} /\ captured = {} /\ clock = 0 /\ newest = 0 /\ input = 0
        /\ publisher = 0 /\ running = 0 /\ issues = 0 /\ sent = {}
    BY DEF DraftsInit
  <2>2. fresh \in BOOLEAN
    BY Zenon DEF DraftsInit
  <2> QED BY <2>1, <2>2, Limits DEF Workspace
<1>2. Website /\ Requested
  BY DEF DraftsInit, Website, Requested, Kept, NoSend
<1> QED BY <1>1, <1>2 DEF DraftsInv

\* The attempt, its checkpoints and its end.
LEMMA AttemptSteps ==
  ASSUME DraftsInv,
         \/ \E content \in Decks, over \in SUBSET exports : Export(content, over)
         \/ AcceptInput \/ Capture \/ Grant \/ Revoke \/ Resume \/ UNCHANGED draftVars
  PROVE  DraftsInv'
<1>1. UNCHANGED <<objects, draft, shown, sending, underway>>
  BY DEF Export, AcceptInput, Capture, Grant, Revoke, Resume, draftVars, website, lease, workspace
<1>2. Website' /\ Requested'
  BY <1>1 DEF DraftsInv, Website, Requested, Kept
<1>3. Workspace'
  <2>1. CASE \E content \in Decks, over \in SUBSET exports : Export(content, over)
    BY <2>1 DEF Export, DraftsInv, Workspace, Exports, lease
  <2>2. CASE AcceptInput \/ Capture
    <3>1. input' \in 0 .. MaxInput /\ captured' \subseteq Exports
      BY <2>2, Limits DEF AcceptInput, Capture, DraftsInv, Workspace
    <3>2. UNCHANGED <<exports, clock, newest, publisher, running, issues, fresh, sent>>
      BY <2>2 DEF AcceptInput, Capture, lease
    <3> QED BY <3>1, <3>2 DEF DraftsInv, Workspace
  <2>3. CASE Grant \/ Revoke
    <3>1. issues' \in 0 .. MaxAttempt /\ running' \in 0 .. MaxAttempt
      BY <2>3, Limits DEF Grant, Revoke, DraftsInv, Workspace
    <3>2. UNCHANGED <<exports, captured, clock, newest, input, publisher, sent>> /\ fresh' \in {TRUE, fresh}
      BY <2>3 DEF Grant, Revoke, workspace
    <3> QED BY <3>1, <3>2 DEF DraftsInv, Workspace
  <2>4. CASE Resume
    <3>1. /\ exports' \subseteq Exports /\ publisher' \in 0 .. MaxAttempt /\ sent' = {} /\ newest' \in 0 .. MaxExports
          /\ UNCHANGED <<captured, clock, input, running, issues>>
      BY <2>4, Limits DEF Resume, DraftsInv, Workspace
    <3>2. fresh' \in BOOLEAN
      BY <2>4, Zenon DEF Resume
    <3> QED BY <3>1, <3>2 DEF DraftsInv, Workspace
  <2>5. CASE UNCHANGED draftVars
    BY <2>5 DEF DraftsInv, Workspace, draftVars
  <2> QED BY <2>1, <2>2, <2>3, <2>4, <2>5
<1> QED BY <1>2, <1>3 DEF DraftsInv

LEMMA LeavesBehind ==
  ASSUME DraftsInv, LeftBehind(sending), objects' = objects
  PROVE  \A r \in underway' : r \in Asking /\ r.step \in OnTheWay /\ Kept(r)'
<1>1. ASSUME NEW r \in underway' PROVE r \in Asking /\ r.step \in OnTheWay /\ Kept(r)
  <2>1. CASE r \in underway
    BY <2>1 DEF DraftsInv, Requested
  <2>2. CASE r \notin underway
    <3>1. r = sending /\ r.step \in OnTheWay
      BY <2>2 DEF LeftBehind
    <3> QED BY <3>1 DEF DraftsInv, Requested, OnTheWay, Looking, NoSend
  <2> QED BY <2>1, <2>2
<1> QED BY <1>1 DEF Kept

LEMMA PublisherSteps ==
  ASSUME DraftsInv, Cease \/ Context \/ Look \/ Learn \/ Forget
  PROVE  DraftsInv'
<1>1. UNCHANGED <<exports, captured, clock, input, running, issues, fresh, objects, draft, shown>>
  BY DEF Cease, Context, Look, Learn, Forget, workspace, lease, website
<1>2. Website'
  BY <1>1 DEF DraftsInv, Website
<1>3. NoSend \in {NoSend} \cup Looking \cup Asking /\ Kept(NoSend)'
  BY DEF Kept, NoSend
<1>4. CASE Cease
  <2>1. Workspace'
    BY <1>1, <1>4 DEF Cease, DraftsInv, Workspace
  <2>2. Requested'
    BY <1>1, <1>3, <1>4, LeavesBehind DEF Cease, Requested
  <2> QED BY <1>2, <2>1, <2>2 DEF DraftsInv
<1>5. CASE Context
  <2>1. Workspace'
    BY <1>1, <1>5 DEF Context, DraftsInv, Workspace
  <2>2. sending' \in Looking /\ sending'.step = "looking"
    BY <1>5 DEF Context, DraftsInv, Workspace, Looking, NoDraft
  <2>3. Requested'
    BY <1>1, <1>5, <2>2 DEF Context, DraftsInv, Requested, Kept
  <2> QED BY <1>2, <2>1, <2>3 DEF DraftsInv
<1>6. CASE Look
  <2>1. UNCHANGED <<exports, captured, clock, newest, input, publisher, running, issues, fresh, sent>>
    BY <1>6 DEF Look, workspace, lease
  <2>6. Workspace'
    BY <2>1 DEF DraftsInv, Workspace
  <2>2. sending \in Looking
    <3>1. sending.step = "looking"
      BY <1>6 DEF Look
    <3>2. sending \notin Asking /\ sending # NoSend
      BY <3>1 DEF Asking, NoSend, OnTheWay, Answered
    <3> QED BY <3>2 DEF DraftsInv, Requested
  <2>3. ASSUME NEW e \in exports, ToSend(e),
               sending' = [sending EXCEPT !.step = "sent",
                             !.label = [content |-> e.content, at |-> e.at, input |-> sending.label.input]]
        PROVE  sending' \in Asking /\ sending'.step = "sent"
    <3>1. [content |-> e.content, at |-> e.at, input |-> sending.label.input] \in Labels
      BY <2>2, <2>3 DEF DraftsInv, Workspace, ToSend, NewestWhole, Whole, Labels, Exports, Looking
    <3> QED BY <2>2, <2>3, <3>1 DEF Looking, Asking, OnTheWay
  <2>4. sending' \in {NoSend} \cup Looking \cup Asking /\ Kept(sending)'
    BY <1>3, <1>6, <2>3 DEF Look, Kept
  <2>5. Requested'
    BY <1>1, <1>6, <2>4 DEF Look, DraftsInv, Requested, Kept
  <2> QED BY <1>2, <2>5, <2>6 DEF DraftsInv
<1>7. CASE Learn
  <2>1. sending \in Asking
    BY <1>7 DEF Learn, DraftsInv, Requested, Looking, NoSend, Answered
  <2>2. Workspace'
    BY <1>1, <1>7, <2>1 DEF Learn, DraftsInv, Workspace, SentAfter, Asking, Labels
  <2>3. Requested'
    BY <1>1, <1>3, <1>7 DEF Learn, DraftsInv, Requested, Kept
  <2> QED BY <1>2, <2>2, <2>3 DEF DraftsInv
<1>8. CASE Forget
  <2>1. Workspace'
    BY <1>1, <1>8 DEF Forget, DraftsInv, Workspace, SentAfter
  <2>2. Requested'
    BY <1>1, <1>3, <1>8, LeavesBehind DEF Forget, Requested
  <2> QED BY <1>2, <2>1, <2>2 DEF DraftsInv
<1> QED BY <1>4, <1>5, <1>6, <1>7, <1>8

\* The draft route takes a request one step on.
LEMMA Serves ==
  ASSUME DraftsInv, NEW r \in Asking, Kept(r), r.step \in OnTheWay, Serve(r)
  PROVE  /\ Website' /\ objects \subseteq objects'
         /\ Serving(r) \in Asking /\ Serving(r).label = r.label
         /\ Serving(r).step \in {"stored", "inserted"} => r.label.content \in objects'
<1>1. r.label \in Labels /\ r.label.content \in CompleteDecks
  BY DEF Asking, Labels
<1>2. objects \subseteq objects' /\ objects' \subseteq CompleteDecks /\ shown' \subseteq CompleteDecks
  BY <1>1 DEF Serve, DraftsInv, Website
<1>3. draft' = NoDraft \/ (draft' \in Labels /\ draft'.content \in objects')
  BY <1>1, <1>2 DEF Serve, DraftsInv, Website, Kept
<1> DEFINE next == CASE r.step = "sent"     -> IF Guard(r) THEN "guarded" ELSE "refused"
                     [] r.step = "guarded"  -> "stored"
                     [] r.step = "stored"   -> IF Guard(r) /\ Supersedes(r) THEN "ok" ELSE "inserted"
                     [] r.step = "inserted" -> IF Guard(r) THEN "ok" ELSE "refused"
<1>4. Serving(r) = [r EXCEPT !.step = next]
  BY DEF Serving
<1>5. next \in OnTheWay \cup Answered /\ (next \in {"stored", "inserted"} => r.step \in {"guarded", "stored"})
  BY DEF OnTheWay, Answered
<1> HIDE DEF next
<1>6. Serving(r) \in Asking /\ Serving(r).label = r.label /\ Serving(r).step = next
  BY <1>4, <1>5 DEF Asking
<1>7. r.step \in {"guarded", "stored"} => r.label.content \in objects'
  BY DEF Serve, Kept
<1> QED BY <1>2, <1>3, <1>5, <1>6, <1>7 DEF Website

LEMMA RouteSteps ==
  ASSUME DraftsInv, (\E step \in OnTheWay : ServeSending(step)) \/ (\E r \in underway : ServeUnderway(r))
  PROVE  DraftsInv'
<1>1. UNCHANGED <<exports, captured, clock, input, publisher, sent, newest, running, issues, fresh>>
  BY DEF ServeSending, ServeUnderway, workspace, lease
<1>2. Workspace'
  BY <1>1 DEF DraftsInv, Workspace
<1>3. ASSUME NEW step \in OnTheWay, ServeSending(step) PROVE Website' /\ Requested'
  <2>1. sending \in Asking /\ Kept(sending) /\ sending.step \in OnTheWay /\ Serve(sending) /\ sending' = Serving(sending)
    BY <1>3 DEF ServeSending, DraftsInv, Requested, Looking, NoSend, OnTheWay
  <2>2. /\ Website' /\ objects \subseteq objects' /\ Serving(sending) \in Asking /\ Serving(sending).label = sending.label
        /\ Serving(sending).step \in {"stored", "inserted"} => sending.label.content \in objects'
    BY <2>1, Serves
  <2>3. Kept(sending)' /\ sending' \in Asking
    BY <2>1, <2>2 DEF Kept
  <2>4. \A r \in underway' : r \in Asking /\ r.step \in OnTheWay /\ Kept(r)'
    BY <1>3, <2>2 DEF ServeSending, DraftsInv, Requested, Kept
  <2> QED BY <2>2, <2>3, <2>4 DEF Requested
<1>4. ASSUME NEW r \in underway, ServeUnderway(r) PROVE Website' /\ Requested'
  <2>1. r \in Asking /\ Kept(r) /\ Serve(r) /\ sending' = sending
        /\ underway' = (underway \ {r}) \cup {s \in {Serving(r)} : s.step \in OnTheWay}
    BY <1>4 DEF ServeUnderway, DraftsInv, Requested
  <2>2. /\ r.step \in OnTheWay /\ Website' /\ objects \subseteq objects'
        /\ Serving(r) \in Asking /\ Serving(r).label = r.label
        /\ Serving(r).step \in {"stored", "inserted"} => r.label.content \in objects'
    <3>1. r.step \in OnTheWay
      BY <1>4 DEF DraftsInv, Requested
    <3> QED BY <2>1, <3>1, Serves
  <2>3. sending' \in {NoSend} \cup Looking \cup Asking /\ Kept(sending)'
    BY <2>1, <2>2 DEF DraftsInv, Requested, Kept
  <2>4. \A x \in underway' : x \in Asking /\ x.step \in OnTheWay /\ Kept(x)'
    <3> TAKE x \in underway'
    <3>1. CASE x \in underway
      BY <2>2, <3>1 DEF DraftsInv, Requested, Kept
    <3>2. CASE x = Serving(r) /\ x.step \in OnTheWay
      BY <2>2, <3>2 DEF Kept
    <3> QED BY <2>1, <3>1, <3>2
  <2> QED BY <2>2, <2>3, <2>4 DEF Requested
<1> QED BY <1>2, <1>3, <1>4 DEF DraftsInv

\* What the attempt, its requests and the website keep of a task's progress downloads.
THEOREM DraftsHold == DraftsSpec => []DraftsInv
<1>1. DraftsInv /\ [DraftsNext]_draftVars => DraftsInv'
  BY AttemptSteps, PublisherSteps, RouteSteps DEF DraftsNext
<1> QED BY DraftsStart, <1>1, PTL DEF DraftsSpec

\* What the variables of the progress downloads hold: the bytes that the row names
\* are in the object store, however requests and their answers are lost or late
\* (the draft route puts the object before it writes the row).
THEOREM DraftsTyped == DraftsSpec => []DraftsTypeOK
<1>1. DraftsInv => DraftsTypeOK
  BY DEF DraftsInv, Workspace, Website, Requested, Looking, Asking, NoSend, RequestShape, DraftsTypeOK
<1> QED BY DraftsHold, <1>1, PTL

\* The row of the progress download is only replaced by that of a later input
\* revision or, for the same one, of a later export: whatever requests arrive late.
THEOREM DraftsAdvance == DraftsSpec => DraftNeverRecedes
<1> DEFINE Advanced == draft # NoDraft /\ draft' # draft => Later(draft', draft)
<1>1. [DraftsNext]_draftVars => [Advanced]_draftVars
  <2> SUFFICES ASSUME DraftsNext PROVE Advanced
    OBVIOUS
  <2>1. ASSUME NEW r, Serve(r) PROVE Advanced
    BY <2>1 DEF Serve, Supersedes, Later
  <2>2. CASE draft' = draft
    BY <2>2
  <2>3. \/ draft' = draft
        \/ Serve(sending)
        \/ \E r \in underway : Serve(r)
    BY DEF DraftsNext, Export, AcceptInput, Capture, Grant, Revoke, Resume, Cease, Context, Look, Learn, Forget,
           ServeSending, ServeUnderway, website
  <2> QED BY <2>1, <2>2, <2>3
<1> QED BY <1>1, PTL DEF DraftsSpec, DraftNeverRecedes
=============================================================================
