----------------------------- MODULE Submission ----------------------------
(***************************************************************************)
(* Handing in a task, or a message of a task, with attachments: the        *)
(* browser stages files, and a POST copies them to their final places      *)
(* before it inserts the row that names them (jobs/route.ts,               *)
(* conversation/route.ts, uploads/route.ts, staged-uploads.ts).            *)
(*                                                                         *)
(* The object store and the database fail on their own, and a POST may end *)
(* anywhere.  An answer of the database that is lost tells nothing of its  *)
(* statement, but a statement without an answer is not executed later.     *)
(* The texts of two POSTs of one message are the same here.                *)
(***************************************************************************)
EXTENDS Naturals, FiniteSets

CONSTANTS
  Posts,        \* requests; that of a task has its id
  JobKeys,      \* keys of submissions (jobs.request_key) ...
  MessageKeys,  \* ... and of messages (task_messages.id)
  Uploads,      \* ids of staged files
  Content,      \* their contents
  MaxJobs, MaxMessages  \* quota of tasks, messages of a task

Keys == JobKeys \cup MessageKeys

ASSUME SubmissionAssumption ==
  /\ JobKeys \cap MessageKeys = {} /\ Keys # {}
  /\ "none" \notin Posts /\ Posts \cap MessageKeys = {}
  /\ {MaxJobs, MaxMessages} \subseteq Nat /\ DOMAIN Content = Uploads

VARIABLES
  posts,      \* requests and where they are
  admitted,   \* the rows: of each key, who inserted it, with which files and funding
  stored,     \* objects at their final places
  staged,     \* objects under a key's scope
  connected   \* the model account that may pay is connected

submissionVars == <<posts, admitted, stored, staged, connected>>

NoRow == [by |-> "none", files |-> {}, funded |-> FALSE]
Unsent == [step |-> "unsent", key |-> CHOOSE k \in Keys : TRUE, files |-> {}, funded |-> FALSE,
           placed |-> {}, answer |-> "none", repeats |-> FALSE, excused |-> FALSE]

IsJob(p) == posts[p].key \in JobKeys
Row(p)   == admitted[posts[p].key]
Exists(p) == Row(p) # NoRow
Mine(p)  == Row(p).by = p

\* A task's files lie under its id, a message's under its key.
Place(p, f) == [under |-> IF IsJob(p) THEN p ELSE posts[p].key, file |-> f]
Places(p, files) == {Place(p, f) : f \in files}

ContentsOf(files) == {Content[f] : f \in files}

\* matches, for a task; repeated, for a message.
Same(p) == IF IsJob(p) THEN Row(p).funded = posts[p].funded
                       ELSE ContentsOf(Row(p).files) = ContentsOf(posts[p].files)

HasPlace(p) ==
  LET same == IF IsJob(p) THEN JobKeys ELSE MessageKeys
  IN  Cardinality({k \in same : admitted[k] # NoRow}) < (IF IsJob(p) THEN MaxJobs ELSE MaxMessages)

SubmissionInit ==
  /\ posts = [p \in Posts |-> Unsent] /\ admitted = [k \in Keys |-> NoRow]
  /\ stored = {} /\ staged = {} /\ connected = TRUE

Goto(p, step) == posts' = [posts EXCEPT ![p].step = step]
Reply(p, answer, step) == posts' = [posts EXCEPT ![p].answer = answer, ![p].step = step]
-----------------------------------------------------------------------------
(***************************************************************************)
(* The browser                                                             *)
(***************************************************************************)

Stage(k, f) ==
  /\ [under |-> k, file |-> f] \notin staged /\ staged' = staged \cup {[under |-> k, file |-> f]}
  /\ UNCHANGED <<posts, admitted, stored, connected>>

\* After an acknowledgement, or when a day is over.
Discard(k) ==
  /\ staged' = {s \in staged : s.under # k} /\ staged' # staged
  /\ UNCHANGED <<posts, admitted, stored, connected>>

DisconnectAccount ==
  /\ connected /\ connected' = FALSE
  /\ UNCHANGED <<posts, admitted, stored, staged>>

\* A POST, up to resolveFunding.
Hand(p, k, files, funded) ==
  /\ posts[p].step = "unsent" /\ (funded => k \in JobKeys)
  /\ posts' = [posts EXCEPT ![p] =
       [Unsent EXCEPT !.key = k, !.files = files, !.funded = funded,
          !.repeats = /\ admitted[k] # NoRow /\ admitted[k].files = files
                      /\ admitted[k].funded = funded /\ (funded => connected),
          !.step = IF funded /\ ~connected THEN "ended" ELSE "sent",
          !.answer = IF funded /\ ~connected THEN "refused" ELSE "none"]]
  /\ UNCHANGED <<admitted, stored, staged, connected>>

(***************************************************************************)
(* The handlers                                                            *)
(***************************************************************************)

\* Files of an acknowledged message may be gone when the POST is repeated.
ConfirmedNever(p) == FALSE
Confirmed(p) == IsJob(p) \/ Row(p).files = posts[p].files

LookUp(p) ==
  /\ posts[p].step = "sent"
  /\ \/ ~Exists(p) /\ Goto(p, "fresh")
     \/ Exists(p) /\ Confirmed(p) /\ Reply(p, IF Same(p) THEN "accepted" ELSE "refused", "ended")
     \/ Exists(p) /\ ~Confirmed(p) /\ Goto(p, "prior")
     \/ Reply(p, "unsure", "ended")                                  \* no database
  /\ UNCHANGED <<admitted, stored, staged, connected>>

\* resolveUploads; then the early answer to a repeated message.
Resolve(p) ==
  /\ posts[p].step \in {"fresh", "prior"}
  /\ LET found == \A f \in posts[p].files : [under |-> posts[p].key, file |-> f] \in staged IN
     CASE ~found -> Reply(p, "refused", "ended")
       [] found /\ posts[p].step = "fresh" -> Goto(p, "resolved")
       [] found /\ posts[p].step = "prior" -> Reply(p, IF Same(p) THEN "accepted" ELSE "refused", "ended")
  /\ UNCHANGED <<admitted, stored, staged, connected>>

\* The first count of a user's tasks.
Count(p) ==
  /\ posts[p].step = "resolved"
  /\ \/ IsJob(p) /\ ~HasPlace(p) /\ Reply(p, "refused", "ended")
     \/ (~IsJob(p) \/ HasPlace(p)) /\ Goto(p, "copying")
  /\ UNCHANGED <<admitted, stored, staged, connected>>

\* A place is noted before it is written, since a put that raises may have written.
NotedAtOnce(p, f) == posts[p].files
Noted(p, f) == posts[p].placed \cup {f}

Copy(p, f) ==
  /\ posts[p].step = "copying" /\ f \in posts[p].files \ posts[p].placed
  /\ \/ /\ [under |-> posts[p].key, file |-> f] \in staged
        /\ stored' = stored \cup {Place(p, f)}
        /\ posts' = [posts EXCEPT ![p].placed = Noted(p, f)]
     \/ /\ stored' \in {stored, stored \cup {Place(p, f)}}            \* raised
        /\ posts' = [posts EXCEPT ![p].placed = Noted(p, f), ![p].step = "doubt"]
  /\ UNCHANGED <<admitted, staged, connected>>

\* The INSERT, with that of the funding in one transaction.
Admits(p) == ~Exists(p) /\ HasPlace(p) /\ (posts[p].funded => connected)
Entered(p) == [admitted EXCEPT ![posts[p].key] =
                 [by |-> p, files |-> posts[p].files, funded |-> posts[p].funded]]

Insert(p) ==
  /\ posts[p].step = "copying" /\ posts[p].placed = posts[p].files
  /\ \/ /\ Admits(p) /\ admitted' = Entered(p)
        /\ Reply(p, "accepted", "ended") \/ Goto(p, "doubt")          \* its answer is lost
     \/ /\ ~Admits(p) /\ UNCHANGED admitted
        /\ Goto(p, "repeated") \/ Goto(p, "doubt")
     \/ UNCHANGED admitted /\ Goto(p, "doubt")                        \* not executed
  /\ UNCHANGED <<stored, staged, connected>>

Onward(p) == IF IsJob(p) /\ posts[p].placed # {} THEN "leaving" ELSE "ended"

\* No row came back: somebody else's, or no place.
Repeat(p) ==
  /\ posts[p].step = "repeated"
  /\ \/ Reply(p, IF Exists(p) /\ Same(p) THEN "accepted" ELSE "refused", Onward(p))
     \/ Goto(p, "doubt")
  /\ UNCHANGED <<admitted, stored, staged, connected>>

\* catch: the row with this id, or the message with this key.
Committed(p) == IF IsJob(p) THEN Mine(p) ELSE Exists(p)

Doubt(p) ==
  /\ posts[p].step = "doubt"
  /\ \/ /\ Committed(p)
        /\ IF IsJob(p) THEN Reply(p, "accepted", "ended")
           ELSE Reply(p, IF Same(p) THEN "accepted" ELSE "refused", "ended")
     \/ ~Committed(p) /\ Reply(p, IF IsJob(p) THEN "failed" ELSE "unsure", Onward(p))
     \/ Reply(p, "unsure", Onward(p))                                  \* no database
  /\ UNCHANGED <<admitted, stored, staged, connected>>

\* finally, of a task: its own objects go if its row does not exist.
MayDeleteUnasked(p) == TRUE
MayDelete(p) == ~Mine(p)

CleanUp(p) ==
  /\ posts[p].step = "leaving"
  /\ \/ /\ MayDelete(p) /\ stored' = stored \ Places(p, posts[p].placed) /\ Goto(p, "ended")
     \/ ~MayDelete(p) /\ Goto(p, "ended") /\ UNCHANGED stored
     \/ /\ posts' = [posts EXCEPT ![p].step = "ended", ![p].excused = TRUE]
        /\ UNCHANGED stored                                           \* a failure: all are kept
  /\ UNCHANGED <<admitted, staged, connected>>

\* The handler is cut off.
CutOff(p) ==
  /\ posts[p].step \notin {"unsent", "ended"}
  /\ posts' = [posts EXCEPT ![p].step = "ended", ![p].answer = "none", ![p].excused = TRUE]
  /\ UNCHANGED <<admitted, stored, staged, connected>>
-----------------------------------------------------------------------------
SubmissionNext ==
  \/ \E k \in Keys : Discard(k) \/ \E f \in Uploads : Stage(k, f)
  \/ DisconnectAccount
  \/ \E p \in Posts :
       \/ \E k \in Keys, files \in SUBSET Uploads, funded \in BOOLEAN : Hand(p, k, files, funded)
       \/ LookUp(p) \/ Resolve(p) \/ Count(p) \/ Insert(p) \/ Repeat(p) \/ Doubt(p) \/ CleanUp(p) \/ CutOff(p)
       \/ \E f \in Uploads : Copy(p, f)

SubmissionSpec == SubmissionInit /\ [][SubmissionNext]_submissionVars
-----------------------------------------------------------------------------
Steps   == {"unsent", "sent", "fresh", "prior", "resolved", "copying", "repeated", "doubt", "leaving", "ended"}
Replies == {"none", "accepted", "refused", "failed", "unsure"}
Objects == [under : Posts \cup MessageKeys, file : Uploads]

\* What each variable holds.
SubmissionTypeOK ==
  /\ posts \in [Posts -> [step : Steps, key : Keys, files : SUBSET Uploads, funded : BOOLEAN,
                          placed : SUBSET Uploads, answer : Replies, repeats : BOOLEAN, excused : BOOLEAN]]
  /\ admitted \in [Keys -> {NoRow} \cup [by : Posts, files : SUBSET Uploads, funded : BOOLEAN]]
  /\ stored \subseteq Objects /\ staged \subseteq [under : Keys, file : Uploads] /\ connected \in BOOLEAN
  /\ Cardinality({k \in JobKeys : admitted[k] # NoRow}) <= MaxJobs
  /\ Cardinality({k \in MessageKeys : admitted[k] # NoRow}) <= MaxMessages

\* "A lost DB response must not delete files from a successfully committed job"
\* (jobs/route.ts): the files that an accepted task or message names are there.
HasFiles(k) ==
  \A f \in admitted[k].files :
    [under |-> IF k \in JobKeys THEN admitted[k].by ELSE k, file |-> f] \in stored
AcceptedFilesExist == \A k \in Keys : admitted[k] # NoRow => HasFiles(k)

\* A POST of a task that ends, with the database there at its end, leaves no object
\* behind unless the task exists.
NothingLeftBehind ==
  \A p \in Posts :
    IsJob(p) /\ posts[p].step = "ended" /\ ~posts[p].excused /\ ~Mine(p) =>
      \A f \in Uploads : Place(p, f) \notin stored

\* Objects follow the rows, whatever answer is lost, raised or repeated and
\* whatever is cleaned up.
FilesFollowRows == AcceptedFilesExist /\ NothingLeftBehind

\* Handing in is atomic, for all the copies, repetitions and removals of files that it
\* takes: Submission implements Admission.  A row that lacks a file is one that no
\* sender has handed in.
AsRead(k) == IF HasFiles(k) THEN admitted[k] ELSE [admitted[k] EXCEPT !.by = "none"]
Admitting == INSTANCE Admission WITH
       Tasks <- JobKeys, Notes <- MessageKeys, Senders <- Posts, Files <- Uploads,
       MaxTasks <- MaxJobs, MaxNotes <- MaxMessages, Nothing <- NoRow,
       accepted <- [k \in Keys |-> AsRead(k)]
AdmissionSpec == Admitting!Spec

\* What the sender is told: an acceptance names a row that exists, a refusal or a
\* failure of a task no row of this POST, and a POST that repeats what is already
\* accepted is never refused, although its staged files may have been discarded
\* (unless the account that pays has been disconnected).
AnswersHold ==
  \A p \in Posts :
    /\ posts[p].answer = "accepted" => Exists(p)
    /\ IsJob(p) /\ posts[p].answer \in {"refused", "failed"} => ~Mine(p)
    /\ posts[p].repeats => posts[p].answer \in {"none", "accepted", "unsure"}
=============================================================================
