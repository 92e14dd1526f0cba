----------------------------- MODULE MCRecords -----------------------------
(***************************************************************************)
(* The durable records of a task: in the runner's state directory the      *)
(* journal, the usage receipts, the progress exports, the reviews and the  *)
(* prefetched materials; on the website tasks and messages as they are     *)
(* handed in with attachments.  They share no state; a behaviour is one of *)
(* them on its own, chosen at the start, so that one run explores each of  *)
(* them, not their product.  Of submissions a behaviour has the tasks or   *)
(* the messages: their keys, rows and files are never the same.            *)
(***************************************************************************)
EXTENDS Journal, Usage, Drafts, Reviews, Prefetch, Submission

CONSTANTS author, final, deck, c1, missing, former, later, a1, t1, d1, d2, broken,
          q1, q2, p1, p2, k1, m1, u1, u2

VARIABLE part

Records == {"journal", "usage", "drafts", "reviews", "prefetch", "tasks", "messages"}

SameContent == [f \in Uploads |-> "content"]

\* A part steps, and all the others stay as they are.
Only(name, others) == part = name /\ UNCHANGED <<part, others>>

KeysOf(name) == IF name = "tasks" THEN JobKeys ELSE MessageKeys
HandedInAs(name) ==
  /\ \A p \in Posts : posts[p].step # "unsent" => posts[p].key \in KeysOf(name)
  /\ \A s \in staged : s.under \in KeysOf(name)

RecordsInit ==
  /\ JournalInit /\ UsageInit /\ DraftsInit /\ ReviewsInit /\ PrefetchInit /\ SubmissionInit
  /\ part \in Records

RecordsNext ==
  \/ Only("journal", <<usageVars, draftVars, reviewVars, prefetchVars, submissionVars>>) /\ JournalNext
  \/ Only("usage", <<jvars, draftVars, reviewVars, prefetchVars, submissionVars>>) /\ UsageNext
  \/ Only("drafts", <<jvars, usageVars, reviewVars, prefetchVars, submissionVars>>) /\ DraftsNext
  \/ Only("reviews", <<jvars, usageVars, draftVars, prefetchVars, submissionVars>>) /\ ReviewsNext
  \/ Only("prefetch", <<jvars, usageVars, draftVars, reviewVars, submissionVars>>) /\ PrefetchNext
  \/ \E name \in {"tasks", "messages"} :
       /\ Only(name, <<jvars, usageVars, draftVars, reviewVars, prefetchVars>>)
       /\ SubmissionNext /\ HandedInAs(name)'

RecordsSpec ==
  RecordsInit /\ [][RecordsNext]_<<jvars, usageVars, draftVars, reviewVars, prefetchVars, submissionVars, part>>
=============================================================================
