---------------------------- MODULE MCTaskQueue ----------------------------
(***************************************************************************)
(* Small instances of TaskQueue.  A behaviour is of one scenario, chosen   *)
(* at the start, so that one run explores each and not their product:      *)
(*   "queue": three tasks share the queue, one slot and two workers;       *)
(*   "instructions": three tasks, one of which is edited by instruction;   *)
(*   "deck": one task over two attempts, with revisions, visual edits and  *)
(*      native saves racing its delivery.                                  *)
(***************************************************************************)
EXTENDS TaskQueue, TLC

CONSTANTS j1, j2, j3, alice, bob, k1, k2, acct, e1, e2, none

VARIABLE scenario

\* j1 and j2 belong to alice, j3 to bob.
MCOwner == [j \in Jobs |-> IF j = j3 THEN bob ELSE alice]
MCRequestKey == [j \in Jobs |-> IF j = j1 THEN k1 ELSE k2]
\* j1 needs the API backend, the others were admitted without a choice.
MCBackend == [j \in Jobs |-> IF j = j1 THEN "api" ELSE "none"]
MCAccount == [j \in Jobs |-> IF j = j1 THEN acct ELSE none]
\* A legacy worker without the API backend, and a current one.
LegacyWorker == [backends |-> {"codex"}, funding |-> FALSE]
FullWorker == [backends |-> {"api", "codex"}, funding |-> TRUE]
BothWorkers == {LegacyWorker, FullWorker}

\* What stays out of each scenario.
Sharing ==
  /\ \A j \in Jobs : ~unapplied[j] /\ edit[j] = NoEdit /\ "draft" \notin saved[j]
  /\ editReads = {} /\ revoked = {}
Instructing ==
  /\ \A j \in Jobs : ~silent[j] /\ edit[j] = NoEdit /\ "recovery" \notin saved[j]
  /\ \A r \in editReads : r.id = e1
  /\ In({"paused"}) = {} /\ reaped \subseteq {FullWorker} /\ clearing = {} /\ revoked = {}
Editing ==
  /\ Admitted \subseteq {j1} /\ reaped \subseteq {FullWorker}
  /\ Cardinality(editReads) <= 2

TasksInit == Init /\ scenario \in {"queue", "instructions", "deck"}
TasksNext ==
  /\ Next /\ UNCHANGED scenario
  /\ scenario = "queue" => Sharing'
  /\ scenario = "instructions" => Instructing'
  /\ scenario = "deck" => Editing'
TasksSpec == TasksInit /\ [][TasksNext]_<<vars, scenario>>
=============================================================================
