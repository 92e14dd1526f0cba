----------------------------- MODULE Admission -----------------------------
(***************************************************************************)
(* What handing in promises to whoever reads the rows and the objects:     *)
(* a task or message appears at once, whole and within its quota, and what *)
(* was accepted never changes, is never given to another sender and never  *)
(* loses a file.                                                           *)
(***************************************************************************)
EXTENDS Naturals, FiniteSets

CONSTANTS
  Tasks, Notes,        \* keys of tasks and of messages
  Senders, Files,
  MaxTasks, MaxNotes,  \* as many of either can be accepted
  Nothing              \* of a key under which nothing was accepted

VARIABLE accepted

Init == accepted = [k \in Tasks \cup Notes |-> Nothing]

Like(k)  == IF k \in Tasks THEN Tasks ELSE Notes
Limit(k) == IF k \in Tasks THEN MaxTasks ELSE MaxNotes

Acceptances == [by : Senders, files : SUBSET Files, funded : BOOLEAN]

Admit(k) ==
  /\ accepted[k] = Nothing
  /\ Cardinality({j \in Like(k) : accepted[j] # Nothing}) < Limit(k)
  /\ accepted'[k] \in Acceptances
  /\ accepted' = [accepted EXCEPT ![k] = accepted'[k]]

Next == \E k \in Tasks \cup Notes : Admit(k)

Spec == Init /\ [][Next]_accepted
=============================================================================
