------------------------------ MODULE Mailbox ------------------------------
(***************************************************************************)
(* What the owner of a task may rely on when writing to it: the messages   *)
(* reach the model in the order in which they were written and none of     *)
(* them twice, and a receipt is shown only for a message that reached it.  *)
(***************************************************************************)
EXTENDS Naturals, Sequences

CONSTANT Letters   \* a set of naturals, in the order of writing

VARIABLES
  heard,      \* what the model was given, in order
  confirmed   \* letters whose arrival is on record

HeardNothingAbove(m) == \A i \in DOMAIN heard : heard[i] < m

Init == heard = <<>> /\ confirmed = {}

Hear(m) ==
  /\ HeardNothingAbove(m)
  /\ heard' = Append(heard, m)
  /\ UNCHANGED confirmed

Confirm(m) ==
  /\ \E i \in DOMAIN heard : heard[i] = m
  /\ confirmed' = confirmed \cup {m}
  /\ UNCHANGED heard

Next == \E m \in Letters : Hear(m) \/ Confirm(m)

Spec == Init /\ [][Next]_<<heard, confirmed>>
=============================================================================
