------------------------------ MODULE Attempts ------------------------------
(***************************************************************************)
(* What the task table promises to the workers: an attempt is opened once, *)
(* no more than Capacity of them are open, and an attempt that was stopped,*)
(* delivered or ended never works again.                                   *)
(***************************************************************************)
EXTENDS Naturals, FiniteSets

CONSTANTS Leases,   \* numbers that name the attempts, in the order they are handed out
          Capacity  \* attempts that may be open at once

VARIABLE phase

Phases == {"unissued", "open", "stopping", "delivered", "ended"}
InPhase(S) == {l \in Leases : phase[l] \in S}

Init == phase = [l \in Leases |-> "unissued"]

\* A new attempt takes the next name.
Open(l) ==
  /\ phase[l] = "unissued"
  /\ \A m \in Leases : m < l => phase[m] # "unissued"
  /\ Cardinality(InPhase({"open"})) < Capacity
  /\ phase' = [phase EXCEPT ![l] = "open"]

\* One request or one sweep may move several attempts of the same kind.
Move(S, to) == phase' = [l \in Leases |-> IF l \in S THEN to ELSE phase[l]]

Stop    == \E S \in SUBSET InPhase({"open"}) : Move(S, "stopping")
Deliver == \E l \in InPhase({"open"}) : Move({l}, "delivered")
End     == \E S \in SUBSET InPhase({"open", "stopping", "delivered"}) : Move(S, "ended")

Next == (\E l \in Leases : Open(l)) \/ Stop \/ Deliver \/ End

Spec == Init /\ [][Next]_phase
=============================================================================
