--------------------------- MODULE DeliveryQueue ---------------------------
(***************************************************************************)
(* What the outbox promises to the code that writes events and to the code *)
(* that projects them, with no worker, lease, retry or clock in sight:     *)
(* an event that was stored is settled exactly once, either as delivered,  *)
(* and then its work has been done at least once, or as abandoned.  The    *)
(* work of an event may be done several times, even after it is settled.   *)
(***************************************************************************)
CONSTANT Events

VARIABLES
  stage,    \* stage[e]: what the queue knows of event e
  handled   \* the events whose work has been done at least once

vars == <<stage, handled>>

Stages == {"absent", "open", "delivered", "abandoned"}

Init ==
  /\ stage = [e \in Events |-> "absent"]
  /\ handled = {}

Submit(S) ==
  /\ \A e \in S : stage[e] = "absent"
  /\ stage' = [e \in Events |-> IF e \in S THEN "open" ELSE stage[e]]
  /\ UNCHANGED handled

Perform(e) ==
  /\ stage[e] # "absent"
  /\ handled' = handled \union {e}
  /\ UNCHANGED stage

Deliver(e) ==
  /\ stage[e] = "open"
  /\ e \in handled
  /\ stage' = [stage EXCEPT ![e] = "delivered"]
  /\ UNCHANGED handled

Abandon(e) ==
  /\ stage[e] = "open"
  /\ stage' = [stage EXCEPT ![e] = "abandoned"]
  /\ UNCHANGED handled

Next ==
  \/ \E S \in SUBSET Events : Submit(S)
  \/ \E e \in Events : Perform(e) \/ Deliver(e) \/ Abandon(e)

SafeSpec == Init /\ [][Next]_vars

\* Every stored event is settled in the end.
Fairness == \A e \in Events : WF_vars(Deliver(e) \/ Abandon(e))

Spec == SafeSpec /\ Fairness
=============================================================================
