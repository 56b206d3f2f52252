---------------------------- MODULE UnreadLedger ----------------------------
(***************************************************************************)
(* What the notification tables promise their readers: every recipient of  *)
(* a delivery is notified or none is, a notification is delivered once and *)
(* stays read once read, and the unread count a reader sees is the number  *)
(* of unread notifications.                                                *)
(***************************************************************************)
EXTENDS Naturals, FiniteSets

CONSTANTS Users, Keys, Batches, Cards

VARIABLES
  row,    \* row[u, k]: notification k of user u
  count   \* count[u]: the unread count u is shown

\* The notifications of user u in state r that are unread.
Unread(r, u) == {k \in Keys : r[u, k] = "unread"}

Init ==
  /\ row = [p \in Users \X Keys |-> "absent"]
  /\ count = [u \in Users |-> 0]

Recount == count' = [u \in Users |-> Cardinality(Unread(row', u))]

Deliver(B) ==
  /\ row' = [p \in Users \X Keys |->
               IF p \in B /\ row[p] = "absent" THEN "unread" ELSE row[p]]
  /\ Recount

Read(u, S) ==
  /\ row' = [p \in Users \X Keys |->
               IF p[1] = u /\ p[2] \in S /\ row[p] = "unread" THEN "read" ELSE row[p]]
  /\ Recount

Next ==
  \/ \E B \in Batches : Deliver(B)
  \/ \E p \in Cards : Deliver({p})
  \/ \E u \in Users, S \in SUBSET Keys : Read(u, S)

Spec == Init /\ [][Next]_<<row, count>>
=============================================================================
