-------------------------- MODULE MCReconciliation --------------------------
(* Three users, two of them members of the workspace and the third invited; *)
(* a thread of two messages, the second of which mentions the first author. *)
EXTENDS Reconciliation

CONSTANTS a, b, c, i1

MCInvitee == [i \in {i1} |-> c]
MCAuthor == <<a, b>>
MCMentions == <<{}, {a}>>

Empty == [k \in Keys |-> NoRow]

\* An earlier program told every member of every message, in other words, and
\* the invitation's row has been left with a member.
Fanout ==
  [k \in Keys |->
     IF k \in {<<a, "invitation", i1>>, <<a, "comment", 1>>, <<b, "comment", 2>>}
     THEN [says |-> 2, read |-> FALSE, touched |-> FALSE] ELSE NoRow]

MCDrift == {Empty, Fanout}
=============================================================================
