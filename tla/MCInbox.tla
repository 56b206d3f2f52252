------------------------------ MODULE MCInbox ------------------------------
(* A reply notifies two users and mentions both: two batches for the same  *)
(* two counters with no row in common, so that their transactions can wait *)
(* for each other over rows (one batch delivered twice) and over counters  *)
(* (the two of them).  A third user is invited: the creation of the        *)
(* invitation notifies her (Create), later events upsert the card.         *)
EXTENDS Inbox

CONSTANTS ann, bob, eve, reply, mention, invitation

MCCards == {<<eve, invitation>>}
MCBatches == {{<<ann, reply>>, <<bob, reply>>}, {<<ann, mention>>, <<bob, mention>>}, MCCards}
=============================================================================
