------------------------------ MODULE MCOutbox ------------------------------
(* Two invitation events with the invitation projector, whose loop stops at a *)
(* failed mark, beside one comment event that two comment projectors race for.*)
EXTENDS Outbox

CONSTANTS c1, i1, i2, cw1, cw2, iw1

MCTopic == [e \in Events |-> IF e = c1 THEN "thread" ELSE "invitation"]
MCTopicsOf == [w \in Workers |-> IF w = iw1 THEN {"invitation"} ELSE {"thread"}]
MCFailFast == {iw1}
=============================================================================
