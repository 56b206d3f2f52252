----------------------------- MODULE MCThreads -----------------------------
(* One page and its threads on small sets, for the runs MCThreads.cfg and  *)
(* MCPagesTrash.cfg.                                                       *)
EXTENDS Threads, TLC

CONSTANTS b1, b2, b3, plan, idea, goal, t1, t2, ann, bob, call1, call2, trash1, trash2, trash3

Block(b, text) == [id |-> b, text |-> text]

\* The texts "plan" and "idea" both hold the word that may be quoted.
MCContains == {<<plan, goal>>, <<idea, goal>>}

MCEmpty == <<>>
MCOriginal == <<Block(b1, plan)>>
MCMoved == <<Block(b2, plan), Block(b3, idea)>>

\* From one document to the other an anchor moves with its text, follows its
\* quote, or is lost.
MCContents == {MCEmpty, MCOriginal, MCMoved}

\* Nothing tells calls apart, nor trash items.
MCCalls == {call1, call2}
MCSymmetry == Permutations(MCCalls) \union Permutations(TrashIds)
=============================================================================
