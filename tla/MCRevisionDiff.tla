--------------------------- MODULE MCRevisionDiff ---------------------------
(* All pairs of documents of up to MaxLen blocks, two paragraphs and a      *)
(* heading, and the pairs of one block more that have only the paragraphs.  *)
EXTENDS RevisionDiff, SequencesExt

CONSTANTS MaxLen

MCTypeOf == [e \in Elements |-> IF e = "title" THEN "heading" ELSE "paragraph"]
Paragraphs == {e \in Elements : MCTypeOf[e] = "paragraph"}
MCShort == SeqOf(Elements, MaxLen)
MCLong == SeqOf(Paragraphs, MaxLen + 1)
MCInputs == (MCShort \X MCShort) \union (MCLong \X MCLong)
=============================================================================
