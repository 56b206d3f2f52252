---------------------------- MODULE ThreadAnchor ----------------------------
(***************************************************************************)
(* Where in a document a thread is anchored                                *)
(* (evaluateThreadAnchor in internal/application/thread_service.go).       *)
(*                                                                         *)
(* A document is a sequence of blocks with an id and a text; nothing makes *)
(* the ids of a document distinct.  An anchor remembers the block it is    *)
(* at, that block's text when the thread was created, and perhaps a quote  *)
(* from it.                                                                *)
(***************************************************************************)
EXTENDS Naturals, Sequences

CONSTANTS
  Blocks,    \* block ids
  Texts,     \* block texts
  Blank,     \* those of them that are blank
  Quotes,    \* quotes, trimmed and not blank
  Contains,  \* <<text, quote>>: the quote occurs in the text
  NoQuote

ASSUME ThreadAnchorAssumption ==
  /\ Blank \subseteq Texts
  /\ NoQuote \notin Quotes
  /\ \A text \in Blank, quote \in Quotes : <<text, quote>> \notin Contains

Document == Seq([id : Blocks, text : Texts])

AnchorStates == {"active", "outdated", "missing"}

HasBlock(content, b) == \E i \in DOMAIN content : content[i].id = b

\* The first block of that id counts.
IsFirst(content, i, b) ==
  content[i].id = b /\ \A j \in DOMAIN content : content[j].id = b => i <= j

TextOf(content, b) == content[CHOOSE i \in DOMAIN content : IsFirst(content, i, b)].text

WithText(content, text) ==
  IF text \in Blank THEN {} ELSE {i \in DOMAIN content : content[i].text = text}

WithQuote(content, quote) ==
  IF quote = NoQuote THEN {} ELSE {i \in DOMAIN content : <<content[i].text, quote>> \in Contains}

Unique(S) == \E i \in S : S = {i}

IdOf(content, S) == content[CHOOSE i \in S : TRUE].id

\* The state and the block of anchor a in this document.
Evaluate(content, a) ==
  LET sameText == WithText(content, a.text)
      sameQuote == WithQuote(content, a.quote) IN
  CASE HasBlock(content, a.block) ->
         [anchor |-> IF TextOf(content, a.block) = a.text THEN "active" ELSE "outdated",
          block |-> a.block]
    [] ~HasBlock(content, a.block) /\ Unique(sameText) ->
         [anchor |-> "active", block |-> IdOf(content, sameText)]
    [] ~HasBlock(content, a.block) /\ ~Unique(sameText) /\ Unique(sameQuote) ->
         [anchor |-> "outdated", block |-> IdOf(content, sameQuote)]
    [] OTHER -> [anchor |-> "missing", block |-> a.block]

DistinctIds(content) ==
  \A i, j \in DOMAIN content : content[i].id = content[j].id => i = j

\* Anchor a is where this document says it is.
Settled(content, a) == Evaluate(content, a) = [anchor |-> a.anchor, block |-> a.block]
=============================================================================
