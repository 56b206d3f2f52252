--------------------------- MODULE ThreadsProofs ---------------------------
(***************************************************************************)
(* Proofs about Threads and the page under it, for any set of documents,   *)
(* threads and users and any number of calls that overlap: rows and their  *)
(* event history stay coherent, replies open, a page in the trash can be   *)
(* restored, and an undisturbed reevaluation settles every anchor.         *)
(***************************************************************************)
EXTENDS Threads, FiniteSetTheorems, WellFoundedInduction, TLAPS

LEMMA LeastOf ==
  ASSUME NEW S \in SUBSET Nat, S # {}
  PROVE  \E i \in S : \A j \in S : i <= j
  <1>1. PICK i \in S : \A j \in S : ~ (<<j, i>> \in OpToRel(<, Nat))
    BY NatLessThanWellFounded, WFMin
  <1>2. \A j \in S : ~ (j < i)
    BY <1>1 DEF OpToRel
  <1>. QED
    BY <1>2

LEMMA BlockTypes ==
  ASSUME NEW content \in Document, NEW i \in DOMAIN content
  PROVE  content[i].id \in Blocks /\ content[i].text \in Texts
  <1>1. PICK R : R = [id : Blocks, text : Texts]
    OBVIOUS
  <1>2. content \in Seq(R)
    BY <1>1 DEF Document
  <1>3. content[i] \in R
    BY <1>2
  <1>. QED
    BY <1>1, <1>3

LEMMA TextOfType ==
  ASSUME NEW content \in Document, NEW b, HasBlock(content, b)
  PROVE  TextOf(content, b) \in Texts
  <1>1. PICK S : S = {i \in DOMAIN content : content[i].id = b}
    OBVIOUS
  <1>2. S \in SUBSET Nat /\ S # {}
    BY <1>1 DEF Document, HasBlock
  <1>3. PICK i \in S : \A j \in S : i <= j
    BY <1>2, LeastOf
  <1>4. i \in DOMAIN content /\ IsFirst(content, i, b)
    BY <1>1, <1>3 DEF IsFirst
  <1>5. PICK k : k = CHOOSE j \in DOMAIN content : IsFirst(content, j, b)
    OBVIOUS
  <1>6. k \in DOMAIN content /\ TextOf(content, b) = content[k].text
    BY <1>4, <1>5 DEF TextOf
  <1>. QED
    BY <1>6, BlockTypes

\* What Evaluate looks at.
IsAnchor(a) == a.block \in Blocks /\ a.text \in Texts /\ a.quote \in Quotes \union {NoQuote}

LEMMA IdOfType ==
  ASSUME NEW content \in Document, NEW S \in SUBSET DOMAIN content, Unique(S)
  PROVE  IdOf(content, S) \in Blocks
  <1>1. PICK k : k = CHOOSE j \in S : TRUE
    OBVIOUS
  <1>2. k \in DOMAIN content /\ IdOf(content, S) = content[k].id
    BY <1>1 DEF IdOf, Unique
  <1>. QED
    BY <1>2, BlockTypes

LEMMA WithAreIndices ==
  ASSUME NEW content, NEW x
  PROVE  /\ WithText(content, x) \in SUBSET DOMAIN content
         /\ WithQuote(content, x) \in SUBSET DOMAIN content
  BY DEF WithText, WithQuote

LEMMA EvaluateType ==
  ASSUME NEW content \in Document, NEW a, IsAnchor(a)
  PROVE  /\ Evaluate(content, a).anchor \in AnchorStates
         /\ Evaluate(content, a).block \in Blocks
         /\ Evaluate(content, a) = [anchor |-> Evaluate(content, a).anchor,
                                    block |-> Evaluate(content, a).block]
  <1>1. CASE HasBlock(content, a.block)
    BY <1>1 DEF Evaluate, IsAnchor, AnchorStates
  <1>2. CASE ~HasBlock(content, a.block) /\ Unique(WithText(content, a.text))
    BY <1>2, IdOfType, WithAreIndices DEF Evaluate, AnchorStates
  <1>3. CASE /\ ~HasBlock(content, a.block) /\ ~Unique(WithText(content, a.text))
             /\ Unique(WithQuote(content, a.quote))
    BY <1>3, IdOfType, WithAreIndices DEF Evaluate, AnchorStates
  <1>4. CASE /\ ~HasBlock(content, a.block) /\ ~Unique(WithText(content, a.text))
             /\ ~Unique(WithQuote(content, a.quote))
    BY <1>4 DEF Evaluate, IsAnchor, AnchorStates
  <1>. QED
    BY <1>1, <1>2, <1>3, <1>4

\* An anchor that was put where the content says stays there.  This is where
\* it matters that the ids are distinct, that a text found by its quote is not
\* the text of the anchor, and that no blank text holds a quote.
LEMMA EvaluateSettles ==
  ASSUME NEW content \in Document, DistinctIds(content),
         NEW a, IsAnchor(a), NEW b, Moves(content, a, b)
  PROVE  Settled(content, b)
  <1>1. PICK place : place = Evaluate(content, a)
    OBVIOUS
  <1>2. /\ b.text = a.text /\ b.quote = a.quote
        /\ b.anchor = place.anchor /\ b.block = place.block
        /\ place = [anchor |-> b.anchor, block |-> b.block]
    BY <1>1 DEF Moves
  <1>3. ASSUME NEW i \in DOMAIN content
        PROVE  HasBlock(content, content[i].id) /\ TextOf(content, content[i].id) = content[i].text
    <2>1. \A j \in DOMAIN content : IsFirst(content, j, content[i].id) <=> j = i
      <3>1. \A j \in DOMAIN content : j \in Nat
        BY DEF Document
      <3>. QED
        BY <3>1 DEF DistinctIds, IsFirst
    <2>. QED
      BY <2>1 DEF HasBlock, TextOf
  <1>4. CASE b.block = a.block
    BY <1>1, <1>2, <1>4 DEF Evaluate, Settled
  <1>5. CASE ~HasBlock(content, a.block) /\ Unique(WithText(content, a.text))
    <2>1. PICK i \in DOMAIN content : WithText(content, a.text) = {i}
      BY <1>5, WithAreIndices DEF Unique
    <2>2. place = [anchor |-> "active", block |-> content[i].id]
      BY <1>1, <1>5, <2>1 DEF Evaluate, IdOf
    <2>3. content[i].text = a.text
      BY <2>1 DEF WithText
    <2>. QED
      BY <1>2, <1>3, <2>2, <2>3 DEF Evaluate, Settled
  <1>6. CASE /\ ~HasBlock(content, a.block) /\ ~Unique(WithText(content, a.text))
             /\ Unique(WithQuote(content, a.quote))
    <2>1. PICK i \in DOMAIN content : WithQuote(content, a.quote) = {i}
      BY <1>6, WithAreIndices DEF Unique
    <2>2. place = [anchor |-> "outdated", block |-> content[i].id]
      BY <1>1, <1>6, <2>1 DEF Evaluate, IdOf
    <2>3. a.quote \in Quotes /\ <<content[i].text, a.quote>> \in Contains
      BY <2>1 DEF WithQuote, IsAnchor
    <2>4. content[i].text # a.text
      <3> SUFFICES ASSUME content[i].text = a.text PROVE FALSE
        OBVIOUS
      <3>1. a.text \notin Blank
        BY <2>3, ThreadAnchorAssumption
      <3>2. i \in WithText(content, a.text)
        BY <3>1 DEF WithText
      <3>3. \A j \in WithText(content, a.text) : j \in WithQuote(content, a.quote)
        BY <2>3, <3>1, ThreadAnchorAssumption DEF WithText, WithQuote
      <3>4. WithText(content, a.text) = {i}
        BY <2>1, <3>2, <3>3
      <3>. QED
        BY <1>6, <3>4 DEF Unique
    <2>. QED
      BY <1>2, <1>3, <2>2, <2>4 DEF Evaluate, Settled
  <1>7. CASE /\ ~HasBlock(content, a.block) /\ ~Unique(WithText(content, a.text))
             /\ ~Unique(WithQuote(content, a.quote))
    BY <1>1, <1>2, <1>4, <1>7 DEF Evaluate
  <1>8. CASE HasBlock(content, a.block)
    BY <1>1, <1>2, <1>4, <1>8 DEF Evaluate
  <1>. QED
    BY <1>5, <1>6, <1>7, <1>8

-----------------------------------------------------------------------------
(* Steps that write no thread.                                             *)

CallRecords == PageCalls \union ThreadCalls \union {Idle}

LEMMA PageCallOK ==
  ASSUME NEW r \in PageCalls
  PROVE  CallOK(r)
  BY DEF PageCalls, ContentCalls, RestoreCalls, CallOK

\* The kinds of record tell themselves apart by their step and operation.
LEMMA CallKinds ==
  ASSUME NEW r \in CallRecords, r # Idle
  PROVE  /\ r.op = "create_thread" => r \in CreateCalls
         /\ r.op \in {"reply", "resolve", "reopen"} => r \in RowCalls
         /\ r.step = "update" => r \in AnchorCalls
         /\ r.step = "reevaluate" =>
              /\ r \in PageCalls
              /\ r.op \in {"update_draft", "restore_revision", "delete_page", "restore_page"}
         /\ r.step = "revise" => r \in ContentCalls
         /\ r.op \in {"update_draft", "restore_revision"} => r \in ContentCalls \union AnchorCalls
         /\ r.op = "restore_page" => r \in RestoreCalls \union AnchorCalls
  <1>1. r.op # "idle"
    BY DEF CallRecords, PageCalls, ContentCalls, RestoreCalls, ThreadCalls, CreateCalls,
           RowCalls, AnchorCalls, Idle
  <1>. QED
    BY <1>1 DEF CallRecords, PageCalls, ContentCalls, RestoreCalls, ThreadCalls, CreateCalls,
                RowCalls, AnchorCalls, Idle

LEMMA CallsTyped ==
  ASSUME TypeOK, NEW c \in Calls
  PROVE  call[c] \in CallRecords
  BY DEF TypeOK, CallRecords

\* While no thread is written it is enough that the page is in order and the
\* call's record is.
LEMMA QuietStep ==
  ASSUME IInv, NEW c \in Calls, NEW r \in CallRecords, r # Idle => CallOK(r),
         call' = [call EXCEPT ![c] = r], UNCHANGED threadTables, PagesTypeOK'
  PROVE  IInv'
  <1>1. call'[c] = r /\ \A d \in Calls \ {c} : call'[d] = call[d]
    BY DEF IInv, TypeOK
  <1>2. TypeOK'
    BY DEF IInv, TypeOK, CallRecords, threadTables
  <1>3. ResolvedBySomebody' /\ HistoryAccountsForRow'
    BY DEF IInv, ResolvedBySomebody, HistoryAccountsForRow, threadTables, Exists
  <1>4. CallsConsistent'
    <2> SUFFICES ASSUME NEW d \in Calls, call'[d] # Idle PROVE CallOK(call[d])'
      BY DEF CallsConsistent
    <2>1. PICK x : x = call'[d]
      OBVIOUS
    <2>2. CallOK(x)
      BY <1>1, <2>1 DEF IInv, CallsConsistent
    <2>3. CallOK(x)'
      BY <2>2 DEF CallOK, InHand, Exists, threadTables
    <2>. QED
      BY <2>1, <2>3
  <1>. QED
    BY <1>2, <1>3, <1>4 DEF IInv

LEMMA QuietPageStep ==
  ASSUME IInv, NEW c \in Calls, NEW r \in PageCalls \union {Idle},
         call' = [call EXCEPT ![c] = r], UNCHANGED threadTables, PagesTypeOK'
  PROVE  IInv'
  BY QuietStep, PageCallOK DEF CallRecords

LEMMA PagesTyped ==
  ASSUME IInv
  PROVE  UNCHANGED pageTables => PagesTypeOK'
  BY DEF IInv, TypeOK, PagesTypeOK, pageTables

LEMMA CreatePageIInv ==
  ASSUME IInv, CreatePage, UNCHANGED threadTables
  PROVE  IInv'
  <1>1. TypeOK'
    BY DEF IInv, TypeOK, PagesTypeOK, CreatePage, threadTables
  <1>2. ResolvedBySomebody' /\ HistoryAccountsForRow'
    BY DEF IInv, ResolvedBySomebody, HistoryAccountsForRow, threadTables, Exists
  <1>3. CallsConsistent'
    BY DEF IInv, CallsConsistent, CallOK, InHand, Exists, CreatePage, threadTables
  <1>. QED
    BY <1>1, <1>2, <1>3 DEF IInv

LEMMA SaveDraftIInv ==
  ASSUME IInv, NEW c \in Calls, NEW op \in {"update_draft", "restore_revision"},
         SaveDraft(c, op), UNCHANGED threadTables
  PROVE  IInv'
  <1>1. call[c] \in ContentCalls
    <2>1. call[c] \in CallRecords /\ call[c] # Idle
      BY CallsTyped DEF IInv, SaveDraft, At, Idle
    <2>. QED
      BY <2>1, CallKinds DEF SaveDraft, At, AnchorCalls
  <1>2. PICK r : r = [call[c] EXCEPT !.step = "reevaluate"]
    OBVIOUS
  <1>3. r \in PageCalls
    BY <1>1, <1>2 DEF SaveDraft, At, PageCalls, ContentCalls
  <1>4. call' = [call EXCEPT ![c] = r]
    BY <1>2 DEF SaveDraft, Proceed
  <1>5. PagesTypeOK'
    BY <1>1 DEF IInv, TypeOK, PagesTypeOK, SaveDraft, ContentCalls
  <1>. QED
    BY <1>3, <1>4, <1>5, QuietPageStep

LEMMA BeginOnPage ==
  ASSUME IInv, NEW c \in Calls, NEW r \in PageCalls, Begin(c, r),
         UNCHANGED threadTables, PagesTypeOK'
  PROVE  IInv'
  BY QuietPageStep DEF Begin

LEMMA ReturnIInv ==
  ASSUME IInv, NEW c \in Calls, Return(c), UNCHANGED threadTables, PagesTypeOK'
  PROVE  IInv'
  BY QuietPageStep DEF Return

LEMMA UpdateDraftIInv ==
  ASSUME IInv, NEW c \in Calls, UpdateDraft(c), UNCHANGED threadTables
  PROVE  IInv'
  <1>1. CASE SaveDraft(c, "update_draft")
    BY <1>1, SaveDraftIInv
  <1>2. ASSUME NEW content \in Contents, UNCHANGED pageTables,
               Begin(c, [op |-> "update_draft", step |-> "write", content |-> content])
        PROVE  IInv'
    <2>1. [op |-> "update_draft", step |-> "write", content |-> content] \in PageCalls
      BY DEF PageCalls, ContentCalls
    <2>. QED
      BY <1>2, <2>1, BeginOnPage, PagesTyped
  <1>. QED
    BY <1>1, <1>2 DEF UpdateDraft

LEMMA InsertRevisionIInv ==
  ASSUME IInv, NEW c \in Calls, NEW op \in {"create_revision", "restore_revision"},
         InsertRevision(c, op), UNCHANGED threadTables
  PROVE  IInv'
  <1>1. call[c] \in CallRecords /\ call[c] # Idle
    BY CallsTyped DEF IInv, InsertRevision, At, Idle
  <1>2. call[c].step = "revise" /\ Return(c)
    BY DEF InsertRevision, At
  <1>3. call[c].content \in Contents
    BY <1>1, <1>2, CallKinds DEF ContentCalls
  <1>4. PagesTypeOK'
    BY <1>3 DEF InsertRevision, IInv, TypeOK, PagesTypeOK
  <1>. QED
    BY <1>2, <1>4, ReturnIInv

LEMMA CreateRevisionIInv ==
  ASSUME IInv, NEW c \in Calls, CreateRevision(c), UNCHANGED threadTables
  PROVE  IInv'
  <1>1. CASE InsertRevision(c, "create_revision")
    BY <1>1, InsertRevisionIInv
  <1>2. CASE /\ UNCHANGED pageTables
             /\ Begin(c, [op |-> "create_revision", step |-> "revise", content |-> draft])
    <2>1. [op |-> "create_revision", step |-> "revise", content |-> draft] \in PageCalls
      BY DEF IInv, TypeOK, PagesTypeOK, PageCalls, ContentCalls
    <2>2. PICK r \in PageCalls :
            r = [op |-> "create_revision", step |-> "revise", content |-> draft]
      BY <2>1
    <2>. QED
      BY <1>2, <2>2, BeginOnPage, PagesTyped
  <1>. QED
    BY <1>1, <1>2 DEF CreateRevision

LEMMA RestoreRevisionIInv ==
  ASSUME IInv, NEW c \in Calls, RestoreRevision(c), UNCHANGED threadTables
  PROVE  IInv'
  <1>1. CASE SaveDraft(c, "restore_revision")
    BY <1>1, SaveDraftIInv
  <1>2. CASE InsertRevision(c, "restore_revision")
    BY <1>2, InsertRevisionIInv
  <1>3. ASSUME NEW content \in revisions, UNCHANGED pageTables,
               Begin(c, [op |-> "restore_revision", step |-> "write", content |-> content])
        PROVE  IInv'
    <2>1. [op |-> "restore_revision", step |-> "write", content |-> content] \in PageCalls
      BY DEF IInv, TypeOK, PagesTypeOK, PageCalls, ContentCalls
    <2>. QED
      BY <1>3, <2>1, BeginOnPage, PagesTyped
  <1>. QED
    BY <1>1, <1>2, <1>3 DEF RestoreRevision

LEMMA DeletePageIInv ==
  ASSUME IInv, NEW c \in Calls, DeletePage(c), UNCHANGED threadTables
  PROVE  IInv'
  <1>1. [op |-> "delete_page", step |-> "reevaluate", content |-> Empty] \in PageCalls
    BY PagesAssumption DEF PageCalls, ContentCalls
  <1>2. PagesTypeOK'
    BY DEF DeletePage, SoftDelete, IInv, TypeOK, PagesTypeOK
  <1>. QED
    BY <1>1, <1>2, BeginOnPage DEF DeletePage

LEMMA RestoreTrashItemIInv ==
  ASSUME IInv, NEW c \in Calls, RestoreTrashItem(c), UNCHANGED threadTables
  PROVE  IInv'
  <1>1. CASE GetTrashed(c)
    <2>1. PICK i \in ActiveItems :
            Begin(c, [op |-> "restore_page", step |-> "select", content |-> draft, item |-> i])
      BY <1>1 DEF GetTrashed
    <2>2. PICK r : r = [op |-> "restore_page", step |-> "select", content |-> draft, item |-> i]
      OBVIOUS
    <2>3. r \in PageCalls
      BY <2>2 DEF IInv, TypeOK, PagesTypeOK, ActiveItems, PageCalls, RestoreCalls
    <2>. QED
      BY <1>1, <2>1, <2>2, <2>3, BeginOnPage, PagesTyped DEF GetTrashed
  <1>2. ASSUME NEW step \in {"write", "reevaluate"}, At(c, "restore_page", "select") \/ At(c, "restore_page", "write"),
               Proceed(c, step), PagesTypeOK'
        PROVE  IInv'
    <2>1. call[c] \in CallRecords /\ call[c] # Idle
      BY <1>2, CallsTyped DEF IInv, At, Idle
    <2>2. call[c] \in RestoreCalls
      BY <1>2, <2>1, CallKinds DEF At, AnchorCalls
    <2>3. PICK r : r = [call[c] EXCEPT !.step = step]
      OBVIOUS
    <2>4. r \in PageCalls
      BY <2>2, <2>3 DEF PageCalls, RestoreCalls
    <2>5. call' = [call EXCEPT ![c] = r]
      BY <1>2, <2>3 DEF Proceed
    <2>. QED
      BY <1>2, <2>4, <2>5, QuietPageStep
  <1>3. CASE SelectForRestore(c)
    BY <1>2, <1>3, PagesTyped DEF SelectForRestore
  <1>4. CASE UpdateRestored(c)
    <2>1. PagesTypeOK'
      BY <1>4 DEF UpdateRestored, IInv, TypeOK, PagesTypeOK
    <2>. QED
      BY <1>2, <1>4, <2>1 DEF UpdateRestored
  <1>. QED
    BY <1>1, <1>3, <1>4 DEF RestoreTrashItem

LEMMA AbortIInv ==
  ASSUME IInv, NEW c \in Calls, Abort(c), UNCHANGED threadTables
  PROVE  IInv'
  BY ReturnIInv, PagesTyped DEF Abort

-----------------------------------------------------------------------------
(* Reading threads and looking at them.                                    *)

LEMMA RowsTyped ==
  ASSUME IInv, NEW t \in Threads, Exists(t)
  PROVE  thread[t] \in PageCommentThread /\ IsAnchor(thread[t]) /\ Coherent(thread[t])
  <1>1. thread[t] \in PageCommentThread
    BY DEF IInv, TypeOK, Exists
  <1>. QED
    BY <1>1 DEF IInv, ResolvedBySomebody, PageCommentThread, IsAnchor

LEMMA NewThreadIsOpen ==
  ASSUME IInv, NEW b \in Blocks, NEW q \in Quotes \union {NoQuote}, HasBlock(draft, b)
  PROVE  /\ NewThread(b, q) \in PageCommentThread
         /\ NewThread(b, q).state = "open" /\ Coherent(NewThread(b, q))
  <1>1. draft \in Document
    BY ThreadsAssumption DEF IInv, TypeOK, PagesTypeOK
  <1>2. TextOf(draft, b) \in Texts
    BY <1>1, TextOfType
  <1>. QED
    BY <1>2 DEF NewThread, PageCommentThread, ThreadStates, AnchorStates, Coherent

LEMMA CreateThreadBeginIInv ==
  ASSUME IInv, NEW c \in Calls, NEW b \in Blocks, NEW q \in Quotes \union {NoQuote},
         HasBlock(draft, b),
         Begin(c, [op |-> "create_thread", step |-> "write", row |-> NewThread(b, q)]),
         UNCHANGED <<pageTables, threadTables>>
  PROVE  IInv'
  <1>1. PICK r : r = [op |-> "create_thread", step |-> "write", row |-> NewThread(b, q)]
    OBVIOUS
  <1>2. r \in CallRecords
    BY <1>1, NewThreadIsOpen DEF CallRecords, ThreadCalls, CreateCalls
  <1>3. CallOK(r)
    BY <1>1, NewThreadIsOpen DEF CallOK
  <1>. QED
    BY <1>1, <1>2, <1>3, QuietStep, PagesTyped DEF Begin

LEMMA ReadThreadIInv ==
  ASSUME IInv, NEW c \in Calls, NEW op \in {"reply", "resolve", "reopen"}, ReadThread(c, op)
  PROVE  IInv'
  <1>1. PICK t \in Threads : \E u \in Users :
          /\ Exists(t)
          /\ Begin(c, [op |-> op, step |-> "page", thread |-> t, actor |-> u, row |-> thread[t]])
    BY DEF ReadThread
  <1>2. PICK u \in Users :
          Begin(c, [op |-> op, step |-> "page", thread |-> t, actor |-> u, row |-> thread[t]])
    BY <1>1
  <1>3. PICK r : r = [op |-> op, step |-> "page", thread |-> t, actor |-> u, row |-> thread[t]]
    OBVIOUS
  <1>4. r \in CallRecords
    BY <1>1, <1>3, RowsTyped DEF CallRecords, ThreadCalls, RowCalls
  <1>5. CallOK(r)
    BY <1>1, <1>3, RowsTyped DEF CallOK
  <1>. QED
    BY <1>2, <1>3, <1>4, <1>5, QuietStep, PagesTyped DEF Begin, ReadThread

LEMMA CheckThreadIInv ==
  ASSUME IInv, NEW c \in Calls, NEW op \in {"reply", "resolve", "reopen"}, CheckThread(c, op)
  PROVE  IInv'
  <1>1. call[c] \in RowCalls /\ CallOK(call[c])
    <2>1. call[c] \in CallRecords /\ call[c] # Idle /\ call[c].op = op
      BY CallsTyped DEF IInv, CheckThread, At, Idle
    <2>. QED
      BY <2>1, CallKinds DEF IInv, CallsConsistent
  <1>2. PICK r : r = [call[c] EXCEPT !.step = "write"]
    OBVIOUS
  <1>3. r \in CallRecords
    BY <1>1, <1>2 DEF CallRecords, ThreadCalls, RowCalls
  <1>4. CallOK(r)
    BY <1>1, <1>2 DEF CallOK, RowCalls
  <1>5. call' = [call EXCEPT ![c] = r]
    BY <1>2 DEF CheckThread, Proceed
  <1>. QED
    BY <1>3, <1>4, <1>5, QuietStep, PagesTyped DEF CheckThread

\* What ListThreads makes of a row.
LEMMA ReanchoredMoves ==
  ASSUME IInv, NEW t \in Threads, Exists(t), NEW content \in Document
  PROVE  /\ Reanchored(content, thread[t]) \in PageCommentThread
         /\ Coherent(Reanchored(content, thread[t]))
         /\ Moves(content, thread[t], Reanchored(content, thread[t]))
  <1>1. PICK old : old = thread[t]
    OBVIOUS
  <1>2. old \in PageCommentThread /\ IsAnchor(old) /\ Coherent(old)
    BY <1>1, RowsTyped
  <1>3. PICK place : place = Evaluate(content, old)
    OBVIOUS
  <1>4. /\ place.anchor \in AnchorStates /\ place.block \in Blocks
        /\ place = [anchor |-> place.anchor, block |-> place.block]
    BY <1>2, <1>3, EvaluateType
  <1>5. PICK new : new = Reanchored(content, old)
    OBVIOUS
  <1>6. new = [old EXCEPT !.anchor = place.anchor, !.block = place.block]
    BY <1>3, <1>5 DEF Reanchored
  <1>7. /\ new \in PageCommentThread /\ new.anchor = place.anchor /\ new.block = place.block
        /\ new.text = old.text /\ new.quote = old.quote
        /\ new.state = old.state /\ new.resolvedBy = old.resolvedBy
    BY <1>2, <1>4, <1>6 DEF PageCommentThread
  <1>8. Moves(content, old, new)
    BY <1>3, <1>4, <1>7 DEF Moves
  <1>. QED
    BY <1>1, <1>2, <1>5, <1>7, <1>8 DEF Coherent

LEMMA ListThreadsIInv ==
  ASSUME IInv, NEW c \in Calls, ListThreads(c)
  PROVE  IInv'
  <1>1. /\ call[c] \in PageCalls
        /\ call[c].op \in {"update_draft", "restore_revision", "delete_page", "restore_page"}
    BY CallsTyped, CallKinds DEF IInv, ListThreads, Reevaluating
  <1>2. PICK content \in Contents : content = call[c].content
    BY <1>1 DEF PageCalls, ContentCalls, RestoreCalls
  <1>3. content \in Document
    BY ThreadsAssumption
  <1>4. PICK D : D = {s \in Threads : Exists(s) /\ NeedsUpdate(content, thread[s])}
    OBVIOUS
  <1>5. PICK todo : todo = {[thread |-> t, row |-> Reanchored(content, thread[t])] : t \in D}
    OBVIOUS
  <1>6. PICK r : r = [op |-> call[c].op, step |-> "update", content |-> content,
                      undisturbed |-> TRUE, todo |-> todo]
    OBVIOUS
  <1>7. call' = [call EXCEPT ![c] = r]
    BY <1>2, <1>4, <1>5, <1>6 DEF ListThreads
  <1>8. ASSUME NEW u \in todo
        PROVE  /\ u.thread \in D /\ u.thread \in Threads /\ Exists(u.thread)
               /\ u = [thread |-> u.thread, row |-> u.row]
               /\ u.row = Reanchored(content, thread[u.thread])
    BY <1>4, <1>5
  <1>9. ASSUME NEW u \in todo
        PROVE  /\ u.row \in PageCommentThread /\ Coherent(u.row)
               /\ Moves(content, thread[u.thread], u.row)
    BY <1>3, <1>8, ReanchoredMoves
  <1>10. todo \in SUBSET [thread : Threads, row : PageCommentThread]
    BY <1>8, <1>9
  <1>11. r \in CallRecords
    BY <1>1, <1>6, <1>10 DEF CallRecords, ThreadCalls, AnchorCalls
  <1>12. \A t \in Threads : Exists(t) =>
           Settled(content, thread[t]) \/ \E u \in todo : u.thread = t
    <2> SUFFICES ASSUME NEW t \in Threads, Exists(t), ~Settled(content, thread[t])
                 PROVE  \E u \in todo : u.thread = t
      OBVIOUS
    <2>1. t \in D
      BY <1>4 DEF NeedsUpdate
    <2>2. [thread |-> t, row |-> Reanchored(content, thread[t])] \in todo
      BY <1>5, <2>1
    <2>. QED
      BY <2>2
  <1>13. \A u, v \in todo : u.thread = v.thread => u = v
    BY <1>8
  <1>14. CallOK(r)
    <2>1. InHand(r)
      BY <1>6, <1>9, <1>12 DEF InHand
    <2>. QED
      BY <1>1, <1>6, <1>8, <1>9, <1>13, <2>1 DEF CallOK
  <1>. QED
    BY <1>7, <1>11, <1>14, QuietStep, PagesTyped DEF ListThreads

LEMMA AnchorsDoneIInv ==
  ASSUME IInv, NEW c \in Calls, AnchorsDone(c)
  PROVE  IInv'
  <1>1. call[c] \in AnchorCalls
    BY CallsTyped, CallKinds DEF IInv, AnchorsDone
  <1>2. CASE call[c].op # "restore_revision"
    BY <1>2, ReturnIInv, PagesTyped DEF AnchorsDone, FinishReevaluation
  <1>3. CASE call[c].op = "restore_revision"
    <2>1. PICK r : r = [op |-> "restore_revision", step |-> "revise", content |-> call[c].content]
      OBVIOUS
    <2>2. r \in PageCalls
      BY <1>1, <2>1 DEF AnchorCalls, PageCalls, ContentCalls
    <2>. QED
      BY <1>3, <2>1, <2>2, QuietPageStep, PagesTyped DEF AnchorsDone, FinishReevaluation
  <1>. QED
    BY <1>2, <1>3

-----------------------------------------------------------------------------
(* Steps that write a thread.                                              *)

\* What every other call of a writer of anchors is left with.
LEMMA OthersDisturbed ==
  ASSUME IInv, NEW c \in Calls, NEW next \in CallRecords, WriteAnchors(c, next),
         \A t \in Threads : Exists(t) => Exists(t)',
         NEW d \in Calls \ {c}
  PROVE  call'[d] \in CallRecords /\ (call'[d] # Idle => CallOK(call[d])')
  <1>1. call[d] \in CallRecords
    BY CallsTyped DEF IInv
  <1>2. call[d] # Idle => CallOK(call[d])
    BY DEF IInv, CallsConsistent
  <1>3. CASE call[d] # Idle /\ call[d].step = "update"
    <2>1. call[d] \in AnchorCalls
      BY <1>1, <1>3, CallKinds
    <2>2. PICK x : x = [call[d] EXCEPT !.undisturbed = FALSE]
      OBVIOUS
    <2>3. call'[d] = x
      BY <1>3, <2>2 DEF WriteAnchors
    <2>4. /\ x \in AnchorCalls /\ x.op = call[d].op /\ x.todo = call[d].todo
          /\ x.undisturbed = FALSE
      BY <2>1, <2>2 DEF AnchorCalls
    <2>5. \A u \in x.todo : u.thread \in Threads
      BY <2>4 DEF AnchorCalls
    <2>6. CallOK(x)'
      BY <1>2, <1>3, <2>4, <2>5 DEF CallOK, AnchorCalls
    <2>. QED
      BY <2>3, <2>4, <2>6 DEF CallRecords, ThreadCalls
  <1>4. CASE call[d] = Idle
    BY <1>4 DEF WriteAnchors, CallRecords
  <1>5. CASE call[d] # Idle /\ call[d].step # "update"
    <2>1. PICK x : x = call[d]
      OBVIOUS
    <2>2. call'[d] = x
      BY <1>5, <2>1 DEF WriteAnchors
    <2>3. x.op \in {"reply", "resolve", "reopen"} => x.thread \in Threads
      BY <1>1, <1>5, <2>1, CallKinds DEF RowCalls
    <2>4. CallOK(x)'
      BY <1>2, <1>5, <2>1, <2>3 DEF CallOK
    <2>. QED
      BY <1>1, <2>1, <2>2, <2>4
  <1>. QED
    BY <1>3, <1>4, <1>5

\* An event from the value a row has to another moves the row's unit along.
LEMMA OnceMoved ==
  ASSUME NEW S, NEW from \in S, NEW to \in S
  PROVE  /\ Moved(Once(S, from), from, to) = Once(S, to)
         /\ Once(S, from) \in [S -> Int]
  <1>1. Once(S, from) \in [S -> Int]
    BY DEF Once
  <1>2. CASE from = to
    BY <1>1, <1>2 DEF Moved
  <1>3. CASE from # to
    <2>1. PICK m : m = [Once(S, from) EXCEPT ![from] = Once(S, from)[from] - 1]
      OBVIOUS
    <2>2. /\ m \in [S -> Int] /\ m[from] = 0
          /\ \A x \in S \ {from} : m[x] = 0
      BY <2>1 DEF Once
    <2>3. Moved(Once(S, from), from, to) = [m EXCEPT ![to] = m[to] + 1]
      BY <1>3, <2>1 DEF Moved
    <2>4. m[to] + 1 = 1
      BY <1>3, <2>2
    <2>5. [m EXCEPT ![to] = 1] = [x \in S |-> IF x = to THEN 1 ELSE 0]
      <3>1. m = [x \in S |-> 0]
        BY <2>2
      <3>. QED
        BY <3>1
    <2>. QED
      BY <1>1, <2>3, <2>4, <2>5 DEF Once
  <1>. QED
    BY <1>2, <1>3

LEMMA BalanceTyped ==
  ASSUME NEW row \in PageCommentThread
  PROVE  BalanceOf(row) \in Balance
  <1>1. row.state \in ThreadStates /\ row.anchor \in AnchorStates /\ row.block \in Blocks
    BY DEF PageCommentThread
  <1>2. /\ Once(ThreadStates, row.state) \in [ThreadStates -> Int]
        /\ Once(AnchorStates, row.anchor) \in [AnchorStates -> Int]
        /\ Once(Blocks, row.block) \in [Blocks -> Int]
    BY <1>1, OnceMoved
  <1>. QED
    BY <1>2 DEF BalanceOf, Balance

\* A row is written that is coherent and that its history accounts for.
LEMMA WriteStep ==
  ASSUME IInv, NEW c \in Calls, NEW t \in Threads,
         NEW row \in PageCommentThread, Coherent(row),
         thread' = [thread EXCEPT ![t] = row],
         history' = [history EXCEPT ![t] = BalanceOf(row)],
         messages' \in [Threads -> 0 .. MaxMessages],
         UNCHANGED pageTables,
         NEW next \in CallRecords, next # Idle => CallOK(next)',
         WriteAnchors(c, next)
  PROVE  IInv'
  <1>1. /\ thread'[t] = row /\ \A s \in Threads \ {t} : thread'[s] = thread[s]
        /\ history'[t] = BalanceOf(row) /\ \A s \in Threads \ {t} : history'[s] = history[s]
    BY DEF IInv, TypeOK
  <1>2. \A s \in Threads : Exists(s) => Exists(s)'
    BY <1>1 DEF Exists, PageCommentThread, NoThread
  <1>3. BalanceOf(row) \in Balance
    BY BalanceTyped
  <1>4. call'[c] = next
    BY DEF WriteAnchors
  <1>5. \A d \in Calls \ {c} : call'[d] \in CallRecords /\ (call'[d] # Idle => CallOK(call[d])')
    BY <1>2, OthersDisturbed
  <1>6. call' \in [Calls -> CallRecords]
    <2>1. \A d \in Calls : call'[d] \in CallRecords
      BY <1>4, <1>5
    <2>. QED
      BY <2>1 DEF WriteAnchors
  <1>7. TypeOK'
    <2>1. thread' \in [Threads -> PageCommentThread \union {NoThread}]
      BY DEF IInv, TypeOK
    <2>2. history' \in [Threads -> Balance \union {NoThread}]
      BY <1>3 DEF IInv, TypeOK
    <2>3. PagesTypeOK'
      BY PagesTyped
    <2>. QED
      BY <1>6, <2>1, <2>2, <2>3 DEF TypeOK, CallRecords
  <1>8. ResolvedBySomebody'
    BY <1>1 DEF IInv, ResolvedBySomebody, Exists, Coherent
  <1>9. HistoryAccountsForRow'
    <2>1. \A s \in Threads \ {t} : Exists(s) => history[s] = BalanceOf(thread[s])
      BY DEF IInv, HistoryAccountsForRow
    <2>2. \A s \in Threads : Exists(s)' => history'[s] = BalanceOf(thread[s])'
      BY <1>1, <2>1 DEF Exists, BalanceOf
    <2>. QED
      BY <2>2 DEF HistoryAccountsForRow
  <1>10. CallsConsistent'
    <2> SUFFICES ASSUME NEW d \in Calls, call'[d] # Idle PROVE CallOK(call[d])'
      BY DEF CallsConsistent
    <2>1. CASE d = c
      <3>1. CallOK(next)'
        BY <1>4, <2>1
      <3>. QED
        BY <1>4, <2>1, <3>1 DEF CallOK, InHand
    <2>2. CASE d # c
      BY <1>5, <2>2
    <2>. QED
      BY <2>1, <2>2
  <1>. QED
    BY <1>7, <1>8, <1>9, <1>10 DEF IInv

LEMMA InsertThreadIInv ==
  ASSUME IInv, NEW c \in Calls, InsertThread(c)
  PROVE  IInv'
  <1>1. call[c] \in CreateCalls /\ CallOK(call[c]) /\ call[c].op = "create_thread"
    <2>1. call[c] \in CallRecords /\ call[c] # Idle /\ call[c].op = "create_thread"
      BY CallsTyped DEF IInv, InsertThread, At, Idle
    <2>. QED
      BY <2>1, CallKinds DEF IInv, CallsConsistent
  <1>2. PICK row : row = call[c].row
    OBVIOUS
  <1>3. row \in PageCommentThread /\ Coherent(row)
    BY <1>1, <1>2 DEF CreateCalls, CallOK
  <1>4. PICK t \in Threads :
          /\ thread' = [thread EXCEPT ![t] = row]
          /\ messages' = [messages EXCEPT ![t] = 1]
          /\ history' = [history EXCEPT ![t] = BalanceOf(row)]
    BY <1>2 DEF InsertThread
  <1>5. messages' \in [Threads -> 0 .. MaxMessages]
    BY <1>4, ThreadsAssumption DEF IInv, TypeOK
  <1>6. Idle \in CallRecords
    BY DEF CallRecords
  <1>. QED
    BY <1>3, <1>4, <1>5, <1>6, WriteStep DEF InsertThread

\* The events of a write have the history account for the row.
LEMMA EventsFollow ==
  ASSUME IInv, NEW t \in Threads, Exists(t), NEW row \in PageCommentThread
  PROVE  EventsOf(t, row) = BalanceOf(row)
  <1>1. history[t] = BalanceOf(thread[t]) /\ thread[t] \in PageCommentThread
    BY RowsTyped DEF IInv, HistoryAccountsForRow
  <1>2. PICK old \in PageCommentThread : old = thread[t]
    BY <1>1
  <1>3. /\ history[t].state = Once(ThreadStates, old.state)
        /\ history[t].anchor = Once(AnchorStates, old.anchor)
        /\ history[t].block = Once(Blocks, old.block)
    BY <1>1, <1>2 DEF BalanceOf
  <1>4. /\ old.state \in ThreadStates /\ old.anchor \in AnchorStates /\ old.block \in Blocks
        /\ row.state \in ThreadStates /\ row.anchor \in AnchorStates /\ row.block \in Blocks
    BY DEF PageCommentThread
  <1>5. /\ Moved(history[t].state, old.state, row.state) = Once(ThreadStates, row.state)
        /\ Moved(history[t].anchor, old.anchor, row.anchor) = Once(AnchorStates, row.anchor)
        /\ Moved(history[t].block, old.block, row.block) = Once(Blocks, row.block)
    BY <1>3, <1>4, OnceMoved
  <1>. QED
    BY <1>2, <1>5 DEF EventsOf, BalanceOf

LEMMA UpdateThreadStateIInv ==
  ASSUME IInv, NEW c \in Calls, NEW t \in Threads, Exists(t),
         NEW row \in PageCommentThread, Coherent(row), UpdateThreadState(t, row),
         UNCHANGED pageTables,
         NEW next \in CallRecords, next # Idle => CallOK(next)', WriteAnchors(c, next)
  PROVE  IInv'
  <1>1. history' = [history EXCEPT ![t] = BalanceOf(row)]
    BY EventsFollow DEF UpdateThreadState
  <1>2. messages' \in [Threads -> 0 .. MaxMessages]
    BY DEF UpdateThreadState, IInv, TypeOK
  <1>. QED
    BY <1>1, <1>2, WriteStep DEF UpdateThreadState

\* What a call that read a row has in its hand.
LEMMA RowCallOK ==
  ASSUME IInv, NEW c \in Calls, NEW op \in {"reply", "resolve", "reopen"}, At(c, op, "write")
  PROVE  /\ call[c].thread \in Threads /\ call[c].actor \in Users
         /\ call[c].row \in PageCommentThread
         /\ Exists(call[c].thread) /\ Coherent(call[c].row)
  <1>1. call[c] \in CallRecords /\ call[c] # Idle /\ call[c].op = op
    BY CallsTyped DEF IInv, At, Idle
  <1>. QED
    BY <1>1, CallKinds DEF IInv, CallsConsistent, CallOK, RowCalls

LEMMA ResolveWriteIInv ==
  ASSUME IInv, NEW c \in Calls, At(c, "resolve", "write"),
         UpdateThreadState(call[c].thread, Resolved(call[c].row, call[c].actor)),
         WriteAnchors(c, Idle), UNCHANGED pageTables
  PROVE  IInv'
  <1>1. PICK row : row = Resolved(call[c].row, call[c].actor)
    OBVIOUS
  <1>2. row \in PageCommentThread /\ Coherent(row)
    <2>1. call[c].row \in PageCommentThread /\ call[c].actor \in Users
      BY RowCallOK
    <2>2. row \in PageCommentThread /\ row.state = "resolved" /\ row.resolvedBy = call[c].actor
      BY <1>1, <2>1 DEF Resolved, PageCommentThread, ThreadStates
    <2>. QED
      BY <2>1, <2>2, ThreadsAssumption DEF Coherent
  <1>3. Idle \in CallRecords
    BY DEF CallRecords
  <1>. QED
    BY <1>1, <1>2, <1>3, RowCallOK, UpdateThreadStateIInv

LEMMA ReopenedIsOpen ==
  ASSUME NEW row \in PageCommentThread
  PROVE  /\ Reopened(row) \in PageCommentThread /\ Coherent(Reopened(row))
         /\ Reopened(row).state = "open"
  BY DEF Reopened, PageCommentThread, ThreadStates, Coherent

LEMMA ReopenWriteIInv ==
  ASSUME IInv, NEW c \in Calls, At(c, "reopen", "write"),
         UpdateThreadState(call[c].thread, Reopened(call[c].row)),
         WriteAnchors(c, Idle), UNCHANGED pageTables
  PROVE  IInv'
  <1>1. Idle \in CallRecords
    BY DEF CallRecords
  <1>2. PICK row : row = Reopened(call[c].row)
    OBVIOUS
  <1>3. row \in PageCommentThread /\ Coherent(row)
    BY <1>2, RowCallOK, ReopenedIsOpen
  <1>. QED
    BY <1>1, <1>2, <1>3, RowCallOK, UpdateThreadStateIInv

LEMMA UpdateAnchorIInv ==
  ASSUME IInv, NEW c \in Calls, UpdateAnchor(c)
  PROVE  IInv'
  <1>1. PICK r : r = call[c]
    OBVIOUS
  <1>2. r \in AnchorCalls /\ CallOK(r) /\ r.step = "update"
    BY <1>1, CallsTyped, CallKinds DEF IInv, CallsConsistent, UpdateAnchor
  <1>3. PICK u \in r.todo :
          /\ UpdateThreadState(u.thread, u.row)
          /\ WriteAnchors(c, [r EXCEPT !.todo = @ \ {u}])
    BY <1>1 DEF UpdateAnchor
  <1>4. PICK next : next = [r EXCEPT !.todo = r.todo \ {u}]
    OBVIOUS
  <1>5. WriteAnchors(c, next)
    BY <1>3, <1>4
  <1>6. PICK t, row : t = u.thread /\ row = u.row
    OBVIOUS
  <1>7. /\ t \in Threads /\ row \in PageCommentThread /\ Exists(t) /\ Coherent(row)
        /\ r.content \in Document
    BY <1>2, <1>6, ThreadsAssumption DEF AnchorCalls, CallOK
  <1>8. /\ next \in AnchorCalls /\ next.op = r.op /\ next.todo = r.todo \ {u}
        /\ next.content = r.content /\ next.undisturbed = r.undisturbed
    BY <1>2, <1>4 DEF AnchorCalls
  <1>9. thread'[t] = row /\ \A s \in Threads \ {t} : thread'[s] = thread[s]
    BY <1>3, <1>6, <1>7 DEF UpdateThreadState, IInv, TypeOK
  <1>10. \A v \in next.todo : v \in r.todo /\ v.thread \in Threads /\ v.thread # t
    BY <1>2, <1>6, <1>8 DEF CallOK, AnchorCalls
  <1>11. ASSUME r.undisturbed, DistinctIds(r.content) PROVE InHand(next)'
    <2>1. InHand(r)
      BY <1>2, <1>11 DEF CallOK
    <2>2. \A v \in next.todo : Moves(next.content, thread'[v.thread], v.row)
      BY <1>8, <1>9, <1>10, <2>1 DEF InHand
    <2>3. Settled(next.content, thread'[t])
      <3>1. Moves(r.content, thread[t], row)
        BY <1>6, <2>1 DEF InHand
      <3>. QED
        BY <1>7, <1>8, <1>9, <1>11, <3>1, EvaluateSettles, RowsTyped
    <2>4. ASSUME NEW s \in Threads, Exists(s)', s # t
          PROVE  Settled(next.content, thread'[s]) \/ \E v \in next.todo : v.thread = s
      <3>1. thread'[s] = thread[s] /\ Exists(s)
        BY <1>9, <2>4 DEF Exists
      <3>2. Settled(r.content, thread[s]) \/ \E v \in r.todo : v.thread = s
        BY <2>1, <3>1 DEF InHand
      <3>. QED
        BY <1>6, <1>8, <2>4, <3>1, <3>2
    <2>. QED
      BY <1>8, <2>2, <2>3, <2>4 DEF InHand
  <1>12. CallOK(next)'
    <2>1. \A v \in next.todo : Exists(v.thread)' /\ Coherent(v.row)
      BY <1>2, <1>9, <1>10 DEF CallOK, Exists
    <2>2. \A v, w \in next.todo : v.thread = w.thread => v = w
      BY <1>2, <1>10 DEF CallOK
    <2>. QED
      BY <1>2, <1>8, <1>11, <2>1, <2>2 DEF CallOK, AnchorCalls
  <1>13. next \in CallRecords
    BY <1>8 DEF CallRecords, ThreadCalls
  <1>. QED
    BY <1>3, <1>5, <1>6, <1>7, <1>12, <1>13, UpdateThreadStateIInv DEF UpdateAnchor

\* What a reply writes leaves the thread open, and nobody its resolver.
LEMMA PersistedIsOpen ==
  ASSUME IInv, NEW c \in Calls, At(c, "reply", "write")
  PROVE  Persisted(c).state = "open" /\ Persisted(c).resolvedBy = Nobody
  <1>1. PICK copy : copy = call[c].row
    OBVIOUS
  <1>2. PICK current : current = thread[call[c].thread]
    OBVIOUS
  <1>3. /\ copy \in PageCommentThread /\ Coherent(copy)
        /\ current \in PageCommentThread /\ Coherent(current)
    BY <1>1, <1>2, RowCallOK, RowsTyped
  <1>4. /\ copy.state = "resolved" \/ (copy.state = "open" /\ copy.resolvedBy = Nobody)
        /\ current.state = "resolved" \/ (current.state = "open" /\ current.resolvedBy = Nobody)
    BY <1>3 DEF PageCommentThread, ThreadStates, Coherent
  <1>5. Reopened(copy).state = "open" /\ Reopened(copy).resolvedBy = Nobody
    BY <1>3 DEF Reopened, PageCommentThread
  <1>. QED
    BY <1>1, <1>2, <1>4, <1>5 DEF Persisted

\* Where an anchor is depends on its block, text and quote alone.
LEMMA EvaluateSame ==
  ASSUME NEW content, NEW a, NEW b, a.block = b.block, a.text = b.text, a.quote = b.quote
  PROVE  Evaluate(content, a) = Evaluate(content, b)
  BY DEF Evaluate

LEMMA AddReplyIInv ==
  ASSUME IInv, NEW c \in Calls, AddReply(c)
  PROVE  IInv' /\ thread'[call[c].thread].state = "open"
  <1>1. PICK t \in Threads : t = call[c].thread /\ Exists(t)
    BY RowCallOK DEF AddReply
  <1>2. PICK old : old = thread[t]
    OBVIOUS
  <1>3. old \in PageCommentThread
    BY <1>1, <1>2, RowsTyped
  <1>4. PICK p : p = Persisted(c)
    OBVIOUS
  <1>5. p.state = "open" /\ p.resolvedBy = Nobody
    BY <1>4, PersistedIsOpen DEF AddReply
  <1>6. PICK new : new = [old EXCEPT !.state = "open", !.resolvedBy = Nobody]
    OBVIOUS
  <1>7. /\ new \in PageCommentThread /\ new.state = "open" /\ new.resolvedBy = Nobody
        /\ new.anchor = old.anchor /\ new.block = old.block
        /\ new.text = old.text /\ new.quote = old.quote
    BY <1>3, <1>6 DEF PageCommentThread, ThreadStates
  <1>8. /\ thread' = [thread EXCEPT ![t] = new]
        /\ thread'[t] = new /\ \A s \in Threads \ {t} : thread'[s] = thread[s]
    <2>1. thread' = [thread EXCEPT ![t] =
            [thread[t] EXCEPT !.state = p.state, !.resolvedBy = p.resolvedBy]]
      BY <1>1, <1>4 DEF AddReply
    <2>2. thread' = [thread EXCEPT ![t] = new]
      BY <1>2, <1>5, <1>6, <2>1
    <2>. QED
      BY <2>2 DEF IInv, TypeOK
  <1>9. /\ history' \in [Threads -> Balance \union {NoThread}]
        /\ history'[t] = BalanceOf(new)
        /\ \A s \in Threads \ {t} : history'[s] = history[s]
    <2>1. history[t] = BalanceOf(old) /\ BalanceOf(old) \in Balance /\ BalanceOf(new) \in Balance
      BY <1>1, <1>2, <1>3, <1>7, BalanceTyped DEF IInv, HistoryAccountsForRow
    <2>3. CASE old.state = "resolved"
      <3>1. history' = [history EXCEPT ![t] =
              [history[t] EXCEPT !.state = Moved(history[t].state, "resolved", "open")]]
        BY <1>1, <1>2, <1>4, <1>5, <2>3 DEF AddReply
      <3>2. Moved(Once(ThreadStates, "resolved"), "resolved", "open") = Once(ThreadStates, "open")
        BY OnceMoved DEF ThreadStates
      <3>3. [BalanceOf(old) EXCEPT !.state = Once(ThreadStates, "open")] = BalanceOf(new)
        BY <1>7 DEF BalanceOf
      <3>4. BalanceOf(old).state = Once(ThreadStates, "resolved")
        BY <2>3 DEF BalanceOf
      <3>5. history' = [history EXCEPT ![t] = BalanceOf(new)]
        BY <2>1, <3>1, <3>2, <3>3, <3>4
      <3>. QED
        BY <2>1, <3>5 DEF IInv, TypeOK
    <2>4. CASE old.state # "resolved"
      <3>1. history' = history
        BY <1>1, <1>2, <2>4 DEF AddReply
      <3>2. BalanceOf(old) = BalanceOf(new)
        BY <1>3, <1>7, <2>4 DEF BalanceOf, PageCommentThread, ThreadStates
      <3>. QED
        BY <2>1, <3>1, <3>2 DEF IInv, TypeOK
    <2>. QED
      BY <2>3, <2>4
  <1>10. messages' \in [Threads -> 0 .. MaxMessages]
    <2>1. messages[t] \in 0 .. MaxMessages /\ messages[t] < MaxMessages /\ MaxMessages \in Nat
      BY <1>1, ThreadsAssumption DEF AddReply, IInv, TypeOK
    <2>2. messages[t] + 1 \in 0 .. MaxMessages
      BY <2>1
    <2>3. messages' = [messages EXCEPT ![t] = messages[t] + 1]
      BY <1>1 DEF AddReply
    <2>. QED
      BY <2>2, <2>3 DEF IInv, TypeOK
  <1>11. call' = [call EXCEPT ![c] = Idle]
    BY DEF AddReply, Return
  <1>12. TypeOK'
    <2>1. thread' \in [Threads -> PageCommentThread \union {NoThread}]
      BY <1>7, <1>8 DEF IInv, TypeOK
    <2>2. PagesTypeOK'
      BY PagesTyped DEF AddReply
    <2>3. call' \in [Calls -> PageCalls \union ThreadCalls \union {Idle}]
      BY <1>11 DEF IInv, TypeOK
    <2>. QED
      BY <1>9, <1>10, <2>1, <2>2, <2>3 DEF TypeOK
  <1>13. ResolvedBySomebody'
    BY <1>7, <1>8 DEF IInv, ResolvedBySomebody, Exists, Coherent
  <1>14. HistoryAccountsForRow'
    <2>1. \A s \in Threads \ {t} : Exists(s) => history[s] = BalanceOf(thread[s])
      BY DEF IInv, HistoryAccountsForRow
    <2>2. \A s \in Threads : Exists(s)' => history'[s] = BalanceOf(thread[s])'
      BY <1>8, <1>9, <2>1 DEF Exists, BalanceOf
    <2>. QED
      BY <2>2 DEF HistoryAccountsForRow
  <1>15. \A s \in Threads : Exists(s) <=> Exists(s)'
    BY <1>1, <1>7, <1>8 DEF Exists, PageCommentThread, NoThread
  <1>16. ASSUME NEW s \in Threads, NEW content
         PROVE  /\ Evaluate(content, thread'[s]) = Evaluate(content, thread[s])
                /\ thread'[s].text = thread[s].text /\ thread'[s].quote = thread[s].quote
                /\ thread'[s].anchor = thread[s].anchor /\ thread'[s].block = thread[s].block
    BY <1>2, <1>7, <1>8, EvaluateSame
  <1>17. CallsConsistent'
    <2> SUFFICES ASSUME NEW d \in Calls, call'[d] # Idle PROVE CallOK(call[d])'
      BY DEF CallsConsistent
    <2>1. PICK x : x = call[d]
      OBVIOUS
    <2>2. call'[d] = x /\ x # Idle /\ x \in CallRecords /\ CallOK(x)
      BY <1>11, <2>1, CallsTyped DEF IInv, TypeOK, CallsConsistent
    <2>3. ASSUME x.step = "update", InHand(x) PROVE InHand(x)'
      <3>1. \A u \in x.todo : u.thread \in Threads
        BY <2>2, <2>3, CallKinds DEF AnchorCalls
      <3>2. \A u \in x.todo : Moves(x.content, thread[u.thread], u.row)'
        <4> SUFFICES ASSUME NEW u \in x.todo
                     PROVE  Moves(x.content, thread'[u.thread], u.row)
          OBVIOUS
        <4>1. Moves(x.content, thread[u.thread], u.row)
          BY <2>3 DEF InHand
        <4>. QED
          BY <1>16, <3>1, <4>1 DEF Moves
      <3>3. \A s \in Threads : Settled(x.content, thread[s]) => Settled(x.content, thread'[s])
        BY <1>16 DEF Settled
      <3>. QED
        BY <1>15, <2>3, <3>2, <3>3 DEF InHand
    <2>4. x.op \in {"reply", "resolve", "reopen"} => x.thread \in Threads
      BY <2>2, CallKinds DEF RowCalls
    <2>5. x.step = "update" => \A u \in x.todo : u.thread \in Threads
      BY <2>2, CallKinds DEF AnchorCalls
    <2>6. CallOK(x)'
      BY <1>15, <2>2, <2>3, <2>4, <2>5 DEF CallOK
    <2>. QED
      BY <2>2, <2>6
  <1>. QED
    BY <1>1, <1>7, <1>8, <1>12, <1>13, <1>14, <1>17 DEF IInv

-----------------------------------------------------------------------------
(* The invariant.                                                          *)

LEMMA InitIInv == Init => IInv
  <1> SUFFICES ASSUME Init PROVE IInv
    OBVIOUS
  <1>1. TypeOK
    BY PagesAssumption, ThreadsAssumption DEF Init, PagesInit, TypeOK, PagesTypeOK
  <1>. QED
    BY <1>1 DEF Init, IInv, ResolvedBySomebody, HistoryAccountsForRow, CallsConsistent, Exists

LEMMA StepIInv == IInv /\ [Next]_vars => IInv'
  <1> SUFFICES ASSUME IInv, [Next]_vars PROVE IInv'
    OBVIOUS
  <1>1. CASE CreatePage /\ UNCHANGED threadTables
    BY <1>1, CreatePageIInv
  <1>2. ASSUME NEW c \in Calls, PageStep(c), UNCHANGED threadTables PROVE IInv'
    BY <1>2, UpdateDraftIInv, CreateRevisionIInv, RestoreRevisionIInv, DeletePageIInv,
       RestoreTrashItemIInv DEF PageStep
  <1>3. ASSUME NEW c \in Calls, CreateThread(c) PROVE IInv'
    BY <1>3, CreateThreadBeginIInv, InsertThreadIInv DEF CreateThread
  <1>4. ASSUME NEW c \in Calls, CreateReply(c) PROVE IInv'
    BY <1>4, ReadThreadIInv, CheckThreadIInv, AddReplyIInv DEF CreateReply
  <1>5. ASSUME NEW c \in Calls, ResolveThread(c) PROVE IInv'
    BY <1>5, ReadThreadIInv, CheckThreadIInv, ResolveWriteIInv DEF ResolveThread
  <1>6. ASSUME NEW c \in Calls, ReopenThread(c) PROVE IInv'
    BY <1>6, ReadThreadIInv, CheckThreadIInv, ReopenWriteIInv DEF ReopenThread
  <1>7. ASSUME NEW c \in Calls, ListThreads(c) \/ UpdateAnchor(c) \/ AnchorsDone(c) PROVE IInv'
    BY <1>7, ListThreadsIInv, UpdateAnchorIInv, AnchorsDoneIInv
  <1>8. ASSUME NEW c \in Calls, Abort(c), UNCHANGED threadTables PROVE IInv'
    BY <1>8, AbortIInv
  <1>9. CASE UNCHANGED vars
    <2>1. TypeOK'
      BY <1>9 DEF vars, pageTables, threadTables, IInv, TypeOK, PagesTypeOK
    <2>2. ResolvedBySomebody' /\ HistoryAccountsForRow'
      BY <1>9 DEF vars, threadTables, IInv, ResolvedBySomebody, HistoryAccountsForRow, Exists
    <2>3. CallsConsistent'
      BY <1>9 DEF vars, threadTables, IInv, CallsConsistent, CallOK, InHand, Exists
    <2>. QED
      BY <2>1, <2>2, <2>3 DEF IInv
  <1>. QED
    BY <1>1, <1>2, <1>3, <1>4, <1>5, <1>6, <1>7, <1>8, <1>9 DEF Next

\* Threads and calls stay consistent: every copy of a row in a call's hand is
\* coherent and of a thread that exists, and a loop over the anchors of a page
\* that nothing came between has an update in hand for each thread that is not
\* where the content says.
THEOREM ThreadsInvariant == Spec => []IInv
  BY InitIInv, StepIInv, PTL DEF Spec

\* Tables and calls keep their shapes: above all, a reevaluation, which follows
\* a text or a quote or gives up, leaves every thread with a block.
THEOREM ThreadsTypeCorrect == Spec => []TypeOK
  <1>1. IInv => TypeOK
    BY DEF IInv
  <1>. QED
    BY <1>1, ThreadsInvariant, PTL

\* Whole rows written back from stale copies never leave a thread resolved by
\* nobody, or open with a resolver.
THEOREM ResolutionsAreOwned == Spec => []ResolvedBySomebody
  <1>1. IInv => ResolvedBySomebody
    BY DEF IInv
  <1>. QED
    BY <1>1, ThreadsInvariant, PTL

\* In whatever order the events of a thread are listed, they account for its
\* row, however many calls wrote over each other.
THEOREM HistoryAccounts == Spec => []HistoryAccountsForRow
  <1>1. IInv => HistoryAccountsForRow
    BY DEF IInv
  <1>. QED
    BY <1>1, ThreadsInvariant, PTL

\* A loop over the anchors that is done, and that no other write to an anchor
\* came between, left every thread where the content says it is.
THEOREM ReevaluationsSettle == Spec => []ReevaluationSettles
  <1>1. IInv => ReevaluationSettles
    BY DEF IInv, CallsConsistent, CallOK, InHand, ReevaluationSettles
  <1>. QED
    BY <1>1, ThreadsInvariant, PTL

-----------------------------------------------------------------------------
(* Replies.                                                                *)

\* A message is the first of a new thread or a reply, and either way its
\* thread is open.
LEMMA StepOpens == IInv /\ [Next]_vars => [ReplyOpens]_vars
  <1> SUFFICES ASSUME IInv, Next PROVE ReplyOpens
    BY Zenon
  <1> SUFFICES ASSUME NEW t \in Threads, messages'[t] > messages[t]
               PROVE  thread'[t].state = "open"
    BY DEF ReplyOpens
  <1>1. messages[t] \in Int
    BY ThreadsAssumption DEF IInv, TypeOK
  <1>2. messages' # messages
    BY <1>1
  <1>3. PICK c \in Calls : InsertThread(c) \/ AddReply(c)
    <2>1. CASE CreatePage /\ UNCHANGED threadTables
      BY <1>2, <2>1 DEF threadTables
    <2>2. ASSUME NEW c \in Calls, PageStep(c) \/ Abort(c), UNCHANGED threadTables PROVE FALSE
      BY <1>2, <2>2 DEF threadTables
    <2>3. ASSUME NEW c \in Calls, CreateThread(c) PROVE InsertThread(c)
      BY <1>2, <2>3 DEF CreateThread, threadTables
    <2>4. ASSUME NEW c \in Calls, CreateReply(c) PROVE AddReply(c)
      BY <1>2, <2>4 DEF CreateReply, ReadThread, CheckThread, threadTables
    <2>5. ASSUME NEW c \in Calls,
                 \/ ResolveThread(c) \/ ReopenThread(c)
                 \/ ListThreads(c) \/ UpdateAnchor(c) \/ AnchorsDone(c)
          PROVE  FALSE
      BY <1>2, <2>5 DEF ResolveThread, ReopenThread, ReadThread, CheckThread, UpdateThreadState,
                        ListThreads, UpdateAnchor, AnchorsDone, threadTables
    <2>. QED
      BY <2>1, <2>2, <2>3, <2>4, <2>5 DEF Next
  <1>4. CASE AddReply(c)
    <2>1. t = call[c].thread
      <3>1. messages' = [messages EXCEPT ![call[c].thread] = messages[call[c].thread] + 1]
        BY <1>4 DEF AddReply
      <3>. QED
        BY <1>1, <3>1 DEF IInv, TypeOK
    <2>. QED
      BY <1>4, <2>1, AddReplyIInv
  <1>5. CASE InsertThread(c)
    <2>1. call[c].row.state = "open"
      <3>1. call[c] # Idle /\ call[c].op = "create_thread"
        BY <1>5 DEF InsertThread, At, Idle
      <3>. QED
        BY <3>1 DEF IInv, CallsConsistent, CallOK
    <2>2. PICK s \in Threads : /\ thread' = [thread EXCEPT ![s] = call[c].row]
                               /\ messages' = [messages EXCEPT ![s] = 1]
      BY <1>5 DEF InsertThread
    <2>3. t = s
      BY <1>1, <2>2 DEF IInv, TypeOK
    <2>. QED
      BY <2>1, <2>2, <2>3 DEF IInv, TypeOK
  <1>. QED
    BY <1>3, <1>4, <1>5

\* A reply leaves its thread open, whatever became of the thread between the
\* call's reading and its writing.
THEOREM RepliesOpen == Spec => RepliesLeaveOpen
  BY ThreadsInvariant, StepOpens, PTL DEF Spec, RepliesLeaveOpen

-----------------------------------------------------------------------------
(* The trash.                                                              *)

LEMMA StepKeepsItem == IInv /\ TrashedPageHasItem /\ [Next]_vars => TrashedPageHasItem'
  <1> SUFFICES ASSUME IInv, TrashedPageHasItem, [Next]_vars PROVE TrashedPageHasItem'
    OBVIOUS
  <1>1. CASE UNCHANGED <<page, trash>>
    BY <1>1 DEF TrashedPageHasItem, ActiveItems
  <1>2. CASE page' = "visible"
    BY <1>2 DEF TrashedPageHasItem
  <1>3. ASSUME NEW i \in TrashIds, SoftDelete(i) PROVE TrashedPageHasItem'
    <2>1. trash' = [trash EXCEPT ![i] = "active"] /\ ActiveItems = {}
      BY <1>3 DEF SoftDelete
    <2>2. ActiveItems' = {i}
      BY <2>1 DEF ActiveItems, IInv, TypeOK, PagesTypeOK
    <2>3. Cardinality({i}) = 1
      BY FS_Singleton
    <2>. QED
      BY <2>2, <2>3 DEF TrashedPageHasItem
  <1>4. UNCHANGED pageTables => UNCHANGED <<page, trash>>
    BY DEF pageTables
  <1>5. ASSUME NEW c \in Calls, PageStep(c) PROVE TrashedPageHasItem'
    <2>1. CASE UpdateDraft(c) \/ CreateRevision(c) \/ RestoreRevision(c)
      BY <1>1, <1>4, <2>1 DEF UpdateDraft, CreateRevision, RestoreRevision, SaveDraft, InsertRevision
    <2>2. CASE DeletePage(c)
      BY <1>3, <2>2 DEF DeletePage
    <2>3. CASE RestoreTrashItem(c)
      BY <1>1, <1>2, <1>4, <2>3 DEF RestoreTrashItem, GetTrashed, SelectForRestore, UpdateRestored
    <2>. QED
      BY <1>5, <2>1, <2>2, <2>3 DEF PageStep
  <1>6. CASE CreatePage
    BY <1>2, <1>6 DEF CreatePage
  <1>7. ASSUME NEW c \in Calls, Next, ~CreatePage, ~PageStep(c),
               \/ CreateThread(c) \/ CreateReply(c) \/ ResolveThread(c) \/ ReopenThread(c)
               \/ ListThreads(c) \/ UpdateAnchor(c) \/ AnchorsDone(c) \/ Abort(c)
        PROVE  UNCHANGED pageTables
    BY <1>7 DEF CreateThread, InsertThread, CreateReply, ResolveThread, ReopenThread, ReadThread,
                CheckThread, AddReply, ListThreads, UpdateAnchor, AnchorsDone, Abort
  <1>8. CASE UNCHANGED vars
    BY <1>1, <1>8 DEF vars, pageTables
  <1>. QED
    BY <1>1, <1>4, <1>5, <1>6, <1>7, <1>8 DEF Next

\* However deletions and restores of a page overlap, a page in the trash has
\* one active item, by which it can be restored.
THEOREM TrashedPagesHaveItems == Spec => []TrashedPageHasItem
  <1>1. Init => TrashedPageHasItem
    BY DEF Init, PagesInit, TrashedPageHasItem
  <1>. QED
    BY <1>1, ThreadsInvariant, StepKeepsItem, PTL DEF Spec
=============================================================================
