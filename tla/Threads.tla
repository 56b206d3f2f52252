------------------------------ MODULE Threads ------------------------------
(***************************************************************************)
(* The comment threads of a page                                           *)
(* (internal/application/thread_service.go over                            *)
(* internal/repository/postgres/thread_repository.go), with the calls of   *)
(* module Pages that have their anchors reevaluated.                       *)
(*                                                                         *)
(* A call reads the thread's row, checks, changes its copy, and later      *)
(* writes the copy back: the whole row (UpdateThreadState) or, of a reply, *)
(* what the locked row calls for (AddReply).  Notes, reasons, mentions and *)
(* who reopened a thread are left out, and so are times: an event is       *)
(* stamped before the row is locked, or with what a stale copy says, so    *)
(* that the order events are listed in says nothing of the order of the    *)
(* writes.  What is kept of them is what no order can change.              *)
(***************************************************************************)
EXTENDS Integers, Pages, ThreadAnchor

CONSTANTS
  Threads,      \* ids of threads that may be created
  Users,
  Editors,      \* those of them who may resolve
  MaxMessages   \* bound on the messages of a thread

Nobody == "nobody"

ASSUME ThreadsAssumption ==
  /\ Nobody \notin Users
  /\ Editors \subseteq Users
  /\ Contents \subseteq Document
  /\ Empty = <<>>
  /\ MaxMessages \in Nat \ {0}

VARIABLES
  thread,    \* thread[t]: the row of thread t, or NoThread
  messages,  \* messages[t]: how many messages it has
  history    \* history[t]: how often t's creation and events enter each value, less how often they leave it

threadTables == <<thread, messages, history>>
vars == <<pageTables, threadTables, call>>

NoThread == [state |-> "absent"]

ThreadStates == {"open", "resolved"}

PageCommentThread ==
  [state : ThreadStates, anchor : AnchorStates, block : Blocks, text : Texts,
   quote : Quotes \union {NoQuote}, resolvedBy : Users \union {Nobody}]

Balance == [state : [ThreadStates -> Int], anchor : [AnchorStates -> Int], block : [Blocks -> Int]]

CreateCalls == [op : {"create_thread"}, step : {"write"}, row : PageCommentThread]

RowCalls ==
  [op : {"reply", "resolve", "reopen"}, step : {"page", "write"},
   thread : Threads, actor : Users, row : PageCommentThread]

AnchorCalls ==
  [op : {"update_draft", "restore_revision", "delete_page", "restore_page"},
   step : {"update"}, content : Contents, undisturbed : BOOLEAN,
   todo : SUBSET [thread : Threads, row : PageCommentThread]]

ThreadCalls == CreateCalls \union RowCalls \union AnchorCalls

TypeOK ==
  /\ PagesTypeOK
  /\ thread \in [Threads -> PageCommentThread \union {NoThread}]
  /\ messages \in [Threads -> 0 .. MaxMessages]
  /\ history \in [Threads -> Balance \union {NoThread}]
  /\ call \in [Calls -> PageCalls \union ThreadCalls \union {Idle}]

Init ==
  /\ PagesInit
  /\ thread = [t \in Threads |-> NoThread]
  /\ messages = [t \in Threads |-> 0]
  /\ history = [t \in Threads |-> NoThread]
  /\ call = [c \in Calls |-> Idle]

Once(S, v) == [x \in S |-> IF x = v THEN 1 ELSE 0]

\* What the history of a thread with this row comes to.
BalanceOf(row) ==
  [state |-> Once(ThreadStates, row.state), anchor |-> Once(AnchorStates, row.anchor),
   block |-> Once(Blocks, row.block)]

\* An event from one value to another; there is none if they are the same.
Moved(balance, from, to) ==
  IF from = to THEN balance ELSE [balance EXCEPT ![from] = @ - 1, ![to] = @ + 1]

Exists(t) == thread[t] # NoThread

\* Call c has written an anchor: every other reevaluation under way is
\* disturbed.  (The flag is history; nothing the code does depends on it.)
WriteAnchors(c, next) ==
  call' = [d \in Calls |->
    IF d = c THEN next
    ELSE IF call[d] # Idle /\ call[d].step = "update"
         THEN [call[d] EXCEPT !.undisturbed = FALSE] ELSE call[d]]

-----------------------------------------------------------------------------
(* Creating, replying, resolving, reopening.                               *)

\* The row of a new thread at block b of the draft.
NewThread(b, q) ==
  [state |-> "open", anchor |-> "active", block |-> b, text |-> TextOf(draft, b), quote |-> q,
   resolvedBy |-> Nobody]

InsertThread(c) ==
  /\ At(c, "create_thread", "write")
  /\ \E t \in Threads :
       /\ ~Exists(t)
       /\ thread' = [thread EXCEPT ![t] = call[c].row]
       /\ messages' = [messages EXCEPT ![t] = 1]
       /\ history' = [history EXCEPT ![t] = BalanceOf(call[c].row)]
  /\ WriteAnchors(c, Idle)
  /\ UNCHANGED pageTables

\* The row is made from the draft the call read, and inserted later.
CreateThread(c) ==
  \/ /\ page = "visible"
     /\ \E b \in Blocks, q \in Quotes \union {NoQuote} :
          /\ HasBlock(draft, b)
          /\ q # NoQuote => <<TextOf(draft, b), q>> \in Contains
          /\ Begin(c, [op |-> "create_thread", step |-> "write", row |-> NewThread(b, q)])
     /\ UNCHANGED <<pageTables, threadTables>>
  \/ InsertThread(c)

\* GetThread.
ReadThread(c, op) ==
  /\ \E t \in Threads, u \in Users :
       /\ Exists(t)
       /\ Begin(c, [op |-> op, step |-> "page", thread |-> t, actor |-> u, row |-> thread[t]])
  /\ UNCHANGED <<pageTables, threadTables>>

\* The page is visible to the actor, and there is something to do.
CheckThread(c, op) ==
  /\ At(c, op, "page")
  /\ page = "visible"
  /\ op = "resolve" => call[c].actor \in Editors /\ call[c].row.state = "open"
  /\ op = "reopen" => call[c].row.state = "resolved"
  /\ Proceed(c, "write")
  /\ UNCHANGED <<pageTables, threadTables>>

\* Mutant: the resolution stays in the row.
ReopenedKeepingResolution(row) == [row EXCEPT !.state = "open"]

Reopened(row) == [row EXCEPT !.state = "open", !.resolvedBy = Nobody]

Resolved(row, u) == [row EXCEPT !.state = "resolved", !.resolvedBy = u]

\* Mutant: a thread that was open when the call read it is left as it is.
PersistedAsRead(c) ==
  LET current == thread[call[c].thread] IN
  IF call[c].row.state = "resolved" THEN Reopened(call[c].row) ELSE current

\* What a reply writes of the thread's state, given the row as it is locked:
\* the row's own state, or if that is resolved, the copy of the call, which
\* has been reopened unless it was open.
Persisted(c) ==
  LET current == thread[call[c].thread]
      copy == call[c].row IN
  IF current.state # "resolved" THEN current
  ELSE IF copy.state = "resolved" THEN Reopened(copy) ELSE copy

AddReply(c) ==
  LET t == call[c].thread
      p == Persisted(c) IN
  /\ At(c, "reply", "write")
  /\ messages[t] < MaxMessages
  /\ messages' = [messages EXCEPT ![t] = @ + 1]
  /\ thread' = [thread EXCEPT ![t] =
       [@ EXCEPT !.state = p.state, !.resolvedBy = p.resolvedBy]]
  /\ history' =
       IF thread[t].state = "resolved" /\ p.state = "open"
       THEN [history EXCEPT ![t].state = Moved(@, "resolved", "open")] ELSE history
  /\ Return(c)
  /\ UNCHANGED pageTables

CreateReply(c) == ReadThread(c, "reply") \/ CheckThread(c, "reply") \/ AddReply(c)

\* Mutant: a recovered block is recorded only along with a change of the anchor state.
EventsOfStates(t, row) ==
  [state |-> Moved(history[t].state, thread[t].state, row.state),
   anchor |-> Moved(history[t].anchor, thread[t].anchor, row.anchor),
   block |-> IF thread[t].anchor = row.anchor THEN history[t].block
             ELSE Moved(history[t].block, thread[t].block, row.block)]

\* The events of a write: one for each of state, anchor and block that is not
\* what the locked row has.
EventsOf(t, row) ==
  [state |-> Moved(history[t].state, thread[t].state, row.state),
   anchor |-> Moved(history[t].anchor, thread[t].anchor, row.anchor),
   block |-> Moved(history[t].block, thread[t].block, row.block)]

UpdateThreadState(t, row) ==
  /\ thread' = [thread EXCEPT ![t] = row]
  /\ history' = [history EXCEPT ![t] = EventsOf(t, row)]
  /\ UNCHANGED messages

ResolveThread(c) ==
  \/ ReadThread(c, "resolve")
  \/ CheckThread(c, "resolve")
  \/ /\ At(c, "resolve", "write")
     /\ UpdateThreadState(call[c].thread, Resolved(call[c].row, call[c].actor))
     /\ WriteAnchors(c, Idle)
     /\ UNCHANGED pageTables

ReopenThread(c) ==
  \/ ReadThread(c, "reopen")
  \/ CheckThread(c, "reopen")
  \/ /\ At(c, "reopen", "write")
     /\ UpdateThreadState(call[c].thread, Reopened(call[c].row))
     /\ WriteAnchors(c, Idle)
     /\ UNCHANGED pageTables

-----------------------------------------------------------------------------
(* ReevaluatePageAnchors.                                                  *)

\* Mutant: a thread that is only to move to another block is skipped.
NeedsUpdateOfState(content, row) == Evaluate(content, row).anchor # row.anchor

NeedsUpdate(content, row) == ~Settled(content, row)

\* Mutant: a thread that is missing forgets its block.
ReanchoredNowhere(content, row) ==
  LET place == Evaluate(content, row) IN
  [row EXCEPT !.anchor = place.anchor,
              !.block = IF place.anchor = "missing" THEN "" ELSE place.block]

\* The copy of the row that is written back.
Reanchored(content, row) ==
  LET place == Evaluate(content, row) IN
  [row EXCEPT !.anchor = place.anchor, !.block = place.block]

\* ListThreads, and what the loop makes of it.
ListThreads(c) ==
  /\ Reevaluating(c)
  /\ call' = [call EXCEPT ![c] =
       [op |-> @.op, step |-> "update", content |-> @.content, undisturbed |-> TRUE,
        todo |-> {[thread |-> t, row |-> Reanchored(@.content, thread[t])] :
                    t \in {s \in Threads : Exists(s) /\ NeedsUpdate(@.content, thread[s])}}]]
  /\ UNCHANGED <<pageTables, threadTables>>

UpdateAnchor(c) ==
  /\ call[c] # Idle /\ call[c].step = "update"
  /\ \E u \in call[c].todo :
       /\ UpdateThreadState(u.thread, u.row)
       /\ WriteAnchors(c, [call[c] EXCEPT !.todo = @ \ {u}])
  /\ UNCHANGED pageTables

\* The loop is done.
AnchorsDone(c) ==
  /\ call[c] # Idle /\ call[c].step = "update"
  /\ call[c].todo = {}
  /\ FinishReevaluation(c)
  /\ UNCHANGED <<pageTables, threadTables>>

-----------------------------------------------------------------------------
Next ==
  \/ CreatePage /\ UNCHANGED threadTables
  \/ \E c \in Calls :
       \/ PageStep(c) /\ UNCHANGED threadTables
       \/ CreateThread(c)
       \/ CreateReply(c)
       \/ ResolveThread(c)
       \/ ReopenThread(c)
       \/ ListThreads(c)
       \/ UpdateAnchor(c)
       \/ AnchorsDone(c)
       \/ Abort(c) /\ UNCHANGED threadTables

Spec == Init /\ [][Next]_vars

-----------------------------------------------------------------------------
(* Properties.                                                             *)

\* A thread is resolved by somebody or open, in every row that calls with
\* stale copies write over each other.
Coherent(row) == row.state = "resolved" <=> row.resolvedBy # Nobody
ResolvedBySomebody == \A t \in Threads : Exists(t) => Coherent(thread[t])

\* The event history accounts for the row, in whatever order it is listed: from
\* its creation on, a thread has entered the state, the anchor state and the
\* block of its row once more than it has left them, and every other as often,
\* also after a write that undid another call's.
HistoryAccountsForRow ==
  \A t \in Threads : Exists(t) => history[t] = BalanceOf(thread[t])

\* A reply leaves its thread open, whatever became of the thread since the
\* call read it.
ReplyOpens ==
  \A t \in Threads : messages'[t] > messages[t] => thread'[t].state = "open"
RepliesLeaveOpen == [][ReplyOpens]_vars

\* A reevaluation that no other write to an anchor came between leaves every
\* thread where the content says it is, so that doing it again would change
\* nothing.  (With two blocks of one id, a recovered thread may still change.)
ReevaluationSettles ==
  \A c \in Calls :
    /\ call[c] # Idle /\ call[c].step = "update"
    /\ call[c].todo = {} /\ call[c].undisturbed
    /\ DistinctIds(call[c].content)
    => \A t \in Threads : Exists(t) => Settled(call[c].content, thread[t])

-----------------------------------------------------------------------------
(* The inductive invariant.                                                *)

\* Row new is row old, moved to where the content says it is.
Moves(content, old, new) ==
  /\ new.text = old.text /\ new.quote = old.quote
  /\ Evaluate(content, old) = [anchor |-> new.anchor, block |-> new.block]

\* Whatever is not where the content says has its update in hand.
InHand(r) ==
  /\ \A u \in r.todo : Moves(r.content, thread[u.thread], u.row)
  /\ \A t \in Threads : Exists(t) =>
       Settled(r.content, thread[t]) \/ \E u \in r.todo : u.thread = t

\* Copies of rows are coherent and of threads that exist, a thread is updated
\* once in a loop, and the loop has every update in hand unless another write
\* came between.
CallOK(r) ==
  /\ r.op = "create_thread" => Coherent(r.row) /\ r.row.state = "open"
  /\ r.op \in {"reply", "resolve", "reopen"} => Exists(r.thread) /\ Coherent(r.row)
  /\ r.step = "update" =>
       /\ \A u \in r.todo : Exists(u.thread) /\ Coherent(u.row)
       /\ \A u, v \in r.todo : u.thread = v.thread => u = v
       /\ r.undisturbed /\ DistinctIds(r.content) => InHand(r)

CallsConsistent == \A c \in Calls : call[c] # Idle => CallOK(call[c])

IInv == TypeOK /\ ResolvedBySomebody /\ HistoryAccountsForRow /\ CallsConsistent
=============================================================================
