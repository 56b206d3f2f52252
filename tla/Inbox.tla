------------------------------- MODULE Inbox -------------------------------
(***************************************************************************)
(* The notifications table and its unread counters                         *)
(* (internal/repository/postgres/notification_repository.go).              *)
(*                                                                         *)
(* Every operation is one READ COMMITTED transaction of several            *)
(* statements: it writes notification rows one by one, then moves the      *)
(* counters of the users it wrote for, in the order of a Go map, and       *)
(* commits.  What it writes is locked until then and seen by nobody else,  *)
(* so transactions that overlap wait for each other, in any order, and     *)
(* can wait in a circle.  A batch is taken to be written in any order.     *)
(*                                                                         *)
(* A notification is identified within its user's inbox by its unique key: *)
(* (type, event_id), or the invitation it is about.                        *)
(***************************************************************************)
EXTENDS Integers, FiniteSets

CONSTANTS
  Users,
  Keys,     \* notification keys
  Batches,  \* sets of <<user, key>> that one delivery may insert
  Cards,    \* the <<user, key>> that tell a user of an invitation, as it stands
  Txs       \* transactions open at one time

ASSUME InboxAssumption ==
  /\ IsFiniteSet(Users) /\ IsFiniteSet(Keys)
  /\ Batches \subseteq SUBSET (Users \X Keys)
  /\ Cards \subseteq Users \X Keys

VARIABLES
  row,      \* row[u, k], as committed: "absent", "unread" or "read"
  counter,  \* counter[u], as committed; 0 while there is no row
  tx        \* tx[t]: transaction t, or Idle

vars == <<row, counter, tx>>

\* batch: the rows asked for; todo: those it has not come to; wrote: those it
\* has inserted or marked; held: those it has rewritten, leaving the read state;
\* counted: the users whose counter it has moved;
\* needs: the row or the counter, in a singleton, that its statement must lock.
Transactions ==
  [op : {"deliver", "upsert", "read"}, batch : SUBSET (Users \X Keys), todo : SUBSET (Users \X Keys),
   wrote : SUBSET (Users \X Keys), held : SUBSET (Users \X Keys), counted : SUBSET Users,
   needs : SUBSET ((Users \X Keys) \union Users)]

Idle == [op |-> "idle"]

TypeOK ==
  /\ row \in [Users \X Keys -> {"absent", "unread", "read"}]
  /\ counter \in [Users -> Nat]
  /\ tx \in [Txs -> Transactions \union {Idle}]

Init ==
  /\ row = [p \in Users \X Keys |-> "absent"]
  /\ counter = [u \in Users |-> 0]
  /\ tx = [t \in Txs |-> Idle]

Open(t) == tx[t] # Idle

\* The rows and counters t has locked.
Locks(t) == IF Open(t) THEN tx[t].wrote \union tx[t].held \union tx[t].counted ELSE {}

\* ON CONFLICT DO NOTHING waits for nobody to find that its row is there
\* already; DO UPDATE waits for the row.
Present(t, x) == tx[t].op = "deliver" /\ x \in Users \X Keys /\ row[x] # "absent"

Free(t, x) == Present(t, x) \/ \A s \in Txs \ {t} : x \notin Locks(s)

-----------------------------------------------------------------------------
Begin(t, op, B) ==
  /\ ~Open(t)
  /\ tx' = [tx EXCEPT ![t] =
       [op |-> op, batch |-> B, todo |-> B, wrote |-> {}, held |-> {}, counted |-> {}, needs |-> {}]]
  /\ UNCHANGED <<row, counter>>

\* The deliveries: CreateMany and CreateCommentAndMentionNotifications insert
\* a batch, Create one row; rows that are there are left alone.
CreateMany(t) == \E B \in Batches : Begin(t, "deliver", B)

\* The card of an invitation is inserted, or rewritten with its read state kept.
UpsertInvitationLive(t) == \E p \in Cards : Begin(t, "upsert", {p})

\* One notification that the user owns, or several; an unknown id is refused.
MarkRead(t) ==
  \E p \in Users \X Keys : row[p] # "absent" /\ Begin(t, "read", {p})

BatchMarkRead(t) ==
  \E u \in Users, S \in SUBSET Keys :
    /\ Cardinality(S) > 1
    /\ \A k \in S : row[u, k] # "absent"
    /\ Begin(t, "read", {u} \X S)

-----------------------------------------------------------------------------
\* Mutant: the conflict updates is_read as well.
AffectsAgain(t, p) ==
  IF tx[t].op = "read" THEN row[p] = "unread" ELSE row[p] \in {"absent", "read"}

\* The statement changes the read state of row p: ON CONFLICT, and
\* is_read = FALSE.
Affects(t, p) == IF tx[t].op = "read" THEN row[p] = "unread" ELSE row[p] = "absent"

WriteRow(t) ==
  /\ Open(t)
  /\ \E p \in tx[t].todo :
       /\ tx[t].needs = {p} /\ Free(t, p)
       /\ tx' = [tx EXCEPT ![t] =
            [tx[t] EXCEPT !.todo = @ \ {p}, !.needs = {},
                          !.wrote = IF Affects(t, p) THEN @ \union {p} ELSE @,
                          !.held = IF tx[t].op = "upsert" THEN @ \union {p} ELSE @]]
  /\ UNCHANGED <<row, counter>>

\* Mutant: rows that were there already are counted too.
DeltaOfBatch(t, u) == Cardinality({k \in Keys : <<u, k>> \in tx[t].batch})

\* By how much t moves u's counter.
Delta(t, u) == Cardinality({k \in Keys : <<u, k>> \in tx[t].wrote})

Uncounted(t) == {u \in Users : Delta(t, u) > 0} \ tx[t].counted

MoveCounter(t) ==
  /\ Open(t)
  /\ \E u \in Uncounted(t) :
       /\ tx[t].needs = {u} /\ Free(t, u)
       /\ tx' = [tx EXCEPT ![t] =
            [tx[t] EXCEPT !.counted = @ \union {u}, !.needs = {}]]
  /\ UNCHANGED <<row, counter>>

\* The next statement is sent: the rows come first, then the counters.
Statement(t) ==
  /\ Open(t)
  /\ tx[t].needs = {}
  /\ \E x \in IF tx[t].todo # {} THEN tx[t].todo ELSE Uncounted(t) :
       tx' = [tx EXCEPT ![t] = [tx[t] EXCEPT !.needs = {x}]]
  /\ UNCHANGED <<row, counter>>

Larger(x, y) == IF x >= y THEN x ELSE y

\* Mutant: reading takes off as many as were asked for, and may go below zero.
NewCountByRequest(t, u) ==
  IF tx[t].op # "read" THEN counter[u] + Delta(t, u)
  ELSE counter[u] - Cardinality({k \in Keys : <<u, k>> \in tx[t].batch})

NewCount(t, u) ==
  IF tx[t].op # "read" THEN counter[u] + Delta(t, u)
  ELSE Larger(0, counter[u] - Delta(t, u))

Commit(t) ==
  /\ Open(t)
  /\ tx[t].todo = {} /\ Uncounted(t) = {}
  /\ row' = [p \in Users \X Keys |->
       IF p \notin tx[t].wrote THEN row[p]
       ELSE IF tx[t].op = "read" THEN "read" ELSE "unread"]
  /\ counter' = [u \in Users |-> IF u \in tx[t].counted THEN NewCount(t, u) ELSE counter[u]]
  /\ tx' = [tx EXCEPT ![t] = Idle]

\* Mutant: the deferred rollback is missing; the transaction keeps its locks.
RollbackForgotten(t) == UNCHANGED vars

Rollback(t) ==
  /\ tx' = [tx EXCEPT ![t] = Idle]
  /\ UNCHANGED <<row, counter>>

\* A statement fails, the request is cancelled or the process dies.
Abort(t) == Open(t) /\ Rollback(t)

-----------------------------------------------------------------------------
(* PostgreSQL's deadlock detector.                                         *)

WaitsFor(t, s) ==
  /\ s # t /\ Open(t)
  /\ \E x \in tx[t].needs : x \in Locks(s) /\ ~Present(t, x)

\* Somebody in a circle of transactions that wait for each other is rolled back.
DeadlockAbort ==
  \E S \in (SUBSET Txs) \ {{}} :
    /\ \A t \in S : (\E s \in S : WaitsFor(t, s)) /\ (\E s \in S : WaitsFor(s, t))
    /\ \E t \in S : Rollback(t)

-----------------------------------------------------------------------------
Next ==
  \/ \E t \in Txs :
       \/ CreateMany(t)
       \/ UpsertInvitationLive(t)
       \/ MarkRead(t)
       \/ BatchMarkRead(t)
       \/ Statement(t)
       \/ WriteRow(t)
       \/ MoveCounter(t)
       \/ Commit(t)
       \/ Abort(t)
  \/ DeadlockAbort

Go(t) == Statement(t) \/ WriteRow(t) \/ MoveCounter(t) \/ Commit(t)

\* A transaction goes on; a lock goes to those who wait for it in turn; the
\* detector breaks circles.
Fairness == WF_vars(DeadlockAbort) /\ \A t \in Txs : SF_vars(Go(t))

SafeSpec == Init /\ [][Next]_vars
Spec == SafeSpec /\ Fairness

-----------------------------------------------------------------------------
(* Properties.                                                             *)

UnreadKeys(u) == {k \in Keys : row[u, k] = "unread"}

\* The counter is the number of unread rows, in every committed state: what
\* deliveries that overlap, are repeated, or race with reads of the same rows
\* add and take off is exactly what they changed.
CounterMatchesRows == \A u \in Users : counter[u] = Cardinality(UnreadKeys(u))

\* What an open transaction has written: rows asked for, still in the state
\* its statements found them in, and nobody else's.
TxsConsistent ==
  \A t \in Txs :
    Open(t) =>
      /\ tx[t].todo \subseteq tx[t].batch
      /\ tx[t].wrote \subseteq tx[t].batch \ tx[t].todo
      /\ \A p \in tx[t].wrote : Affects(t, p)
      /\ \A p \in tx[t].batch : p \notin tx[t].todo \union tx[t].wrote => ~Affects(t, p)
      /\ \A s \in Txs \ {t} : Open(s) => tx[s].wrote \intersect tx[t].wrote = {}
      /\ tx[t].counted \subseteq {u \in Users : Delta(t, u) > 0}
      /\ tx[t].op = "deliver" => tx[t].batch \in Batches
      /\ tx[t].op = "upsert" => \E p \in Cards : tx[t].batch = {p}
      /\ tx[t].op = "read" =>
           /\ \E u \in Users : tx[t].batch \subseteq {u} \X Keys
           /\ \A p \in tx[t].batch : row[p] # "absent"

\* The inductive invariant.
IInv == TypeOK /\ TxsConsistent /\ CounterMatchesRows

Ledger == INSTANCE UnreadLedger WITH count <- counter

\* The transactions look atomic: deliveries are all or nothing and happen
\* once per recipient, reads are for good, and the count is always right.
ImplementsLedger == Ledger!Spec

\* No request hangs: transactions that wait for each other's rows and
\* counters end, by committing or by being rolled back.
TxsEnd == \A t \in Txs : Open(t) ~> ~Open(t)
=============================================================================
