---------------------------- MODULE InboxProofs ----------------------------
(***************************************************************************)
(* Proofs about Inbox, for any sets of users, keys and deliveries and any  *)
(* number of transactions: the counters are exact, and the transactions    *)
(* implement the atomic steps of UnreadLedger.  A step of one transaction  *)
(* before its commit is dealt with once (QuietStep).                       *)
(***************************************************************************)
EXTENDS Inbox, FiniteSetTheorems, TLAPS

\* What u was written by the record r of a transaction.
WrittenFor(r, u) == {k \in Keys : <<u, k>> \in r.wrote}

\* What the invariant asks of the record r of an open transaction.
RecordOK(r) ==
  /\ r \in Transactions
  /\ r.todo \subseteq r.batch
  /\ r.wrote \subseteq r.batch \ r.todo
  /\ \A p \in r.wrote : row[p] = IF r.op = "read" THEN "unread" ELSE "absent"
  /\ \A p \in r.batch : p \notin r.todo \union r.wrote =>
       row[p] # IF r.op = "read" THEN "unread" ELSE "absent"
  /\ \A u \in r.counted : u \in Users /\ WrittenFor(r, u) # {}
  /\ r.op = "deliver" => r.batch \in Batches
  /\ r.op = "upsert" => \E p \in Cards : r.batch = {p}
  /\ r.op = "read" =>
       /\ \E u \in Users : r.batch \subseteq {u} \X Keys
       /\ \A p \in r.batch : row[p] # "absent"

\* Sets of keys are finite, so a positive count is a non-empty set.
LEMMA CountPositive ==
  ASSUME NEW K \in SUBSET Keys
  PROVE  /\ IsFiniteSet(K)
         /\ Cardinality(K) \in Nat
         /\ Cardinality(K) > 0 <=> K # {}
  <1>1. IsFiniteSet(K)
    BY FS_Subset, InboxAssumption
  <1>2. Cardinality(K) \in Nat
    BY <1>1, FS_CardinalityType
  <1>3. Cardinality(K) = 0 <=> K = {}
    BY <1>1, FS_EmptySet
  <1>. QED
    BY <1>1, <1>2, <1>3

LEMMA RecordsOK ==
  ASSUME IInv, NEW t \in Txs
  PROVE  /\ Open(t) => RecordOK(tx[t])
         /\ ~Open(t) => tx[t] = Idle
  <1> SUFFICES ASSUME Open(t) PROVE RecordOK(tx[t])
    BY DEF Open
  <1>1. tx[t] \in Transactions
    BY DEF IInv, TypeOK, Open
  <1>2. \A u \in tx[t].counted : u \in Users /\ WrittenFor(tx[t], u) # {}
    BY CountPositive DEF IInv, TxsConsistent, Delta, WrittenFor
  <1>. QED
    BY <1>1, <1>2 DEF IInv, TxsConsistent, Affects, RecordOK

-----------------------------------------------------------------------------
LEMMA InitIInv == Init => IInv
  <1> SUFFICES ASSUME Init PROVE IInv
    OBVIOUS
  <1>1. TypeOK
    BY DEF Init, TypeOK
  <1>2. TxsConsistent
    BY DEF Init, TxsConsistent, Open
  <1>3. CounterMatchesRows
    <2> SUFFICES ASSUME NEW u \in Users PROVE counter[u] = Cardinality(UnreadKeys(u))
      BY DEF CounterMatchesRows
    <2>1. UnreadKeys(u) = {}
      BY DEF Init, UnreadKeys
    <2>. QED
      BY <2>1, FS_EmptySet DEF Init
  <1>. QED
    BY <1>1, <1>2, <1>3 DEF IInv

\* While a transaction has not committed nobody sees it: it is enough that
\* its record is in order, and shares no written row with another.
LEMMA QuietStep ==
  ASSUME IInv, NEW t \in Txs, NEW r,
         r = Idle \/ RecordOK(r),
         r # Idle => \A s \in Txs \ {t} : Open(s) => tx[s].wrote \intersect r.wrote = {},
         tx' = [tx EXCEPT ![t] = r], UNCHANGED <<row, counter>>
  PROVE  IInv'
  <1>1. /\ tx'[t] = r
        /\ \A s \in Txs \ {t} : tx'[s] = tx[s]
    BY DEF IInv, TypeOK
  <1>2. TypeOK'
    BY DEF IInv, TypeOK, RecordOK
  <1>3. TxsConsistent'
    <2> SUFFICES ASSUME NEW q \in Txs, tx'[q] # Idle
                 PROVE  /\ RecordOK(tx'[q])
                        /\ \A s \in Txs \ {q} : tx'[s] # Idle => tx'[s].wrote \intersect tx'[q].wrote = {}
      <3>1. \A q \in Txs, u \in Users :
              Cardinality({k \in Keys : <<u, k>> \in tx'[q].wrote}) > 0
                <=> WrittenFor(tx'[q], u) # {}
        BY CountPositive DEF WrittenFor
      <3>. QED
        BY <3>1 DEF TxsConsistent, RecordOK, Affects, Open, Delta
    <2>1. CASE q = t
      BY <1>1, <2>1 DEF Open
    <2>2. CASE q # t
      <3>1. RecordOK(tx[q]) /\ tx'[q] = tx[q]
        BY <1>1, <2>2, RecordsOK DEF Open
      <3>. QED
        BY <1>1, <2>2, <3>1 DEF IInv, TxsConsistent, Open
    <2>. QED
      BY <2>1, <2>2
  <1>4. CounterMatchesRows'
    BY DEF IInv, CounterMatchesRows, UnreadKeys
  <1>. QED
    BY <1>2, <1>3, <1>4 DEF IInv

LEMMA BeginIInv ==
  ASSUME IInv, NEW t \in Txs, NEW op \in {"deliver", "upsert", "read"}, NEW B \in SUBSET (Users \X Keys),
         op = "deliver" => B \in Batches,
         op = "upsert" => \E p \in Cards : B = {p},
         op = "read" => /\ \E u \in Users : B \subseteq {u} \X Keys
                        /\ \A p \in B : row[p] # "absent",
         Begin(t, op, B)
  PROVE  IInv'
  <1> DEFINE r == [op |-> op, batch |-> B, todo |-> B, wrote |-> {}, held |-> {}, counted |-> {}, needs |-> {}]
  <1>1. r \in Transactions
    BY DEF Transactions
  <1>2. RecordOK(r)
    BY <1>1 DEF RecordOK
  <1>. QED
    BY <1>2, QuietStep DEF Begin

LEMMA CreateManyIInv ==
  ASSUME IInv, NEW t \in Txs, CreateMany(t)
  PROVE  IInv'
  BY BeginIInv, InboxAssumption DEF CreateMany

LEMMA UpsertIInv ==
  ASSUME IInv, NEW t \in Txs, UpsertInvitationLive(t)
  PROVE  IInv'
  <1>1. PICK p \in Cards : Begin(t, "upsert", {p})
    BY DEF UpsertInvitationLive
  <1>2. {p} \in SUBSET (Users \X Keys)
    BY InboxAssumption
  <1>. QED
    BY <1>1, <1>2, BeginIInv

LEMMA MarkReadIInv ==
  ASSUME IInv, NEW t \in Txs, MarkRead(t)
  PROVE  IInv'
  <1> PICK p \in Users \X Keys : row[p] # "absent" /\ Begin(t, "read", {p})
    BY DEF MarkRead
  <1>1. PICK u \in Users, k \in Keys : p = <<u, k>>
    OBVIOUS
  <1>2. {p} \subseteq {u} \X Keys
    BY <1>1
  <1>. QED
    BY <1>2, BeginIInv

LEMMA BatchMarkReadIInv ==
  ASSUME IInv, NEW t \in Txs, BatchMarkRead(t)
  PROVE  IInv'
  <1>1. PICK u \in Users, S \in SUBSET Keys :
          (\A k \in S : row[u, k] # "absent") /\ Begin(t, "read", {u} \X S)
    BY DEF BatchMarkRead
  <1>2. PICK B : B = {u} \X S
    OBVIOUS
  <1>3. B \subseteq {u} \X Keys /\ B \subseteq Users \X Keys
    BY <1>2
  <1>4. \A p \in B : row[p] # "absent"
    <2>1. \A k \in S : row[u, k] # "absent"
      BY <1>1
    <2> SUFFICES ASSUME NEW p \in B PROVE row[p] # "absent"
      OBVIOUS
    <2>2. PICK v \in {u}, k \in S : p = <<v, k>>
      BY <1>2
    <2>. QED
      BY <2>1, <2>2
  <1>5. Begin(t, "read", B)
    BY <1>1, <1>2, Zenon
  <1>. QED
    BY <1>3, <1>4, <1>5, BeginIInv

\* A record that counts more users it wrote for is still in order.
LEMMA RecordCounts ==
  ASSUME NEW r, RecordOK(r), NEW x \in Transactions,
         x.op = r.op, x.batch = r.batch, x.todo = r.todo, x.wrote = r.wrote,
         \A u \in x.counted : u \in r.counted \/ (u \in Users /\ WrittenFor(r, u) # {})
  PROVE  RecordOK(x)
  BY DEF RecordOK, WrittenFor

LEMMA StatementIInv ==
  ASSUME IInv, NEW t \in Txs, Statement(t)
  PROVE  IInv'
  <1>1. RecordOK(tx[t])
    BY RecordsOK DEF Statement
  <1>2. tx[t].todo \in SUBSET (Users \X Keys) /\ Uncounted(t) \in SUBSET Users
    BY <1>1 DEF RecordOK, Transactions, Uncounted
  <1>3. PICK x \in (Users \X Keys) \union Users : tx' = [tx EXCEPT ![t] = [tx[t] EXCEPT !.needs = {x}]]
    BY <1>2 DEF Statement
  <1>4. PICK r : r = [tx[t] EXCEPT !.needs = {x}]
    OBVIOUS
  <1>5. /\ r \in Transactions /\ r.op = tx[t].op /\ r.batch = tx[t].batch
        /\ r.todo = tx[t].todo /\ r.wrote = tx[t].wrote /\ r.counted = tx[t].counted
    BY <1>1, <1>4 DEF RecordOK, Transactions
  <1>6. RecordOK(r)
    BY <1>1, <1>5, RecordCounts
  <1>7. \A s \in Txs \ {t} : Open(s) => tx[s].wrote \intersect r.wrote = {}
    BY <1>5 DEF IInv, TxsConsistent, Statement
  <1>8. tx' = [tx EXCEPT ![t] = r] /\ UNCHANGED <<row, counter>>
    BY <1>3, <1>4 DEF Statement
  <1>. QED
    BY <1>6, <1>7, <1>8, QuietStep

LEMMA MoveCounterIInv ==
  ASSUME IInv, NEW t \in Txs, MoveCounter(t)
  PROVE  IInv'
  <1>1. RecordOK(tx[t])
    BY RecordsOK DEF MoveCounter
  <1>2. PICK u \in Uncounted(t) :
          tx' = [tx EXCEPT ![t] = [tx[t] EXCEPT !.counted = @ \union {u}, !.needs = {}]]
    BY DEF MoveCounter
  <1>3. u \in Users /\ WrittenFor(tx[t], u) # {}
    BY CountPositive DEF Uncounted, Delta, WrittenFor
  <1>4. PICK r : r = [tx[t] EXCEPT !.counted = @ \union {u}, !.needs = {}]
    OBVIOUS
  <1>5. /\ r \in Transactions /\ r.op = tx[t].op /\ r.batch = tx[t].batch
        /\ r.todo = tx[t].todo /\ r.wrote = tx[t].wrote /\ r.counted = tx[t].counted \union {u}
    BY <1>1, <1>3, <1>4 DEF RecordOK, Transactions
  <1>6. RecordOK(r)
    BY <1>1, <1>3, <1>5, RecordCounts
  <1>7. \A s \in Txs \ {t} : Open(s) => tx[s].wrote \intersect r.wrote = {}
    BY <1>5 DEF IInv, TxsConsistent, MoveCounter
  <1>8. tx' = [tx EXCEPT ![t] = r] /\ UNCHANGED <<row, counter>>
    BY <1>2, <1>4 DEF MoveCounter
  <1>. QED
    BY <1>6, <1>7, <1>8, QuietStep

\* The statement has an effect on row p.
Hits(r, p) == row[p] = IF r.op = "read" THEN "unread" ELSE "absent"

\* A record that has come to row p, and wrote it if it had to, is still in order.
LEMMA RecordWrites ==
  ASSUME NEW r, RecordOK(r), NEW p \in r.todo, NEW x \in Transactions,
         x.op = r.op, x.batch = r.batch, x.counted = r.counted, x.todo = r.todo \ {p},
         x.wrote = IF Hits(r, p) THEN r.wrote \union {p} ELSE r.wrote
  PROVE  RecordOK(x)
  <1>1. x.todo \subseteq x.batch /\ x.wrote \subseteq x.batch \ x.todo
    BY DEF RecordOK
  <1>2. \A q \in x.wrote : Hits(x, q)
    BY DEF RecordOK, Hits
  <1>3. \A q \in x.batch : q \notin x.todo \union x.wrote => ~Hits(x, q)
    <2> SUFFICES ASSUME NEW q \in x.batch, q \notin x.todo, q \notin x.wrote
                 PROVE  ~Hits(x, q)
      OBVIOUS
    <2>1. CASE q = p
      BY <2>1 DEF Hits
    <2>2. CASE q # p
      BY <2>2 DEF RecordOK, Hits
    <2>. QED
      BY <2>1, <2>2
  <1>4. \A u \in x.counted : u \in Users /\ WrittenFor(x, u) # {}
    BY DEF RecordOK, WrittenFor
  <1>. QED
    BY <1>1, <1>2, <1>3, <1>4 DEF RecordOK, Hits

\* A row that has to be written is locked by nobody else, or it would be
\* there already and an insert not affect it.
LEMMA WriteRowIInv ==
  ASSUME IInv, NEW t \in Txs, WriteRow(t)
  PROVE  IInv'
  <1>1. RecordOK(tx[t])
    BY RecordsOK DEF WriteRow
  <1>2. PICK p \in tx[t].todo :
          /\ Free(t, p)
          /\ tx' = [tx EXCEPT ![t] =
               [tx[t] EXCEPT !.todo = @ \ {p}, !.needs = {},
                             !.wrote = IF Affects(t, p) THEN @ \union {p} ELSE @,
                             !.held = IF tx[t].op = "upsert" THEN @ \union {p} ELSE @]]
    BY DEF WriteRow
  <1>3. PICK W : W = IF Affects(t, p) THEN tx[t].wrote \union {p} ELSE tx[t].wrote
    OBVIOUS
  <1>10. PICK H : H = IF tx[t].op = "upsert" THEN tx[t].held \union {p} ELSE tx[t].held
    OBVIOUS
  <1>4. PICK r : r = [tx[t] EXCEPT !.todo = @ \ {p}, !.needs = {}, !.wrote = W, !.held = H]
    OBVIOUS
  <1>11. H \in SUBSET (Users \X Keys)
    BY <1>1, <1>10 DEF RecordOK, Transactions
  <1>5. /\ W \in SUBSET (Users \X Keys)
        /\ W = IF Hits(tx[t], p) THEN tx[t].wrote \union {p} ELSE tx[t].wrote
    BY <1>1, <1>3 DEF RecordOK, Transactions, Affects, Hits
  <1>6. /\ r \in Transactions /\ r.op = tx[t].op /\ r.batch = tx[t].batch
        /\ r.todo = tx[t].todo \ {p} /\ r.wrote = W /\ r.counted = tx[t].counted
    BY <1>1, <1>4, <1>5, <1>11 DEF RecordOK, Transactions
  <1>7. RecordOK(r)
    BY <1>1, <1>5, <1>6, RecordWrites
  <1>8. \A s \in Txs \ {t} : Open(s) => tx[s].wrote \intersect r.wrote = {}
    <2>1. ASSUME Affects(t, p), NEW s \in Txs \ {t}, Open(s) PROVE p \notin tx[s].wrote
      BY <1>1, <1>2, <2>1 DEF Free, Present, Affects, Locks, RecordOK, Transactions
    <2>. QED
      BY <1>3, <1>6, <2>1 DEF IInv, TxsConsistent, WriteRow
  <1>9. tx' = [tx EXCEPT ![t] = r] /\ UNCHANGED <<row, counter>>
    BY <1>2, <1>3, <1>10, <1>4 DEF WriteRow
  <1>. QED
    BY <1>7, <1>8, <1>9, QuietStep

LEMMA RollbackIInv ==
  ASSUME IInv, NEW t \in Txs, Rollback(t)
  PROVE  IInv'
  BY QuietStep DEF Rollback

-----------------------------------------------------------------------------
\* What a commit does to one user: every row written for the user is unread
\* from now on, having been absent, or read, having been unread.
LEMMA CommitUser ==
  ASSUME IInv, NEW t \in Txs, Commit(t), NEW u \in Users
  PROVE  counter'[u] = Cardinality(UnreadKeys(u))'
  <1> DEFINE W == WrittenFor(tx[t], u)
             U == UnreadKeys(u)
             V == {k \in Keys : row'[u, k] = "unread"}
  <1>1. RecordOK(tx[t])
    BY RecordsOK DEF Commit
  <1>2. /\ IsFiniteSet(W) /\ Cardinality(W) \in Nat /\ (Cardinality(W) > 0 <=> W # {})
        /\ IsFiniteSet(U) /\ Cardinality(U) \in Nat
    BY CountPositive DEF WrittenFor, UnreadKeys
  <1>3. Delta(t, u) = Cardinality(W) /\ counter[u] = Cardinality(U)
    BY DEF Delta, WrittenFor, IInv, CounterMatchesRows
  <1>4. u \in tx[t].counted <=> W # {}
    BY <1>1, <1>2, <1>3 DEF Commit, Uncounted, RecordOK
  <1>5. \A k \in Keys : row'[u, k] =
          IF k \notin W THEN row[u, k]
          ELSE IF tx[t].op = "read" THEN "read" ELSE "unread"
    BY DEF Commit, WrittenFor
  <1>6. \A k \in W : row[u, k] = IF tx[t].op = "read" THEN "unread" ELSE "absent"
    BY <1>1 DEF RecordOK, WrittenFor
  <1>7. counter'[u] = IF W = {} THEN counter[u] ELSE NewCount(t, u)
    BY <1>4 DEF Commit
  <1>8. W \subseteq Keys /\ U \subseteq Keys /\ \A k \in Keys : k \in U <=> row[u, k] = "unread"
    BY DEF WrittenFor, UnreadKeys
  <1>9. counter'[u] = Cardinality(V)
    <2> HIDE DEF W, U
    <2>1. CASE W = {}
      <3>1. V = U
        BY <1>5, <1>8, <2>1
      <3>. QED
        BY <1>3, <1>7, <2>1, <3>1
    <2>2. CASE W # {} /\ tx[t].op # "read"
      <3>1. V = U \union W /\ U \intersect W = {}
        BY <1>5, <1>6, <1>8, <2>2
      <3>2. Cardinality(V) = Cardinality(U) + Cardinality(W)
        <4>1. Cardinality(U \union W) = Cardinality(U) + Cardinality(W) - Cardinality(U \intersect W)
          BY <1>2, FS_Union
        <4>2. Cardinality({}) = 0
          BY FS_EmptySet
        <4> HIDE DEF V
        <4>. QED
          BY <1>2, <3>1, <4>1, <4>2
      <3>. QED
        BY <1>3, <1>7, <2>2, <3>2 DEF NewCount
    <2>3. CASE W # {} /\ tx[t].op = "read"
      <3>1. V = U \ W /\ U \intersect W = W
        BY <1>5, <1>6, <1>8, <2>3
      <3>2. Cardinality(V) = Cardinality(U) - Cardinality(W)
        <4>1. Cardinality(U \ W) = Cardinality(U) - Cardinality(U \intersect W)
          BY <1>2, FS_Difference
        <4> HIDE DEF V
        <4>. QED
          BY <3>1, <4>1
      <3>3. Cardinality(V) \in Nat
        BY CountPositive
      <3> HIDE DEF V
      <3>. QED
        BY <1>2, <1>3, <1>7, <2>3, <3>2, <3>3 DEF NewCount, Larger
    <2>. QED
      BY <2>1, <2>2, <2>3
  <1>. QED
    BY <1>9 DEF UnreadKeys

LEMMA CommitIInv ==
  ASSUME IInv, NEW t \in Txs, Commit(t)
  PROVE  IInv'
  <1>1. RecordOK(tx[t])
    BY RecordsOK DEF Commit
  <1>2. /\ tx'[t] = Idle
        /\ \A s \in Txs \ {t} : tx'[s] = tx[s]
    BY DEF IInv, TypeOK, Commit
  <1>3. CounterMatchesRows'
    BY CommitUser DEF CounterMatchesRows
  <1>4. TypeOK'
    <2>1. row' \in [Users \X Keys -> {"absent", "unread", "read"}]
      BY DEF IInv, TypeOK, Commit
    <2>2. counter' \in [Users -> Nat]
      <3>1. counter' = [u \in Users |-> counter'[u]]
        BY DEF Commit
      <3>2. \A u \in Users : counter'[u] \in Nat
        <4> SUFFICES ASSUME NEW u \in Users PROVE counter'[u] \in Nat
          OBVIOUS
        <4>1. counter'[u] = Cardinality({k \in Keys : row'[u, k] = "unread"})
          BY CommitUser DEF UnreadKeys
        <4>. QED
          BY <4>1, CountPositive
      <3>. QED
        BY <3>1, <3>2
    <2>3. tx' \in [Txs -> Transactions \union {Idle}]
      BY DEF IInv, TypeOK, Commit
    <2>. QED
      BY <2>1, <2>2, <2>3 DEF TypeOK
  <1>5. TxsConsistent'
    <2> SUFFICES ASSUME NEW q \in Txs, q # t, tx[q] # Idle
                 PROVE  /\ RecordOK(tx[q])'
                        /\ \A s \in Txs \ {q} : tx'[s] # Idle => tx[s].wrote \intersect tx[q].wrote = {}
      <3>1. \A q \in Txs, u \in Users :
              Cardinality({k \in Keys : <<u, k>> \in tx'[q].wrote}) > 0
                <=> WrittenFor(tx'[q], u) # {}
        BY CountPositive DEF WrittenFor
      <3>. QED
        BY <1>2, <3>1 DEF TxsConsistent, RecordOK, Affects, Open, Delta
    <2>1. RecordOK(tx[q]) /\ tx'[q] = tx[q]
      BY <1>2, RecordsOK DEF Open
    <2>2. \A p \in tx[q].wrote : row'[p] = row[p]
      <3>1. tx[t].wrote \intersect tx[q].wrote = {}
        BY DEF Commit, IInv, TxsConsistent, Open
      <3>2. tx[q].wrote \subseteq Users \X Keys
        BY <2>1 DEF RecordOK, Transactions
      <3>. QED
        BY <3>1, <3>2 DEF Commit
    <2>. QED
      BY <1>1, <1>2, <2>1, <2>2 DEF IInv, TxsConsistent, Open, RecordOK, Commit, Transactions
  <1>. QED
    BY <1>3, <1>4, <1>5 DEF IInv

LEMMA NextIInv ==
  ASSUME IInv, [Next]_vars
  PROVE  IInv'
  <1>1. ASSUME NEW t \in Txs,
               CreateMany(t) \/ UpsertInvitationLive(t) \/ MarkRead(t) \/ BatchMarkRead(t) \/ Statement(t)
                 \/ WriteRow(t) \/ MoveCounter(t) \/ Commit(t) \/ Abort(t)
        PROVE  IInv'
    BY <1>1, CreateManyIInv, UpsertIInv, MarkReadIInv, BatchMarkReadIInv, StatementIInv, WriteRowIInv,
       MoveCounterIInv, CommitIInv, RollbackIInv DEF Abort
  <1>2. CASE DeadlockAbort
    <2>1. PICK t \in Txs : Rollback(t)
      BY <1>2 DEF DeadlockAbort
    <2>. QED
      BY <2>1, RollbackIInv
  <1>3. CASE UNCHANGED vars
    <2>1. TypeOK'
      BY <1>3 DEF IInv, vars, TypeOK
    <2>2. TxsConsistent'
      BY <1>3 DEF IInv, vars, TxsConsistent, Open, Affects, Delta
    <2>3. CounterMatchesRows'
      BY <1>3 DEF IInv, vars, CounterMatchesRows, UnreadKeys
    <2>. QED
      BY <2>1, <2>2, <2>3 DEF IInv
  <1>. QED
    BY <1>1, <1>2, <1>3 DEF Next

\* The strengthening holds in every reachable state.
THEOREM InboxInvariant == Spec => []IInv
  BY InitIInv, NextIInv, PTL DEF Spec, SafeSpec

\* Tables and transactions are type correct: in particular no counter is ever
\* below zero.
THEOREM InboxTypeCorrect == Spec => []TypeOK
  BY InboxInvariant, PTL DEF IInv

\* However deliveries and reads overlap, fail and are repeated, every committed
\* counter is the number of its user's unread rows.
THEOREM CountersAreExact == Spec => []CounterMatchesRows
  BY InboxInvariant, PTL DEF IInv

-----------------------------------------------------------------------------
\* A commit is one step of the ledger: a delivery of the whole batch, or the
\* reading of the keys that were asked for.
LEMMA CommitImplements ==
  ASSUME IInv, IInv', NEW t \in Txs, Commit(t)
  PROVE  Ledger!Next
  <1>1. RecordOK(tx[t]) /\ tx[t].todo = {}
    BY RecordsOK DEF Commit
  <1>2. Ledger!Recount
    <2>1. \A u \in Users : counter'[u] = Cardinality(Ledger!Unread(row', u))
      BY DEF IInv, CounterMatchesRows, UnreadKeys, Ledger!Unread
    <2>2. counter' = [u \in Users |-> counter'[u]]
      BY DEF Commit
    \* The instance has a copy of its own of the operator.
    <2>3. ASSUME NEW S PROVE Ledger!Cardinality(S) = Cardinality(S)
      BY DEF Ledger!Cardinality, Cardinality
    <2>4. [u \in Users |-> counter'[u]] = [u \in Users |-> Ledger!Cardinality(Ledger!Unread(row', u))]
      BY <2>1, <2>3
    <2>. QED
      BY <2>2, <2>4, Zenon DEF Ledger!Recount
  <1>3. CASE tx[t].op = "deliver"
    <2>1. \A p \in Users \X Keys :
            p \in tx[t].wrote <=> p \in tx[t].batch /\ row[p] = "absent"
      BY <1>1, <1>3 DEF RecordOK
    <2>2. row' = [p \in Users \X Keys |->
                    IF p \in tx[t].batch /\ row[p] = "absent" THEN "unread" ELSE row[p]]
      BY <1>3, <2>1 DEF Commit
    <2>. QED
      BY <1>1, <1>2, <1>3, <2>2 DEF Ledger!Next, Ledger!Deliver, RecordOK
  <1>5. CASE tx[t].op = "upsert"
    <2>1. PICK c \in Cards : tx[t].batch = {c}
      BY <1>1, <1>5 DEF RecordOK
    <2>2. \A p \in Users \X Keys :
            p \in tx[t].wrote <=> p \in {c} /\ row[p] = "absent"
      BY <1>1, <1>5, <2>1 DEF RecordOK
    <2>3. row' = [p \in Users \X Keys |->
                    IF p \in {c} /\ row[p] = "absent" THEN "unread" ELSE row[p]]
      BY <1>5, <2>2 DEF Commit
    <2>. QED
      BY <1>2, <2>3 DEF Ledger!Next, Ledger!Deliver
  <1>4. CASE tx[t].op = "read"
    <2>1. PICK u \in Users : tx[t].batch \subseteq {u} \X Keys
      BY <1>1, <1>4 DEF RecordOK
    <2>2. PICK S \in SUBSET Keys : S = {k \in Keys : <<u, k>> \in tx[t].batch}
      OBVIOUS
    <2>3. \A p \in Users \X Keys :
            p \in tx[t].wrote <=> p[1] = u /\ p[2] \in S /\ row[p] = "unread"
      <3> SUFFICES ASSUME NEW p \in Users \X Keys
                   PROVE  p \in tx[t].wrote <=> p[1] = u /\ p[2] \in S /\ row[p] = "unread"
        OBVIOUS
      <3>1. p \in tx[t].wrote <=> p \in tx[t].batch /\ row[p] = "unread"
        BY <1>1, <1>4 DEF RecordOK
      <3>2. p = <<p[1], p[2]>> /\ p[2] \in Keys
        OBVIOUS
      <3>3. p \in tx[t].batch => p[1] = u
        BY <2>1
      <3>. QED
        BY <2>2, <3>1, <3>2, <3>3
    <2>4. row' = [p \in Users \X Keys |->
                    IF p[1] = u /\ p[2] \in S /\ row[p] = "unread" THEN "read" ELSE row[p]]
      BY <1>4, <2>3 DEF Commit
    <2>. QED
      BY <1>2, <2>4 DEF Ledger!Next, Ledger!Read
  <1>. QED
    BY <1>1, <1>3, <1>5, <1>4 DEF RecordOK, Transactions

LEMMA NextImplements ==
  ASSUME IInv, IInv', [Next]_vars
  PROVE  [Ledger!Next]_<<row, counter>>
  <1>1. ASSUME NEW t \in Txs, Commit(t)
        PROVE  Ledger!Next
    BY <1>1, CommitImplements
  <1>2. ASSUME NEW t \in Txs,
               CreateMany(t) \/ UpsertInvitationLive(t) \/ MarkRead(t) \/ BatchMarkRead(t) \/ Statement(t)
                 \/ WriteRow(t) \/ MoveCounter(t) \/ Abort(t)
        PROVE  UNCHANGED <<row, counter>>
    BY <1>2, Zenon DEF CreateMany, UpsertInvitationLive, MarkRead, BatchMarkRead, Begin, Statement, WriteRow, MoveCounter,
       Abort, Rollback
  <1>3. CASE DeadlockAbort
    BY <1>3 DEF DeadlockAbort, Rollback
  <1>. QED
    BY <1>1, <1>2, <1>3 DEF Next, vars

\* Transactions of many statements that overlap and fail look like atomic
\* deliveries and reads.
THEOREM TransactionsAreAtomic == Spec => ImplementsLedger
  <1>1. Init => Ledger!Init
    BY DEF Init, Ledger!Init
  <1>2. IInv /\ IInv' /\ [Next]_vars => [Ledger!Next]_<<row, counter>>
    BY NextImplements
  <1>. QED
    BY <1>1, <1>2, InboxInvariant, PTL DEF Spec, SafeSpec, ImplementsLedger, Ledger!Spec
=============================================================================
