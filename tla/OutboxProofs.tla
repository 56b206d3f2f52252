---------------------------- MODULE OutboxProofs ----------------------------
(* Proofs about Outbox, for any events, workers, leases and limits.        *)
EXTENDS Outbox, TLAPS

LEMMA BackoffIsNat == \A n \in Nat : invitationProjectorBackoff(n) \in Nat
  <1> SUFFICES ASSUME NEW n \in Nat PROVE invitationProjectorBackoff(n) \in Nat
    OBVIOUS
  <1>1. CASE n <= 1
    BY <1>1 DEF invitationProjectorBackoff
  <1>2. CASE n >= 6
    BY <1>2 DEF invitationProjectorBackoff
  <1>3. CASE n > 1 /\ n < 6
    <2>1. n = 2 \/ n = 3 \/ n = 4 \/ n = 5
      BY <1>3
    <2>. QED
      BY <2>1 DEF invitationProjectorBackoff
  <1>. QED
    BY <1>1, <1>2, <1>3

LEMMA InitIInv == Init => IInv
  BY OutboxAssumption DEF Init, IInv, TypeOK, RowsWellFormed, WorkersConsistent,
    HandledBeforeProcessed, Statuses, Outcomes

LEMMA CreateManyIInv ==
  ASSUME IInv, NEW S \in SUBSET Events, CreateMany(S)
  PROVE  IInv'
  BY OutboxAssumption DEF IInv, TypeOK, RowsWellFormed, WorkersConsistent,
    HandledBeforeProcessed, Statuses, Outcomes, CreateMany, workerVars

LEMMA ClaimIInv ==
  ASSUME IInv, NEW w \in Workers, ClaimPendingByTopics(w)
  PROVE  IInv'
  <1> USE OutboxAssumption DEF IInv, ClaimPendingByTopics
  <1>1. PICK S \in SUBSET Claimable(w) :
          /\ status' = [e \in Events |-> IF e \in S THEN "processing" ELSE status[e]]
          /\ attempts' = [e \in Events |-> IF e \in S THEN attempts[e] + 1 ELSE attempts[e]]
          /\ claimedBy' = [e \in Events |-> IF e \in S THEN w ELSE claimedBy[e]]
          /\ leaseLeft' = [e \in Events |-> IF e \in S THEN leaseExpiresAt ELSE leaseLeft[e]]
          /\ batch' = [batch EXCEPT ![w] = S]
    OBVIOUS
  <1>2. S \subseteq Events /\ \A e \in S : status[e] \in {"pending", "processing"}
    BY <1>1 DEF Claimable
  <1>3. TypeOK'
    BY <1>1, <1>2 DEF TypeOK, Statuses, leaseExpiresAt
  <1>4. RowsWellFormed'
    BY <1>1, <1>2 DEF TypeOK, RowsWellFormed, leaseExpiresAt
  <1>5. WorkersConsistent'
    BY <1>1, <1>2 DEF TypeOK, WorkersConsistent
  <1>6. HandledBeforeProcessed'
    BY <1>1 DEF HandledBeforeProcessed
  <1>. QED
    BY <1>3, <1>4, <1>5, <1>6

LEMMA ProcessEventIInv ==
  ASSUME IInv, NEW w \in Workers, ProcessEvent(w)
  PROVE  IInv'
  <1> USE OutboxAssumption DEF IInv, ProcessEvent
  <1>1. PICK e \in batch[w], o \in Outcomes :
          /\ handling' = [handling EXCEPT ![w] = e]
          /\ outcome' = [outcome EXCEPT ![w] = o]
          /\ handled' \in Committed(o, e)
    OBVIOUS
  <1>2. /\ e \in Events /\ handled \subseteq handled' /\ handled' \subseteq Events
        /\ o = "done" => e \in handled'
    BY <1>1 DEF TypeOK, Committed, Outcomes
  <1>3. TypeOK'
    BY <1>1, <1>2 DEF TypeOK, rowVars, Outcomes
  <1>4. RowsWellFormed'
    BY DEF RowsWellFormed, rowVars
  <1>5. WorkersConsistent'
    BY <1>1, <1>2 DEF TypeOK, WorkersConsistent, rowVars, Outcomes
  <1>6. HandledBeforeProcessed'
    BY <1>2 DEF HandledBeforeProcessed, rowVars
  <1>. QED
    BY <1>3, <1>4, <1>5, <1>6

\* Whatever ends the handling of an event only shrinks batches.
LEMMA WorkerMovesOn ==
  ASSUME TypeOK, WorkersConsistent, NEW w \in Workers,
         NextEvent(w) \/ DropBatch(w),
         status' \in [Events -> Statuses],
         handled' = handled,
         \A e \in Events : status[e] # "absent" => status'[e] # "absent"
  PROVE  /\ WorkersConsistent'
         /\ batch' \in [Workers -> SUBSET Events]
         /\ handling' \in [Workers -> Events \union {NoEvent}]
         /\ outcome' \in [Workers -> Outcomes \union {"none"}]
         /\ batchAge' \in [Workers -> 0 .. Horizon]
  <1> USE OutboxAssumption
  <1>1. CASE NextEvent(w)
    <2>1. batch'[w] \subseteq batch[w] /\ \A v \in Workers \ {w} : batch'[v] = batch[v]
      BY <1>1 DEF NextEvent, TypeOK
    <2>2. WorkersConsistent'
      BY <1>1, <2>1 DEF NextEvent, TypeOK, WorkersConsistent
    <2>. QED
      BY <1>1, <2>2 DEF NextEvent, TypeOK
  <1>2. CASE DropBatch(w)
    BY <1>2 DEF DropBatch, TypeOK, WorkersConsistent
  <1>. QED
    BY <1>1, <1>2

LEMMA MarkIInv ==
  ASSUME IInv, NEW w \in Workers, Mark(w)
  PROVE  IInv'
  <1> USE OutboxAssumption DEF IInv
  <1>1. CASE MarkProcessed(w) \/ MarkDeadLetter(w)
    <2> DEFINE e == handling[w]
               final == IF MarkProcessed(w) THEN "processed" ELSE "dead_letter"
    <2>1. /\ e \in Events /\ status[e] = "processing"
          /\ NextEvent(w)
          /\ MarkProcessed(w) => e \in handled
      BY <1>1 DEF MarkProcessed, MarkDeadLetter, Owns, WorkersConsistent, TypeOK
    <2>2. /\ status' = [status EXCEPT ![e] = final]
          /\ leaseLeft' = [leaseLeft EXCEPT ![e] = 0]
          /\ UNCHANGED <<attempts, availableIn, claimedBy, handled, faults>>
      BY <1>1 DEF MarkProcessed, MarkDeadLetter
    <2>3. final \in {"processed", "dead_letter"} /\ (final = "processed" => MarkProcessed(w))
      OBVIOUS
    <2> HIDE DEF final, e
    <2>4. status' \in [Events -> Statuses] /\ leaseLeft' \in [Events -> 0 .. LeaseTicks]
      BY <2>1, <2>2, <2>3 DEF TypeOK, Statuses
    <2>5. \A f \in Events : status[f] # "absent" => status'[f] # "absent"
      BY <2>1, <2>2, <2>3 DEF TypeOK
    <2>6. WorkersConsistent' /\ TypeOK'
      BY <2>1, <2>2, <2>4, <2>5, WorkerMovesOn DEF TypeOK
    <2>7. RowsWellFormed'
      BY <2>1, <2>2, <2>3 DEF TypeOK, RowsWellFormed
    <2>8. HandledBeforeProcessed'
      BY <2>1, <2>2, <2>3 DEF TypeOK, HandledBeforeProcessed
    <2>. QED
      BY <2>6, <2>7, <2>8
  <1>2. CASE MarkRetry(w)
    <2> DEFINE e == handling[w]
    <2>1. e \in Events /\ status[e] = "processing" /\ NextEvent(w)
      BY <1>2 DEF MarkRetry, Owns, WorkersConsistent, TypeOK
    <2>2. invitationProjectorBackoff(attempts[e]) \in Nat /\ batchAge[w] \in Nat
      BY <2>1, BackoffIsNat DEF TypeOK
    <2>3. Larger(invitationProjectorBackoff(attempts[e]) - batchAge[w], -Horizon) \in Int
      BY <2>2 DEF Larger
    <2>4. /\ status' \in [Events -> Statuses]
          /\ availableIn' \in [Events -> Int]
          /\ claimedBy' \in [Events -> Workers \union {NoWorker}]
          /\ leaseLeft' \in [Events -> 0 .. LeaseTicks]
      BY <1>2, <2>1, <2>3 DEF MarkRetry, TypeOK, Statuses
    <2>5. \A f \in Events : status[f] # "absent" => status'[f] # "absent"
      BY <1>2, <2>1 DEF MarkRetry, TypeOK
    <2>6. WorkersConsistent' /\ TypeOK'
      BY <1>2, <2>1, <2>4, <2>5, WorkerMovesOn DEF MarkRetry, TypeOK
    <2>7. RowsWellFormed'
      BY <1>2, <2>1 DEF MarkRetry, Exhausted, TypeOK, RowsWellFormed
    <2>8. HandledBeforeProcessed'
      BY <1>2, <2>1 DEF MarkRetry, TypeOK, HandledBeforeProcessed
    <2>. QED
      BY <2>6, <2>7, <2>8
  <1>3. CASE MarkMiss(w)
    <2>1. WorkersConsistent' /\ TypeOK'
      BY <1>3, WorkerMovesOn DEF MarkMiss, AfterFailedMark, TypeOK, rowVars
    <2>. QED
      BY <1>3, <2>1 DEF MarkMiss, RowsWellFormed, HandledBeforeProcessed, rowVars
  <1>. QED
    BY <1>1, <1>2, <1>3 DEF Mark

LEMMA FailureIInv ==
  ASSUME IInv, NEW w \in Workers, MarkFails(w) \/ Crash(w)
  PROVE  IInv'
  <1> USE OutboxAssumption DEF IInv
  <1>1. /\ NextEvent(w) \/ DropBatch(w)
        /\ faults' = faults + 1 /\ faults < MaxFaults
        /\ UNCHANGED <<rowVars, handled>>
    BY DEF MarkFails, Crash, AfterFailedMark
  <1>2. WorkersConsistent' /\ TypeOK'
    BY <1>1, WorkerMovesOn DEF TypeOK, rowVars
  <1>. QED
    BY <1>1, <1>2 DEF RowsWellFormed, HandledBeforeProcessed, rowVars

LEMMA TickIInv ==
  ASSUME IInv, Tick
  PROVE  IInv'
  <1> USE OutboxAssumption DEF IInv, Tick
  <1>1. TypeOK'
    <2>1. faults' \in 0 .. MaxFaults
      BY DEF TypeOK
    <2>2. /\ availableIn' \in [Events -> Int]
          /\ leaseLeft' \in [Events -> 0 .. LeaseTicks]
          /\ batchAge' \in [Workers -> 0 .. Horizon]
      BY DEF TypeOK, Larger, Smaller
    <2>. QED
      BY <2>1, <2>2 DEF TypeOK
  <1>2. RowsWellFormed'
    BY DEF TypeOK, RowsWellFormed, Larger
  <1>3. WorkersConsistent' /\ HandledBeforeProcessed'
    BY DEF WorkersConsistent, HandledBeforeProcessed
  <1>. QED
    BY <1>1, <1>2, <1>3

LEMMA NextIInv == IInv /\ [Next]_vars => IInv'
  <1> SUFFICES ASSUME IInv, [Next]_vars PROVE IInv'
    OBVIOUS
  <1>1. CASE UNCHANGED vars
    BY <1>1 DEF vars, rowVars, workerVars, IInv, TypeOK, RowsWellFormed,
      WorkersConsistent, HandledBeforeProcessed
  <1>2. CASE \E S \in SUBSET Events : CreateMany(S)
    BY <1>2, CreateManyIInv
  <1>3. ASSUME NEW w \in Workers, WorkerStep(w) PROVE IInv'
    BY <1>3, ClaimIInv, ProcessEventIInv, MarkIInv, FailureIInv DEF WorkerStep
  <1>4. CASE Tick
    BY <1>4, TickIInv
  <1>. QED
    BY <1>1, <1>2, <1>3, <1>4 DEF Next

\* The state of the rows and of the workers keeps its types, the rows keep a
\* legal shape and nothing is recorded as processed before it was handled.
THEOREM OutboxInvariant == SafeSpec => []IInv
  BY InitIInv, NextIInv, PTL DEF SafeSpec

\* The types of the rows and of what the workers hold.
THEOREM TypeCorrect == SafeSpec => []TypeOK
  BY OutboxInvariant, PTL DEF IInv

\* Rows keep the shapes of the CHECK constraints, and a row that is offered
\* again has an attempt left.
THEOREM RowsStayWellFormed == SafeSpec => []RowsWellFormed
  BY OutboxInvariant, PTL DEF IInv

\* At-least-once delivery: no event is processed that nobody handled.
THEOREM AtLeastOnce == SafeSpec => []HandledBeforeProcessed
  BY OutboxInvariant, PTL DEF IInv

-----------------------------------------------------------------------------
(* The lease is exclusive.                                                 *)

LEMMA LeaseStep == IInv /\ [Next]_vars => [OnlyHolderMoves]_vars
  <1> SUFFICES ASSUME IInv, Next, NEW e \in Events,
                      status[e] = "processing", leaseLeft[e] > 0,
                      status'[e] # status[e] \/ claimedBy'[e] # claimedBy[e]
               PROVE  handling[claimedBy[e]] = e
    BY DEF OnlyHolderMoves
  <1> USE OutboxAssumption DEF IInv
  <1>1. ASSUME NEW S \in SUBSET Events, CreateMany(S) PROVE FALSE
    BY <1>1 DEF CreateMany, TypeOK
  <1>2. ASSUME NEW w \in Workers, ClaimPendingByTopics(w) PROVE FALSE
    BY <1>2 DEF ClaimPendingByTopics, Claimable, TypeOK
  <1>3. ASSUME NEW w \in Workers, ProcessEvent(w) PROVE FALSE
    BY <1>3 DEF ProcessEvent, rowVars
  <1>4. ASSUME NEW w \in Workers, Mark(w) PROVE handling[claimedBy[e]] = e
    <2>1. CASE MarkProcessed(w)
      BY <2>1 DEF MarkProcessed, Owns, TypeOK
    <2>2. CASE MarkDeadLetter(w)
      BY <2>2 DEF MarkDeadLetter, Owns, TypeOK
    <2>3. CASE MarkRetry(w)
      BY <2>3 DEF MarkRetry, Owns, TypeOK
    <2>4. CASE MarkMiss(w)
      BY <2>4 DEF MarkMiss, rowVars
    <2>. QED
      BY <1>4, <2>1, <2>2, <2>3, <2>4 DEF Mark
  <1>5. ASSUME NEW w \in Workers, MarkFails(w) \/ Crash(w) PROVE FALSE
    BY <1>5 DEF MarkFails, Crash, rowVars
  <1>6. CASE Tick
    BY <1>6 DEF Tick
  <1>. QED
    BY <1>1, <1>2, <1>3, <1>4, <1>5, <1>6 DEF Next, WorkerStep

\* While a lease runs, only its holder's own Mark* call moves the row.
THEOREM LeaseIsExclusive == SafeSpec => LeaseExclusive
  BY OutboxInvariant, LeaseStep, PTL DEF SafeSpec, LeaseExclusive

-----------------------------------------------------------------------------
(* Outbox implements the safety part of DeliveryQueue.                     *)

LEMMA StageOf ==
  ASSUME TypeOK, NEW e \in Events
  PROVE  /\ Stage[e] = "absent" <=> status[e] = "absent"
         /\ Stage[e] = "delivered" <=> status[e] = "processed"
         /\ Stage[e] = "abandoned" <=> status[e] = "dead_letter"
         /\ Stage[e] = "open" <=> status[e] \in {"pending", "processing"}
  <1>1. status[e] \in Statuses
    BY DEF TypeOK
  <1>. QED
    BY <1>1 DEF Stage, Statuses

\* A step that leaves rows in the same stage is no step of the queue, or a
\* Perform.
LEMMA SameStage ==
  ASSUME TypeOK,
         \A e \in Events :
           \/ status'[e] = status[e]
           \/ {status[e], status'[e]} \subseteq {"pending", "processing"}
  PROVE  Stage' = Stage
  <1>1. \A e \in Events : status[e] \in Statuses
    BY DEF TypeOK
  <1>. QED
    BY <1>1 DEF Stage, Statuses

LEMMA InitImplements == Init => Queue!Init
  BY DEF Init, Queue!Init, Stage

LEMMA MarkImplements ==
  ASSUME IInv, NEW w \in Workers, Mark(w)
  PROVE  Queue!Next \/ UNCHANGED Queue!vars
  <1> USE OutboxAssumption DEF IInv
  <1> DEFINE e == handling[w]
  <1>1. ASSUME NEW s \in {"processed", "dead_letter"}, e \in Events,
               status[e] = "processing", status' = [status EXCEPT ![e] = s]
        PROVE  /\ Stage[e] = "open"
               /\ Stage' = [Stage EXCEPT ![e] = IF s = "processed" THEN "delivered" ELSE "abandoned"]
    <2>1. \A f \in Events : status'[f] = IF f = e THEN s ELSE status[f]
      BY <1>1 DEF TypeOK
    <2>2. \A f \in Events : status[f] \in Statuses
      BY DEF TypeOK
    <2>. QED
      BY <1>1, <2>1, <2>2 DEF Stage, Statuses
  <1>2. CASE MarkProcessed(w)
    <2>1. e \in Events /\ e \in handled /\ handled' = handled
          /\ status[e] = "processing" /\ status' = [status EXCEPT ![e] = "processed"]
      BY <1>2 DEF MarkProcessed, Owns, WorkersConsistent, TypeOK
    <2>2. Queue!Deliver(e)
      BY <1>1, <2>1 DEF Queue!Deliver
    <2>. QED
      BY <2>1, <2>2 DEF Queue!Next
  <1>3. CASE MarkDeadLetter(w)
    <2>1. e \in Events /\ handled' = handled
          /\ status[e] = "processing" /\ status' = [status EXCEPT ![e] = "dead_letter"]
      BY <1>3 DEF MarkDeadLetter, Owns, WorkersConsistent, TypeOK
    <2>2. Queue!Abandon(e)
      BY <1>1, <2>1 DEF Queue!Abandon
    <2>. QED
      BY <2>1, <2>2 DEF Queue!Next
  <1>4. CASE MarkRetry(w)
    <2>1. e \in Events /\ handled' = handled /\ status[e] = "processing"
      BY <1>4 DEF MarkRetry, Owns, WorkersConsistent, TypeOK
    <2>2. CASE Exhausted(e)
      <3>1. status' = [status EXCEPT ![e] = "dead_letter"]
        BY <1>4, <2>2 DEF MarkRetry
      <3>2. Queue!Abandon(e)
        BY <1>1, <2>1, <3>1 DEF Queue!Abandon
      <3>. QED
        BY <2>1, <3>2 DEF Queue!Next
    <2>3. CASE ~(Exhausted(e))
      <3>1. status' = [status EXCEPT ![e] = "pending"]
        BY <1>4, <2>3 DEF MarkRetry
      <3>2. Stage' = Stage
        BY <2>1, <3>1, SameStage DEF TypeOK
      <3>. QED
        BY <2>1, <3>2 DEF Queue!vars
    <2>. QED
      BY <2>2, <2>3
  <1>5. CASE MarkMiss(w)
    BY <1>5 DEF MarkMiss, rowVars, Stage, Queue!vars
  <1>. QED
    BY <1>2, <1>3, <1>4, <1>5 DEF Mark

LEMMA StepImplements == IInv /\ [Next]_vars => [Queue!Next]_(Queue!vars)
  <1> SUFFICES ASSUME IInv, [Next]_vars PROVE Queue!Next \/ UNCHANGED Queue!vars
    OBVIOUS
  <1> USE OutboxAssumption DEF IInv
  <1>1. CASE UNCHANGED vars
    BY <1>1 DEF vars, rowVars, Stage, Queue!vars
  <1>2. ASSUME NEW S \in SUBSET Events, CreateMany(S)
        PROVE  Queue!Next \/ UNCHANGED Queue!vars
    <2>1. \A e \in S : Stage[e] = "absent"
      BY <1>2, StageOf DEF CreateMany
    <2>2. \A e \in Events : status[e] \in Statuses
      BY DEF TypeOK
    <2>3. Stage' = [e \in Events |-> IF e \in S THEN "open" ELSE Stage[e]]
      BY <1>2, <2>2 DEF CreateMany, Stage, Statuses
    <2>4. Queue!Submit(S)
      BY <1>2, <2>1, <2>3 DEF CreateMany, Queue!Submit
    <2>. QED
      BY <2>4 DEF Queue!Next
  <1>3. ASSUME NEW w \in Workers, ClaimPendingByTopics(w)
        PROVE  Queue!Next \/ UNCHANGED Queue!vars
    <2>1. PICK S \in SUBSET Claimable(w) :
            status' = [e \in Events |-> IF e \in S THEN "processing" ELSE status[e]]
      BY <1>3 DEF ClaimPendingByTopics
    <2>2. Stage' = Stage
      BY <2>1, SameStage DEF Claimable
    <2>. QED
      BY <1>3, <2>2 DEF ClaimPendingByTopics, Queue!vars
  <1>4. ASSUME NEW w \in Workers, ProcessEvent(w)
        PROVE  Queue!Next \/ UNCHANGED Queue!vars
    <2>1. PICK e \in batch[w] : handled' = handled \/ handled' = handled \union {e}
      BY <1>4 DEF ProcessEvent, Committed, Outcomes
    <2>2. e \in Events /\ Stage[e] # "absent"
      BY StageOf DEF WorkersConsistent, TypeOK
    <2>3. Stage' = Stage
      BY <1>4 DEF ProcessEvent, rowVars, Stage
    <2>4. CASE handled' = handled
      BY <2>3, <2>4 DEF Queue!vars
    <2>5. CASE handled' = handled \union {e}
      <3>1. Queue!Perform(e)
        BY <2>2, <2>3, <2>5 DEF Queue!Perform
      <3>. QED
        BY <2>2, <3>1 DEF Queue!Next
    <2>. QED
      BY <2>1, <2>4, <2>5
  <1>5. ASSUME NEW w \in Workers, MarkFails(w) \/ Crash(w)
        PROVE  Queue!Next \/ UNCHANGED Queue!vars
    BY <1>5 DEF MarkFails, Crash, rowVars, Stage, Queue!vars
  <1>6. CASE Tick
    BY <1>6 DEF Tick, Stage, Queue!vars
  <1>. QED
    BY <1>1, <1>2, <1>3, <1>4, <1>5, <1>6, MarkImplements DEF Next, WorkerStep

\* Leases, retries and duplicate handling implement the promise of
\* DeliveryQueue: a stored event is settled at most once, and delivered only
\* after it was handled.
THEOREM OutboxImplementsQueue == SafeSpec => Queue!SafeSpec
  BY InitImplements, StepImplements, OutboxInvariant, PTL DEF SafeSpec, Queue!SafeSpec
=============================================================================
