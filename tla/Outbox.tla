------------------------------- MODULE Outbox -------------------------------
(***************************************************************************)
(* The outbox table (internal/repository/postgres/outbox_repository.go)    *)
(* and the batch loop of the two projectors that consume it                *)
(* (internal/application/{comment,invitation}_notification_projector.go).  *)
(*                                                                         *)
(* A worker claims a batch of due events under a lease, handles them one   *)
(* at a time and marks each one processed, pending again, or dead-letter.  *)
(* Workers are slow, crash, lose the database, and overrun their leases.   *)
(*                                                                         *)
(* Timestamps are kept relative to the present, so that no bound on the    *)
(* clock is needed: availableIn[e] is available_at - now and leaseLeft[e]  *)
(* is lease_expires_at - now, in ticks of 30 seconds, the unit of the      *)
(* projectors' backoff.                                                    *)
(***************************************************************************)
EXTENDS Integers, FiniteSets

CONSTANTS
  Events,       \* the idempotency keys of the events that may be stored
  Workers,      \* the projector processes, by worker_id
  TopicsOf,     \* TopicsOf[w]: the topics worker w claims
  Topic,        \* Topic[e]: the topic of event e
  FailFast,     \* the workers that run the invitation projector's loop
  MaxAttempts,  \* max_attempts of an event (25 unless the producer sets it)
  LeaseTicks,   \* lease duration of a claim
  BatchLimit,   \* LIMIT of a claim
  Horizon,      \* bound: how far in the past times are told apart
  MaxFaults,    \* bound on crashes, database failures and lease overruns
  NoWorker, NoEvent

ASSUME OutboxAssumption ==
  /\ MaxAttempts \in Nat \ {0}
  /\ LeaseTicks \in Nat \ {0}
  /\ BatchLimit \in Nat \ {0}
  /\ Horizon \in Nat
  /\ MaxFaults \in Nat
  /\ FailFast \subseteq Workers
  /\ NoWorker \notin Workers
  /\ NoEvent \notin Events

VARIABLES
  status,       \* status[e]; "absent" while no row has e's key
  attempts,     \* attempts[e]: attempt_count
  availableIn,  \* availableIn[e]: ticks until available_at
  claimedBy,    \* claimedBy[e]: claimed_by, or NoWorker for NULL
  leaseLeft,    \* leaseLeft[e]: ticks until lease_expires_at; 0 once expired
  batch,        \* batch[w]: the claimed events w has not finished with
  handling,     \* handling[w]: the event w has handled and must now mark
  outcome,      \* outcome[w]: how that went
  batchAge,     \* batchAge[w]: ticks since the `now` w's batch was given
  handled,      \* history: events whose work was committed at least once
  faults        \* bound: crashes, failures and overruns so far

rowVars == <<status, attempts, availableIn, claimedBy, leaseLeft>>
workerVars == <<batch, handling, outcome, batchAge>>
vars == <<rowVars, workerVars, handled, faults>>

Statuses == {"absent", "pending", "processing", "processed", "dead_letter"}
Outcomes == {"done", "permanent", "transient"}

Larger(x, y) == IF x >= y THEN x ELSE y
Smaller(x, y) == IF x <= y THEN x ELSE y

\* 30s doubling with every attempt, at most 15 minutes, in ticks.
invitationProjectorBackoff(n) ==
  IF n <= 1 THEN 1 ELSE IF n >= 6 THEN 30 ELSE <<1, 2, 4, 8, 16>>[n]

TypeOK ==
  /\ status \in [Events -> Statuses]
  /\ attempts \in [Events -> Nat]
  /\ availableIn \in [Events -> Int]
  /\ claimedBy \in [Events -> Workers \union {NoWorker}]
  /\ leaseLeft \in [Events -> 0 .. LeaseTicks]
  /\ batch \in [Workers -> SUBSET Events]
  /\ handling \in [Workers -> Events \union {NoEvent}]
  /\ outcome \in [Workers -> Outcomes \union {"none"}]
  /\ batchAge \in [Workers -> 0 .. Horizon]
  /\ handled \in SUBSET Events
  /\ faults \in 0 .. MaxFaults

Init ==
  /\ status = [e \in Events |-> "absent"]
  /\ attempts = [e \in Events |-> 0]
  /\ availableIn = [e \in Events |-> 0]
  /\ claimedBy = [e \in Events |-> NoWorker]
  /\ leaseLeft = [e \in Events |-> 0]
  /\ batch = [w \in Workers |-> {}]
  /\ handling = [w \in Workers |-> NoEvent]
  /\ outcome = [w \in Workers |-> "none"]
  /\ batchAge = [w \in Workers |-> 0]
  /\ handled = {}
  /\ faults = 0

-----------------------------------------------------------------------------
(* Producers.                                                              *)

\* One transaction inserts all the events, or, when a key is taken, none.
CreateMany(S) ==
  /\ S # {}
  /\ \A e \in S : status[e] = "absent"
  /\ status' = [e \in Events |-> IF e \in S THEN "pending" ELSE status[e]]
  /\ availableIn' = [e \in Events |-> IF e \in S THEN 0 ELSE availableIn[e]]
  /\ UNCHANGED <<attempts, claimedBy, leaseLeft, workerVars, handled, faults>>

-----------------------------------------------------------------------------
(* Claiming.                                                               *)

\* Mutant: the lease of a claimed event is not looked at.
ClaimableIgnoringLease(w) ==
  {e \in Events :
     /\ Topic[e] \in TopicsOf[w]
     /\ status[e] = "processing" \/ (status[e] = "pending" /\ availableIn[e] <= 0)}

\* Mutant: events whose lease ran out are not reclaimed.
ClaimablePendingOnly(w) ==
  {e \in Events : Topic[e] \in TopicsOf[w] /\ status[e] = "pending" /\ availableIn[e] <= 0}

Claimable(w) ==
  {e \in Events :
     /\ Topic[e] \in TopicsOf[w]
     /\ \/ status[e] = "pending" /\ availableIn[e] <= 0
        \/ status[e] = "processing" /\ leaseLeft[e] = 0}

\* ORDER BY available_at LIMIT BatchLimit; ties fall either way.
FirstDue(w, S) ==
  /\ Cardinality(S) = Smaller(BatchLimit, Cardinality(Claimable(w)))
  /\ \A e \in S, f \in Claimable(w) \ S : availableIn[e] <= availableIn[f]

\* Mutant: the lease duration is added twice.
leaseExpiresAtTwice == 2 * LeaseTicks

leaseExpiresAt == LeaseTicks

ClaimPendingByTopics(w) ==
  /\ batch[w] = {}
  /\ \E S \in SUBSET Claimable(w) :
       /\ S # {}
       /\ FirstDue(w, S)
       /\ status' = [e \in Events |-> IF e \in S THEN "processing" ELSE status[e]]
       /\ attempts' = [e \in Events |-> IF e \in S THEN attempts[e] + 1 ELSE attempts[e]]
       /\ claimedBy' = [e \in Events |-> IF e \in S THEN w ELSE claimedBy[e]]
       /\ leaseLeft' = [e \in Events |-> IF e \in S THEN leaseExpiresAt ELSE leaseLeft[e]]
       /\ batch' = [batch EXCEPT ![w] = S]
  /\ batchAge' = [batchAge EXCEPT ![w] = 0]
  /\ UNCHANGED <<availableIn, handling, outcome, handled, faults>>

-----------------------------------------------------------------------------
(* Handling and marking.                                                   *)

\* Mutant: the error of the transaction is dropped.
CommittedUnchecked(o, e) == {handled, handled \union {e}}

\* What processEvent may have written, in one transaction, when it returns o:
\* a transient error may be that of a commit that took place.
Committed(o, e) ==
  CASE o = "done" -> {handled \union {e}}
    [] o = "permanent" -> {handled}
    [] o = "transient" -> {handled, handled \union {e}}

ProcessEvent(w) ==
  /\ handling[w] = NoEvent
  /\ \E e \in batch[w], o \in Outcomes :
       /\ handling' = [handling EXCEPT ![w] = e]
       /\ outcome' = [outcome EXCEPT ![w] = o]
       /\ handled' \in Committed(o, e)
  /\ UNCHANGED <<rowVars, batch, batchAge, faults>>

\* The rows a Mark* statement of w matches.
Owns(w, e) == status[e] = "processing" /\ claimedBy[e] = w

\* The loop goes on with the next event of the batch.
NextEvent(w) ==
  /\ batch' = [batch EXCEPT ![w] = @ \ {handling[w]}]
  /\ handling' = [handling EXCEPT ![w] = NoEvent]
  /\ outcome' = [outcome EXCEPT ![w] = "none"]
  /\ batchAge' = [batchAge EXCEPT ![w] = IF batch'[w] = {} THEN 0 ELSE @]

\* ProcessBatch returns, or its process dies: the rest of the batch is left
\* to its leases.
DropBatch(w) ==
  /\ batch' = [batch EXCEPT ![w] = {}]
  /\ handling' = [handling EXCEPT ![w] = NoEvent]
  /\ outcome' = [outcome EXCEPT ![w] = "none"]
  /\ batchAge' = [batchAge EXCEPT ![w] = 0]

MarkProcessed(w) ==
  /\ outcome[w] = "done"
  /\ Owns(w, handling[w])
  /\ status' = [status EXCEPT ![handling[w]] = "processed"]
  /\ leaseLeft' = [leaseLeft EXCEPT ![handling[w]] = 0]
  /\ NextEvent(w)
  /\ UNCHANGED <<attempts, availableIn, claimedBy, handled, faults>>

MarkDeadLetter(w) ==
  /\ outcome[w] = "permanent"
  /\ Owns(w, handling[w])
  /\ status' = [status EXCEPT ![handling[w]] = "dead_letter"]
  /\ leaseLeft' = [leaseLeft EXCEPT ![handling[w]] = 0]
  /\ NextEvent(w)
  /\ UNCHANGED <<attempts, availableIn, claimedBy, handled, faults>>

\* Mutant: one attempt too many.
ExhaustedLate(e) == attempts[e] > MaxAttempts

Exhausted(e) == attempts[e] >= MaxAttempts

\* Both times of the call are computed from the batch's `now`.
MarkRetry(w) ==
  LET e == handling[w] IN
     /\ outcome[w] = "transient"
     /\ Owns(w, e)
     /\ status' = [status EXCEPT ![e] = IF Exhausted(e) THEN "dead_letter" ELSE "pending"]
     /\ availableIn' = [availableIn EXCEPT ![e] =
          IF Exhausted(e) THEN @
          ELSE Larger(invitationProjectorBackoff(attempts[e]) - batchAge[w], -Horizon)]
     /\ claimedBy' = [claimedBy EXCEPT ![e] = IF Exhausted(e) THEN @ ELSE NoWorker]
     /\ leaseLeft' = [leaseLeft EXCEPT ![e] = 0]
     /\ NextEvent(w)
     /\ UNCHANGED <<attempts, handled, faults>>

\* A Mark* that fails ends the invitation projector's batch; the comment
\* projector goes on with the next event.
AfterFailedMark(w) == IF w \in FailFast THEN DropBatch(w) ELSE NextEvent(w)

\* The row is no longer w's: ErrConflict.
MarkMiss(w) ==
  /\ handling[w] # NoEvent
  /\ ~Owns(w, handling[w])
  /\ AfterFailedMark(w)
  /\ UNCHANGED <<rowVars, handled, faults>>

Mark(w) == MarkProcessed(w) \/ MarkDeadLetter(w) \/ MarkRetry(w) \/ MarkMiss(w)

-----------------------------------------------------------------------------
(* Failures and time.                                                      *)

MarkFails(w) ==
  /\ faults < MaxFaults
  /\ handling[w] # NoEvent
  /\ AfterFailedMark(w)
  /\ faults' = faults + 1
  /\ UNCHANGED <<rowVars, handled>>

Crash(w) ==
  /\ faults < MaxFaults
  /\ batch[w] # {}
  /\ DropBatch(w)
  /\ faults' = faults + 1
  /\ UNCHANGED <<rowVars, handled>>

\* A lease is about to end while its worker still has the event to do.
Overrun ==
  \E w \in Workers : \E e \in batch[w] : Owns(w, e) /\ leaseLeft[e] = 1

Tick ==
  /\ Overrun => faults < MaxFaults
  /\ faults' = IF Overrun THEN faults + 1 ELSE faults
  /\ availableIn' = [e \in Events |-> Larger(availableIn[e] - 1, -Horizon)]
  /\ leaseLeft' = [e \in Events |-> Larger(leaseLeft[e] - 1, 0)]
  /\ batchAge' = [w \in Workers |->
       IF batch[w] = {} THEN 0 ELSE Smaller(batchAge[w] + 1, Horizon)]
  /\ UNCHANGED <<status, attempts, claimedBy, batch, handling, outcome, handled>>

-----------------------------------------------------------------------------
WorkerStep(w) ==
  \/ ClaimPendingByTopics(w)
  \/ ProcessEvent(w)
  \/ Mark(w)
  \/ MarkFails(w)
  \/ Crash(w)

Next ==
  \/ \E S \in SUBSET Events : CreateMany(S)
  \/ \E w \in Workers : WorkerStep(w)
  \/ Tick

\* Workers poll, finish what they started, and time passes; nothing makes
\* a producer write or a failure happen.
Fairness ==
  /\ WF_vars(Tick)
  /\ \A w \in Workers :
       /\ WF_vars(ClaimPendingByTopics(w))
       /\ WF_vars(ProcessEvent(w))
       /\ WF_vars(Mark(w))

SafeSpec == Init /\ [][Next]_vars
Spec == SafeSpec /\ Fairness

-----------------------------------------------------------------------------
(* Properties.                                                             *)

\* The statements of different workers keep a row in one of the shapes the
\* table's CHECK constraints allow, and a row that is back in the queue has
\* an attempt left: MarkRetry dead-letters an exhausted event even when
\* lost leases pushed its count past the limit.
RowsWellFormed ==
  \A e \in Events :
    /\ status[e] \in {"absent", "pending"} =>
         claimedBy[e] = NoWorker /\ leaseLeft[e] = 0 /\ attempts[e] < MaxAttempts
    /\ status[e] \in {"processing", "processed", "dead_letter"} =>
         claimedBy[e] # NoWorker /\ attempts[e] > 0
    /\ status[e] \in {"processed", "dead_letter"} => leaseLeft[e] = 0

\* An event is recorded as processed only after its notifications were
\* committed, whoever claimed it in between (at-least-once delivery).
HandledBeforeProcessed ==
  \A e \in Events : status[e] = "processed" => e \in handled

\* A claim is exclusive until its lease ends: while the lease runs, nothing
\* but the claimant's own Mark* call moves the row, although other workers
\* poll the table and may still hold the event from an earlier claim.
OnlyHolderMoves ==
  \A e \in Events :
    /\ status[e] = "processing"
    /\ leaseLeft[e] > 0
    /\ status'[e] # status[e] \/ claimedBy'[e] # claimedBy[e]
    => handling[claimedBy[e]] = e
LeaseExclusive == [][OnlyHolderMoves]_vars

\* What a worker holds in memory: a result only for an event of its batch,
\* "done" only once the event's writes are committed, and only stored events.
WorkersConsistent ==
  \A w \in Workers :
    /\ outcome[w] = "none" <=> handling[w] = NoEvent
    /\ handling[w] # NoEvent => handling[w] \in batch[w]
    /\ outcome[w] = "done" => handling[w] \in handled
    /\ \A e \in batch[w] : status[e] # "absent"

\* The inductive invariant.
IInv == TypeOK /\ RowsWellFormed /\ WorkersConsistent /\ HandledBeforeProcessed

Stage ==
  [e \in Events |->
     CASE status[e] = "absent" -> "absent"
       [] status[e] = "processed" -> "delivered"
       [] status[e] = "dead_letter" -> "abandoned"
       [] OTHER -> "open"]

Queue == INSTANCE DeliveryQueue WITH stage <- Stage

\* Leases, retries, crashes and duplicate handling add up to the promise of
\* DeliveryQueue: events settle once, delivered ones were handled, and every
\* stored event settles in the end.
ImplementsDeliveryQueue == Queue!Spec
=============================================================================
