--------------------------- MODULE Reconciliation ---------------------------
(***************************************************************************)
(* The repair of the notification read model                               *)
(* (internal/application/notification_reconciliation.go and its            *)
(* repository), run by cmd/notification-reconcile beside the live program. *)
(*                                                                         *)
(* A run takes an advisory lock and a cutoff, rebuilds the managed rows of *)
(* the invitations, then those of the threads, then recounts the unread    *)
(* counters, and tells the users it has changed something for.  Every      *)
(* query commits by itself: requests and projections happen in between,    *)
(* and a run that fails or is killed leaves what it has done so far.       *)
(*                                                                         *)
(* There is one workspace with one thread.  The row of a notification is   *)
(* identified by its unique key (user, type, event); what it says of an    *)
(* invitation is the version it shows.  Users are not removed, and neither *)
(* are members: the program has no such operation.                         *)
(***************************************************************************)
EXTENDS Integers, FiniteSets

CONSTANTS
  Users, Members,         \* everybody, and the members of the workspace
  Invitations, Invitee,   \* Invitee[i]: who registers, or has, the email of i
  Messages,               \* 1 .. n, in the order of created_at; 1 starts the thread
  Author, Mentions,       \* Author[m] and the explicit Mentions[m]
  Drift,                  \* tables the read model may be found in
  BatchSize,
  MaxVersion, MaxWrites, MaxRuns    \* bounds: versions, requests, runs

ASSUME ReconciliationAssumption ==
  /\ IsFiniteSet(Users) /\ IsFiniteSet(Invitations) /\ IsFiniteSet(Messages)
  /\ Members \subseteq Users
  /\ Invitations \intersect Messages = {}
  /\ Invitee \in [Invitations -> Users]
  /\ Messages \subseteq Nat \ {0}
  /\ Author \in [Messages -> Members] /\ Mentions \in [Messages -> SUBSET Members]
  /\ BatchSize \in Nat \ {0} /\ MaxVersion \in Nat \ {0}

InvitationKeys == Users \X {"invitation"} \X Invitations
ThreadKeys == Users \X {"comment", "mention"} \X Messages
Keys == InvitationKeys \union ThreadKeys

\* What a row says: a version of its invitation; Canonical or something else
\* of a message.  0 stands for no row.
Canonical == 1
\* touched: its updated_at is not the time of its source.
Row == [says : 0 .. MaxVersion + 1, read : BOOLEAN, touched : BOOLEAN]
NoRow == [says |-> 0, read |-> FALSE, touched |-> FALSE]
NewRow(says) == [says |-> says, read |-> FALSE, touched |-> FALSE]

ASSUME DriftAssumption ==
  /\ Drift \subseteq [Keys -> Row]
  /\ \A table \in Drift, k \in Keys : table[k].says = 0 => table[k] = NoRow
  /\ \A table \in Drift, k \in InvitationKeys : table[k] # NoRow =>
       k[1] \in Members /\ \A l \in InvitationKeys \ {k} : l[3] = k[3] => table[l] = NoRow

VARIABLES
  registered,  \* the users who have an account
  version,     \* version[i] of the invitation; 0 before it exists
  unnotified,  \* invitations saved, whose invitee is still to be notified
  message,     \* message[m]: "none", "stamped" (created_at taken), "visible"
  rows,        \* the managed rows of the notifications table
  counter,     \* counter[u]: unread_count; 0 while there is no row
  job,         \* the run in progress, or Idle
  writes, runs \* requests and runs so far

live == <<registered, version, unnotified, message>>
table == <<rows, counter>>
vars == <<live, table, job, writes, runs>>

Present(k) == rows[k].says # 0
Unread(u) == Cardinality({k \in Keys : k[1] = u /\ Present(k) /\ ~rows[k].read})
Visible == {m \in Messages : message[m] = "visible"}

Idle == [phase |-> "idle"]

Phases == {"invitations", "page", "leftovers", "threads", "history", "messages",
           "orphans", "counters", "count", "publish", "conflict"}

\* old: the sources not newer than the cutoff; existing: the managed rows
\* listed and not yet accounted for; scanned: invitations paged through;
\* page: of them, those fetched and still to do; history: the messages read,
\* todo: thread rows to bring about; counting, count: a user and its unread
\* rows; since: the requests before it.
Jobs ==
  [phase : Phases, dry : BOOLEAN, old : SUBSET (Invitations \union Messages),
   existing : SUBSET Keys, scanned : SUBSET Invitations,
   page : SUBSET (Invitations \X (1 .. MaxVersion) \X BOOLEAN),
   history : SUBSET Messages, todo : SUBSET ThreadKeys,
   recompute : SUBSET Users, changed : SUBSET Users,
   counting : SUBSET Users, count : Nat, since : Nat]

TypeOK ==
  /\ registered \subseteq Users
  /\ version \in [Invitations -> 0 .. MaxVersion]
  /\ unnotified \subseteq Invitations
  /\ message \in [Messages -> {"none", "stamped", "visible"}]
  /\ rows \in [Keys -> Row]
  /\ counter \in [Users -> Nat]
  /\ job \in Jobs \union {Idle}
  /\ writes \in Nat /\ runs \in Nat

Init ==
  /\ registered = Members
  /\ version \in [Invitations -> {0, 1}]
  /\ unnotified = {}
  /\ \E n \in Messages \union {0} :
       message = [m \in Messages |-> IF m <= n THEN "visible" ELSE "none"]
  /\ rows \in Drift
  /\ counter = [u \in Users |-> Unread(u)]
  /\ job = Idle
  /\ writes = 0 /\ runs = 0

-----------------------------------------------------------------------------
(* The recipients of a message, when the messages V are there.             *)

Authors(V) == {Author[m] : m \in V}
Addressed(m, candidates) == (candidates \ {Author[m]}) \intersect Members

\* As reconciliation derives them: the authors before this message count.
CommentRecipients(m, V) ==
  Addressed(m, {Author[1]} \union Authors({n \in V : n < m}) \union Mentions[m])
MentionRecipients(m) == Addressed(m, Mentions[m])

\* As the projector resolves them: every author of the thread it loads counts.
ResolveRecipients(m, V) == Addressed(m, {Author[1]} \union Authors(V) \union Mentions[m])

BuildThreadNotificationHistory(V) ==
  UNION {(CommentRecipients(m, V) \X {"comment"} \X {m})
           \union (MentionRecipients(m) \X {"mention"} \X {m}) : m \in V}

-----------------------------------------------------------------------------
(* What the rest of the program does meanwhile.                            *)

\* Mutant: the subtraction has no floor.
DecrementedFreely(n) == n - 1

\* GREATEST(0, unread_count - 1)
Decremented(n) == IF n = 0 THEN 0 ELSE n - 1

\* Rows that are not there yet, and their counts, in one transaction.
Insert(K, says) ==
  LET new == {k \in K : ~Present(k)}
  IN /\ rows' = [k \in Keys |-> IF k \in new THEN NewRow(says) ELSE rows[k]]
     /\ counter' = [u \in Users |-> counter[u] + Cardinality({k \in new : k[1] = u})]

Request == writes < MaxWrites /\ writes' = writes + 1 /\ UNCHANGED runs

CreateInvitation(i) ==
  /\ Request
  /\ version[i] = 0
  /\ \A u \in Users : ~Present(<<u, "invitation", i>>)
  /\ version' = [version EXCEPT ![i] = 1]
  /\ unnotified' = unnotified \union {i}
  /\ UNCHANGED <<registered, message, table, job>>

\* An update, an answer or a cancellation: the notification is not touched,
\* and the invitation is newer than the cutoff of a run in progress.
ChangeInvitation(i) ==
  /\ Request
  /\ version[i] \in 1 .. MaxVersion - 1
  /\ version' = [version EXCEPT ![i] = @ + 1]
  /\ job' = IF job = Idle THEN job ELSE [job EXCEPT !.old = @ \ {i}]
  /\ UNCHANGED <<registered, unnotified, message, table>>

\* Still the request of CreateInvitation, with the invitation as it was saved.
NotifyInvitationCreated(i) ==
  /\ i \in unnotified
  /\ unnotified' = unnotified \ {i}
  /\ Insert(({Invitee[i]} \intersect registered) \X {"invitation"} \X {i}, 1)
  /\ writes' = writes + 1
  /\ UNCHANGED <<registered, version, message, job, runs>>

Register(u) ==
  /\ Request
  /\ u \notin registered
  /\ registered' = registered \union {u}
  /\ UNCHANGED <<version, unnotified, message, table, job>>

\* CreateThread and AddReply take the time, then commit the message; a reply
\* is to a thread that is there, and replies may commit in another order.
StampMessage(m) ==
  /\ Request
  /\ message[m] = "none"
  /\ \A n \in Messages : n < m => message[n] # "none"
  /\ m # 1 => message[1] = "visible"
  /\ \A k \in ThreadKeys : k[3] = m => ~Present(k)
  /\ message' = [message EXCEPT ![m] = "stamped"]
  /\ UNCHANGED <<registered, version, unnotified, table, job>>

CommitMessage(m) ==
  /\ message[m] = "stamped"
  /\ message' = [message EXCEPT ![m] = "visible"]
  /\ writes' = writes + 1
  /\ UNCHANGED <<registered, version, unnotified, table, job, runs>>

\* The comment projector, whenever a worker comes to the message's event.
ProjectComment(m) ==
  /\ Request
  /\ m \in Visible
  /\ Insert((ResolveRecipients(m, Visible) \X {"comment"} \X {m})
              \union (MentionRecipients(m) \X {"mention"} \X {m}), Canonical)
  /\ UNCHANGED <<live, job>>

MarkRead(k) ==
  /\ Request
  /\ Present(k) /\ ~rows[k].read
  /\ rows' = [rows EXCEPT ![k].read = TRUE, ![k].touched = TRUE]
  /\ counter' = [counter EXCEPT ![k[1]] = Decremented(@)]
  /\ UNCHANGED <<live, job>>

Requests ==
  \/ \E i \in Invitations :
       CreateInvitation(i) \/ ChangeInvitation(i) \/ NotifyInvitationCreated(i)
  \/ \E u \in Users : Register(u)
  \/ \E m \in Messages : StampMessage(m) \/ CommitMessage(m) \/ ProjectComment(m)
  \/ \E k \in Keys : MarkRead(k)

-----------------------------------------------------------------------------
(* The run.  Every action is a query or a statement, and commits.          *)

\* json.Marshal and the text of a JSONB value differ, in spaces and in the
\* order of the keys, whatever it is that they say.
MarshalText(says) == <<"compact", says>>
JsonbText(says) == <<"jsonb", says>>

\* invitationNotificationNeedsRepair and threadNotificationNeedsRepair: the
\* row found against the row expected, payload text against payload text.
NeedsRepair(k, says) ==
  \/ rows[k].says # says
  \/ JsonbText(rows[k].says) # MarshalText(says)
  \/ k[2] = "invitation" /\ rows[k].touched

Running == job # Idle
In(phase) == Running /\ job.phase = phase

UsersOf(K) == {k[1] : k \in K}

\* Mutant: a dry run deletes, too.
DeleteAlways(K) ==
  rows' = [k \in Keys |-> IF k \in K THEN NoRow ELSE rows[k]]

\* The rows K are deleted; a dry run only says so.
Delete(K) ==
  rows' = IF job.dry THEN rows ELSE [k \in Keys |-> IF k \in K THEN NoRow ELSE rows[k]]

\* Mutant: those who lose a row are not told.
RemovedSilently(K) ==
  [job EXCEPT !.existing = @ \ K, !.recompute = @ \union UsersOf(K)]

\* The run goes on without the rows K.
Removed(K) ==
  [job EXCEPT !.existing = @ \ K, !.recompute = @ \union UsersOf(K),
              !.changed = @ \union UsersOf(K)]

\* AcquireReconciliationLock: one run at a time.
Begin ==
  /\ ~Running
  /\ runs < MaxRuns
  /\ runs' = runs + 1
  /\ \E dry \in BOOLEAN :
       job' = [phase |-> "invitations", dry |-> dry,
               old |-> {i \in Invitations : version[i] # 0} \union {m \in Messages : message[m] # "none"},
               existing |-> {}, scanned |-> {}, page |-> {}, history |-> {}, todo |-> {},
               recompute |-> {}, changed |-> {}, counting |-> {}, count |-> 0, since |-> writes]
  /\ UNCHANGED <<live, table, writes>>

\* The managed rows of a source that is not newer than the cutoff, or is gone.
ListInvitationRows ==
  /\ In("invitations")
  /\ LET K == {k \in InvitationKeys : Present(k) /\ (version[k[3]] = 0 \/ k[3] \in job.old)}
     IN job' = [job EXCEPT !.phase = "page", !.existing = K, !.recompute = @ \union UsersOf(K)]
  /\ UNCHANGED <<live, table, writes, runs>>

\* ListInvitationSources, with the user of each invitation's email.
FetchPage ==
  /\ In("page") /\ job.page = {}
  /\ LET left == {i \in Invitations : i \in job.old /\ version[i] # 0} \ job.scanned
     IN \E S \in SUBSET left :
          /\ Cardinality(S) = BatchSize \/ (S = left /\ Cardinality(S) < BatchSize)
          /\ job' = [job EXCEPT !.phase = IF S = {} THEN "leftovers" ELSE "page",
                                !.scanned = @ \union S,
                                !.page = {<<i, version[i], Invitee[i] \in registered>> : i \in S}]
  /\ UNCHANGED <<live, table, writes, runs>>

InvitationKey(i) == <<Invitee[i], "invitation", i>>

\* The invitation's row as listed is somebody else's, or nobody should have one.
Misplaced(p) ==
  {k \in job.existing : k[3] = p[1] /\ (k # InvitationKey(p[1]) \/ ~p[3])}

RemoveMisplaced(p) ==
  /\ In("page") /\ p \in job.page
  /\ Misplaced(p) # {}
  /\ Delete(Misplaced(p))
  /\ job' = Removed(Misplaced(p))
  /\ UNCHANGED <<live, counter, writes, runs>>

SkipUnregistered(p) ==
  /\ In("page") /\ p \in job.page
  /\ Misplaced(p) = {} /\ ~p[3]
  /\ job' = [job EXCEPT !.page = @ \ {p}]
  /\ UNCHANGED <<live, table, writes, runs>>

\* Mutant: the user's counter is not recomputed.
AccountedOnly(k, after) == [after EXCEPT !.existing = @ \ {k}]

\* k is what it should be.
Accounted(k, after) == [after EXCEPT !.existing = @ \ {k}, !.recompute = @ \union {k[1]}]

\* Mutant: the update writes every column.
UpdatedWhole(k, says, now) == [says |-> says, read |-> FALSE, touched |-> now]

\* The update leaves is_read and read_at.
Updated(k, says, now) == [rows[k] EXCEPT !.says = says, !.touched = now]

\* The row of k is brought to say what it should, unless it was listed and is
\* right already; `now' says that updated_at becomes the time of the repair,
\* not that of the source.  UpsertManagedNotification inserts it, or else
\* updates it where it differs, or else looks at it once more and gives up if
\* it still needs repair.
Repair(k, says, now, after) ==
  LET listed == k \in job.existing
      differs == rows[k].says # says \/ now \/ rows[k].touched
      done == Accounted(k, after)
      repaired == [done EXCEPT !.changed = @ \union {k[1]}]
  IN \/ /\ listed /\ ~NeedsRepair(k, says)
        /\ job' = done
        /\ UNCHANGED rows
     \/ /\ listed => NeedsRepair(k, says)
        /\ job.dry
        /\ job' = repaired
        /\ UNCHANGED rows
     \/ /\ ~job.dry
        /\ ~Present(k)
        /\ rows' = [rows EXCEPT ![k] = NewRow(says)]
        /\ job' = repaired
     \/ /\ listed => NeedsRepair(k, says)
        /\ ~job.dry
        /\ Present(k) /\ differs
        /\ rows' = [rows EXCEPT ![k] = Updated(k, says, now)]
        /\ job' = repaired
     \/ /\ listed => NeedsRepair(k, says)
        /\ ~job.dry
        /\ Present(k) /\ ~differs
        /\ job' = IF NeedsRepair(k, says) THEN [job EXCEPT !.phase = "conflict"] ELSE done
        /\ UNCHANGED rows

UpsertInvitation(p) ==
  /\ In("page") /\ p \in job.page
  /\ Misplaced(p) = {} /\ p[3]
  /\ Repair(InvitationKey(p[1]), p[2], FALSE, [job EXCEPT !.page = @ \ {p}])
  /\ UNCHANGED <<live, counter, writes, runs>>

\* shouldSkipInvitationDelete: the invitation is newer than the cutoff by now.
SkipInvitationDelete(k) == version[k[3]] # 0 /\ k[3] \notin job.old

DeleteLeftovers ==
  /\ In("leftovers")
  /\ LET K == {k \in job.existing : ~SkipInvitationDelete(k)}
     IN /\ Delete(K)
        /\ job' = [Removed(K) EXCEPT !.phase = "threads"]
  /\ UNCHANGED <<live, counter, writes, runs>>

ListThreadRows ==
  /\ In("threads")
  /\ LET K == {k \in ThreadKeys : Present(k) /\ (message[k[3]] = "none" \/ k[3] \in job.old)}
     IN job' = [job EXCEPT !.phase = "history", !.existing = K, !.recompute = @ \union UsersOf(K)]
  /\ UNCHANGED <<live, table, writes, runs>>

LoadThreadHistory ==
  /\ In("history")
  /\ LET V == Visible \intersect job.old
     IN job' = [job EXCEPT !.phase = "messages", !.history = V,
                           !.todo = BuildThreadNotificationHistory(V)]
  /\ UNCHANGED <<live, table, writes, runs>>

\* Message by message; a row that was listed takes the time of the repair.
UpsertThread(k) ==
  /\ In("messages") /\ k \in job.todo
  /\ \A other \in job.todo : k[3] <= other[3]
  /\ Repair(k, Canonical, k \in job.existing, [job EXCEPT !.todo = @ \ {k}])
  /\ UNCHANGED <<live, counter, writes, runs>>

\* Mutant: what is deleted is what is there now, not what was listed.
OrphansNow == {k \in ThreadKeys : Present(k) /\ k \notin BuildThreadNotificationHistory(job.history)}

\* The rows listed that no message accounts for.
Orphans == job.existing

\* The comments go first, then the mentions.
DeleteOrphans(type) ==
  /\ In("messages") /\ job.todo = {}
  /\ LET K == {k \in Orphans : k[2] = type}
     IN /\ K # {} /\ (type = "mention" => \A k \in Orphans : k[2] = "mention")
        /\ Delete(K)
        /\ job' = Removed(K)
  /\ UNCHANGED <<live, counter, writes, runs>>

EndThreads ==
  /\ In("messages") /\ job.todo = {} /\ Orphans = {}
  /\ job' = [job EXCEPT !.phase = "counters", !.existing = {}, !.history = {}]
  /\ UNCHANGED <<live, table, writes, runs>>

\* CountUnreadNotifications, for one of the users to be recomputed.
CountUnread(u) ==
  /\ In("counters") /\ u \in job.recompute
  /\ job' = [job EXCEPT !.phase = "count", !.count = Unread(u), !.counting = {u}]
  /\ UNCHANGED <<live, table, writes, runs>>

\* UpsertUnreadCounter and DeleteUnreadCounter: what was counted is written.
SetCounter(u) ==
  /\ In("count") /\ u \in job.counting
  /\ counter' = IF job.dry THEN counter ELSE [counter EXCEPT ![u] = job.count]
  /\ job' = [job EXCEPT !.phase = "counters", !.counting = {}, !.recompute = @ \ {u},
                        !.changed = IF counter[u] # job.count THEN @ \union {u} ELSE @]
  /\ UNCHANGED <<live, rows, writes, runs>>

EndCounters ==
  /\ In("counters") /\ job.recompute = {}
  /\ job' = [job EXCEPT !.phase = "publish"]
  /\ UNCHANGED <<live, table, writes, runs>>

\* The summary is returned and the lock released; the users in changed have
\* been told.  After a conflict there is only the error.
Finish ==
  /\ (In("publish") \/ In("conflict"))
  /\ job' = Idle
  /\ UNCHANGED <<live, table, writes, runs>>

\* A query fails, or the process is killed: the lock goes with its session.
Stop ==
  /\ Running
  /\ job' = Idle
  /\ UNCHANGED <<live, table, writes, runs>>

JobStep ==
  \/ Begin \/ ListInvitationRows \/ FetchPage
  \/ \E p \in Invitations \X (1 .. MaxVersion) \X BOOLEAN :
       RemoveMisplaced(p) \/ SkipUnregistered(p) \/ UpsertInvitation(p)
  \/ DeleteLeftovers \/ ListThreadRows \/ LoadThreadHistory
  \/ \E k \in ThreadKeys : UpsertThread(k)
  \/ \E type \in {"comment", "mention"} : DeleteOrphans(type)
  \/ EndThreads
  \/ \E u \in Users : CountUnread(u) \/ SetCounter(u)
  \/ EndCounters \/ Finish \/ Stop

Next == Requests \/ JobStep

Spec == Init /\ [][Next]_vars

-----------------------------------------------------------------------------
(* Properties.                                                             *)

\* The rows there should be, and what they should say, as things stand now.
ExpectedKeys ==
  {InvitationKey(i) : i \in {j \in Invitations : version[j] # 0 /\ Invitee[j] \in registered}}
    \union BuildThreadNotificationHistory(Visible)

Expected(k) ==
  IF k \notin ExpectedKeys THEN 0
  ELSE IF k[2] = "invitation" THEN version[k[3]] ELSE Canonical

\* A run that nothing interferes with, from whatever a killed run, a late
\* projection or an older program has left, ends with exactly the rows that
\* the sources call for, and with the right counts for the users of these.
Undisturbed == Running /\ ~job.dry /\ writes = job.since

RunRepairs ==
  In("publish") /\ Undisturbed =>
    /\ \A k \in Keys : rows[k].says = Expected(k)
    /\ \A k \in ExpectedKeys : counter[k[1]] = Unread(k[1])

\* The author of k's row has written to the thread before message k[3], but
\* committed it only after the run had read the history.
LateCommit(k) ==
  /\ In("messages") /\ k[2] = "comment"
  /\ \E n \in Visible \ job.history : n < k[3] /\ k[1] = Author[n]

\* No step of a run, whatever happens beside it, deletes a row that the
\* sources call for, as what it deletes was listed before it read them: unless
\* they have come to call for it since, by a message committed out of order.
ExpectedRowsKept ==
  [][\A k \in ExpectedKeys : Present(k) /\ ~LateCommit(k) => Present(k)']_vars

\* What a user has read stays read, through repairs and projections.
ReadStateKept ==
  [][\A k \in Keys : rows[k].read /\ Present(k)' => rows'[k].read]_vars

\* A run that ends well tells every user whose rows or counter it changes: a
\* step that changes them leaves the user among those to be told.
ChangesAnnounced ==
  [][writes' = writes =>
       \A u \in Users :
         (counter'[u] # counter[u] \/ \E k \in Keys : k[1] = u /\ rows'[k] # rows[k])
           => job' # Idle /\ u \in job'.changed]_vars

\* A dry run changes nothing.
DryRunWritesNothing ==
  [][Running /\ job.dry /\ writes' = writes => UNCHANGED table]_vars

\* A run that nothing interferes with does not fail on what it finds.
RerunSucceeds == In("conflict") => ~Undisturbed
=============================================================================
