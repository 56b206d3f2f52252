# A TLA+ model of the note-app backend

The backend (Go, PostgreSQL) keeps workspaces with members and invitations,
pages with drafts, revisions and trash, comment threads anchored to blocks of a
page, an outbox of events, a notification inbox with unread counters, a live
stream of the unread count, a job that repairs the notification tables, lists
handed out page by page, and a comparison of revisions.
There is no in-process locking around any of this except in the stream's
broker: what is coherent is coherent because of transactions, row locks, unique
indexes and conditional updates. These modules model the statements as they
interleave, TLC checks them on small instances, and TLAPS proves the central
ones for every value of the constants.

* [Running](#running)
* [The system](#the-system): parts, state, operations, interactions, hazards
* [The modules and the code](#the-modules-and-the-code)
* [The runs](#the-runs): what each shows, its bounds, fairness
* [Disagreements](#disagreements): where the code and its documents differ
* [The proofs](#the-proofs)
* [Not modelled](#not-modelled)
* [Roadmap](#roadmap)

## Running

    tlc -workers 2 -config MCOutbox.cfg MCOutbox
    tlapm OutboxProofs.tla

`PROJECT.json` lists every run with its module, its configuration and what is
expected of it; the source lines each definition stands for; and for every
property of a passing run a mutant, that is a definition changed the way a bug
would change it (they stand beside the originals under the comment `Mutant:`),
under which TLC finds the property violated.

## The system

| Part | Code (under `src/internal`) | State | Operations |
|---|---|---|---|
| Workspaces, members, invitations | `application/workspace_service.go`, `repository/postgres/workspace_repository.go` | workspaces, memberships with roles, invitations with a status and a version | create, rename; invite, accept, reject, cancel, update; change a role |
| Pages, drafts, trash | `application/page_service.go`, `page_repository.go` | the page's row (`deleted_at`), its draft, trash items | create, update the draft, delete, restore |
| Revisions | `application/revision_service.go`, `revision_restore.go` | revisions of a page | create, restore |
| Comment threads | `application/thread_service.go`, `thread_repository.go` | thread rows (state, anchor), messages, events | create, reply, resolve, reopen, reevaluate anchors |
| Lists in pages | `ListThreads`, `ListWorkspaceThreads`, `ListInbox`, `ListWorkspaceInvitations` | none: a cursor describes the last row of an answer | ask for a list, ask on with the cursor |
| Revision diff | `application/revision_diff.go` | the arrays of a search | compare two revisions: blocks, lines, words |
| Outbox | `repository/postgres/outbox_repository.go`, `migrations/000021` | events with status, attempts, lease | insert, claim, mark processed / retry / dead letter |
| Projectors | `application/{comment,mention,invitation}_notification_projector.go` | a batch in memory | process a batch: resolve recipients, write notifications |
| Inbox and counters | `repository/postgres/notification_repository.go`, `application/notification_service.go` | notification rows, one counter per user | deliver one or many, upsert an invitation's card, read one or many |
| Notification stream | `application/notification_stream.go`, `infrastructure/database/notification_stream.go`, `handleNotificationsStream` | the broker's subscriptions and listener flag, two channels per session | publish, subscribe, dispatch, answer, write, close |
| Reconciliation | `application/notification_reconciliation.go`, its repository, `cmd/notification-reconcile` | an advisory lock, the lists of a run | rebuild invitation and thread rows, recount, announce |
| Flat comments, folders, preferences, search, authentication, validation, HTTP, wiring | see `PROJECT.json` | | not modelled, see below |

How they interact. A handler calls one service method, and the method calls
repositories, each call a statement or a transaction of its own. Creating a
thread and replying insert outbox events in the transaction that writes the
message; a projector claims them, and writes notification rows and counters in
one transaction. Inviting a member writes the invitation, and after the commit
the notification. Updating a draft, restoring a revision, deleting a page and
restoring it each end by having the anchors of the page's threads reevaluated.
Whoever changed somebody's unread count publishes a signal on a PostgreSQL
channel; the broker of each process hands it to the sessions of that user.
Reconciliation reads all of the sources and rewrites the notification tables
while everything else goes on.

What is hard:

* *Check, then write.* Service methods read and check in separate statements
  and write later; only some writes check again (invitations do, role changes
  and trash restores do not).
* *Stale copies.* Thread calls read a row, change their copy, and write the
  whole row back.
* *Leases.* A worker may overrun its lease, die, or fail to record what it did.
* *Locks in no fixed order.* Counters are moved in the order of a Go map.
* *Two bounded channels and a select.* The stream drops signals and waits with
  events; the listening connection fails while subscriptions are being opened.
* *A repair beside the live program*, whose every statement commits by itself.
* *Cursors into lists that change*: the row a cursor was made of moves, rows
  share their time, and what was a page ago is not any more.
* *A search that overwrites its arrays in place* and reads them back from
  copies, with diagonals for indexes.

What makes each part correct is stated as its properties, below. Every hazard,
with the line where it bites and the properties that would catch it, is listed
under `hazards` in `PROJECT.json`.

## The modules and the code

| Module | Models | Checked by |
|---|---|---|
| `DeliveryQueue` | abstract: an event is settled once, and if delivered was handled | as a property of `Outbox` |
| `Outbox` | the table, claims under leases, the batch loops, crashes, failures | `MCOutbox` |
| `OutboxProofs` | proofs about `Outbox`, the refinement included | TLAPS |
| `Workspace` | every method of the workspace service as interleaved statements | `MCWorkspace` |
| `WorkspaceProofs` | proofs about `Workspace` | TLAPS |
| `UnreadLedger` | abstract: deliveries and reads are atomic, the count is the number of unread rows | as a property of `Inbox` |
| `Inbox` | transactions of several statements over rows and counters, row locks, deadlocks | `MCInbox` |
| `InboxProofs` | proofs about `Inbox` | TLAPS |
| `Pages` | one page: draft, revisions, trash | through `Threads` |
| `ThreadAnchor` | where in a document a thread is (a pure function) | through `Threads` |
| `Threads` | `Pages` composed with the threads of the page | `MCThreads` |
| `ThreadsProofs` | proofs about `Threads` and the page under it | TLAPS |
| `Paging` | lists by keyset pagination, a client that walks them, rows that change | `MCPaging` |
| `PagingProofs` | proofs about `Paging` | TLAPS |
| `MyersDiff` | the search for an edit script, step by step | through `RevisionDiff` |
| `RevisionDiff` | blocks, lines and text chunks made of a script, step by step | `MCRevisionDiff` |
| `RevisionDiffProofs` | proofs about `MyersDiff` and `RevisionDiff` | TLAPS |
| `NotificationStream` | one user's streams: publishers, broker, sessions, handlers | `MCNotificationStream` |
| `NotificationStreamProofs` | proofs about `NotificationStream` | TLAPS |
| `Reconciliation` | a run of the repair beside live requests | `MCReconciliation` |
| `ReconciliationProofs` | proofs about `Reconciliation` | TLAPS |

**Outbox.** One row per event: `status`, `attempts` (`attempt_count`),
`availableIn` and `leaseLeft` (timestamps relative to the present, so that the
clock needs no bound), `claimedBy`. A worker holds `batch`, and for the event in
hand `handling` and `outcome`. `ClaimPendingByTopics` is the CTE with `FOR UPDATE
SKIP LOCKED`; `ProcessEvent` is the projection, whose effect may be committed
whatever the worker learns of it; `Mark` is the three `Mark*` statements with
their condition `claimed_by = worker AND status = 'processing'`, `MarkMiss` the
statement that finds no such row. The comment projector goes on after a failed
mark, the invitation projector (`FailFast`) returns. An event that is skipped for
good counts as `handled`: its work is nothing. The two backoff functions are the
same one.

**Workspace.** A call is a record with the request and the `step`, that is the
query it runs next; each step is an action that refuses, goes on or writes. An
email stands for the account registered under it, and creating an account is
left out here (`Reconciliation` has it).

**Inbox.** A transaction collects what it `wrote` and whose counters it moved;
`needs` is the lock its statement waits for. The rows become visible at `Commit`.
`CreateMany`, `CreateCommentAndMentionNotifications` and `Create` differ, for
this state, in the batch only. `UpsertInvitationLive` inserts the card of an
invitation or rewrites the one that is there, read or not, in the same
transaction as the counter (`held`: it keeps the lock of a row it did not
insert); what the card says is left out, since nothing under `src/` produces the
events it is called for.

**Pages, ThreadAnchor, Threads.** One page with its tables, and calls as in
`Workspace`. A thread's row is what the code writes back; `history` adds up its events,
each from the value of the locked row to the one written: how often they, and the
creation, enter a value less how often they leave it. `HistoryAccountsForRow` relates
the two tables by that, and not by a replay, since the order events are listed in
(`ORDER BY created_at, id`) need not be that of the writes: a lifecycle event is
stamped before the row is locked (`thread_service.go:276`, `325`, `350`) or, when a
reevaluation writes an older state back, with the time of the stale copy
(`thread_repository.go:1077`, `1082`). Read in that order a history may end with
another state than its row; what it adds up to is the row's in every order. `ThreadAnchor!Evaluate` is `evaluateThreadAnchor`: block
ids may repeat (the first counts), a text or a quote must be found in exactly
one block. Anchors of the legacy kind that name no block are left out, and so is
who reopened a thread.

**Paging.** The lists of threads (of a page, of a workspace), of an inbox and of
invitations continue after a cursor by a `WHERE` clause written out by hand
beside the `ORDER BY` it must agree with; the queries fetch one row more than
they show. A row has an id, the times that lists are ordered by and one state a
list can be filtered by. `Begin` and `Continue` are requests, and everything else
(`Store`, `Change`, `Hide`, `Reveal`, `Reconcile`) happens to rows between them.
`Reconcile` is the one statement that rewrites `created_at`, and the user, of the card
of an invitation (`notification_reconciliation_repository.go:789`): a walk may then
show the row again, so `shown` counts from the last change of a row's creation time. `steady` are
the rows that fitted every request and kept their place, of which alone a walk
can promise something. A thread cursor carries the sort mode but not the filter,
the cursor of the inbox and of invitations the filter: `Accepts` has both. The
counts beside a list of threads come from a query of their own and are left out.

**MyersDiff, RevisionDiff.** `Extend` and `NextRound` are the two loops of
`buildMyersEdits`, `BackEqual`, `BackEdit` and `BackEnd` those of
`backtrackMyersEdits`; `furthest` and `trace` are the arrays `v` and `trace`,
indexed by diagonal where the code adds an offset. The code runs the same search
on blocks, lines and words, so the module has it once, over `Elements`;
`RevisionDiff` reads its script in each of the three ways, one after the other (the
code searches anew for each; what is read is any script that the search can find).
`buildRevisionDiffBlocks` is an iteration of the loop of that name, with a
modification made of a removal and an addition of one type; `Collect`, `ShowPair`,
`ShowRest` and `ShowContext` are the loops of `buildModifiedBlockLines`, whose two
early returns (a block without lines on one side) give what the loops would give;
`diffText` and `projectLineChunks` are iterations of theirs, with `Fallback` for
what the latter does without chunks. Items carry indexes, as line numbers do, and
`None` where the code leaves a side out. Cutting a document up is left out. `lcs` is a reference definition
by recursion over the suffixes, as the tests' `buildLCSMatrix` has it.

**NotificationStream.** The state of the broker (`started`, `subscribers`), of the
listener goroutine (`listener`, the `wire` in front of it, the `targets` of the
signal in hand, the `doomed` that a failed listener has still to close) and of
each session (`run`, the two channels `signals` and `events`, `last`) and handler
(`handler`, `writing`). A change of the count and the publication of its signal
are separate, and publications overtake each other. `heard` is history: the
latest change whose signal the broker had for the session. A query on a
cancelled context fails.

**Reconciliation.** One workspace with one thread; a row is identified by its
unique key and says a version of its invitation, or, of a message, the canonical
text or another. `job` is the run: the lists it read and what is left of them.
`old` is the cutoff, as the set of sources not newer than it. `Drift` are the
tables a run may find: what an older program has left, rows that are wrong,
missing or too many, but of accounts that exist and, of an invitation, at most
one. Requests happen between
any two statements of a run. `job.history` are the messages the run has read, which
is what its deletions go by: a message that was stamped before one of them may be
committed after. `Repair` takes the insert, the update and the second
look of `UpsertManagedNotification` as one step. Runs restricted to a workspace and
the paging of threads are left out, members and accounts are never removed
(there is no such operation), and a counter of 0 stands for no counter row.

## The runs

Eight runs must pass and four must find a violation. `CHECK_DEADLOCK FALSE`
stands where requests, runs or changes are bounded and the system stops at the
bound.

| Run | Instance | Shows |
|---|---|---|
| `outbox` | 2 invitation events and a comment event, an invitation worker and 2 comment workers, 2 attempts, 1 fault | rows keep the shapes of the CHECK constraints and an attempt left; a processed event was handled; a running lease is exclusive; `Outbox` implements `DeliveryQueue`, liveness included: every stored event settles |
| `workspace` | 2 users, 1 workspace, 2 invitations, 2 calls of any kind at a time | memberships and accepted invitations account for each other; one pending invitation per account; one joins with the role one was shown; versions count changes |
| `inbox` | 2 users, a reply to both and a mention of both, an invitation's card for a third, 2 transactions | the counter is the number of unread rows in every committed state; `Inbox` implements `UnreadLedger`; transactions end |
| `threads` | 1 thread, 3 documents (empty, two that share a text and a quote but no block), 2 calls at a time, 2 messages, 1 revision, 1 trash item | resolved rows have a resolver; the history, in any order, accounts for the row; a reply leaves the thread open; a page in the trash has its item; an undisturbed reevaluation leaves each thread where the document says it is |
| `paging` | 3 rows of 2 times, one row to a page, an order by activity and one by creation, filtered or not | rows that keep their place are shown once and in order; nothing is shown twice at one creation time in an order by creation; the walk ends |
| `revision_diff` | all pairs of documents of up to 3 blocks of 3 kinds and up to 4 of 2 | a script is always found, reads as either document and is as short as can be; so do the blocks, lines and chunks made of it |
| `stream` | 2 sessions, a channel of 1 signal and one of 2 events, 2 changes, any failures of the connection | no session waits for a listener that is not there; a client that was sent everything has seen the latest count it heard of |
| `reconciliation` | 3 users, 1 invitation, 2 messages, 2 runs, 3 requests | a run that is left alone repairs everything; no run deletes a row the sources call for; what was read stays read; changed users are told; a dry run writes nothing |
| `workspace_owner` | as `workspace` | *violation*: `OwnerRemains` |
| `pages_trash` | 1 page, 3 trash items, 2 calls | *violation*: `TrashAligned` |
| `stream_close` | 1 session, 2 changes | *violation*: `RequestsReturn` |
| `reconciliation_rerun` | as `reconciliation` | *violation*: `RerunSucceeds` |

Why the bounds are enough. Every property is about two actors in each other's
way: two calls on a row, a run and a request, a publisher and a session; the
instances have two of each, and a third (message, trash item, worker) where the
interesting case needs one: an item restored, deleted and restored again, a
lease that is taken over. `MaxVersion` 2 lets an invitation change between a read
and a write; `MaxAttempts` 2 lets a lost lease push the attempts to the limit; a
signal channel of one is full at the second signal as one of eight is at the
ninth. `Horizon` only tells past times apart. In `inbox` one batch delivered twice can
make a circle over rows, and two batches for the same two users, with no row in
common, one over counters, each transaction having moved one of the two first. In `threads` an anchor is moved by its text
from one document to the other, follows its quote, is outdated in place, or is
missing: all outcomes of `Evaluate`. No document of the run has two equal texts, a
blank one, or an id twice; the first two are covered by the proof of
`ReevaluationsSettle`, the last is what `DistinctIds` excludes. One trash item means one deletion; that
several, with restores of an old item between them, leave `TrashedPageHasItem`
standing is proved for every number (`pages_trash` has three). `Often` stops counting at
twice, which is all that `NothingTwice` asks; `MaxClock` 2 gives three rows two
that share a time; a limit of one cuts between any two rows, and the proofs are
for every limit and order. Scripts of up to seven edits have every round of the
search start on both sides of the middle diagonal and reach its ends.
Symmetry is used in runs without liveness properties, over sets whose
elements nothing tells apart.

Fairness. `Outbox`: time passes, a live worker takes its next step, and faults
are bounded by `MaxFaults` (a queue whose database always fails delivers
nothing). No producer must produce. Workers loop for ever: the code that would
call `ProcessBatch` in a loop is not in the repository, so this is the assumption
made of its caller. `Inbox`: a transaction goes on (a handler does), PostgreSQL grants a lock in turn to
those who wait for it (hence strong fairness of the next step of each transaction) and
breaks circles. `Abort` is never
forced. `NotificationStream`: goroutines that can go on do, and a write to a
client ends, because the client reads or has gone (the server sets no write
timeout, so a client that does neither is excluded by this). Nothing forces a
change, a publication, an opening or a disconnection. `Paging`: the client goes
on asking while it is told that there is more; a client that stops has no walk
to end. `RevisionDiff`: a sequential program that goes on.

## Disagreements

* `workspace_owner`: `UpdateMemberRole` counts owners and then writes, under no
  lock; two owners that demote each other leave none. `PRD.md:168` requires one.
* `pages_trash`: `RestoreTrashItem` selects the trash item without locking it and
  updates unconditionally. Of two restores of one item, the second can come after
  the page was deleted again: the page is visible and the new item stays active,
  can no longer be restored, and stands in the way of the next deletion.
  `ARCHITECTURE.md:290` says the two states are aligned. (The dangerous converse,
  a page in the trash that nothing restores, cannot happen:
  `TrashedPageHasItem`.)
* `stream_close`: `emit` waits for room or for `done`, which only the waiting
  goroutine itself closes. If the handler leaves while `events` is full, `Close`
  waits for `done` for ever and the request never returns.
* `reconciliation_rerun`: payloads are compared as text, PostgreSQL's rendering
  of JSONB against `json.Marshal`'s, so every row found appears to need repair.
  For an invitation row that is right the update matches nothing, the second look
  finds it still "in need", and the run fails with `ErrConflict`:
  it cannot be run on its own result. `ARCHITECTURE.md:352` calls it idempotent.

Smaller ones, met while modelling and not given a run of their own:

* A member can be left with a pending invitation, when another was accepted
  between the check of `InviteMember` and its insert (`PRD.md:175`); it cannot be
  accepted any more (`MembershipBacked`).
* A reply that read the thread open and finds it resolved writes back the copy
  it read, so that `reopened_by` keeps its old value
  (`frontend-repo/API_CONTRACT.md:1263`).
* The projector notifies every author of the thread as it loads it, and
  reconciliation the authors before the message; a message projected late
  notifies people whom the next run removes.
* Thread cursors name the sort mode they belong to but no filter
  (`thread_repository.go:24`): asked on with another filter, the walk goes on in
  the other list. In `recent_activity` a thread that moves meanwhile may be missed
  or come again; what the plan of the invitation list promises, a "next page
  without duplicates or gaps"
  (`docs/superpowers/plans/2026-04-04-task-4-get-my-invitations.md:346`), holds of
  rows that do not move (`SteadyShownOnce`).
* A run deletes rows of a thread by the messages it has read. A message stamped
  earlier and committed since makes its author a recipient of the messages after
  it, and if the projector has already given the author a row for one of these,
  the run deletes it, although by then the sources call for it (`LateCommit` in
  `ExpectedRowsKept`). The next run makes it again, unread.
* A run killed after it deleted a user's last row leaves that user's counter to
  no later run: counters are recomputed for users with rows only.

## The proofs

All proofs are checked by TLAPS without any assumption but the named `ASSUME`s
of the modules, which the runs evaluate.

*OutboxProofs.* `IInv` is `TypeOK`, `RowsWellFormed`, `HandledBeforeProcessed` and
`WorkersConsistent`. The last is what makes it inductive: a worker holds a result
only for an event of its batch, "done" only for work that is committed, and only
stored events; without it a `Mark` could record what nobody did. From it follow
`TypeCorrect`, `RowsStayWellFormed`, `AtLeastOnce`; `LeaseIsExclusive` adds a case
analysis of the steps that move a row; `OutboxImplementsQueue` maps every step to
a step of `DeliveryQueue` or a stutter.

*WorkspaceProofs.* `IInv` adds to the properties the rows' foreign keys
(`RowsConsistent`), what a current request knows of its invitation
(`RequestsConsistent`: if the version still matches then so does the role shown)
and what earlier queries of a call established that nothing can take back
(`WritesBacked`). One lemma per method and step; theorems for each safety
property and for the two action properties.

*InboxProofs.* `IInv` adds to `CounterMatchesRows` what open transactions hold
(`TxsConsistent`): what one has written was asked for and is still in the state
its statements found, no two transactions have written the same row, and what is
done with was either written or needed no writing. `CountersAreExact` then is
arithmetic: at the commit, a user's unread rows grow or shrink by exactly
`Delta`, and the floor of `GREATEST(0, ...)` is never reached. With the same
invariant `TransactionsAreAtomic` shows the whole refinement: a commit is a
`Deliver` of the batch or a `Read` of the keys asked for, every other step a
stutter. (`UnreadLedger` promises no liveness, so no fairness is needed.)

*NotificationStreamProofs.* `NobodyWaitsInVain` rests on two facts about the
order of statements: one is registered before one looks at the flag, and the
flag is cleared in the critical section that takes the subscribers out.
`RestIsFresh` follows an unread count through the pipeline: whenever the latest
change was heard of, a signal is on its way, or it was taken and the count is
still to be read, or the count last read is the present one; and the last count
read is the last in `events`, or in the handler's hand, or on the client's screen,
or about to be emitted.

*ThreadsProofs.* `IInv` adds `CallsConsistent`: every copy of a row in a call's hand
is coherent and of a thread that exists, a loop over a page's threads updates each
once, and as long as nothing disturbs it has in hand an update for each thread
that is not where the content says (`InHand`). `ResolutionsAreOwned`,
`HistoryAccounts`, `RepliesOpen` and `ReevaluationsSettle` follow, for any number
of calls. The last rests on `EvaluateSettles`: an anchor put where the content
says stays there, which needs distinct block ids, and that no blank text holds a
quote (`ThreadAnchorAssumption`; the code trims quotes and drops empty ones).
`TrashedPagesHaveItems` needs the index on active items and that the update that
takes a page out of the trash and the one that marks its item are one transaction.

*PagingProofs.* `IInv` adds `Placed`: the cursor stands between the rows that were
shown and those still to come, of the rows that keep their place; in the orders by
creation, of all rows (`PlacedForEver`), of which one that is given another creation
time starts anew. From it `ShownOnce`, `ShownInOrder` and
`ShownOnceAsCreated`, for every limit, sort and filter.

*ReconciliationProofs.* For `RunRepairs`, `IInv` follows a run through its phases.
`RowsConsistent`: rows are of users with an account, and of no message that is
still to come. `ListsConsistent`, `InvitationsConsistent`, `ThreadsConsistent`:
what was listed is there until the run itself deletes it, and a listed row that
the sources read call for is still in the run's hand; this holds whatever
happens meanwhile, and `ExpectedRowsStay` needs no more. `Progress` speaks of
runs that nothing disturbs: what has been done is `Settled` (the row says what it
should, and its user will be recounted), and what is not settled is still in one
of the lists. `Repairs` is the end of it. The theorem is for every drift that
`DriftAssumption` allows; the proof showed that it must allow no row of an
invitation for two users, as deletions go by what was listed. `ReadStays`,
`ChangesTold` and `DryRunIsDry` are about steps; a lemma (`StepEffect`) sorts all
steps of a run by what they do to the tables, and each theorem is a case of it.

*RevisionDiffProofs.* The invariant says of every entry of `furthest` and `trace` that
it is a point on its diagonal from which a snake was followed; the way back then
finds equal elements on each diagonal it descends, and `ReadsBothWays` follows for
all pairs of sequences.

For `ScriptsAreMinimal` let `Rest` be the number of edits that are needed at
least from a point of a diagonal to the end, by the table `lcs`, and `Best` the
number from the origin. An edit makes `Rest` less by one at most and a snake leaves
it (`RestAfterEdit`, `RestOfSnake`); where elements differ some edit makes it less
(`RestOfNext`); further along a diagonal it is never more (`RestAhead`). Hence, by
`MinInv`, no diagonal is ahead of the best way, d + `Rest` >= `Best`, and one of
every round is on it, d + `Rest` = `Best`, because the furthest point is kept.
The first gives minimality, and the second that the search is at the end when d
is `Best`, so that the empty answer is never given (`AlwaysFindsScript`). That the
equation of `lcs` has a solution, and facts along diagonals, are shown without
induction, by a least counterexample (`LeastOf`).

`AnswersReadBothWays` is an invariant for each loop (`AnswerInv`): the items that
are there list the indexes that the edits before the loop have shown (`Seen`). While
lines are collected, those shown are the smaller indexes and those pending the rest
(`Splits`), which is why taking turns keeps the order of either side. For chunks it
is where in the text each of them ends (`Cuts`): `TextOf`, a recursive function, is
computed from that by a least counterexample again (`CutsText`). That a modified
block differs needs minimality: `ApartInv` says that a removal right before an
addition of the same element would cost one, which a shortest script does not have.
`SidesEndStep` shows that `Fallback` never has anything to do: a line with a text
has chunks.

Only model-checked: all liveness (`ImplementsDeliveryQueue`'s fairness part,
`TxsEnd`, `WalkEnds`, `FindsScript`) and the violations. Every invariant and every
action property of the passing runs is a theorem. Liveness under fairness is out of TLAPS's reach, and the
induction theorems of its library cannot be instantiated; none of the modules
declares a recursive operator.

## Not modelled

* Flat page comments: two single-statement writes, whose fanout is a delivery of
  `Inbox`.
* Folders: single-statement writes behind a unique index.
* Notification preferences and the parsing of mentions: read-only inputs of the
  projection; the first are stored by single statements.
* Authentication: sessions are independent of all other state.
* Document validation and search text: sequential and without state. The models
  use the one consequence that matters: block ids may repeat.
* Pages' titles and folders: written whole by one statement from what the call
  read, so that of two updates of a page, one of the title and one of the folder,
  the later undoes the earlier (`page_service.go:170`). Nothing else depends on them.
* Names of workspaces: a query checks that a user has none of that name, and no
  index backs it (`workspace_service.go:121`).
* HTTP decoding and encoding, configuration, migrations, storage: start-up code
  and I/O. Times are modelled where an order of them decides something (leases,
  cutoffs), contents where a property tells them apart.

## Roadmap

1. *Invitation notifications end to end*: once something produces invitation
   events, the cards of `Inbox` with what they say, for events that are projected
   out of order (`notification_repository.go:372`).
2. *Threads as the producer of the outbox*: `Threads` composed with `Outbox`;
   preferences, when delivery comes to look at them (`PRD.md:237`).
3. *Page metadata and workspace names*: the two check-then-write races under
   "Not modelled".
