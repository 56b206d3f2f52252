------------------------------- MODULE Pages -------------------------------
(***************************************************************************)
(* One page with its draft, its revisions and its trash items              *)
(* (internal/application/{page_service,revision_service,                   *)
(* revision_restore}.go over internal/repository/postgres/                 *)
(* {page_repository,revision_repository}.go).  Pages share no row.         *)
(*                                                                         *)
(* A call is a process whose statements interleave with those of other     *)
(* calls.  A read whose only use is to refuse the call is left out when a  *)
(* later statement refuses in the same case; roles are not modelled.       *)
(* After its write, a call has the threads of the page reevaluated; that   *)
(* step changes nothing here and is the subject of module Threads.         *)
(***************************************************************************)
EXTENDS Naturals, FiniteSets

CONSTANTS
  Contents,   \* documents that may be saved
  Empty,      \* the document "[]"
  TrashIds,   \* ids of trash items that may be created
  Calls,      \* service calls in flight at one time
  MaxRevisions  \* bound on the contents that have a revision

ASSUME PagesAssumption ==
  /\ Empty \in Contents
  /\ MaxRevisions \in Nat

VARIABLES
  page,       \* "absent", "visible" or "trashed" (deleted_at is set)
  draft,      \* the content of the page's draft
  revisions,  \* the contents of its revisions
  trash,      \* trash[i]: "absent", "active" or "restored"
  call        \* call[c]: a call on the page or one of its threads, or Idle

pageTables == <<page, draft, revisions, trash>>

Idle == [op |-> "idle"]

ContentCalls ==
  [op : {"update_draft", "restore_revision", "delete_page"},
   step : {"write", "reevaluate", "revise"}, content : Contents]
  \union [op : {"create_revision"}, step : {"revise"}, content : Contents]

RestoreCalls ==
  [op : {"restore_page"}, step : {"select", "write", "reevaluate"},
   content : Contents, item : TrashIds]

PageCalls == ContentCalls \union RestoreCalls

PagesTypeOK ==
  /\ page \in {"absent", "visible", "trashed"}
  /\ draft \in Contents
  /\ revisions \in SUBSET Contents
  /\ trash \in [TrashIds -> {"absent", "active", "restored"}]

PagesInit ==
  /\ page = "absent"
  /\ draft = Empty
  /\ revisions = {}
  /\ trash = [i \in TrashIds |-> "absent"]

At(c, op, step) == call[c].op = op /\ call[c].step = step

Begin(c, request) ==
  /\ call[c] = Idle
  /\ call' = [call EXCEPT ![c] = request]

Proceed(c, step) == call' = [call EXCEPT ![c] = [@ EXCEPT !.step = step]]

Return(c) == call' = [call EXCEPT ![c] = Idle]

-----------------------------------------------------------------------------
\* Page and draft are inserted in one transaction.
CreatePage ==
  /\ page = "absent"
  /\ page' = "visible"
  /\ UNCHANGED <<draft, revisions, trash, call>>

\* The statement looks at the page as it is when it starts; by the time it
\* has the draft's row and the page's, the page may be in the trash.
SaveDraft(c, op) ==
  /\ At(c, op, "write")
  /\ draft' = call[c].content
  /\ Proceed(c, "reevaluate")
  /\ UNCHANGED <<page, revisions, trash>>

UpdateDraft(c) ==
  \/ /\ page = "visible"
     /\ \E content \in Contents :
          Begin(c, [op |-> "update_draft", step |-> "write", content |-> content])
     /\ UNCHANGED pageTables
  \/ SaveDraft(c, "update_draft")

\* Creates a revision of what the draft was when the call read it.
InsertRevision(c, op) ==
  /\ At(c, op, "revise")
  /\ revisions' = revisions \union {call[c].content}
  /\ Cardinality(revisions') <= MaxRevisions
  /\ Return(c)
  /\ UNCHANGED <<page, draft, trash>>

CreateRevision(c) ==
  \/ /\ page = "visible"
     /\ Begin(c, [op |-> "create_revision", step |-> "revise", content |-> draft])
     /\ UNCHANGED pageTables
  \/ InsertRevision(c, "create_revision")

\* Saves the revision's content as the draft and, after the reevaluation, as
\* a new revision.
RestoreRevision(c) ==
  \/ /\ page = "visible"
     /\ \E content \in revisions :
          Begin(c, [op |-> "restore_revision", step |-> "write", content |-> content])
     /\ UNCHANGED pageTables
  \/ SaveDraft(c, "restore_revision")
  \/ InsertRevision(c, "restore_revision")

ActiveItems == {i \in TrashIds : trash[i] = "active"}

\* The page's row is locked from here to the commit; the index
\* trash_items_active_page_unique_idx refuses a second active item.
SoftDelete(i) ==
  /\ page = "visible"
  /\ page' = "trashed"
  /\ ActiveItems = {}
  /\ trash[i] = "absent"
  /\ trash' = [trash EXCEPT ![i] = "active"]
  /\ UNCHANGED <<draft, revisions>>

DeletePage(c) ==
  /\ \E i \in TrashIds : SoftDelete(i)
  /\ Begin(c, [op |-> "delete_page", step |-> "reevaluate", content |-> Empty])

\* Mutant: the item is marked in a statement of its own.
SelectForRestoreMarking(c) ==
  /\ At(c, "restore_page", "select")
  /\ trash[call[c].item] = "active"
  /\ trash' = [trash EXCEPT ![call[c].item] = "restored"]
  /\ Proceed(c, "write")
  /\ UNCHANGED <<page, draft, revisions>>

\* The transaction selects the item without locking it, so that the item may
\* have been restored by the time the two updates run.
SelectForRestore(c) ==
  /\ At(c, "restore_page", "select")
  /\ trash[call[c].item] = "active"
  /\ Proceed(c, "write")
  /\ UNCHANGED pageTables

\* The rest of the transaction does not look at the item again.
UpdateRestored(c) ==
  /\ At(c, "restore_page", "write")
  /\ page' = "visible"
  /\ trash' = [trash EXCEPT ![call[c].item] = "restored"]
  /\ Proceed(c, "reevaluate")
  /\ UNCHANGED <<draft, revisions>>

\* GetTrashedByTrashItemID: the page and its draft while both are in the trash.
GetTrashed(c) ==
  /\ page = "trashed"
  /\ \E i \in ActiveItems :
       Begin(c, [op |-> "restore_page", step |-> "select", content |-> draft, item |-> i])
  /\ UNCHANGED pageTables

RestoreTrashItem(c) == GetTrashed(c) \/ SelectForRestore(c) \/ UpdateRestored(c)

PageStep(c) ==
  \/ UpdateDraft(c)
  \/ CreateRevision(c)
  \/ RestoreRevision(c)
  \/ DeletePage(c)
  \/ RestoreTrashItem(c)

Reevaluating(c) == call[c] # Idle /\ call[c].step = "reevaluate"

\* What is left to a call once the threads are reevaluated.
FinishReevaluation(c) ==
  IF call[c].op # "restore_revision" THEN Return(c)
  ELSE call' = [call EXCEPT ![c] =
         [op |-> "restore_revision", step |-> "revise", content |-> call[c].content]]

\* The call fails: a check, the database, the client or the server.
Abort(c) ==
  /\ call[c] # Idle
  /\ Return(c)
  /\ UNCHANGED pageTables

-----------------------------------------------------------------------------
(* Properties.                                                             *)

\* A page in the trash can be restored: exactly one item of the trash is
\* active for it, whatever deletions and restores overlap.
TrashedPageHasItem == page = "trashed" => Cardinality(ActiveItems) = 1

\* ARCHITECTURE.md: "page delete and restore keep page visibility state and
\* trash record state aligned inside repository transactions."
TrashAligned == ActiveItems # {} <=> page = "trashed"
=============================================================================
