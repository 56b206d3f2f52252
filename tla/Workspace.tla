----------------------------- MODULE Workspace -----------------------------
(***************************************************************************)
(* Workspaces, memberships and invitations                                 *)
(* (internal/application/workspace_service.go over                         *)
(* internal/repository/postgres/workspace_repository.go).                  *)
(*                                                                         *)
(* A service method is a sequence of statements that share no transaction: *)
(* it reads what it must check, one query at a time, and then writes.      *)
(* Only the writes of the invitation methods lock the row and check it     *)
(* again.  A call is therefore a process whose steps interleave with those *)
(* of every other call.  It ends without a write when a check refuses it,  *)
(* the database fails, the client goes away or the server dies: Abort.     *)
(* Which error it returns is left out.  An email stands for the account    *)
(* that registered it.                                                     *)
(***************************************************************************)
EXTENDS Naturals, FiniteSets

CONSTANTS
  Users,        \* registered accounts
  Workspaces,   \* ids of workspaces that may be created
  Invitations,  \* ids of invitations that may be created
  Names,        \* workspace names, trimmed and lower-cased
  Roles,        \* {"owner", "editor", "viewer"}
  Calls,        \* service calls in flight at one time
  MaxVersion    \* bound on an invitation's version while it is pending

None == "none"

ASSUME WorkspaceAssumption ==
  /\ "owner" \in Roles
  /\ None \notin Roles
  /\ None \notin Names
  /\ MaxVersion \in Nat \ {0}

VARIABLES
  name,     \* name[w]: None until w is created
  founder,  \* history, founder[w]: {u} once u created w
  role,     \* role[w][u]: u's role in w; None when u is no member
  invite,   \* invite[i]: the row of invitation i, or NoRow
  call      \* call[c]: what call c was asked and the statement it runs next

tables == <<name, founder, role, invite>>
vars == <<tables, call>>

NoRow == [status |-> "absent"]

WorkspaceInvitation ==
  [status : {"pending", "accepted", "rejected", "cancelled"},
   ws : Workspaces, invitee : Users, role : Roles, version : 1 .. MaxVersion + 1]

\* Idle, or a request.  A request about an invitation carries the version
\* its caller read, and as `shown` the role the caller saw with it.
Idle == [op |-> "idle"]

Steps == {"owner", "name", "member", "pending", "read", "target", "count", "write"}

Requests ==
  [op : {"create"}, step : Steps, actor : Users, name : Names]
  \union [op : {"rename"}, step : Steps, actor : Users, ws : Workspaces, name : Names]
  \union [op : {"invite", "set_role"}, step : Steps, actor : Users, ws : Workspaces,
          target : Users, role : Roles]
  \union [op : {"accept", "reject", "cancel", "update"}, step : Steps, actor : Users,
          inv : Invitations, version : 1 .. MaxVersion + 1, shown : Roles, role : Roles]

TypeOK ==
  /\ name \in [Workspaces -> Names \union {None}]
  /\ founder \in [Workspaces -> SUBSET Users]
  /\ role \in [Workspaces -> [Users -> Roles \union {None}]]
  /\ invite \in [Invitations -> WorkspaceInvitation \union {NoRow}]
  /\ call \in [Calls -> Requests \union {Idle}]

Init ==
  /\ name = [w \in Workspaces |-> None]
  /\ founder = [w \in Workspaces |-> {}]
  /\ role = [w \in Workspaces |-> [u \in Users |-> None]]
  /\ invite = [i \in Invitations |-> NoRow]
  /\ call = [c \in Calls |-> Idle]

IsOwner(w, u) == role[w][u] = "owner"
IsMember(w, u) == role[w][u] # None
Pending(i) == invite[i].status = "pending"

\* Call c runs this statement of this method next.
At(c, op, step) == call[c].op = op /\ call[c].step = step

Return(c) == call' = [call EXCEPT ![c] = Idle]

\* The query before was to the call's liking; it goes on to this statement.
Proceed(c, step) ==
  /\ call' = [call EXCEPT ![c] = [@ EXCEPT !.step = step]]
  /\ UNCHANGED tables

Abort(c) ==
  /\ call[c] # Idle
  /\ Return(c)
  /\ UNCHANGED tables

Submit(c, request) ==
  /\ call[c] = Idle
  /\ call' = [call EXCEPT ![c] = request]
  /\ UNCHANGED tables

-----------------------------------------------------------------------------
(* Workspaces.                                                             *)

HasWorkspaceWithNameForUser(u, n, exclude) ==
  \E w \in Workspaces \ exclude : IsMember(w, u) /\ name[w] = n

CreateWorkspace(c) ==
  \/ \E u \in Users, n \in Names :
       Submit(c, [op |-> "create", step |-> "name", actor |-> u, name |-> n])
  \/ /\ At(c, "create", "name")
     /\ ~HasWorkspaceWithNameForUser(call[c].actor, call[c].name, {})
     /\ Proceed(c, "write")
  \/ /\ At(c, "create", "write")
     /\ \E w \in Workspaces :
          /\ name[w] = None
          /\ name' = [name EXCEPT ![w] = call[c].name]
          /\ founder' = [founder EXCEPT ![w] = {call[c].actor}]
          /\ role' = [role EXCEPT ![w][call[c].actor] = "owner"]
     /\ Return(c)
     /\ UNCHANGED invite

RenameWorkspace(c) ==
  \/ \E u \in Users, w \in Workspaces, n \in Names :
       Submit(c, [op |-> "rename", step |-> "owner", actor |-> u, ws |-> w, name |-> n])
  \/ /\ At(c, "rename", "owner")
     /\ IsOwner(call[c].ws, call[c].actor)
     /\ Proceed(c, "name")
  \/ /\ At(c, "rename", "name")
     /\ ~HasWorkspaceWithNameForUser(call[c].actor, call[c].name, {call[c].ws})
     /\ Proceed(c, "write")
  \/ /\ At(c, "rename", "write")
     /\ name' = [name EXCEPT ![call[c].ws] = call[c].name]
     /\ Return(c)
     /\ UNCHANGED <<founder, role, invite>>

\* The last-owner check counts first and updates later, under no lock.
UpdateMemberRole(c) ==
  \/ \E u, t \in Users, w \in Workspaces, r \in Roles :
       Submit(c, [op |-> "set_role", step |-> "owner", actor |-> u, ws |-> w,
                  target |-> t, role |-> r])
  \/ /\ At(c, "set_role", "owner")
     /\ IsOwner(call[c].ws, call[c].actor)
     /\ Proceed(c, "target")
  \/ /\ At(c, "set_role", "target")
     /\ IsMember(call[c].ws, call[c].target)
     /\ Proceed(c, IF IsOwner(call[c].ws, call[c].target) /\ call[c].role # "owner"
                   THEN "count" ELSE "write")
  \/ /\ At(c, "set_role", "count")
     /\ Cardinality({u \in Users : IsOwner(call[c].ws, u)}) > 1
     /\ Proceed(c, "write")
  \/ /\ At(c, "set_role", "write")
     /\ role' = [role EXCEPT ![call[c].ws][call[c].target] = call[c].role]
     /\ Return(c)
     /\ UNCHANGED <<name, founder, invite>>

-----------------------------------------------------------------------------
(* Invitations.                                                            *)

\* Mutant: no unique index on pending invitations.
UniquePendingOff(w, u) == TRUE

\* The index workspace_invitations_pending_email_idx, and the query for it.
UniquePending(w, u) ==
  \A i \in Invitations :
    Pending(i) => ~(invite[i].ws = w /\ invite[i].invitee = u)

\* The notification sent at the end of the call is not part of this module.
InviteMember(c) ==
  \/ \E u, t \in Users, w \in Workspaces, r \in Roles :
       Submit(c, [op |-> "invite", step |-> "owner", actor |-> u, ws |-> w,
                  target |-> t, role |-> r])
  \/ /\ At(c, "invite", "owner")
     /\ IsOwner(call[c].ws, call[c].actor)
     /\ call[c].target # call[c].actor
     /\ Proceed(c, "member")
  \/ /\ At(c, "invite", "member")
     /\ ~IsMember(call[c].ws, call[c].target)
     /\ Proceed(c, "pending")
  \/ /\ At(c, "invite", "pending")
     /\ \A i \in Invitations :
          Pending(i) => ~(invite[i].ws = call[c].ws /\ invite[i].invitee = call[c].target)
     /\ Proceed(c, "write")
  \/ /\ At(c, "invite", "write")
     /\ UniquePending(call[c].ws, call[c].target)
     /\ \E i \in Invitations :
          /\ invite[i] = NoRow
          /\ invite' = [invite EXCEPT ![i] =
               [status |-> "pending", ws |-> call[c].ws, invitee |-> call[c].target,
                role |-> call[c].role, version |-> 1]]
     /\ Return(c)
     /\ UNCHANGED <<name, founder, role>>

\* A client that saw invitation i answers what it saw.  Only "update" sends
\* a role of its own.
SubmitAbout(c, op) ==
  \E u \in Users, i \in Invitations, r \in Roles :
    /\ invite[i] # NoRow
    /\ op # "update" => r = invite[i].role
    /\ Submit(c, [op |-> op, step |-> "read", actor |-> u, inv |-> i,
                  version |-> invite[i].version, shown |-> invite[i].role, role |-> r])

\* Mutant: the locked row's version is not compared.
AnswerableAnyVersion(c) == Pending(call[c].inv)

\* What the transaction of call c checks on the row it has locked.
Answerable(c) == Pending(call[c].inv) /\ invite[call[c].inv].version = call[c].version

\* Mutant: the version is not moved on.
NextVersionStuck(i) == invite[i].version

\* Mutant: the version is moved on by the caller and again by the statement.
NextVersionTwice(i) == invite[i].version + 2

NextVersion(i) == invite[i].version + 1

\* Mutant: an existing membership is taken over instead of refused.
MayJoinAgain(w, u) == TRUE

\* The table's UNIQUE (workspace_id, user_id).
MayJoin(w, u) == ~IsMember(w, u)

\* The row gets its final status.
Settle(i, status) ==
  invite' = [invite EXCEPT ![i] = [@ EXCEPT !.status = status, !.version = NextVersion(i)]]

\* Accept and reject first read the row: pending, and sent to the caller.
AcceptInvitation(c) ==
  LET i == call[c].inv IN
  \/ SubmitAbout(c, "accept")
  \/ /\ At(c, "accept", "read")
     /\ Pending(i) /\ invite[i].invitee = call[c].actor
     /\ Proceed(c, "write")
  \/ /\ At(c, "accept", "write")
     /\ Answerable(c)
     /\ MayJoin(invite[i].ws, call[c].actor)
     /\ role' = [role EXCEPT ![invite[i].ws][call[c].actor] = invite[i].role]
     /\ Settle(i, "accepted")
     /\ Return(c)
     /\ UNCHANGED <<name, founder>>

RejectInvitation(c) ==
  LET i == call[c].inv IN
  \/ SubmitAbout(c, "reject")
  \/ /\ At(c, "reject", "read")
     /\ Pending(i) /\ invite[i].invitee = call[c].actor
     /\ Proceed(c, "write")
  \/ /\ At(c, "reject", "write")
     /\ Answerable(c)
     /\ Settle(i, "rejected")
     /\ Return(c)
     /\ UNCHANGED <<name, founder, role>>

\* Cancel and update read the row, then the caller's membership; what they
\* check on the row that was read does not change in between.
CancelInvitation(c) ==
  LET i == call[c].inv IN
  \/ SubmitAbout(c, "cancel")
  \/ /\ At(c, "cancel", "read")
     /\ Pending(i)
     /\ Proceed(c, "owner")
  \/ /\ At(c, "cancel", "owner")
     /\ IsOwner(invite[i].ws, call[c].actor)
     /\ Proceed(c, "write")
  \/ /\ At(c, "cancel", "write")
     /\ Answerable(c)
     /\ Settle(i, "cancelled")
     /\ Return(c)
     /\ UNCHANGED <<name, founder, role>>

UpdateInvitation(c) ==
  LET i == call[c].inv IN
  \/ SubmitAbout(c, "update")
  \/ /\ At(c, "update", "read")
     /\ Answerable(c)
     /\ invite[i].role # call[c].role
     /\ Proceed(c, "owner")
  \/ /\ At(c, "update", "owner")
     /\ IsOwner(invite[i].ws, call[c].actor)
     /\ Proceed(c, "write")
  \/ /\ At(c, "update", "write")
     /\ Answerable(c)
     /\ invite[i].version < MaxVersion
     /\ invite' = [invite EXCEPT ![i] =
          [@ EXCEPT !.role = call[c].role, !.version = NextVersion(i)]]
     /\ Return(c)
     /\ UNCHANGED <<name, founder, role>>

-----------------------------------------------------------------------------
Next ==
  \E c \in Calls :
    \/ CreateWorkspace(c)
    \/ RenameWorkspace(c)
    \/ UpdateMemberRole(c)
    \/ InviteMember(c)
    \/ AcceptInvitation(c)
    \/ RejectInvitation(c)
    \/ CancelInvitation(c)
    \/ UpdateInvitation(c)
    \/ Abort(c)

Spec == Init /\ [][Next]_vars

-----------------------------------------------------------------------------
(* Properties.                                                             *)

Accepted(i) == invite[i].status = "accepted"

\* Nobody is in a workspace by accident: a member founded it or accepted an
\* invitation to it, never two and never both, and an accepted invitation has
\* made its invitee a member, however invitations, answers and role changes
\* race.
MembershipBacked ==
  /\ \A w \in Workspaces, u \in Users :
       IsMember(w, u) => \/ u \in founder[w]
                         \/ \E i \in Invitations :
                              Accepted(i) /\ invite[i].ws = w /\ invite[i].invitee = u
  /\ \A i \in Invitations :
       Accepted(i) => /\ IsMember(invite[i].ws, invite[i].invitee)
                      /\ invite[i].invitee \notin founder[invite[i].ws]
  /\ \A i, j \in Invitations :
       Accepted(i) /\ Accepted(j) /\ invite[i].ws = invite[j].ws
         /\ invite[i].invitee = invite[j].invitee => i = j

\* At most one invitation per workspace and account is pending, although the
\* service's own check and its insert are separate statements.
OnePendingInvitation ==
  \A i, j \in Invitations :
    Pending(i) /\ Pending(j) /\ invite[i].ws = invite[j].ws
      /\ invite[i].invitee = invite[j].invitee => i = j

\* An account joins with the role it was shown when it answered, even when an
\* owner changes the invitation's role while the answer is on its way.
JoinsAsShown ==
  \A i \in Invitations :
    Pending(i) /\ Accepted(i)' =>
      \E c \in Calls :
        /\ call[c] # Idle /\ call'[c] = Idle
        /\ call[c].op = "accept" /\ call[c].inv = i
        /\ role'[invite[i].ws][invite[i].invitee] = call[c].shown
ConsentedRole == [][JoinsAsShown]_vars

\* The version counts the changes of a row, one by one, and a row that has
\* been answered or cancelled never changes again: what optimistic
\* concurrency rests on.
ChangesCounted ==
  \A i \in Invitations :
    invite[i] # NoRow /\ invite'[i] # invite[i] =>
      /\ Pending(i)
      /\ invite'[i].version = invite[i].version + 1
      /\ invite'[i].ws = invite[i].ws /\ invite'[i].invitee = invite[i].invitee
VersionCountsChanges == [][ChangesCounted]_vars

\* A request that is still current carries the role its caller was shown,
\* and no request is about an invitation that does not exist.
RequestsConsistent ==
  \A c \in Calls :
    call[c].op \in {"accept", "reject", "cancel", "update"} =>
      /\ invite[call[c].inv] # NoRow
      /\ call[c].version <= invite[call[c].inv].version
      /\ Answerable(c) => call[c].shown = invite[call[c].inv].role

\* A call that is to write has an actor its statements allow.
WritesBacked ==
  \A c \in Calls :
    /\ call[c].op = "accept" /\ call[c].step = "write" =>
         invite[call[c].inv].invitee = call[c].actor
    /\ call[c].op = "set_role" /\ call[c].step \in {"count", "write"} =>
         IsMember(call[c].ws, call[c].target)
    /\ call[c].op = "invite" /\ call[c].step # "owner" => name[call[c].ws] # None

\* The foreign keys, the founders' memberships, and the bound.
RowsConsistent ==
  /\ \A i \in Invitations :
       /\ Pending(i) => invite[i].version <= MaxVersion
       /\ invite[i] # NoRow => name[invite[i].ws] # None
  /\ \A w \in Workspaces, u \in Users :
       /\ u \in founder[w] => IsMember(w, u)
       /\ name[w] = None => role[w][u] = None

\* The inductive invariant.
IInv ==
  TypeOK /\ RowsConsistent /\ RequestsConsistent /\ WritesBacked
    /\ MembershipBacked /\ OnePendingInvitation

\* PRD.md: "At least one owner must remain in every workspace."
OwnerRemains ==
  \A w \in Workspaces : name[w] # None => \E u \in Users : IsOwner(w, u)
=============================================================================
