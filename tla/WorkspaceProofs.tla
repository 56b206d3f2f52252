-------------------------- MODULE WorkspaceProofs --------------------------
(***************************************************************************)
(* Proofs about Workspace, for any sets of accounts, workspaces,           *)
(* invitations and concurrent calls.  A step that only moves a call along  *)
(* is dealt with once (QuietStep); the steps that write have a lemma each. *)
(***************************************************************************)
EXTENDS Workspace, TLAPS

About == {"accept", "reject", "cancel", "update"}

\* What a request's method says about its shape, and that moving it to
\* another statement changes nothing else of it.
LEMMA RequestShape ==
  ASSUME NEW r \in Requests
  PROVE  /\ r # Idle
         /\ r.step \in Steps /\ r.actor \in Users
         /\ r.op \in About =>
              /\ r.inv \in Invitations /\ r.version \in 1 .. MaxVersion + 1
              /\ r.shown \in Roles /\ r.role \in Roles
         /\ r.op \in {"invite", "set_role"} =>
              r.ws \in Workspaces /\ r.target \in Users /\ r.role \in Roles
         /\ r.op = "rename" => r.ws \in Workspaces
         /\ r.op \in {"create", "rename"} => r.name \in Names
         /\ \A s \in Steps : /\ [r EXCEPT !.step = s] \in Requests
                             /\ [r EXCEPT !.step = s].op = r.op
                             /\ [r EXCEPT !.step = s].step = s
                             /\ [r EXCEPT !.step = s].actor = r.actor
                             /\ r.op \in About =>
                                  /\ [r EXCEPT !.step = s].inv = r.inv
                                  /\ [r EXCEPT !.step = s].version = r.version
                                  /\ [r EXCEPT !.step = s].shown = r.shown
                             /\ r.op \in {"invite", "set_role"} =>
                                  /\ [r EXCEPT !.step = s].ws = r.ws
                                  /\ [r EXCEPT !.step = s].target = r.target
  <1>1. CASE r.op = "create"
    BY <1>1 DEF Requests, Idle, About
  <1>2. CASE r.op = "rename"
    BY <1>2 DEF Requests, Idle, About
  <1>3. CASE r.op \in {"invite", "set_role"}
    BY <1>3 DEF Requests, Idle, About
  <1>4. CASE r.op \in About
    BY <1>4 DEF Requests, Idle, About
  <1>. QED BY <1>1, <1>2, <1>3, <1>4 DEF Requests, About

\* What the invariant asks of one call.
CallOK(c) ==
  /\ call[c] \in Requests \union {Idle}
  /\ call[c].op \in About =>
       /\ invite[call[c].inv] # NoRow
       /\ call[c].version <= invite[call[c].inv].version
       /\ Answerable(c) => call[c].shown = invite[call[c].inv].role
  /\ call[c].op = "accept" /\ call[c].step = "write" =>
       invite[call[c].inv].invitee = call[c].actor
  /\ call[c].op = "set_role" /\ call[c].step \in {"count", "write"} =>
       IsMember(call[c].ws, call[c].target)
  /\ call[c].op = "invite" /\ call[c].step # "owner" => name[call[c].ws] # None

\* The part of the invariant that is about the tables.
TablesOK ==
  /\ name \in [Workspaces -> Names \union {None}]
  /\ founder \in [Workspaces -> SUBSET Users]
  /\ role \in [Workspaces -> [Users -> Roles \union {None}]]
  /\ invite \in [Invitations -> WorkspaceInvitation \union {NoRow}]
  /\ RowsConsistent /\ MembershipBacked /\ OnePendingInvitation

LEMMA IInvSplit ==
  IInv <=> TablesOK /\ call \in [Calls -> Requests \union {Idle}] /\ \A c \in Calls : CallOK(c)
  BY DEF IInv, TypeOK, TablesOK, CallOK, RequestsConsistent, WritesBacked, About

LEMMA IInvSplitPrime ==
  IInv' <=> TablesOK' /\ call' \in [Calls -> Requests \union {Idle}] /\ \A c \in Calls : CallOK(c)'
  BY DEF IInv, TypeOK, TablesOK, CallOK, RequestsConsistent, WritesBacked, About

\* A step that leaves the tables alone keeps every other call as it was.
LEMMA QuietStep ==
  ASSUME IInv, UNCHANGED tables, NEW c \in Calls, NEW r \in Requests \union {Idle},
         call' = [call EXCEPT ![c] = r], CallOK(c)'
  PROVE  IInv'
  <1>1. TablesOK'
    BY IInvSplit DEF TablesOK, tables, RowsConsistent, MembershipBacked,
       OnePendingInvitation, Accepted, Pending, IsMember
  <1>2. call' \in [Calls -> Requests \union {Idle}]
    BY IInvSplit
  <1>3. ASSUME NEW d \in Calls PROVE CallOK(d)'
    <2>1. CASE d = c
      BY <2>1
    <2>2. CASE d # c
      <3>1. call'[d] = call[d]
        BY <2>2, <1>2
      <3>. QED BY <3>1, IInvSplit DEF CallOK, tables, Answerable, Pending, IsMember
    <2>. QED BY <2>1, <2>2
  <1>. QED BY <1>1, <1>2, <1>3, IInvSplitPrime

LEMMA AbortIInv ==
  ASSUME IInv, NEW c \in Calls, Abort(c)
  PROVE  IInv'
  <1>1. CallOK(c)'
    BY IInvSplit DEF Abort, Return, CallOK, Idle, About
  <1>. QED BY <1>1, QuietStep DEF Abort, Return

\* Moving on to a statement that the invariant asks nothing new of.
LEMMA ProceedIInv ==
  ASSUME IInv, NEW c \in Calls, NEW s \in Steps, call[c] # Idle, Proceed(c, s),
         call[c].op = "accept" /\ s = "write" =>
           invite[call[c].inv].invitee = call[c].actor,
         call[c].op = "set_role" /\ s \in {"count", "write"} =>
           IsMember(call[c].ws, call[c].target),
         call[c].op = "invite" /\ s # "owner" => name[call[c].ws] # None
  PROVE  IInv'
  <1> DEFINE r == [call[c] EXCEPT !.step = s]
  <1>1. call[c] \in Requests /\ CallOK(c)
    BY IInvSplit
  <1>2. r \in Requests
    BY <1>1, RequestShape
  <1>3. call' = [call EXCEPT ![c] = r] /\ UNCHANGED tables
    BY DEF Proceed
  <1>4. call'[c] = r
    BY <1>3, IInvSplit
  <1>5. CallOK(c)'
    BY <1>1, <1>2, <1>3, <1>4, RequestShape
       DEF CallOK, tables, Answerable, Pending, IsMember, About
  <1>. QED BY <1>2, <1>3, <1>5, QuietStep

\* A new request, about a row as it is.
LEMMA SubmitIInv ==
  ASSUME IInv, NEW c \in Calls, NEW r \in Requests, Submit(c, r),
         r.step \notin {"count", "write"}, r.op = "invite" => r.step = "owner",
         r.op \in About =>
           /\ invite[r.inv] # NoRow
           /\ r.version = invite[r.inv].version
           /\ r.shown = invite[r.inv].role
  PROVE  IInv'
  <1>1. call' = [call EXCEPT ![c] = r] /\ UNCHANGED tables /\ call'[c] = r
    BY IInvSplit DEF Submit
  <1>2. CallOK(c)'
    <2>1. r.op \in About => r.version <= invite[r.inv].version
      BY RequestShape
    <2>. QED BY <1>1, <2>1 DEF CallOK, tables, Answerable, Pending, IsMember
  <1>. QED BY <1>1, <1>2, QuietStep

-----------------------------------------------------------------------------
(* The methods, one by one.                                                *)

\* The columns of a row that exists.
LEMMA RowShape ==
  ASSUME invite \in [Invitations -> WorkspaceInvitation \union {NoRow}],
         NEW i \in Invitations, invite[i].status # "absent"
  PROVE  /\ invite[i] \in WorkspaceInvitation /\ invite[i] # NoRow
         /\ invite[i].ws \in Workspaces /\ invite[i].invitee \in Users
         /\ invite[i].role \in Roles /\ invite[i].version \in 1 .. MaxVersion + 1
  BY DEF WorkspaceInvitation, NoRow

LEMMA InFlight ==
  ASSUME IInv, NEW c \in Calls, NEW op, NEW step, op # "idle", At(c, op, step)
  PROVE  /\ call[c] \in Requests /\ call[c] # Idle /\ CallOK(c)
         /\ call[c].op = op /\ call[c].step = step /\ step \in Steps
  <1>1. call[c] \in Requests \union {Idle} /\ CallOK(c)
    BY IInvSplit
  <1>2. call[c] # Idle
    BY DEF At, Idle
  <1>. QED BY <1>1, <1>2, RequestShape DEF At

LEMMA CreateWorkspaceIInv ==
  ASSUME IInv, NEW c \in Calls, CreateWorkspace(c)
  PROVE  IInv'
  <1>1. ASSUME NEW u \in Users, NEW n \in Names,
               Submit(c, [op |-> "create", step |-> "name", actor |-> u, name |-> n])
        PROVE  IInv'
    <2> DEFINE r == [op |-> "create", step |-> "name", actor |-> u, name |-> n]
    <2>1. r \in Requests /\ r.op = "create" /\ r.step = "name"
      BY DEF Requests, Steps
    <2> HIDE DEF r
    <2>. QED BY <1>1, <2>1, SubmitIInv DEF About, r
  <1>2. ASSUME At(c, "create", "name"), Proceed(c, "write") PROVE IInv'
    BY <1>2, InFlight, ProceedIInv DEF Steps
  <1>3. ASSUME At(c, "create", "write"), NEW w \in Workspaces, name[w] = None,
               name' = [name EXCEPT ![w] = call[c].name],
               founder' = [founder EXCEPT ![w] = {call[c].actor}],
               role' = [role EXCEPT ![w][call[c].actor] = "owner"],
               Return(c), UNCHANGED invite
        PROVE  IInv'
    <2>1. /\ call[c] \in Requests /\ call[c].op = "create"
          /\ call[c].actor \in Users /\ call[c].name \in Names
      BY <1>3, InFlight, RequestShape
    <2>2. TablesOK /\ call \in [Calls -> Requests \union {Idle}] /\ \A d \in Calls : CallOK(d)
      BY IInvSplit
    <2>3. /\ name' \in [Workspaces -> Names \union {None}]
          /\ founder' \in [Workspaces -> SUBSET Users]
          /\ role' \in [Workspaces -> [Users -> Roles \union {None}]]
      BY <1>3, <2>1, <2>2, WorkspaceAssumption DEF TablesOK
    <2>4. \A u \in Users : ~IsMember(w, u)
      BY <1>3, <2>2 DEF TablesOK, RowsConsistent, IsMember
    <2>5. \A v \in Workspaces, u \in Users :
             IsMember(v, u)' <=> IsMember(v, u) \/ (v = w /\ u = call[c].actor)
      BY <1>3, <2>1, <2>2, <2>4, WorkspaceAssumption DEF TablesOK, IsMember
    <2>6. \A i \in Invitations : Accepted(i) => invite[i].ws # w
      BY <2>2, <2>4 DEF TablesOK, MembershipBacked, Accepted, WorkspaceInvitation, NoRow
    <2>7. RowsConsistent'
      <3>1. \A v \in Workspaces, u \in Users : u \in founder'[v] => IsMember(v, u)'
        BY <1>3, <2>1, <2>2, <2>5 DEF TablesOK, RowsConsistent
      <3>2. \A v \in Workspaces, u \in Users : name'[v] = None => role'[v][u] = None
        BY <1>3, <2>1, <2>2, <2>5, WorkspaceAssumption DEF TablesOK, RowsConsistent, IsMember
      <3>. QED BY <1>3, <2>2, <3>1, <3>2 DEF RowsConsistent, TablesOK, Pending, IsMember
    <2>8. MembershipBacked'
      <3>1. \A i \in Invitations : Accepted(i)' <=> Accepted(i)
        BY <1>3 DEF Accepted
      <3>2. \A v \in Workspaces : v # w => founder'[v] = founder[v]
        BY <1>3, <2>2 DEF TablesOK
      <3>3. founder'[w] = {call[c].actor}
        BY <1>3, <2>2 DEF TablesOK
      <3>4. \A i \in Invitations : Accepted(i) =>
               invite[i].ws \in Workspaces /\ invite[i].invitee \in Users
        BY <2>2, RowShape DEF TablesOK, Accepted
      <3>5. \A v \in Workspaces, u \in Users :
               IsMember(v, u)' => \/ u \in founder'[v]
                                  \/ \E i \in Invitations :
                                       Accepted(i) /\ invite[i].ws = v /\ invite[i].invitee = u
        BY <2>2, <2>4, <2>5, <3>2, <3>3 DEF TablesOK, MembershipBacked
      <3>6. \A i \in Invitations :
               Accepted(i) => /\ IsMember(invite[i].ws, invite[i].invitee)'
                              /\ invite[i].invitee \notin founder'[invite[i].ws]
        <4> SUFFICES ASSUME NEW i \in Invitations, Accepted(i)
                     PROVE  /\ IsMember(invite[i].ws, invite[i].invitee)'
                            /\ invite[i].invitee \notin founder'[invite[i].ws]
          OBVIOUS
        <4> DEFINE v == invite[i].ws
                   u == invite[i].invitee
        <4>1. v \in Workspaces /\ u \in Users /\ v # w
          BY <2>6, <3>4
        <4>2. IsMember(v, u) /\ u \notin founder[v]
          BY <2>2 DEF TablesOK, MembershipBacked
        <4>3. role'[v][u] # None
          BY <2>5, <4>1, <4>2 DEF IsMember
        <4>4. IsMember(v, u)'
          BY <1>3, <4>3 DEF IsMember
        <4>. QED BY <3>2, <4>1, <4>2, <4>4
      <3>. QED BY <1>3, <2>2, <3>1, <3>5, <3>6 DEF TablesOK, MembershipBacked
    <2>9. OnePendingInvitation'
      BY <1>3, <2>2 DEF TablesOK, OnePendingInvitation, Pending
    <2>10. call' \in [Calls -> Requests \union {Idle}]
      BY <1>3, <2>2 DEF Return
    <2>11. ASSUME NEW d \in Calls PROVE CallOK(d)'
      <3>1. CASE d = c
        BY <1>3, <2>2, <3>1 DEF Return, CallOK, Idle, About
      <3>2. CASE d # c
        <4>1. call'[d] = call[d]
          BY <1>3, <2>2, <3>2 DEF Return
        <4>2. call[d].op = "set_role" => call[d].ws \in Workspaces /\ call[d].target \in Users
          BY <2>2, RequestShape DEF Idle
        <4>. QED BY <1>3, <2>2, <2>5, <4>1, <4>2 DEF CallOK, Answerable, Pending
      <3>. QED BY <3>1, <3>2
    <2>. QED BY <1>3, <2>2, <2>3, <2>7, <2>8, <2>9, <2>10, <2>11, IInvSplitPrime DEF TablesOK
  <1>. QED BY <1>1, <1>2, <1>3 DEF CreateWorkspace

LEMMA RenameWorkspaceIInv ==
  ASSUME IInv, NEW c \in Calls, RenameWorkspace(c)
  PROVE  IInv'
  <1>1. ASSUME NEW u \in Users, NEW w \in Workspaces, NEW n \in Names,
               Submit(c, [op |-> "rename", step |-> "owner", actor |-> u, ws |-> w, name |-> n])
        PROVE  IInv'
    <2> DEFINE r == [op |-> "rename", step |-> "owner", actor |-> u, ws |-> w, name |-> n]
    <2>1. r \in Requests /\ r.op = "rename" /\ r.step = "owner"
      BY DEF Requests, Steps
    <2> HIDE DEF r
    <2>. QED BY <1>1, <2>1, SubmitIInv DEF About, r
  <1>2. ASSUME At(c, "rename", "owner"), Proceed(c, "name") PROVE IInv'
    BY <1>2, InFlight, ProceedIInv DEF Steps
  <1>3. ASSUME At(c, "rename", "name"), Proceed(c, "write") PROVE IInv'
    BY <1>3, InFlight, ProceedIInv DEF Steps
  <1>4. ASSUME At(c, "rename", "write"),
               name' = [name EXCEPT ![call[c].ws] = call[c].name],
               Return(c), UNCHANGED <<founder, role, invite>>
        PROVE  IInv'
    <2>1. call[c] \in Requests /\ call[c].ws \in Workspaces /\ call[c].name \in Names
      BY <1>4, InFlight, RequestShape
    <2>2. TablesOK /\ call \in [Calls -> Requests \union {Idle}] /\ \A d \in Calls : CallOK(d)
      BY IInvSplit
    <2>3. TablesOK'
      <3>1. name' \in [Workspaces -> Names \union {None}]
        BY <1>4, <2>1, <2>2 DEF TablesOK
      <3>2. \A w \in Workspaces : name'[w] = None => name[w] = None
        BY <1>4, <2>1, <2>2, WorkspaceAssumption DEF TablesOK
      <3>. QED BY <1>4, <2>2, <3>1, <3>2 DEF TablesOK, RowsConsistent, MembershipBacked,
           OnePendingInvitation, Accepted, Pending, IsMember
    <2>4. call' \in [Calls -> Requests \union {Idle}]
      BY <1>4, <2>2 DEF Return
    <2>5. ASSUME NEW d \in Calls PROVE CallOK(d)'
      <3>1. CASE d = c
        BY <1>4, <2>2, <3>1 DEF Return, CallOK, Idle, About
      <3>2. CASE d # c
        <4>1. call'[d] = call[d]
          BY <1>4, <2>2, <3>2 DEF Return
        <4>2. call[d].op = "invite" => call[d].ws \in Workspaces
          BY <2>2, RequestShape DEF Idle
        <4>3. \A w \in Workspaces : name[w] # None => name'[w] # None
          BY <1>4, <2>1, <2>2, WorkspaceAssumption DEF TablesOK
        <4>. QED BY <1>4, <2>2, <4>1, <4>2, <4>3 DEF CallOK, Answerable, Pending, IsMember
      <3>. QED BY <3>1, <3>2
    <2>. QED BY <2>3, <2>4, <2>5, IInvSplitPrime
  <1>. QED BY <1>1, <1>2, <1>3, <1>4 DEF RenameWorkspace

LEMMA UpdateMemberRoleIInv ==
  ASSUME IInv, NEW c \in Calls, UpdateMemberRole(c)
  PROVE  IInv'
  <1>1. ASSUME NEW u \in Users, NEW t \in Users, NEW w \in Workspaces, NEW rl \in Roles,
               Submit(c, [op |-> "set_role", step |-> "owner", actor |-> u, ws |-> w,
                          target |-> t, role |-> rl])
        PROVE  IInv'
    <2> DEFINE r == [op |-> "set_role", step |-> "owner", actor |-> u, ws |-> w,
                     target |-> t, role |-> rl]
    <2>1. r \in Requests /\ r.op = "set_role" /\ r.step = "owner"
      BY DEF Requests, Steps
    <2> HIDE DEF r
    <2>. QED BY <1>1, <2>1, SubmitIInv DEF About, r
  <1>2. ASSUME At(c, "set_role", "owner"), Proceed(c, "target") PROVE IInv'
    BY <1>2, InFlight, ProceedIInv DEF Steps
  <1>3. ASSUME At(c, "set_role", "target"), IsMember(call[c].ws, call[c].target),
               NEW s \in {"count", "write"}, Proceed(c, s)
        PROVE  IInv'
    BY <1>3, InFlight, ProceedIInv DEF Steps
  <1>4. ASSUME At(c, "set_role", "count"), Proceed(c, "write") PROVE IInv'
    <2>1. call[c] # Idle /\ call[c].op = "set_role" /\ IsMember(call[c].ws, call[c].target)
      BY <1>4, InFlight DEF CallOK
    <2>. QED BY <1>4, <2>1, ProceedIInv DEF Steps
  <1>5. ASSUME At(c, "set_role", "write"),
               role' = [role EXCEPT ![call[c].ws][call[c].target] = call[c].role],
               Return(c), UNCHANGED <<name, founder, invite>>
        PROVE  IInv'
    <2>1. /\ call[c] \in Requests /\ call[c].ws \in Workspaces
          /\ call[c].target \in Users /\ call[c].role \in Roles
          /\ role[call[c].ws][call[c].target] # None
      BY <1>5, InFlight, RequestShape DEF CallOK, IsMember
    <2>2. TablesOK /\ call \in [Calls -> Requests \union {Idle}] /\ \A d \in Calls : CallOK(d)
      BY IInvSplit
    <2>3. \A w \in Workspaces, u \in Users : role'[w][u] = None <=> role[w][u] = None
      BY <1>5, <2>1, <2>2, WorkspaceAssumption DEF TablesOK
    <2>4. role' \in [Workspaces -> [Users -> Roles \union {None}]]
      BY <1>5, <2>1, <2>2 DEF TablesOK
    <2>5. RowsConsistent' /\ OnePendingInvitation'
      BY <1>5, <2>2, <2>3 DEF TablesOK, RowsConsistent, OnePendingInvitation, Pending, IsMember
    <2>6. MembershipBacked'
      <3>1. \A i \in Invitations : Accepted(i) =>
               invite[i].ws \in Workspaces /\ invite[i].invitee \in Users
        BY <2>2, RowShape DEF TablesOK, Accepted
      <3>. QED BY <1>5, <2>2, <2>3, <3>1 DEF TablesOK, MembershipBacked, Accepted, IsMember
    <2>7. call' \in [Calls -> Requests \union {Idle}]
      BY <1>5, <2>2 DEF Return
    <2>8. ASSUME NEW d \in Calls PROVE CallOK(d)'
      <3>1. CASE d = c
        BY <1>5, <2>2, <3>1 DEF Return, CallOK, Idle, About
      <3>2. CASE d # c
        <4>1. call'[d] = call[d]
          BY <1>5, <2>2, <3>2 DEF Return
        <4>2. call[d].op = "set_role" => call[d].ws \in Workspaces /\ call[d].target \in Users
          BY <2>2, RequestShape DEF Idle
        <4>. QED BY <1>5, <2>2, <2>3, <4>1, <4>2 DEF CallOK, Answerable, Pending, IsMember
      <3>. QED BY <3>1, <3>2
    <2>. QED BY <1>5, <2>2, <2>4, <2>5, <2>6, <2>7, <2>8, IInvSplitPrime DEF TablesOK
  <1>. QED BY <1>1, <1>2, <1>3, <1>4, <1>5 DEF UpdateMemberRole

LEMMA InviteMemberIInv ==
  ASSUME IInv, NEW c \in Calls, InviteMember(c)
  PROVE  IInv'
  <1>1. ASSUME NEW u \in Users, NEW t \in Users, NEW w \in Workspaces, NEW rl \in Roles,
               Submit(c, [op |-> "invite", step |-> "owner", actor |-> u, ws |-> w,
                          target |-> t, role |-> rl])
        PROVE  IInv'
    <2> DEFINE r == [op |-> "invite", step |-> "owner", actor |-> u, ws |-> w,
                     target |-> t, role |-> rl]
    <2>1. r \in Requests /\ r.op = "invite" /\ r.step = "owner"
      BY DEF Requests, Steps
    <2> HIDE DEF r
    <2>. QED BY <1>1, <2>1, SubmitIInv DEF About, r
  <1>2. ASSUME At(c, "invite", "owner"), IsOwner(call[c].ws, call[c].actor),
               Proceed(c, "member")
        PROVE  IInv'
    <2>1. /\ call[c] # Idle /\ call[c].op = "invite"
          /\ call[c].ws \in Workspaces /\ call[c].actor \in Users
      BY <1>2, InFlight, RequestShape
    <2>2. name[call[c].ws] # None
      BY <1>2, <2>1, IInvSplit, WorkspaceAssumption DEF TablesOK, RowsConsistent, IsOwner
    <2>. QED BY <1>2, <2>1, <2>2, ProceedIInv DEF Steps
  <1>3. ASSUME NEW st \in {"member", "pending"}, At(c, "invite", st),
               NEW s \in {"pending", "write"}, Proceed(c, s)
        PROVE  IInv'
    <2>1. call[c] # Idle /\ call[c].op = "invite" /\ name[call[c].ws] # None
      BY <1>3, InFlight DEF CallOK
    <2>. QED BY <1>3, <2>1, ProceedIInv DEF Steps
  <1>5. ASSUME At(c, "invite", "write"), UniquePending(call[c].ws, call[c].target),
               NEW i \in Invitations, invite[i] = NoRow,
               invite' = [invite EXCEPT ![i] =
                 [status |-> "pending", ws |-> call[c].ws, invitee |-> call[c].target,
                  role |-> call[c].role, version |-> 1]],
               Return(c), UNCHANGED <<name, founder, role>>
        PROVE  IInv'
    <2>1. /\ call[c] \in Requests /\ call[c].ws \in Workspaces
          /\ call[c].target \in Users /\ call[c].role \in Roles
          /\ name[call[c].ws] # None
      BY <1>5, InFlight, RequestShape DEF CallOK
    <2>2. TablesOK /\ call \in [Calls -> Requests \union {Idle}] /\ \A d \in Calls : CallOK(d)
      BY IInvSplit
    <2> DEFINE x == [status |-> "pending", ws |-> call[c].ws, invitee |-> call[c].target,
                     role |-> call[c].role, version |-> 1]
    <2>3. x \in WorkspaceInvitation
      BY <2>1, WorkspaceAssumption DEF WorkspaceInvitation
    <2>4. /\ invite' \in [Invitations -> WorkspaceInvitation \union {NoRow}]
          /\ invite'[i] = x
          /\ \A j \in Invitations : j # i => invite'[j] = invite[j]
      BY <1>5, <2>2, <2>3 DEF TablesOK
    <2>5. x.status = "pending" /\ x.version = 1 /\ x.ws = call[c].ws /\ x.invitee = call[c].target
      OBVIOUS
    <2> HIDE DEF x
    <2>6. RowsConsistent'
      BY <1>5, <2>1, <2>2, <2>4, <2>5, WorkspaceAssumption
         DEF TablesOK, RowsConsistent, Pending, IsMember
    <2>7. \A j \in Invitations : Accepted(j)' => j # i
      BY <2>4, <2>5 DEF Accepted
    <2>8. Accepted(i) = FALSE
      BY <1>5 DEF Accepted, NoRow
    <2>9. MembershipBacked'
      BY <1>5, <2>2, <2>4, <2>7, <2>8 DEF TablesOK, MembershipBacked, Accepted, IsMember
    <2>10. OnePendingInvitation'
      BY <1>5, <2>2, <2>4, <2>5 DEF TablesOK, OnePendingInvitation, Pending, UniquePending
    <2>11. call' \in [Calls -> Requests \union {Idle}]
      BY <1>5, <2>2 DEF Return
    <2>12. ASSUME NEW d \in Calls PROVE CallOK(d)'
      <3>1. CASE d = c
        BY <1>5, <2>2, <3>1 DEF Return, CallOK, Idle, About
      <3>2. CASE d # c
        <4>1. call'[d] = call[d] /\ CallOK(d)
          BY <1>5, <2>2, <3>2 DEF Return
        <4>2. call[d].op \in About => call[d].inv \in Invitations /\ call[d].inv # i
          BY <1>5, <4>1, RequestShape DEF Idle, About, CallOK
        <4>. QED BY <1>5, <2>4, <4>1, <4>2 DEF CallOK, Answerable, Pending, IsMember, About
      <3>. QED BY <3>1, <3>2
    <2>. QED BY <1>5, <2>2, <2>4, <2>6, <2>9, <2>10, <2>11, <2>12, IInvSplitPrime DEF TablesOK
  <1>. QED BY <1>1, <1>2, <1>3, <1>5 DEF InviteMember

\* A write to the locked row of an answerable invitation, by call c: no other
\* call's view of the row is contradicted, because the version moved on.
LEMMA OtherCallsKept ==
  ASSUME IInv, NEW c \in Calls, NEW d \in Calls, d # c,
         NEW i \in Invitations, Pending(i), NEW x \in WorkspaceInvitation,
         x.version = invite[i].version + 1, x.invitee = invite[i].invitee,
         invite' = [invite EXCEPT ![i] = x],
         \A w \in Workspaces, u \in Users : role[w][u] # None => role'[w][u] # None,
         Return(c), UNCHANGED name
  PROVE  CallOK(d)'
  <1>1. /\ TablesOK /\ call \in [Calls -> Requests \union {Idle}] /\ CallOK(d)
        /\ call[d] \in Requests \union {Idle}
    BY IInvSplit
  <1>2. call'[d] = call[d]
    BY <1>1 DEF Return
  <1>3. invite'[i] = x /\ \A j \in Invitations : j # i => invite'[j] = invite[j]
    BY <1>1 DEF TablesOK
  <1>4. invite[i] # NoRow /\ invite[i].version \in 1 .. MaxVersion + 1
    BY <1>1, RowShape DEF TablesOK, Pending
  <1>5. x # NoRow
    BY DEF WorkspaceInvitation, NoRow
  <1>6. CASE call[d].op \in About
    <2>1. call[d].inv \in Invitations /\ call[d].version \in 1 .. MaxVersion + 1
      BY <1>1, <1>6, RequestShape DEF Idle, About
    <2>2. CASE call[d].inv = i
      BY <1>1, <1>2, <1>3, <1>4, <1>5, <1>6, <2>1, <2>2, WorkspaceAssumption
         DEF CallOK, Answerable, Pending, About
    <2>3. CASE call[d].inv # i
      BY <1>1, <1>2, <1>3, <1>6, <2>1, <2>3 DEF CallOK, Answerable, Pending, About
    <2>. QED BY <2>2, <2>3
  <1>7. CASE call[d].op \notin About
    <2>1. call[d].op = "set_role" => call[d].ws \in Workspaces /\ call[d].target \in Users
      BY <1>1, RequestShape DEF Idle
    <2>. QED BY <1>1, <1>2, <1>7, <2>1 DEF CallOK, IsMember, About
  <1>. QED BY <1>6, <1>7

\* What a method that writes an invitation knows when it does.
LEMMA LockedRow ==
  ASSUME IInv, NEW c \in Calls, NEW op \in About, At(c, op, "write"), Answerable(c)
  PROVE  /\ TablesOK /\ call \in [Calls -> Requests \union {Idle}]
         /\ call[c] \in Requests /\ call[c].actor \in Users /\ call[c].role \in Roles
         /\ call[c].inv \in Invitations /\ Pending(call[c].inv)
         /\ invite[call[c].inv] \in WorkspaceInvitation
         /\ invite[call[c].inv].ws \in Workspaces
         /\ invite[call[c].inv].invitee \in Users
         /\ invite[call[c].inv].version \in 1 .. MaxVersion
         /\ invite[call[c].inv].status = "pending"
  <1>1. TablesOK /\ call \in [Calls -> Requests \union {Idle}]
    BY IInvSplit
  <1>2. call[c] \in Requests /\ call[c].op = op
    BY InFlight DEF About
  <1>3. call[c].actor \in Users /\ call[c].role \in Roles /\ call[c].inv \in Invitations
    BY <1>2, RequestShape
  <1>4. invite[call[c].inv].status = "pending"
    BY DEF Answerable, Pending
  <1>5. invite[call[c].inv].version <= MaxVersion
    BY <1>1, <1>3, <1>4 DEF TablesOK, RowsConsistent, Pending
  <1>. QED BY <1>1, <1>2, <1>3, <1>4, <1>5, RowShape, WorkspaceAssumption
       DEF TablesOK, Pending

\* An invitation ends without making a member.
LEMMA SettleIInv ==
  ASSUME IInv, NEW c \in Calls, NEW op \in About, At(c, op, "write"), Answerable(c),
         NEW st \in {"rejected", "cancelled"}, Settle(call[c].inv, st),
         Return(c), UNCHANGED <<name, founder, role>>
  PROVE  IInv'
  <1> DEFINE i == call[c].inv
             x == [invite[i] EXCEPT !.status = st, !.version = invite[i].version + 1]
  <1>1. /\ TablesOK /\ call \in [Calls -> Requests \union {Idle}]
        /\ i \in Invitations /\ Pending(i) /\ invite[i] \in WorkspaceInvitation
        /\ invite[i].version \in 1 .. MaxVersion
    BY LockedRow
  <1>2. invite' = [invite EXCEPT ![i] = x]
    BY DEF Settle, NextVersion
  <1>3. /\ x \in WorkspaceInvitation /\ x.version = invite[i].version + 1
        /\ x.invitee = invite[i].invitee /\ x.status = st /\ x.ws = invite[i].ws
    <2>1. PICK r \in WorkspaceInvitation : r = invite[i]
      BY <1>1
    <2>2. PICK v \in 1 .. MaxVersion + 1 : v = invite[i].version + 1
      BY <1>1, WorkspaceAssumption
    <2>3. x = [r EXCEPT !.status = st, !.version = v]
      BY <2>1, <2>2
    <2> HIDE DEF x
    <2>. QED BY <2>1, <2>2, <2>3 DEF WorkspaceInvitation
  <1>4. /\ invite' \in [Invitations -> WorkspaceInvitation \union {NoRow}]
        /\ invite'[i] = x
        /\ \A j \in Invitations : j # i => invite'[j] = invite[j]
    BY <1>1, <1>2, <1>3 DEF TablesOK
  <1> HIDE DEF x
  <1>5. \A j \in Invitations : /\ Pending(j)' => j # i /\ Pending(j)
                               /\ Accepted(j)' <=> Accepted(j) /\ j # i
                               /\ Accepted(j) => j # i
    BY <1>1, <1>3, <1>4 DEF Pending, Accepted
  <1>6. RowsConsistent' /\ OnePendingInvitation'
    <2>1. \A j \in Invitations :
             /\ invite'[j].ws = invite[j].ws /\ invite'[j].invitee = invite[j].invitee
             /\ invite'[j] # NoRow => invite[j] # NoRow
             /\ j # i => invite'[j].version = invite[j].version
      BY <1>1, <1>3, <1>4 DEF WorkspaceInvitation, NoRow
    <2>. QED BY <1>1, <1>5, <2>1 DEF TablesOK, RowsConsistent, OnePendingInvitation, IsMember
  <1>7. MembershipBacked'
    BY <1>1, <1>4, <1>5 DEF TablesOK, MembershipBacked, IsMember, Accepted
  <1>8. call' \in [Calls -> Requests \union {Idle}] /\ CallOK(c)'
    BY <1>1 DEF Return, CallOK, Idle, About
  <1>9. ASSUME NEW d \in Calls, d # c PROVE CallOK(d)'
    BY <1>1, <1>2, <1>3, <1>9, OtherCallsKept
  <1>. QED BY <1>1, <1>4, <1>6, <1>7, <1>8, <1>9, IInvSplitPrime DEF TablesOK

\* A request about an existing row, as it is when the request is made.
LEMMA SubmitAboutIInv ==
  ASSUME IInv, NEW c \in Calls, NEW op \in About, SubmitAbout(c, op)
  PROVE  IInv'
  <1>1. PICK u \in Users, i \in Invitations, rl \in Roles :
          /\ invite[i] # NoRow
          /\ Submit(c, [op |-> op, step |-> "read", actor |-> u, inv |-> i,
                        version |-> invite[i].version, shown |-> invite[i].role,
                        role |-> rl])
    BY DEF SubmitAbout
  <1> DEFINE r == [op |-> op, step |-> "read", actor |-> u, inv |-> i,
                   version |-> invite[i].version, shown |-> invite[i].role, role |-> rl]
  <1>2. invite[i].role \in Roles /\ invite[i].version \in 1 .. MaxVersion + 1
    BY <1>1, IInvSplit DEF TablesOK, WorkspaceInvitation
  <1>3. /\ r \in Requests /\ r.op = op /\ r.step = "read" /\ r.inv = i
        /\ r.version = invite[i].version /\ r.shown = invite[i].role
    BY <1>2 DEF Requests, Steps, About
  <1>4. Submit(c, r)
    BY <1>1
  <1> HIDE DEF r
  <1>5. r.step \notin {"count", "write"} /\ (r.op = "invite" => r.step = "owner")
    BY <1>3 DEF About
  <1>. QED BY <1>1, <1>3, <1>4, <1>5, SubmitIInv

LEMMA RejectInvitationIInv ==
  ASSUME IInv, NEW c \in Calls, RejectInvitation(c)
  PROVE  IInv'
  <1>1. ASSUME At(c, "reject", "read"), Proceed(c, "write") PROVE IInv'
    BY <1>1, InFlight, ProceedIInv DEF Steps
  <1>2. ASSUME SubmitAbout(c, "reject") PROVE IInv'
    BY <1>2, SubmitAboutIInv DEF About
  <1>. QED BY <1>1, <1>2, SettleIInv DEF RejectInvitation, About

LEMMA CancelInvitationIInv ==
  ASSUME IInv, NEW c \in Calls, CancelInvitation(c)
  PROVE  IInv'
  <1>1. ASSUME At(c, "cancel", "read"), Proceed(c, "owner") PROVE IInv'
    BY <1>1, InFlight, ProceedIInv DEF Steps
  <1>2. ASSUME At(c, "cancel", "owner"), Proceed(c, "write") PROVE IInv'
    BY <1>2, InFlight, ProceedIInv DEF Steps
  <1>3. ASSUME SubmitAbout(c, "cancel") PROVE IInv'
    BY <1>3, SubmitAboutIInv DEF About
  <1>. QED BY <1>1, <1>2, <1>3, SettleIInv DEF CancelInvitation, About

LEMMA UpdateInvitationIInv ==
  ASSUME IInv, NEW c \in Calls, UpdateInvitation(c)
  PROVE  IInv'
  <1>1. ASSUME At(c, "update", "read"), Proceed(c, "owner") PROVE IInv'
    BY <1>1, InFlight, ProceedIInv DEF Steps
  <1>2. ASSUME At(c, "update", "owner"), Proceed(c, "write") PROVE IInv'
    BY <1>2, InFlight, ProceedIInv DEF Steps
  <1>3. ASSUME SubmitAbout(c, "update") PROVE IInv'
    BY <1>3, SubmitAboutIInv DEF About
  <1>4. ASSUME At(c, "update", "write"), Answerable(c),
               invite[call[c].inv].version < MaxVersion,
               invite' = [invite EXCEPT ![call[c].inv] =
                 [@ EXCEPT !.role = call[c].role, !.version = NextVersion(call[c].inv)]],
               Return(c), UNCHANGED <<name, founder, role>>
        PROVE  IInv'
    <2> DEFINE i == call[c].inv
               x == [invite[i] EXCEPT !.role = call[c].role,
                                      !.version = invite[i].version + 1]
    <2>1. /\ TablesOK /\ call \in [Calls -> Requests \union {Idle}]
          /\ i \in Invitations /\ Pending(i) /\ invite[i] \in WorkspaceInvitation
          /\ invite[i].version \in 1 .. MaxVersion /\ call[c].role \in Roles
      BY <1>4, LockedRow DEF About
    <2>2. invite' = [invite EXCEPT ![i] = x]
      BY <1>4 DEF NextVersion
    <2>3. invite[i].version + 1 \in 1 .. MaxVersion
      BY <1>4, <2>1, WorkspaceAssumption
    <2>4. /\ x \in WorkspaceInvitation /\ x.version = invite[i].version + 1
          /\ x.invitee = invite[i].invitee /\ x.ws = invite[i].ws
          /\ x.status = invite[i].status
      <3>1. PICK r \in WorkspaceInvitation : r = invite[i]
        BY <2>1
      <3>2. PICK v \in 1 .. MaxVersion + 1 : v = invite[i].version + 1
        BY <2>1, WorkspaceAssumption
      <3>3. PICK rl \in Roles : rl = call[c].role
        BY <2>1
      <3>4. x = [r EXCEPT !.role = rl, !.version = v]
        BY <3>1, <3>2, <3>3
      <3> HIDE DEF x
      <3>. QED BY <3>1, <3>2, <3>3, <3>4 DEF WorkspaceInvitation
    <2>5. /\ invite' \in [Invitations -> WorkspaceInvitation \union {NoRow}]
          /\ invite'[i] = x
          /\ \A j \in Invitations : j # i => invite'[j] = invite[j]
      BY <2>1, <2>2, <2>4 DEF TablesOK
    <2> HIDE DEF x
    <2>6. \A j \in Invitations :
             /\ Pending(j)' <=> Pending(j)
             /\ Accepted(j)' <=> Accepted(j)
             /\ invite'[j].ws = invite[j].ws /\ invite'[j].invitee = invite[j].invitee
      BY <2>4, <2>5 DEF Pending, Accepted
    <2>7. RowsConsistent' /\ OnePendingInvitation'
      <3>1. \A j \in Invitations :
               /\ invite'[j] # NoRow => invite[j] # NoRow
               /\ Pending(j) /\ invite[j].version <= MaxVersion => invite'[j].version <= MaxVersion
        BY <2>1, <2>3, <2>4, <2>5, WorkspaceAssumption DEF WorkspaceInvitation, NoRow
      <3>. QED BY <1>4, <2>1, <2>6, <3>1
           DEF TablesOK, RowsConsistent, OnePendingInvitation, IsMember
    <2>8. MembershipBacked'
      BY <1>4, <2>1, <2>6 DEF TablesOK, MembershipBacked, IsMember, Accepted
    <2>9. call' \in [Calls -> Requests \union {Idle}] /\ CallOK(c)'
      BY <1>4, <2>1 DEF Return, CallOK, Idle, About
    <2>10. ASSUME NEW d \in Calls, d # c PROVE CallOK(d)'
      BY <1>4, <2>1, <2>2, <2>4, <2>10, OtherCallsKept
    <2>. QED BY <1>4, <2>1, <2>5, <2>7, <2>8, <2>9, <2>10, IInvSplitPrime DEF TablesOK
  <1>. QED BY <1>1, <1>2, <1>3, <1>4 DEF UpdateInvitation

LEMMA AcceptInvitationIInv ==
  ASSUME IInv, NEW c \in Calls, AcceptInvitation(c)
  PROVE  IInv'
  <1>1. ASSUME At(c, "accept", "read"), invite[call[c].inv].invitee = call[c].actor,
               Proceed(c, "write")
        PROVE  IInv'
    BY <1>1, InFlight, ProceedIInv DEF Steps
  <1>2. ASSUME SubmitAbout(c, "accept") PROVE IInv'
    BY <1>2, SubmitAboutIInv DEF About
  <1>3. ASSUME At(c, "accept", "write"), Answerable(c),
               MayJoin(invite[call[c].inv].ws, call[c].actor),
               role' = [role EXCEPT ![invite[call[c].inv].ws][call[c].actor] =
                          invite[call[c].inv].role],
               Settle(call[c].inv, "accepted"), Return(c), UNCHANGED <<name, founder>>
        PROVE  IInv'
    <2> DEFINE i == call[c].inv
               w == invite[i].ws
               u == call[c].actor
               x == [invite[i] EXCEPT !.status = "accepted", !.version = invite[i].version + 1]
    <2>1. /\ TablesOK /\ call \in [Calls -> Requests \union {Idle}]
          /\ i \in Invitations /\ Pending(i) /\ invite[i] \in WorkspaceInvitation
          /\ invite[i].version \in 1 .. MaxVersion
          /\ w \in Workspaces /\ u \in Users
      BY <1>3, LockedRow DEF About
    <2>2. invite[i].invitee = u /\ invite[i].role \in Roles
      BY <1>3, <2>1, InFlight, RowShape DEF CallOK, WorkspaceInvitation
    <2>3. invite' = [invite EXCEPT ![i] = x]
      BY <1>3 DEF Settle, NextVersion
    <2>4. /\ x \in WorkspaceInvitation /\ x.version = invite[i].version + 1
          /\ x.invitee = u /\ x.ws = w /\ x.status = "accepted"
      <3>1. PICK r \in WorkspaceInvitation : r = invite[i]
        BY <2>1
      <3>2. PICK v \in 1 .. MaxVersion + 1 : v = invite[i].version + 1
        BY <2>1, WorkspaceAssumption
      <3>3. x = [r EXCEPT !.status = "accepted", !.version = v]
        BY <3>1, <3>2
      <3> HIDE DEF x
      <3>. QED BY <2>2, <3>1, <3>2, <3>3 DEF WorkspaceInvitation
    <2>5. /\ invite' \in [Invitations -> WorkspaceInvitation \union {NoRow}]
          /\ invite'[i] = x
          /\ \A j \in Invitations : j # i => invite'[j] = invite[j]
      BY <2>1, <2>3, <2>4 DEF TablesOK
    <2> HIDE DEF x
    <2>6. role[w][u] = None
      BY <1>3 DEF MayJoin, IsMember
    <2>7. role' \in [Workspaces -> [Users -> Roles \union {None}]]
      BY <1>3, <2>1, <2>2 DEF TablesOK
    <2>8. \A v \in Workspaces, t \in Users :
             role'[v][t] # None <=> role[v][t] # None \/ (v = w /\ t = u)
      BY <1>3, <2>1, <2>2, WorkspaceAssumption DEF TablesOK
    <2>9. \A j \in Invitations :
             /\ Pending(j)' => j # i /\ Pending(j)
             /\ Accepted(j)' <=> Accepted(j) \/ j = i
             /\ Accepted(j) => j # i
             /\ invite'[j].ws = invite[j].ws /\ invite'[j].invitee = invite[j].invitee
      BY <2>1, <2>2, <2>4, <2>5 DEF Pending, Accepted
    <2>10. u \notin founder[w]
      BY <2>1, <2>6 DEF TablesOK, RowsConsistent, IsMember
    <2>11. \A j \in Invitations : Accepted(j) =>
              /\ invite[j].ws \in Workspaces /\ invite[j].invitee \in Users
              /\ role[invite[j].ws][invite[j].invitee] # None
      BY <2>1, RowShape DEF TablesOK, MembershipBacked, Accepted, IsMember
    <2>12. name[w] # None /\ x # NoRow
      BY <2>1, <2>4 DEF TablesOK, RowsConsistent, WorkspaceInvitation, NoRow
    <2>13. RowsConsistent'
      BY <1>3, <2>1, <2>5, <2>8, <2>9, <2>12 DEF TablesOK, RowsConsistent, IsMember, Pending
    <2>14. OnePendingInvitation'
      BY <2>1, <2>9 DEF TablesOK, OnePendingInvitation
    <2>15. MembershipBacked'
      <3>1. \A v \in Workspaces, t \in Users :
               role'[v][t] # None => \/ t \in founder[v]
                                     \/ \E j \in Invitations :
                                          /\ Accepted(j)'
                                          /\ invite'[j].ws = v /\ invite'[j].invitee = t
        <4> SUFFICES ASSUME NEW v \in Workspaces, NEW t \in Users, role'[v][t] # None
                     PROVE  \/ t \in founder[v]
                            \/ \E j \in Invitations :
                                 /\ Accepted(j)'
                                 /\ invite'[j].ws = v /\ invite'[j].invitee = t
          OBVIOUS
        <4>1. CASE v = w /\ t = u
          BY <2>1, <2>4, <2>5, <2>9, <4>1
        <4>2. CASE role[v][t] # None
          BY <2>1, <2>9, <4>2 DEF TablesOK, MembershipBacked, IsMember
        <4>. QED BY <2>8, <4>1, <4>2
      <3>2. \A j \in Invitations :
               Accepted(j)' => /\ role'[invite'[j].ws][invite'[j].invitee] # None
                               /\ invite'[j].invitee \notin founder[invite'[j].ws]
        BY <2>1, <2>2, <2>8, <2>9, <2>10, <2>11 DEF TablesOK, MembershipBacked
      <3>3. \A j, k \in Invitations :
               Accepted(j)' /\ Accepted(k)' /\ invite'[j].ws = invite'[k].ws
                 /\ invite'[j].invitee = invite'[k].invitee => j = k
        BY <2>1, <2>2, <2>6, <2>9, <2>11 DEF TablesOK, MembershipBacked
      <3>4. founder' = founder
        BY <1>3
      <3>. QED BY <3>1, <3>2, <3>3, <3>4 DEF MembershipBacked, IsMember, Accepted
    <2>16. call' \in [Calls -> Requests \union {Idle}] /\ CallOK(c)'
      BY <1>3, <2>1 DEF Return, CallOK, Idle, About
    <2>17. ASSUME NEW d \in Calls, d # c PROVE CallOK(d)'
      BY <1>3, <2>1, <2>2, <2>3, <2>4, <2>8, <2>17, OtherCallsKept
    <2>. QED BY <1>3, <2>1, <2>5, <2>7, <2>13, <2>14, <2>15, <2>16, <2>17, IInvSplitPrime
         DEF TablesOK
  <1>. QED BY <1>1, <1>2, <1>3 DEF AcceptInvitation

-----------------------------------------------------------------------------
(* The theorems.                                                           *)

LEMMA InitIInv == Init => IInv
  <1> SUFFICES ASSUME Init PROVE IInv
    OBVIOUS
  <1>1. TypeOK
    BY DEF Init, TypeOK
  <1>2. \A i \in Invitations : ~Pending(i) /\ ~Accepted(i)
    BY DEF Init, Pending, Accepted, NoRow
  <1>3. \A c \in Calls : call[c].op = "idle"
    BY DEF Init, Idle
  <1>4. RowsConsistent /\ OnePendingInvitation /\ MembershipBacked
    BY <1>2 DEF Init, RowsConsistent, OnePendingInvitation, MembershipBacked, IsMember
  <1>5. RequestsConsistent /\ WritesBacked
    BY <1>3 DEF RequestsConsistent, WritesBacked
  <1>. QED BY <1>1, <1>4, <1>5 DEF IInv

LEMMA NextIInv == IInv /\ [Next]_vars => IInv'
  <1> SUFFICES ASSUME IInv, [Next]_vars PROVE IInv'
    OBVIOUS
  <1>1. CASE UNCHANGED vars
    BY <1>1 DEF vars, tables, IInv, TypeOK, RowsConsistent, RequestsConsistent, WritesBacked,
       MembershipBacked, OnePendingInvitation, Accepted, Pending, IsMember, Answerable
  <1>2. CASE Next
    BY <1>2, CreateWorkspaceIInv, RenameWorkspaceIInv, UpdateMemberRoleIInv, InviteMemberIInv,
       AcceptInvitationIInv, RejectInvitationIInv, CancelInvitationIInv, UpdateInvitationIInv,
       AbortIInv DEF Next
  <1>. QED BY <1>1, <1>2

\* The inductive invariant holds of every execution.
THEOREM WorkspaceInvariant == Spec => []IInv
  BY InitIInv, NextIInv, PTL DEF Spec

\* Every state is well typed.
THEOREM WorkspaceTypeCorrect == Spec => []TypeOK
  BY WorkspaceInvariant, PTL DEF IInv

\* Memberships and accepted invitations account for each other, whatever
\* calls race.
THEOREM MembersAreBacked == Spec => []MembershipBacked
  BY WorkspaceInvariant, PTL DEF IInv

\* No two pending invitations are for the same workspace and account.
THEOREM InvitationsArePendingOnce == Spec => []OnePendingInvitation
  BY WorkspaceInvariant, PTL DEF IInv

\* An account joins with the role it was shown when it answered.
THEOREM JoinersConsented == Spec => ConsentedRole
  <1>1. ASSUME IInv, Next PROVE JoinsAsShown
    <2> SUFFICES ASSUME NEW i \in Invitations, Pending(i), Accepted(i)'
                 PROVE  \E c \in Calls :
                          /\ call[c] # Idle /\ call'[c] = Idle
                          /\ call[c].op = "accept" /\ call[c].inv = i
                          /\ role'[invite[i].ws][invite[i].invitee] = call[c].shown
      BY DEF JoinsAsShown
    <2>1. /\ TablesOK /\ call \in [Calls -> Requests \union {Idle}]
          /\ invite[i].status = "pending"
      BY <1>1, IInvSplit DEF Pending
    <2>2. PICK c \in Calls : AcceptInvitation(c) /\ invite' # invite
      <3>1. invite' # invite
        BY <2>1 DEF Accepted
      <3>2. PICK c \in Calls : \/ AcceptInvitation(c) \/ InviteMember(c) \/ RejectInvitation(c)
                               \/ CancelInvitation(c) \/ UpdateInvitation(c)
        BY <1>1, <3>1 DEF Next, CreateWorkspace, RenameWorkspace, UpdateMemberRole, Abort,
           Submit, Proceed, tables
      <3>3. ~InviteMember(c)
        BY <1>1, <2>1, <3>1 DEF InviteMember, TablesOK, Accepted, Submit, Proceed, tables, NoRow
      <3>4. ~RejectInvitation(c) /\ ~CancelInvitation(c)
        BY <1>1, <2>1, <3>1, LockedRow DEF RejectInvitation, CancelInvitation, SubmitAbout,
           TablesOK, Accepted, Submit, Proceed, tables, Settle, WorkspaceInvitation, About
      <3>5. ~UpdateInvitation(c)
        BY <1>1, <2>1, <3>1, LockedRow DEF UpdateInvitation, SubmitAbout,
           TablesOK, Accepted, Submit, Proceed, tables, WorkspaceInvitation, About
      <3>. QED BY <3>1, <3>2, <3>3, <3>4, <3>5
    <2>3. /\ At(c, "accept", "write") /\ Answerable(c) /\ Return(c)
          /\ role' = [role EXCEPT ![invite[call[c].inv].ws][call[c].actor] =
                        invite[call[c].inv].role]
          /\ Settle(call[c].inv, "accepted")
      BY <2>2 DEF AcceptInvitation, SubmitAbout, Submit, Proceed, tables
    <2>4. /\ call[c] # Idle /\ call[c].op = "accept"
          /\ call[c].shown = invite[call[c].inv].role
          /\ invite[call[c].inv].invitee = call[c].actor
      BY <1>1, <2>3, InFlight DEF CallOK, About
    <2>5. call[c].inv = i
      BY <2>1, <2>3 DEF Settle, TablesOK, Accepted
    <2>6. invite[i].ws \in Workspaces /\ call[c].actor \in Users /\ call'[c] = Idle
      BY <1>1, <2>1, <2>3, <2>5, LockedRow DEF Return, About
    <2>7. role'[invite[i].ws][invite[i].invitee] = call[c].shown
      BY <2>1, <2>3, <2>4, <2>5, <2>6 DEF TablesOK
    <2>. QED BY <2>4, <2>5, <2>6, <2>7
  <1>2. IInv /\ [Next]_vars => [JoinsAsShown]_vars
    BY <1>1
  <1>. QED BY <1>2, WorkspaceInvariant, PTL DEF Spec, ConsentedRole

\* Versions count changes, and answered invitations are frozen.
THEOREM ChangesAreCounted == Spec => VersionCountsChanges
  <1>1. ASSUME IInv, Next PROVE ChangesCounted
    <2> SUFFICES ASSUME NEW i \in Invitations, invite[i] # NoRow, invite'[i] # invite[i]
                 PROVE  /\ Pending(i)
                        /\ invite'[i].version = invite[i].version + 1
                        /\ invite'[i].ws = invite[i].ws
                        /\ invite'[i].invitee = invite[i].invitee
      BY DEF ChangesCounted
    <2>1. TablesOK
      BY <1>1, IInvSplit
    <2>2. PICK c \in Calls : \/ AcceptInvitation(c) \/ RejectInvitation(c)
                             \/ CancelInvitation(c) \/ UpdateInvitation(c)
      <3>1. \A c \in Calls : ~InviteMember(c)
        BY <2>1 DEF InviteMember, TablesOK, Submit, Proceed, tables
      <3>. QED BY <1>1, <3>1 DEF Next, CreateWorkspace, RenameWorkspace, UpdateMemberRole, Abort,
           Submit, Proceed, tables
    <2>3. PICK op \in About : /\ At(c, op, "write") /\ Answerable(c)
                              /\ \/ \E st \in {"accepted", "rejected", "cancelled"} :
                                      Settle(call[c].inv, st)
                                 \/ invite' = [invite EXCEPT ![call[c].inv] =
                                      [@ EXCEPT !.role = call[c].role,
                                                !.version = NextVersion(call[c].inv)]]
      BY <2>2 DEF AcceptInvitation, RejectInvitation, CancelInvitation, UpdateInvitation,
         SubmitAbout, Submit, Proceed, tables, About
    <2>4. /\ call[c].inv \in Invitations /\ Pending(call[c].inv)
          /\ invite[call[c].inv] \in WorkspaceInvitation
      BY <1>1, <2>3, LockedRow
    <2>5. call[c].inv = i
      BY <2>1, <2>3, <2>4 DEF Settle, TablesOK
    <2>6. PICK r \in WorkspaceInvitation : r = invite[i]
      BY <2>4, <2>5
    <2>7. \/ \E st \in {"accepted", "rejected", "cancelled"} :
               invite'[i] = [r EXCEPT !.status = st, !.version = r.version + 1]
          \/ invite'[i] = [r EXCEPT !.role = call[c].role, !.version = r.version + 1]
      BY <2>1, <2>3, <2>4, <2>5, <2>6 DEF Settle, NextVersion, TablesOK
    <2>. QED BY <2>4, <2>5, <2>6, <2>7 DEF WorkspaceInvitation
  <1>2. IInv /\ [Next]_vars => [ChangesCounted]_vars
    BY <1>1
  <1>. QED BY <1>2, WorkspaceInvariant, PTL DEF Spec, VersionCountsChanges
=============================================================================
