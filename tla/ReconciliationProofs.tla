------------------------ MODULE ReconciliationProofs ------------------------
(***************************************************************************)
(* Proofs about Reconciliation, for any users, invitations and messages,   *)
(* any drift of the tables and any number of requests and runs.            *)
(***************************************************************************)
EXTENDS Reconciliation, FiniteSetTheorems, TLAPS

-----------------------------------------------------------------------------
(* The inductive invariant.                                                *)

\* Rows are of users with an account, and of no message that is still to come.
RowsConsistent ==
  /\ Members \subseteq registered
  /\ \A k \in Keys : ~Present(k) => rows[k] = NoRow
  /\ \A k \in InvitationKeys : Present(k) => k[1] \in registered
  /\ \A k \in ThreadKeys : Present(k) => message[k[3]] # "stamped"

\* Rows that a run has listed are there until it deletes them; invitations it
\* may touch exist.
ListsConsistent ==
  Running =>
    /\ job.since <= writes
    /\ \A k \in job.existing : Present(k)
    /\ \A i \in Invitations \intersect job.old : version[i] # 0
    /\ job.phase = "invitations" => job.scanned = {} /\ job.page = {}
    /\ job.phase = "publish" => job.recompute = {}

InPage(i) == \E p \in job.page : p[1] = i

\* A row that was listed and whose invitation was read is accounted for when
\* the invitation is done with.
InvitationsConsistent ==
  In("page") \/ In("leftovers") =>
    /\ job.existing \subseteq InvitationKeys
    /\ \A k \in job.existing : k[1] \in registered /\ (k[3] \in job.scanned => InPage(k[3]))
    /\ \A p \in job.page :
         /\ InvitationKey(p[1]) \in job.existing => p[3]
         /\ p[3] => Invitee[p[1]] \in registered
    /\ In("leftovers") => job.page = {} /\ Invitations \intersect job.old \subseteq job.scanned

\* A row that was listed and that the messages read call for is still to do.
ThreadsConsistent ==
  In("history") \/ In("messages") =>
    /\ job.existing \subseteq ThreadKeys
    /\ \A k \in job.existing : message[k[3]] = "none" \/ k[3] \in job.old
    /\ In("messages") =>
         /\ \A m \in job.history : message[m] = "visible"
         /\ job.todo \subseteq BuildThreadNotificationHistory(job.history)
         /\ \A k \in job.existing :
              /\ message[k[3]] = "none" \/ k[3] \in job.history
              /\ k \in BuildThreadNotificationHistory(job.history) => k \in job.todo

\* k says what it should, and who has it, if it should be there, is recounted.
Settled(k) ==
  rows[k].says = Expected(k) /\ (k \in ExpectedKeys => k[1] \in job.recompute)

InvitationsProgress ==
  In("page") \/ In("leftovers") =>
    /\ \A p \in job.page : p[2] = version[p[1]] /\ p[3] = (Invitee[p[1]] \in registered)
    /\ \A k \in InvitationKeys :
         \/ Settled(k)
         \/ (k[3] \notin job.scanned \/ InPage(k[3])) /\ (Present(k) => k \in job.existing)

ThreadsProgress ==
  /\ In("threads") \/ In("history") \/ In("messages") => \A k \in InvitationKeys : Settled(k)
  /\ In("history") => \A k \in ThreadKeys : Present(k) => k \in job.existing
  /\ In("messages") =>
       /\ job.todo \subseteq ExpectedKeys
       /\ \A k \in ThreadKeys :
            \/ k \in job.todo
            \/ k \in job.existing /\ k \notin ExpectedKeys
            \/ k \notin job.existing /\ Settled(k)

CountersProgress ==
  In("counters") \/ In("count") \/ In("publish") =>
    /\ \A k \in Keys : rows[k].says = Expected(k)
    /\ \A k \in ExpectedKeys : k[1] \in job.recompute \/ counter[k[1]] = Unread(k[1])
    /\ In("count") => \A u \in job.counting : job.count = Unread(u)

\* How far a run that nothing interferes with has brought the tables.
Progress ==
  Undisturbed =>
    /\ job.old = {i \in Invitations : version[i] # 0} \union {m \in Messages : message[m] # "none"}
    /\ InvitationsProgress
    /\ ThreadsProgress
    /\ CountersProgress

IInv ==
  /\ TypeOK /\ RowsConsistent /\ ListsConsistent
  /\ InvitationsConsistent /\ ThreadsConsistent /\ Progress

-----------------------------------------------------------------------------
(* Keys, expected rows, finite sets.                                       *)

LEMMA KeyParts ==
  /\ \A k \in InvitationKeys :
       k \in Keys /\ k[1] \in Users /\ k[2] = "invitation" /\ k[3] \in Invitations
  /\ \A k \in ThreadKeys :
       /\ k \in Keys /\ k[1] \in Users /\ k[2] \in {"comment", "mention"}
       /\ k[3] \in Messages /\ k \notin InvitationKeys
  /\ \A k \in Keys : k \in InvitationKeys \/ k \in ThreadKeys
  /\ \A k \in Keys : k[1] \in Users
  /\ \A i \in Invitations :
       /\ InvitationKey(i) \in InvitationKeys
       /\ InvitationKey(i)[1] = Invitee[i] /\ InvitationKey(i)[3] = i
  <1>1. \A i \in Invitations : Invitee[i] \in Users
    BY ReconciliationAssumption
  <1>. QED
    BY <1>1 DEF Keys, InvitationKeys, ThreadKeys, InvitationKey

LEMMA HistoryKeys ==
  ASSUME NEW V \in SUBSET Messages
  PROVE  /\ BuildThreadNotificationHistory(V) \subseteq ThreadKeys
         /\ \A k \in ThreadKeys :
              k \in BuildThreadNotificationHistory(V) <=>
                /\ k[3] \in V
                /\ \/ k[2] = "comment" /\ k[1] \in CommentRecipients(k[3], V)
                   \/ k[2] = "mention" /\ k[1] \in MentionRecipients(k[3])
  <1>1. \A m \in V : CommentRecipients(m, V) \subseteq Users /\ MentionRecipients(m) \subseteq Users
    BY ReconciliationAssumption DEF CommentRecipients, MentionRecipients, Addressed
  <1>. QED
    BY <1>1 DEF BuildThreadNotificationHistory, ThreadKeys

LEMMA VisibleMessages == Visible \subseteq Messages
  BY DEF Visible

LEMMA ExpectedParts ==
  /\ ExpectedKeys \subseteq Keys
  /\ \A k \in InvitationKeys :
       k \in ExpectedKeys <=>
         k = InvitationKey(k[3]) /\ version[k[3]] # 0 /\ Invitee[k[3]] \in registered
  /\ \A k \in ThreadKeys : k \in ExpectedKeys <=> k \in BuildThreadNotificationHistory(Visible)
  <1>1. BuildThreadNotificationHistory(Visible) \subseteq ThreadKeys
    BY HistoryKeys, VisibleMessages
  <1>. QED
    BY <1>1, KeyParts DEF ExpectedKeys, Keys

LEMMA KeysAreFinite == IsFiniteSet(Keys)
  <1>. DEFINE Types == {"invitation", "comment", "mention"}
              Sources == Invitations \union Messages
              Nested == Users \X (Types \X Sources)
              nest == [k \in Keys |-> <<k[1], <<k[2], k[3]>>>>]
  <1>1. IsFiniteSet(Types)
    <2>1. IsFiniteSet({"invitation"}) /\ IsFiniteSet({"comment"}) /\ IsFiniteSet({"mention"})
      BY FS_Singleton
    <2>2. IsFiniteSet({"invitation"} \union {"comment"})
      BY <2>1, FS_Union
    <2>3. IsFiniteSet(({"invitation"} \union {"comment"}) \union {"mention"})
      BY <2>1, <2>2, FS_Union
    <2>4. Types = ({"invitation"} \union {"comment"}) \union {"mention"}
      OBVIOUS
    <2>. QED
      BY <2>3, <2>4
  <1>2. IsFiniteSet(Sources)
    BY FS_Union, ReconciliationAssumption
  <1>3. IsFiniteSet(Nested)
    BY <1>1, <1>2, FS_Product, ReconciliationAssumption
  <1>4. nest \in Injection(Keys, Nested)
    <2>1. \A k \in Keys : /\ k[1] \in Users /\ k[2] \in Types /\ k[3] \in Sources
                          /\ k = <<k[1], k[2], k[3]>>
      BY DEF Keys, InvitationKeys, ThreadKeys
    <2>2. nest \in [Keys -> Nested]
      BY <2>1
    <2>3. \A k, l \in Keys : nest[k] = nest[l] => k = l
      BY <2>1
    <2>. QED
      BY <2>2, <2>3 DEF Injection, IsInjective
  <1>. QED
    BY <1>3, <1>4, FS_Injection

LEMMA UnreadIsNat == \A u \in Users : Unread(u) \in Nat
  BY KeysAreFinite, FS_Subset, FS_CardinalityType DEF Unread

LEMMA CountIsNat ==
  ASSUME NEW K \in SUBSET Keys, NEW u
  PROVE  Cardinality({k \in K : k[1] = u}) \in Nat
  BY KeysAreFinite, FS_Subset, FS_CardinalityType

-----------------------------------------------------------------------------
(* Types.                                                                  *)

LEMMA JobTyped ==
  ASSUME TypeOK, Running
  PROVE  /\ job \in Jobs
         /\ job.phase \in Phases /\ job.dry \in BOOLEAN
         /\ job.old \subseteq Invitations \union Messages
         /\ job.existing \subseteq Keys /\ job.scanned \subseteq Invitations
         /\ job.page \subseteq Invitations \X (1 .. MaxVersion) \X BOOLEAN
         /\ job.history \subseteq Messages /\ job.todo \subseteq ThreadKeys
         /\ job.recompute \subseteq Users /\ job.changed \subseteq Users
         /\ job.counting \subseteq Users /\ job.count \in Nat /\ job.since \in Nat
  BY DEF TypeOK, Running, Jobs

LEMMA InPhase ==
  ASSUME TypeOK
  PROVE  \A phase \in Phases : In(phase) <=> Running /\ job.phase = phase
  BY DEF In

LEMMA PageTyped ==
  ASSUME TypeOK, Running, NEW p \in job.page
  PROVE  /\ p[1] \in Invitations /\ p[2] \in 1 .. MaxVersion /\ p[3] \in BOOLEAN
         /\ InvitationKey(p[1]) \in InvitationKeys /\ InvitationKey(p[1]) \in Keys
  BY JobTyped, KeyParts

LEMMA Rows ==
  /\ NoRow \in Row
  /\ \A says \in 1 .. MaxVersion : NewRow(says) \in Row /\ NewRow(says).says = says
  /\ Canonical \in 1 .. MaxVersion
  BY ReconciliationAssumption DEF NoRow, NewRow, Row, Canonical

LEMMA InsertTyped ==
  ASSUME TypeOK, NEW K \in SUBSET Keys, NEW says \in 1 .. MaxVersion, Insert(K, says)
  PROVE  /\ rows' \in [Keys -> Row]
         /\ counter' \in [Users -> Nat]
         /\ \A k \in Keys : rows'[k] = IF k \in K /\ ~Present(k) THEN NewRow(says) ELSE rows[k]
  <1>. DEFINE new == {k \in K : ~Present(k)}
  <1>1. /\ rows' = [k \in Keys |-> IF k \in new THEN NewRow(says) ELSE rows[k]]
        /\ counter' = [u \in Users |-> counter[u] + Cardinality({k \in new : k[1] = u})]
    BY DEF Insert
  <1>2. \A u : Cardinality({k \in new : k[1] = u}) \in Nat
    <2>1. new \in SUBSET Keys
      OBVIOUS
    <2>. HIDE DEF new
    <2>. QED
      BY <2>1, CountIsNat
  <1>. HIDE DEF new
  <1>3. counter' \in [Users -> Nat]
    <2>. DEFINE Added(u) == Cardinality({k \in new : k[1] = u})
    <2>1. \A u \in Users : Added(u) \in Nat /\ counter[u] \in Nat
      BY <1>2 DEF TypeOK
    <2>2. counter' = [u \in Users |-> counter[u] + Added(u)]
      BY <1>1
    <2>. HIDE DEF Added
    <2>. QED
      BY <2>1, <2>2
  <1>4. rows' \in [Keys -> Row]
    BY <1>1, Rows DEF TypeOK
  <1>. QED
    BY <1>1, <1>3, <1>4 DEF new

LEMMA NotIdle == \A j \in Jobs : j # Idle /\ j.phase \in Phases
  BY DEF Jobs, Idle, Phases

LEMMA InitIInv == Init => IInv
  <1>. SUFFICES ASSUME Init PROVE IInv
    OBVIOUS
  <1>1. rows \in Drift /\ job = Idle /\ registered = Members
    BY DEF Init
  <1>2. rows \in [Keys -> Row]
    BY <1>1, DriftAssumption
  <1>3. TypeOK
    <2>1. counter \in [Users -> Nat]
      BY UnreadIsNat DEF Init
    <2>2. version \in [Invitations -> 0 .. MaxVersion]
      BY ReconciliationAssumption DEF Init
    <2>. QED
      BY <1>1, <1>2, <2>1, <2>2, ReconciliationAssumption DEF Init, TypeOK
  <1>4. RowsConsistent
    <2>1. \A k \in Keys : ~Present(k) => rows[k] = NoRow
      BY <1>1, DriftAssumption DEF Present
    <2>2. ASSUME NEW k \in InvitationKeys, k[1] \notin registered PROVE ~Present(k)
      <3>1. rows[k] = NoRow
        BY <1>1, <2>2, DriftAssumption
      <3>. QED
        BY <3>1 DEF Present, NoRow
    <2>3. \A m \in Messages : message[m] # "stamped"
      BY DEF Init
    <2>. QED
      BY <1>1, <2>1, <2>2, <2>3, KeyParts DEF RowsConsistent
  <1>. QED
    BY <1>1, <1>3, <1>4
    DEF IInv, ListsConsistent, InvitationsConsistent, ThreadsConsistent, Progress, Undisturbed,
        Running, In

-----------------------------------------------------------------------------
(* The requests, whatever the run is at.                                   *)

\* After a request no run is undisturbed, and its lists are no worse.
LEMMA RequestIInv ==
  ASSUME IInv, TypeOK', RowsConsistent', writes' = writes + 1,
         \/ job' = job
         \/ Running /\ \E i \in Invitations : job' = [job EXCEPT !.old = @ \ {i}],
         \A k \in Keys : Present(k) => Present(k)',
         registered \subseteq registered',
         \A i \in Invitations : version[i] # 0 => version'[i] # 0,
         \A k \in ThreadKeys : Present(k) /\ message[k[3]] = "none" => message'[k[3]] = "none",
         \A m \in Messages : message[m] = "visible" => message'[m] = "visible"
  PROVE  IInv'
  <1>1. CASE ~Running
    <2>1. job' = Idle
      BY <1>1 DEF Running
    <2>. QED
      BY <2>1
      DEF IInv, ListsConsistent, InvitationsConsistent, ThreadsConsistent, Progress, Undisturbed,
          Running, In
  <1>2. CASE Running
    <2>1. /\ Running' /\ job' \in Jobs
          /\ job'.phase = job.phase /\ job'.existing = job.existing
          /\ job'.scanned = job.scanned /\ job'.page = job.page /\ job'.history = job.history
          /\ job'.todo = job.todo /\ job'.recompute = job.recompute /\ job'.since = job.since
          /\ job'.old \subseteq job.old
          /\ \A m \in Messages : m \in job.old => m \in job'.old
      <3>1. job \in Jobs
        BY <1>2, JobTyped DEF IInv
      <3>2. CASE job' = job
        BY <1>2, <3>1, <3>2 DEF Running
      <3>3. ASSUME NEW i \in Invitations, job' = [job EXCEPT !.old = @ \ {i}]
            PROVE  <2>1
        <4>1. job' \in Jobs
          BY <3>1, <3>3 DEF Jobs
        <4>2. i \notin Messages
          BY ReconciliationAssumption
        <4>. QED
          BY <3>1, <3>3, <4>1, <4>2, NotIdle DEF Running, Jobs
      <3>. QED
        BY <3>2, <3>3
    <2>2. \A phase : In(phase)' <=> In(phase)
      BY <1>2, <2>1 DEF In
    <2>3. ListsConsistent'
      <3>1. job.existing \subseteq Keys /\ job.since \in Nat /\ writes \in Nat
        BY <1>2, JobTyped DEF IInv, TypeOK
      <3>. QED
        BY <1>2, <2>1, <3>1 DEF IInv, ListsConsistent
    <2>4. InvitationsConsistent'
      BY <2>1, <2>2 DEF IInv, InvitationsConsistent, InPage, InvitationKey
    <2>5. ThreadsConsistent'
      <3>1. ASSUME In("history") \/ In("messages"), NEW k \in job.existing
            PROVE  /\ k \in ThreadKeys
                   /\ message[k[3]] = "none" => message'[k[3]] = "none"
                   /\ k[3] \in job.old => k[3] \in job'.old
        <4>1. k \in ThreadKeys /\ Present(k)
          BY <1>2, <3>1 DEF IInv, ThreadsConsistent, ListsConsistent
        <4>. QED
          BY <2>1, <4>1, KeyParts
      <3>2. \A m \in job.history : message[m] = "visible" => message'[m] = "visible"
        BY <1>2, JobTyped DEF IInv
      <3>3. BuildThreadNotificationHistory(job.history)' = BuildThreadNotificationHistory(job.history)
        BY <2>1 DEF BuildThreadNotificationHistory, CommentRecipients, MentionRecipients, Addressed,
           Authors
      <3>. QED
        BY <2>1, <2>2, <3>1, <3>2, <3>3 DEF IInv, ThreadsConsistent
    <2>6. ~Undisturbed'
      <3>1. job.since \in Nat /\ writes \in Nat /\ job.since <= writes
        BY <1>2, JobTyped DEF IInv, TypeOK, ListsConsistent
      <3>. QED
        BY <2>1, <3>1 DEF Undisturbed
    <2>. QED
      BY <2>3, <2>4, <2>5, <2>6 DEF IInv, Progress
  <1>. QED
    BY <1>1, <1>2

LEMMA InsertIInv ==
  ASSUME IInv, NEW K \in SUBSET Keys, NEW says \in 1 .. MaxVersion, Insert(K, says),
         TypeOK', writes' = writes + 1, UNCHANGED <<registered, version, message, job>>,
         \A k \in K : \/ k \in InvitationKeys /\ k[1] \in registered
                      \/ k \in ThreadKeys /\ message[k[3]] = "visible"
  PROVE  IInv'
  <1>1. \A k \in Keys : rows'[k] = IF k \in K /\ ~Present(k) THEN NewRow(says) ELSE rows[k]
    BY InsertTyped DEF IInv
  <1>2. \A k \in Keys : /\ Present(k) => Present(k)'
                        /\ Present(k)' => Present(k) \/ k \in K
                        /\ ~Present(k)' => rows'[k] = rows[k] /\ ~Present(k)
    BY <1>1, Rows DEF Present
  <1>3. RowsConsistent'
    BY <1>2, KeyParts DEF IInv, RowsConsistent
  <1>. QED
    BY <1>2, <1>3, RequestIInv

LEMMA CreateInvitationIInv ==
  ASSUME IInv, NEW i \in Invitations, CreateInvitation(i) PROVE IInv'
  <1>1. TypeOK'
    BY ReconciliationAssumption DEF IInv, TypeOK, CreateInvitation, Request, table
  <1>2. UNCHANGED <<registered, message, rows, job>> /\ writes' = writes + 1
    BY DEF CreateInvitation, Request, table
  <1>3. \A j \in Invitations : version[j] # 0 => version'[j] # 0
    BY DEF IInv, TypeOK, CreateInvitation
  <1>4. RowsConsistent'
    BY <1>2 DEF IInv, RowsConsistent, Present
  <1>. QED
    BY <1>1, <1>2, <1>3, <1>4, RequestIInv DEF Present

LEMMA ChangeInvitationIInv ==
  ASSUME IInv, NEW i \in Invitations, ChangeInvitation(i) PROVE IInv'
  <1>1. job' = job \/ (Running /\ job' = [job EXCEPT !.old = @ \ {i}])
    BY DEF ChangeInvitation, Running
  <1>2. job' \in Jobs \union {Idle}
    <2>1. CASE job' = job
      BY <2>1 DEF IInv, TypeOK
    <2>2. CASE Running /\ job' = [job EXCEPT !.old = @ \ {i}]
      <3>1. job \in Jobs
        BY <2>2, JobTyped DEF IInv
      <3>. QED
        BY <2>2, <3>1 DEF Jobs
    <2>. QED
      BY <1>1, <2>1, <2>2
  <1>3. /\ UNCHANGED <<registered, unnotified, message, rows, counter, runs>>
        /\ writes' = writes + 1 /\ version' = [version EXCEPT ![i] = @ + 1]
        /\ version[i] \in 1 .. MaxVersion - 1
    BY DEF ChangeInvitation, Request, table
  <1>4. version' \in [Invitations -> 0 .. MaxVersion]
    <2>1. version[i] + 1 \in 0 .. MaxVersion
      BY <1>3, ReconciliationAssumption
    <2>. QED
      BY <1>3, <2>1 DEF IInv, TypeOK
  <1>5. TypeOK'
    BY <1>2, <1>3, <1>4 DEF IInv, TypeOK
  <1>6. \A j \in Invitations : version[j] # 0 => version'[j] # 0
    BY <1>3 DEF IInv, TypeOK
  <1>7. RowsConsistent'
    BY <1>3 DEF IInv, RowsConsistent, Present
  <1>. QED
    BY <1>1, <1>3, <1>5, <1>6, <1>7, RequestIInv DEF Present

LEMMA NotifyInvitationCreatedIInv ==
  ASSUME IInv, NEW i \in Invitations, NotifyInvitationCreated(i) PROVE IInv'
  <1>. DEFINE K == ({Invitee[i]} \intersect registered) \X {"invitation"} \X {i}
  <1>1. K \in SUBSET Keys /\ \A k \in K : k \in InvitationKeys /\ k[1] \in registered
    BY DEF IInv, TypeOK, Keys, InvitationKeys
  <1>2. 1 \in 1 .. MaxVersion
    BY ReconciliationAssumption
  <1>3. /\ Insert(K, 1) /\ unnotified' = unnotified \ {i} /\ writes' = writes + 1
        /\ UNCHANGED <<registered, version, message, job, runs>>
    BY DEF NotifyInvitationCreated
  <1>. HIDE DEF K
  <1>4. TypeOK'
    BY <1>1, <1>2, <1>3, InsertTyped DEF IInv, TypeOK
  <1>. QED
    BY <1>1, <1>2, <1>3, <1>4, InsertIInv

LEMMA RegisterIInv ==
  ASSUME IInv, NEW u \in Users, Register(u) PROVE IInv'
  <1>1. /\ registered' = registered \union {u} /\ writes' = writes + 1
        /\ UNCHANGED <<version, unnotified, message, rows, counter, job, runs>>
    BY DEF Register, Request, table
  <1>2. TypeOK'
    BY <1>1 DEF IInv, TypeOK
  <1>3. RowsConsistent'
    BY <1>1 DEF IInv, RowsConsistent, Present
  <1>. QED
    BY <1>1, <1>2, <1>3, RequestIInv DEF Present

LEMMA StampMessageIInv ==
  ASSUME IInv, NEW m \in Messages, StampMessage(m) PROVE IInv'
  <1>1. /\ message' = [message EXCEPT ![m] = "stamped"] /\ writes' = writes + 1
        /\ UNCHANGED <<registered, version, unnotified, rows, counter, job, runs>>
        /\ message[m] = "none" /\ \A k \in ThreadKeys : k[3] = m => ~Present(k)
    BY DEF StampMessage, Request, table
  <1>2. TypeOK'
    BY <1>1 DEF IInv, TypeOK
  <1>3. /\ \A k \in ThreadKeys : Present(k) => message'[k[3]] = message[k[3]]
        /\ \A n \in Messages : message[n] = "visible" => message'[n] = "visible"
    BY <1>1, KeyParts DEF IInv, TypeOK
  <1>4. RowsConsistent'
    BY <1>1, <1>3 DEF IInv, RowsConsistent, Present
  <1>. QED
    BY <1>1, <1>2, <1>3, <1>4, RequestIInv DEF Present

LEMMA CommitMessageIInv ==
  ASSUME IInv, NEW m \in Messages, CommitMessage(m) PROVE IInv'
  <1>1. /\ message' = [message EXCEPT ![m] = "visible"] /\ writes' = writes + 1
        /\ UNCHANGED <<registered, version, unnotified, rows, counter, job, runs>>
        /\ message[m] = "stamped"
    BY DEF CommitMessage, table
  <1>2. TypeOK'
    BY <1>1 DEF IInv, TypeOK
  <1>3. \A n \in Messages : /\ message[n] = "none" => message'[n] = "none"
                            /\ message'[n] = "stamped" => message[n] = "stamped"
                            /\ message[n] = "visible" => message'[n] = "visible"
    BY <1>1 DEF IInv, TypeOK
  <1>4. RowsConsistent'
    BY <1>1, <1>3, KeyParts DEF IInv, RowsConsistent, Present
  <1>. QED
    BY <1>1, <1>2, <1>3, <1>4, KeyParts, RequestIInv DEF Present

LEMMA ProjectCommentIInv ==
  ASSUME IInv, NEW m \in Messages, ProjectComment(m) PROVE IInv'
  <1>. DEFINE K == (ResolveRecipients(m, Visible) \X {"comment"} \X {m})
                     \union (MentionRecipients(m) \X {"mention"} \X {m})
  <1>1. K \in SUBSET Keys /\ \A k \in K : k \in ThreadKeys /\ message[k[3]] = "visible"
    <2>1. ResolveRecipients(m, Visible) \subseteq Users /\ MentionRecipients(m) \subseteq Users
      BY ReconciliationAssumption DEF ResolveRecipients, MentionRecipients, Addressed
    <2>2. message[m] = "visible"
      BY DEF ProjectComment, Visible
    <2>. QED
      BY <2>1, <2>2 DEF Keys, ThreadKeys
  <1>2. /\ Insert(K, Canonical) /\ writes' = writes + 1
        /\ UNCHANGED <<registered, version, unnotified, message, job, runs>>
    BY DEF ProjectComment, Request, live
  <1>. HIDE DEF K
  <1>3. Canonical \in 1 .. MaxVersion
    BY Rows
  <1>. DEFINE says == Canonical
  <1>. HIDE DEF says
  <1>4. says \in 1 .. MaxVersion /\ Insert(K, says) /\ TypeOK
    BY <1>2, <1>3 DEF says, IInv
  <1>5. rows' \in [Keys -> Row] /\ counter' \in [Users -> Nat]
    BY <1>1, <1>4, InsertTyped
  <1>6. TypeOK'
    BY <1>2, <1>5 DEF IInv, TypeOK
  <1>. QED
    BY <1>1, <1>2, <1>4, <1>6, InsertIInv

LEMMA MarkReadIInv ==
  ASSUME IInv, NEW k \in Keys, MarkRead(k) PROVE IInv'
  <1>1. /\ rows' = [rows EXCEPT ![k].read = TRUE, ![k].touched = TRUE]
        /\ counter' = [counter EXCEPT ![k[1]] = Decremented(@)]
        /\ writes' = writes + 1 /\ Present(k)
        /\ UNCHANGED <<registered, version, unnotified, message, job, runs>>
    BY DEF MarkRead, Request, live
  <1>2. rows' \in [Keys -> Row] /\ \A l \in Keys : rows'[l].says = rows[l].says
    BY <1>1 DEF IInv, TypeOK, Row
  <1>3. \A l \in Keys : Present(l)' = Present(l) /\ (l # k => rows'[l] = rows[l])
    BY <1>1, <1>2 DEF Present, IInv, TypeOK
  <1>4. counter' \in [Users -> Nat]
    BY <1>1, KeyParts DEF IInv, TypeOK, Decremented
  <1>5. TypeOK'
    BY <1>1, <1>2, <1>4 DEF IInv, TypeOK
  <1>6. RowsConsistent'
    BY <1>1, <1>3, KeyParts DEF IInv, RowsConsistent
  <1>. QED
    BY <1>1, <1>3, <1>5, <1>6, RequestIInv

LEMMA RequestsIInv == ASSUME IInv, Requests PROVE IInv'
  BY CreateInvitationIInv, ChangeInvitationIInv, NotifyInvitationCreatedIInv, RegisterIInv,
     StampMessageIInv, CommitMessageIInv, ProjectCommentIInv, MarkReadIInv DEF Requests

-----------------------------------------------------------------------------
(* The steps of a run.                                                     *)

LEMMA SourcesKept ==
  ASSUME UNCHANGED live
  PROVE  /\ Visible' = Visible
         /\ ExpectedKeys' = ExpectedKeys
         /\ \A k : Expected(k)' = IF k \notin ExpectedKeys THEN 0
                                 ELSE IF k[2] = "invitation" THEN version[k[3]] ELSE Canonical
  <1>1. Visible' = Visible
    BY DEF live, Visible
  <1>2. ExpectedKeys' = ExpectedKeys
    BY <1>1 DEF live, ExpectedKeys, InvitationKey, BuildThreadNotificationHistory, CommentRecipients,
       MentionRecipients, Addressed, Authors
  <1>. QED
    BY <1>1, <1>2 DEF live, Expected

LEMMA RowsKept ==
  ASSUME RowsConsistent, UNCHANGED live,
         \A k \in Keys : ~Present(k)' => rows'[k] = NoRow,
         \A k \in Keys : Present(k)' =>
           \/ Present(k)
           \/ k \in InvitationKeys /\ k[1] \in registered
           \/ k \in ThreadKeys /\ message[k[3]] # "stamped"
  PROVE  RowsConsistent'
  BY KeyParts DEF RowsConsistent, live

LEMMA DeleteEffect ==
  ASSUME TypeOK, Running, RowsConsistent, UNCHANGED live, NEW K \in SUBSET Keys, Delete(K)
  PROVE  /\ rows' \in [Keys -> Row]
         /\ \A k \in Keys \ K : rows'[k] = rows[k]
         /\ \A k \in K : rows'[k] = rows[k] \/ (rows'[k] = NoRow /\ ~job.dry)
         /\ ~job.dry => \A k \in K : rows'[k] = NoRow
         /\ RowsConsistent'
  <1>1. rows' = IF job.dry THEN rows ELSE [k \in Keys |-> IF k \in K THEN NoRow ELSE rows[k]]
    BY DEF Delete
  <1>2. rows \in [Keys -> Row] /\ job.dry \in BOOLEAN
    BY JobTyped DEF TypeOK
  <1>3. rows' \in [Keys -> Row]
    BY <1>1, <1>2, Rows
  <1>4. \A k \in Keys : /\ k \notin K => rows'[k] = rows[k]
                        /\ job.dry => rows'[k] = rows[k]
                        /\ k \in K /\ ~job.dry => rows'[k] = NoRow
    BY <1>1, <1>2
  <1>5. RowsConsistent'
    <2>1. \A k \in Keys : rows'[k] = rows[k] \/ rows'[k] = NoRow
      BY <1>4
    <2>2. \A k \in Keys : (Present(k)' => Present(k)) /\ (~Present(k)' => rows'[k] = NoRow)
      BY <2>1 DEF Present, RowsConsistent, NoRow
    <2>. QED
      BY <2>2, KeyParts DEF RowsConsistent, live
  <1>. QED
    BY <1>2, <1>3, <1>4, <1>5

\* j is after, with k accounted for and perhaps more users to be told.
AfterRepair(j, k, after) ==
  /\ j \in Jobs
  /\ j.existing = after.existing \ {k} /\ j.recompute = after.recompute \union {k[1]}
  /\ after.changed \subseteq j.changed
  /\ j.phase = after.phase /\ j.dry = after.dry /\ j.old = after.old
  /\ j.scanned = after.scanned /\ j.page = after.page
  /\ j.history = after.history /\ j.todo = after.todo
  /\ j.counting = after.counting /\ j.count = after.count /\ j.since = after.since

\* A row accounted for leaves a job, with one key less to see and one user more to recount.
LEMMA AccountedJob ==
  ASSUME NEW after \in Jobs, NEW k \in Keys
  PROVE  AfterRepair([after EXCEPT !.existing = @ \ {k}, !.recompute = @ \union {k[1]}], k, after)
  <1>. DEFINE existing == after.existing \ {k}
              recompute == after.recompute \union {k[1]}
              j == [after EXCEPT !.existing = existing, !.recompute = recompute]
  <1>1. existing \in SUBSET Keys /\ recompute \in SUBSET Users
    BY KeyParts DEF Jobs
  <1>. HIDE DEF existing, recompute
  <1>2. j \in Jobs
    BY <1>1 DEF Jobs
  <1>3. /\ j.existing = existing /\ j.recompute = recompute /\ j.changed = after.changed
        /\ j.phase = after.phase /\ j.dry = after.dry /\ j.old = after.old
        /\ j.scanned = after.scanned /\ j.page = after.page
        /\ j.history = after.history /\ j.todo = after.todo
        /\ j.counting = after.counting /\ j.count = after.count /\ j.since = after.since
    BY DEF Jobs
  <1>. HIDE DEF j
  <1>4. AfterRepair(j, k, after)
    BY <1>2, <1>3 DEF AfterRepair, existing, recompute
  <1>. QED
    BY <1>4 DEF j, existing, recompute

\* And so does one whose user is to be told: only the users to tell are more.
LEMMA ToldJob ==
  ASSUME NEW done \in Jobs, NEW k \in Keys
  PROVE  LET j == [done EXCEPT !.changed = @ \union {k[1]}] IN
         /\ j \in Jobs
         /\ done.changed \subseteq j.changed /\ k[1] \in j.changed
         /\ j.existing = done.existing /\ j.recompute = done.recompute
         /\ j.phase = done.phase /\ j.dry = done.dry /\ j.old = done.old
         /\ j.scanned = done.scanned /\ j.page = done.page
         /\ j.history = done.history /\ j.todo = done.todo
         /\ j.counting = done.counting /\ j.count = done.count /\ j.since = done.since
  <1>. DEFINE changed == done.changed \union {k[1]}
              j == [done EXCEPT !.changed = changed]
  <1>1. changed \in SUBSET Users
    BY KeyParts DEF Jobs
  <1>2. done.changed \subseteq changed /\ k[1] \in changed
    OBVIOUS
  <1>. HIDE DEF changed
  <1>3. j \in Jobs
    BY <1>1 DEF Jobs
  <1>4. /\ j.changed = changed
        /\ j.existing = done.existing /\ j.recompute = done.recompute
        /\ j.phase = done.phase /\ j.dry = done.dry /\ j.old = done.old
        /\ j.scanned = done.scanned /\ j.page = done.page
        /\ j.history = done.history /\ j.todo = done.todo
        /\ j.counting = done.counting /\ j.count = done.count /\ j.since = done.since
    BY DEF Jobs
  <1>. QED
    BY <1>2, <1>3, <1>4 DEF changed

LEMMA RepairEffect ==
  ASSUME TypeOK, Running, RowsConsistent, NEW k \in Keys, NEW says \in 1 .. MaxVersion,
         NEW now \in BOOLEAN, NEW after \in Jobs, Repair(k, says, now, after),
         after.changed = job.changed
  PROVE  /\ rows' \in [Keys -> Row]
         /\ \A l \in Keys \ {k} : rows'[l] = rows[l]
         /\ rows'[k] # rows[k] => ~job.dry /\ rows'[k].says = says
         /\ Present(k) /\ rows[k].read => rows'[k].read
         /\ \/ rows' = rows /\ job' = [job EXCEPT !.phase = "conflict"]
            \/ /\ ~job.dry => rows'[k].says = says
               /\ AfterRepair(job', k, after)
               /\ rows'[k] # rows[k] => k[1] \in job'.changed
  <1>. DEFINE done == [after EXCEPT !.existing = @ \ {k}, !.recompute = @ \union {k[1]}]
              repaired == [done EXCEPT !.changed = @ \union {k[1]}]
  <1>1. AfterRepair(done, k, after)
    BY AccountedJob
  <1>2. AfterRepair(repaired, k, after) /\ k[1] \in repaired.changed
    <2>. HIDE DEF done
    <2>1. done \in Jobs
      BY <1>1 DEF AfterRepair
    <2>. QED
      BY <1>1, <2>1, ToldJob DEF AfterRepair
  <1>3. /\ rows \in [Keys -> Row] /\ rows[k] \in Row
        /\ NewRow(says) \in Row /\ NewRow(says).says = says
    BY Rows DEF TypeOK
  <1>4. \/ rows' = rows /\ rows[k].says = says /\ job' = done
        \/ rows' = rows /\ job.dry /\ job' = repaired
        \/ ~job.dry /\ ~Present(k) /\ rows' = [rows EXCEPT ![k] = NewRow(says)] /\ job' = repaired
        \/ ~job.dry /\ rows' = [rows EXCEPT ![k] = Updated(k, says, now)] /\ job' = repaired
        \/ rows' = rows /\ job' = [job EXCEPT !.phase = "conflict"]
    BY DEF Repair, Accounted, NeedsRepair
  <1>. HIDE DEF done, repaired
  <1>5. CASE rows' = rows /\ rows[k].says = says /\ job' = done
    BY <1>1, <1>3, <1>5
  <1>6. CASE rows' = rows /\ job.dry /\ job' = repaired
    BY <1>2, <1>3, <1>6
  <1>7. CASE ~job.dry /\ ~Present(k) /\ rows' = [rows EXCEPT ![k] = NewRow(says)] /\ job' = repaired
    BY <1>2, <1>3, <1>7
  <1>8. CASE ~job.dry /\ rows' = [rows EXCEPT ![k] = Updated(k, says, now)] /\ job' = repaired
    <2>1. /\ Updated(k, says, now) \in Row /\ Updated(k, says, now).says = says
          /\ Updated(k, says, now).read = rows[k].read
      BY <1>3 DEF Updated, Row
    <2>. QED
      BY <1>2, <1>3, <1>8, <2>1
  <1>9. CASE rows' = rows /\ job' = [job EXCEPT !.phase = "conflict"]
    BY <1>3, <1>9
  <1>. QED
    BY <1>4, <1>5, <1>6, <1>7, <1>8, <1>9

LEMMA Entered ==
  ASSUME job' \in Jobs
  PROVE  Running' /\ \A phase : In(phase)' <=> job'.phase = phase
  BY NotIdle DEF In, Running

\* The sources stay as they are, and with them the rows there should be.
LEMMA Kept ==
  ASSUME UNCHANGED live
  PROVE  /\ \A k : /\ Expected(k)' = Expected(k)
                   /\ rows'[k] = rows[k] => (Present(k)' <=> Present(k))
         /\ \A k : rows'[k].says = Expected(k) /\ (k \in ExpectedKeys => k[1] \in job'.recompute)
                     <=> Settled(k)'
  <1>1. \A k : Expected(k)' = Expected(k)
    BY SourcesKept DEF Expected
  <1>. QED
    BY <1>1, SourcesKept DEF Present, Settled

LEMMA IdleIInv ==
  ASSUME IInv, job' = Idle, UNCHANGED <<live, table, writes, runs>> PROVE IInv'
  BY DEF IInv, TypeOK, live, table, RowsConsistent, Present, ListsConsistent, InvitationsConsistent,
     ThreadsConsistent, Progress, Undisturbed, Running, In

LEMMA BeginIInv == ASSUME IInv, Begin PROVE IInv'
  <1>1. PICK dry \in BOOLEAN :
          job' = [phase |-> "invitations", dry |-> dry,
                  old |-> {i \in Invitations : version[i] # 0}
                            \union {m \in Messages : message[m] # "none"},
                  existing |-> {}, scanned |-> {}, page |-> {}, history |-> {}, todo |-> {},
                  recompute |-> {}, changed |-> {}, counting |-> {}, count |-> 0, since |-> writes]
    BY DEF Begin
  <1>2. UNCHANGED <<live, rows, counter, writes>> /\ runs' = runs + 1
    BY DEF Begin, table
  <1>3. job' \in Jobs
    BY <1>1 DEF Jobs, Phases, IInv, TypeOK
  <1>4. TypeOK' /\ RowsConsistent'
    BY <1>2, <1>3 DEF IInv, TypeOK, RowsConsistent, Present, live
  <1>5. /\ job'.phase = "invitations" /\ job'.existing = {} /\ job'.scanned = {} /\ job'.page = {}
        /\ job'.since = writes
        /\ job'.old = {i \in Invitations : version[i] # 0}
                        \union {m \in Messages : message[m] # "none"}
    BY <1>1
  <1>6. Running' /\ \A phase : In(phase)' <=> phase = "invitations"
    BY <1>3, <1>5, Entered
  <1>7. ListsConsistent'
    BY <1>2, <1>5, ReconciliationAssumption DEF ListsConsistent, IInv, TypeOK, live
  <1>8. Progress'
    BY <1>2, <1>5, <1>6
    DEF Progress, InvitationsProgress, ThreadsProgress, CountersProgress, live
  <1>. QED
    BY <1>4, <1>6, <1>7, <1>8 DEF IInv, InvitationsConsistent, ThreadsConsistent

LEMMA ListInvitationRowsIInv == ASSUME IInv, ListInvitationRows PROVE IInv'
  <1>. DEFINE K == {k \in InvitationKeys : Present(k) /\ (version[k[3]] = 0 \/ k[3] \in job.old)}
  <1>1. /\ In("invitations")
        /\ job' = [job EXCEPT !.phase = "page", !.existing = K, !.recompute = @ \union UsersOf(K)]
        /\ UNCHANGED <<live, rows, counter, writes, runs>>
    BY DEF ListInvitationRows, table
  <1>2. K \subseteq InvitationKeys /\ UsersOf(K) \subseteq Users /\ \A k \in K : Present(k) /\ k \in Keys
    BY KeyParts DEF UsersOf
  <1>3. job \in Jobs /\ Running /\ job.scanned = {} /\ job.page = {}
    BY <1>1, JobTyped DEF In, IInv, ListsConsistent
  <1>4. ASSUME Undisturbed, NEW k \in InvitationKeys, Present(k) PROVE k \in K
    BY <1>4, KeyParts DEF IInv, Progress
  <1>. HIDE DEF K
  <1>5. /\ job' \in Jobs /\ job'.phase = "page" /\ job'.existing = K
        /\ job'.scanned = {} /\ job'.page = {} /\ job'.dry = job.dry
        /\ job'.since = job.since /\ job'.old = job.old /\ job.recompute \subseteq job'.recompute
    BY <1>1, <1>2, <1>3 DEF Jobs, Phases
  <1>6. Running' /\ \A phase : In(phase)' <=> phase = "page"
    BY <1>5, Entered
  <1>7. TypeOK' /\ RowsConsistent'
    BY <1>1, <1>5 DEF IInv, TypeOK, RowsConsistent, Present, live
  <1>8. ListsConsistent'
    BY <1>1, <1>2, <1>3, <1>5, Kept DEF IInv, ListsConsistent, live
  <1>9. InvitationsConsistent'
    BY <1>1, <1>2, <1>5, <1>6 DEF IInv, RowsConsistent, InvitationsConsistent, live
  <1>10. Progress'
    <2>. SUFFICES ASSUME Undisturbed' PROVE Progress'
      BY DEF Progress
    <2>1. Undisturbed
      BY <1>1, <1>3, <1>5 DEF Undisturbed
    <2>2. InvitationsProgress'
      BY <1>1, <1>4, <1>5, <2>1, Kept DEF InvitationsProgress
    <2>. QED
      BY <1>1, <1>5, <1>6, <2>1, <2>2
      DEF IInv, Progress, ThreadsProgress, CountersProgress, live
  <1>. QED
    BY <1>6, <1>7, <1>8, <1>9, <1>10 DEF IInv, ThreadsConsistent

LEMMA FetchPageIInv == ASSUME IInv, FetchPage PROVE IInv'
  <1>. DEFINE left == {i \in Invitations : i \in job.old /\ version[i] # 0} \ job.scanned
              Page(S) == {<<i, version[i], Invitee[i] \in registered>> : i \in S}
  <1>1. In("page") /\ job.page = {} /\ UNCHANGED <<live, rows, counter, writes, runs>>
    BY DEF FetchPage, table
  <1>2. PICK S \in SUBSET left :
          /\ Cardinality(S) = BatchSize \/ S = left
          /\ job' = [job EXCEPT !.phase = IF S = {} THEN "leftovers" ELSE "page",
                                !.scanned = @ \union S, !.page = Page(S)]
    BY DEF FetchPage
  <1>3. S = {} => left = {}
    BY <1>2, FS_EmptySet, ReconciliationAssumption
  <1>4. S \subseteq Invitations /\ \A i \in S : version[i] # 0
    OBVIOUS
  <1>5. S = {} => Invitations \intersect job.old \subseteq job.scanned
    BY <1>1, <1>3 DEF IInv, ListsConsistent, In
  <1>. HIDE DEF left
  <1>6. Page(S) \subseteq Invitations \X (1 .. MaxVersion) \X BOOLEAN
    <2>. DEFINE has(i) == Invitee[i] \in registered
    <2>1. \A i \in S : version[i] \in 1 .. MaxVersion /\ has(i) \in BOOLEAN
      BY <1>4 DEF IInv, TypeOK
    <2>2. Page(S) = {<<i, version[i], has(i)>> : i \in S}
      OBVIOUS
    <2>. HIDE DEF has, Page
    <2>. QED
      BY <1>4, <2>1, <2>2
  <1>7. /\ \A p \in Page(S) : p[1] \in S /\ p[2] = version[p[1]] /\ p[3] = (Invitee[p[1]] \in registered)
        /\ \A i \in S : \E p \in Page(S) : p[1] = i
        /\ S = {} => Page(S) = {}
    <2>. DEFINE Fetched(i) == <<i, version[i], Invitee[i] \in registered>>
    <2>1. \A i : /\ Fetched(i)[1] = i /\ Fetched(i)[2] = version[i]
                 /\ Fetched(i)[3] = (Invitee[i] \in registered)
      OBVIOUS
    <2>2. Page(S) = {Fetched(i) : i \in S}
      OBVIOUS
    <2>. HIDE DEF Fetched, Page
    <2>. QED
      BY <2>1, <2>2
  <1>. HIDE DEF Page
  <1>8. job \in Jobs /\ Running
    BY <1>1, JobTyped DEF In, IInv
  <1>9. /\ job' \in Jobs /\ job'.phase = (IF S = {} THEN "leftovers" ELSE "page")
        /\ job'.existing = job.existing /\ job'.scanned = job.scanned \union S /\ job'.page = Page(S)
        /\ job'.dry = job.dry /\ job'.since = job.since /\ job'.old = job.old
        /\ job'.recompute = job.recompute
    BY <1>2, <1>4, <1>6, <1>8 DEF Jobs, Phases
  <1>10. Running' /\ \A phase : In(phase)' <=> phase = (IF S = {} THEN "leftovers" ELSE "page")
    BY <1>9, Entered
  <1>11. TypeOK' /\ RowsConsistent'
    BY <1>1, <1>9 DEF IInv, TypeOK, RowsConsistent, Present, live
  <1>12. ListsConsistent'
    BY <1>1, <1>8, <1>9, Kept DEF IInv, ListsConsistent, live
  <1>13. \A i : InPage(i)' <=> \E p \in Page(S) : p[1] = i
    BY <1>9 DEF InPage
  <1>14. ~\E i : InPage(i)
    BY <1>1 DEF InPage
  <1>15. InvitationsConsistent'
    <2>1. /\ job.existing \subseteq InvitationKeys
          /\ \A k \in job.existing : k[1] \in registered /\ k[3] \notin job.scanned
      BY <1>1, <1>14 DEF IInv, InvitationsConsistent
    <2>2. \A k \in job'.existing : k[1] \in registered' /\ (k[3] \in job'.scanned => InPage(k[3])')
      BY <1>1, <1>7, <1>9, <1>13, <2>1 DEF live
    <2>3. \A p \in job'.page : /\ InvitationKey(p[1]) \in job'.existing => p[3]
                               /\ p[3] => Invitee[p[1]] \in registered'
      <3>. SUFFICES ASSUME NEW p \in Page(S)
                    PROVE  /\ InvitationKey(p[1]) \in job.existing => p[3]
                           /\ p[3] => Invitee[p[1]] \in registered
        BY <1>1, <1>9 DEF live
      <3>1. p[1] \in Invitations /\ p[3] = (Invitee[p[1]] \in registered)
        BY <1>4, <1>7
      <3>2. InvitationKey(p[1]) \in job.existing => Invitee[p[1]] \in registered
        BY <2>1, <3>1, KeyParts
      <3>. QED
        BY <3>1, <3>2
    <2>4. In("leftovers")' => job'.page = {} /\ Invitations \intersect job'.old \subseteq job'.scanned
      BY <1>5, <1>7, <1>9, <1>10
    <2>. QED
      BY <1>9, <2>1, <2>2, <2>3, <2>4 DEF InvitationsConsistent, InvitationKey
  <1>16. Progress'
    <2>. SUFFICES ASSUME Undisturbed' PROVE Progress'
      BY DEF Progress
    <2>1. Undisturbed
      BY <1>1, <1>8, <1>9 DEF Undisturbed
    <2>2. ASSUME NEW k \in InvitationKeys
          PROVE  \/ Settled(k)'
                 \/ (k[3] \notin job'.scanned \/ InPage(k[3])') /\ (Present(k)' => k \in job'.existing)
      <3>1. CASE Settled(k)
        BY <1>1, <1>9, <3>1, Kept DEF Settled
      <3>2. CASE k[3] \notin job.scanned /\ (Present(k) => k \in job.existing)
        BY <1>1, <1>7, <1>9, <1>13, <3>2, Kept
      <3>. QED
        BY <1>1, <1>14, <2>1, <3>1, <3>2 DEF IInv, Progress, InvitationsProgress
    <2>3. InvitationsProgress'
      BY <1>1, <1>7, <1>9, <2>2 DEF InvitationsProgress, live
    <2>. QED
      BY <1>1, <1>9, <1>10, <2>1, <2>3
      DEF IInv, Progress, ThreadsProgress, CountersProgress, live
  <1>. QED
    BY <1>10, <1>11, <1>12, <1>15, <1>16 DEF IInv, ThreadsConsistent

\* What deleting K leaves of the run.
LEMMA RemovedFields ==
  ASSUME TypeOK, Running, NEW K \in SUBSET Keys
  PROVE  /\ Removed(K) \in Jobs
         /\ Removed(K).existing = job.existing \ K
         /\ Removed(K).recompute = job.recompute \union UsersOf(K)
         /\ Removed(K).changed = job.changed \union UsersOf(K)
         /\ Removed(K).phase = job.phase /\ Removed(K).dry = job.dry /\ Removed(K).old = job.old
         /\ Removed(K).scanned = job.scanned /\ Removed(K).page = job.page
         /\ Removed(K).history = job.history /\ Removed(K).todo = job.todo
         /\ Removed(K).since = job.since
  <1>1. job \in Jobs
    BY JobTyped
  <1>2. UsersOf(K) \subseteq Users
    BY KeyParts DEF UsersOf
  <1>. QED
    BY <1>1, <1>2 DEF Removed, Jobs

LEMMA RemoveMisplacedIInv ==
  ASSUME IInv, NEW p \in job.page, RemoveMisplaced(p) PROVE IInv'
  <1>. DEFINE K == Misplaced(p)
  <1>1. /\ In("page") /\ Delete(K) /\ job' = Removed(K)
        /\ UNCHANGED <<live, counter, writes, runs>>
    BY DEF RemoveMisplaced
  <1>2. TypeOK /\ Running /\ RowsConsistent
    BY <1>1 DEF IInv, In
  <1>3. /\ K \subseteq job.existing /\ K \subseteq Keys
        /\ \A k \in K : k \in InvitationKeys /\ InPage(k[3])
    BY <1>1, <1>2, JobTyped DEF IInv, InvitationsConsistent, Misplaced, InPage
  <1>. HIDE DEF K
  <1>4. /\ job' \in Jobs /\ job'.phase = "page" /\ job'.existing = job.existing \ K
        /\ job'.scanned = job.scanned /\ job'.page = job.page /\ job'.old = job.old
        /\ job'.dry = job.dry /\ job'.since = job.since /\ job.recompute \subseteq job'.recompute
    BY <1>1, <1>2, <1>3, RemovedFields DEF In
  <1>5. Running' /\ \A phase : In(phase)' <=> phase = "page"
    BY <1>4, Entered
  <1>6. /\ rows' \in [Keys -> Row] /\ RowsConsistent'
        /\ \A k \in Keys \ K : rows'[k] = rows[k]
        /\ ~job.dry => \A k \in K : rows'[k] = NoRow
    BY <1>1, <1>2, <1>3, DeleteEffect
  <1>7. TypeOK'
    BY <1>1, <1>4, <1>6 DEF IInv, TypeOK, live
  <1>8. \A k \in Keys \ K : Present(k)' <=> Present(k)
    BY <1>6 DEF Present
  <1>9. job.existing \subseteq Keys
    BY <1>2, JobTyped
  <1>10. ListsConsistent'
    BY <1>1, <1>2, <1>4, <1>8, <1>9 DEF IInv, ListsConsistent, live, In
  <1>11. InvitationsConsistent'
    BY <1>1, <1>4, <1>5 DEF IInv, InvitationsConsistent, InPage, InvitationKey, live
  <1>12. Progress'
    <2>. SUFFICES ASSUME Undisturbed' PROVE Progress'
      BY DEF Progress
    <2>1. Undisturbed
      BY <1>1, <1>2, <1>4 DEF Undisturbed
    <2>2. ASSUME NEW k \in InvitationKeys
          PROVE  \/ Settled(k)'
                 \/ (k[3] \notin job'.scanned \/ InPage(k[3])') /\ (Present(k)' => k \in job'.existing)
      <3>1. CASE k \in K
        <4>1. ~Present(k)'
          BY <1>6, <2>1, <3>1 DEF Undisturbed, Present, NoRow
        <4>. QED
          BY <1>3, <1>4, <3>1, <4>1 DEF InPage
      <3>2. CASE k \notin K
        <4>1. k \in Keys /\ rows'[k] = rows[k]
          BY <1>6, <3>2, KeyParts
        <4>. QED
          BY <1>1, <1>4, <1>8, <2>1, <3>2, <4>1, Kept
          DEF IInv, Progress, InvitationsProgress, InPage, Settled
      <3>. QED
        BY <3>1, <3>2
    <2>3. InvitationsProgress'
      BY <1>1, <1>4, <2>1, <2>2 DEF IInv, Progress, InvitationsProgress, live
    <2>. QED
      BY <1>1, <1>4, <1>5, <2>1, <2>3
      DEF IInv, Progress, ThreadsProgress, CountersProgress, live
  <1>. QED
    BY <1>5, <1>6, <1>7, <1>10, <1>11, <1>12 DEF IInv, ThreadsConsistent

\* An entry of the page is done with: no listed row of its invitation is left.
LEMMA PageLeft ==
  ASSUME IInv, In("page"), NEW p \in job.page, Misplaced(p) = {}
  PROVE  /\ \A k \in job.existing : k[3] = p[1] => k = InvitationKey(p[1]) /\ p[3]
         /\ \A i : InPage(i) => i = p[1] \/ \E q \in job.page \ {p} : q[1] = i
  BY DEF Misplaced, InPage

LEMMA SkipUnregisteredIInv ==
  ASSUME IInv, NEW p \in job.page, SkipUnregistered(p) PROVE IInv'
  <1>1. /\ In("page") /\ Misplaced(p) = {} /\ ~p[3] /\ job' = [job EXCEPT !.page = @ \ {p}]
        /\ UNCHANGED <<live, rows, counter, writes, runs>>
    BY DEF SkipUnregistered, table
  <1>2. job \in Jobs /\ Running
    BY <1>1, JobTyped DEF In, IInv
  <1>3. /\ job' \in Jobs /\ job'.phase = "page" /\ job'.existing = job.existing
        /\ job'.scanned = job.scanned /\ job'.page = job.page \ {p} /\ job'.old = job.old
        /\ job'.dry = job.dry /\ job'.since = job.since /\ job'.recompute = job.recompute
    BY <1>1, <1>2 DEF Jobs, In
  <1>4. Running' /\ \A phase : In(phase)' <=> phase = "page"
    BY <1>3, Entered
  <1>5. TypeOK' /\ RowsConsistent'
    BY <1>1, <1>3 DEF IInv, TypeOK, RowsConsistent, Present, live
  <1>6. ListsConsistent'
    BY <1>1, <1>2, <1>3, Kept DEF IInv, ListsConsistent, live, In
  <1>7. /\ \A k \in job.existing : k[3] # p[1]
        /\ \A i : InPage(i) => i = p[1] \/ InPage(i)'
    BY <1>1, <1>3, PageLeft DEF InPage
  <1>8. InvitationsConsistent'
    BY <1>1, <1>3, <1>4, <1>7 DEF IInv, InvitationsConsistent, InvitationKey, live
  <1>9. Progress'
    <2>. SUFFICES ASSUME Undisturbed' PROVE Progress'
      BY DEF Progress
    <2>1. Undisturbed
      BY <1>1, <1>2, <1>3 DEF Undisturbed
    <2>2. ASSUME NEW k \in InvitationKeys
          PROVE  \/ Settled(k)'
                 \/ (k[3] \notin job'.scanned \/ InPage(k[3])') /\ (Present(k)' => k \in job'.existing)
      <3>1. CASE Settled(k)
        BY <1>1, <1>3, <3>1, Kept DEF Settled
      <3>2. CASE k[3] = p[1] /\ (Present(k) => k \in job.existing)
        <4>1. rows[k].says = 0
          BY <1>7, <3>2 DEF Present
        <4>2. k \notin ExpectedKeys
          BY <1>1, <2>1, <3>2, ExpectedParts DEF IInv, Progress, InvitationsProgress
        <4>. QED
          BY <1>1, <4>1, <4>2, Kept DEF Expected
      <3>3. CASE k[3] # p[1] /\ (k[3] \notin job.scanned \/ InPage(k[3]))
                   /\ (Present(k) => k \in job.existing)
        BY <1>1, <1>3, <1>7, <3>3, Kept
      <3>. QED
        BY <1>1, <1>7, <2>1, <3>1, <3>2, <3>3 DEF IInv, Progress, InvitationsProgress
    <2>3. InvitationsProgress'
      BY <1>1, <1>3, <2>1, <2>2 DEF IInv, Progress, InvitationsProgress, live
    <2>. QED
      BY <1>1, <1>3, <1>4, <2>1, <2>3
      DEF IInv, Progress, ThreadsProgress, CountersProgress, live
  <1>. QED
    BY <1>4, <1>5, <1>6, <1>8, <1>9 DEF IInv, ThreadsConsistent

LEMMA ConflictIInv ==
  ASSUME IInv, Running, UNCHANGED <<live, table, writes, runs>>,
         job' = [job EXCEPT !.phase = "conflict"]
  PROVE  IInv'
  <1>1. job \in Jobs
    BY JobTyped DEF IInv
  <1>2. /\ job' \in Jobs /\ job'.phase = "conflict" /\ job'.existing = job.existing
        /\ job'.old = job.old /\ job'.since = job.since
    BY <1>1 DEF Jobs, Phases
  <1>3. Running' /\ \A phase : In(phase)' <=> phase = "conflict"
    BY <1>2, Entered
  <1>4. TypeOK' /\ RowsConsistent'
    BY <1>2 DEF IInv, TypeOK, RowsConsistent, Present, live, table
  <1>5. ListsConsistent'
    BY <1>2, Kept DEF IInv, ListsConsistent, live, table
  <1>6. Progress'
    <2>. SUFFICES ASSUME Undisturbed' PROVE Progress'
      BY DEF Progress
    <2>1. Undisturbed
      BY <1>1 DEF Undisturbed, Jobs
    <2>. QED
      BY <1>2, <1>3, <2>1
      DEF IInv, Progress, InvitationsProgress, ThreadsProgress, CountersProgress, live
  <1>. QED
    BY <1>3, <1>4, <1>5, <1>6 DEF IInv, InvitationsConsistent, ThreadsConsistent

\* What the repair of a user's row leaves of the other parts.
LEMMA RepairKeeps ==
  ASSUME IInv, Running, UNCHANGED <<live, counter, writes, runs>>,
         NEW k \in Keys, NEW says \in 1 .. MaxVersion, NEW after,
         \/ k \in InvitationKeys /\ k[1] \in registered
         \/ k \in ThreadKeys /\ message[k[3]] # "stamped",
         rows' \in [Keys -> Row], \A l \in Keys \ {k} : rows'[l] = rows[l],
         rows'[k] # rows[k] => rows'[k].says = says,
         AfterRepair(job', k, after),
         after.existing = job.existing, after.old = job.old, after.since = job.since,
         after.phase \in {"page", "messages"}
  PROVE  TypeOK' /\ RowsConsistent' /\ ListsConsistent'
  <1>1. TypeOK'
    BY DEF IInv, TypeOK, AfterRepair, live
  <1>2. rows'[k] = rows[k] \/ Present(k)'
    BY DEF Present
  <1>3. \A l \in Keys \ {k} : Present(l)' <=> Present(l)
    BY DEF Present
  <1>4. \A l \in Keys : ~Present(l)' => rows'[l] = NoRow
    BY <1>2, <1>3 DEF IInv, RowsConsistent, Present
  <1>5. \A l \in Keys : Present(l)' =>
          \/ Present(l)
          \/ l \in InvitationKeys /\ l[1] \in registered
          \/ l \in ThreadKeys /\ message[l[3]] # "stamped"
    BY <1>3
  <1>6. RowsConsistent'
    BY <1>4, <1>5, RowsKept DEF IInv
  <1>7. job.existing \subseteq Keys
    BY JobTyped DEF IInv
  <1>8. ListsConsistent'
    BY <1>3, <1>7 DEF IInv, ListsConsistent, AfterRepair, live
  <1>. QED
    BY <1>1, <1>6, <1>8

LEMMA UpsertInvitationIInv ==
  ASSUME IInv, NEW p \in job.page, UpsertInvitation(p) PROVE IInv'
  <1>. DEFINE k0 == InvitationKey(p[1])
              after == [job EXCEPT !.page = @ \ {p}]
  <1>1. /\ In("page") /\ Misplaced(p) = {} /\ p[3]
        /\ Repair(k0, p[2], FALSE, after)
        /\ UNCHANGED <<live, counter, writes, runs>>
    BY DEF UpsertInvitation
  <1>2. TypeOK /\ Running /\ RowsConsistent /\ job \in Jobs
    BY <1>1, JobTyped DEF IInv, In
  <1>3. /\ k0 \in Keys /\ k0 \in InvitationKeys /\ p[2] \in 1 .. MaxVersion
        /\ k0[1] = Invitee[p[1]] /\ k0[3] = p[1] /\ p[1] \in Invitations
    BY <1>2, PageTyped, KeyParts
  <1>4. /\ after \in Jobs /\ after.phase = "page" /\ after.existing = job.existing
        /\ after.scanned = job.scanned /\ after.page = job.page \ {p} /\ after.old = job.old
        /\ after.dry = job.dry /\ after.since = job.since /\ after.recompute = job.recompute
        /\ after.changed = job.changed
    BY <1>1, <1>2 DEF Jobs, In
  <1>5. k0[1] \in registered
    BY <1>1, <1>3 DEF IInv, InvitationsConsistent
  <1>6. /\ \A k \in job.existing : k[3] = p[1] => k = k0
        /\ \A i : InPage(i) => i = p[1] \/ \E q \in job.page \ {p} : q[1] = i
    BY <1>1, PageLeft
  <1>. HIDE DEF k0, after
  <1>7. /\ rows' \in [Keys -> Row]
        /\ \A l \in Keys \ {k0} : rows'[l] = rows[l]
        /\ rows'[k0] # rows[k0] => rows'[k0].says = p[2]
        /\ \/ rows' = rows /\ job' = [job EXCEPT !.phase = "conflict"]
           \/ (~job.dry => rows'[k0].says = p[2]) /\ AfterRepair(job', k0, after)
    BY <1>1, <1>2, <1>3, <1>4, RepairEffect
  <1>8. CASE rows' = rows /\ job' = [job EXCEPT !.phase = "conflict"]
    BY <1>1, <1>2, <1>8, ConflictIInv DEF table
  <1>9. CASE (~job.dry => rows'[k0].says = p[2]) /\ AfterRepair(job', k0, after)
    <2>1. /\ job' \in Jobs /\ job'.phase = "page" /\ job'.existing = job.existing \ {k0}
          /\ job'.scanned = job.scanned /\ job'.page = job.page \ {p} /\ job'.old = job.old
          /\ job'.dry = job.dry /\ job'.since = job.since
          /\ job'.recompute = job.recompute \union {k0[1]}
      BY <1>4, <1>9 DEF AfterRepair
    <2>2. Running' /\ \A phase : In(phase)' <=> phase = "page"
      BY <2>1, Entered
    <2>3. TypeOK' /\ RowsConsistent' /\ ListsConsistent'
      BY <1>1, <1>2, <1>3, <1>4, <1>5, <1>7, <1>9, RepairKeeps
    <2>4. \A i : InPage(i) => i = p[1] \/ InPage(i)'
      BY <1>6, <2>1 DEF InPage
    <2>5. InvitationsConsistent'
      BY <1>1, <1>6, <2>1, <2>2, <2>4 DEF IInv, InvitationsConsistent, InvitationKey, live
    <2>6. Progress'
      <3>. SUFFICES ASSUME Undisturbed' PROVE Progress'
        BY DEF Progress
      <3>1. Undisturbed
        BY <1>1, <1>2, <2>1 DEF Undisturbed
      <3>2. p[2] = version[p[1]] /\ Invitee[p[1]] \in registered
        BY <1>1, <3>1 DEF IInv, Progress, InvitationsProgress
      <3>3. ASSUME NEW k \in InvitationKeys
            PROVE  \/ Settled(k)'
                   \/ (k[3] \notin job'.scanned \/ InPage(k[3])') /\ (Present(k)' => k \in job'.existing)
        <4>1. CASE k = k0
          <5>1. version[p[1]] # 0
            BY <1>3, <3>2
          <5>2. k \in ExpectedKeys
            BY <1>3, <3>2, <4>1, <5>1, ExpectedParts DEF k0
          <5>3. Expected(k) = version[p[1]]
            BY <1>3, <4>1, <5>2, KeyParts DEF Expected
          <5>. QED
            BY <1>1, <1>9, <2>1, <3>1, <3>2, <4>1, <5>2, <5>3, Kept DEF Undisturbed
        <4>2. CASE k # k0
          <5>1. k \in Keys /\ rows'[k] = rows[k]
            BY <1>7, <4>2, KeyParts
          <5>2. CASE Settled(k)
            BY <1>1, <2>1, <5>1, <5>2, Kept DEF Settled
          <5>3. CASE k[3] = p[1] /\ (Present(k) => k \in job.existing)
            <6>1. rows[k].says = 0
              BY <1>6, <4>2, <5>3 DEF Present
            <6>2. k \notin ExpectedKeys
              BY <4>2, <5>3, ExpectedParts DEF k0
            <6>. QED
              BY <1>1, <5>1, <6>1, <6>2, Kept DEF Expected
          <5>4. CASE k[3] # p[1] /\ (k[3] \notin job.scanned \/ InPage(k[3]))
                       /\ (Present(k) => k \in job.existing)
            BY <1>1, <2>1, <2>4, <4>2, <5>1, <5>4, Kept
          <5>. QED
            BY <1>1, <3>1, <5>2, <5>3, <5>4 DEF IInv, Progress, InvitationsProgress
        <4>. QED
          BY <4>1, <4>2
      <3>4. InvitationsProgress'
        BY <1>1, <2>1, <3>1, <3>3 DEF IInv, Progress, InvitationsProgress, live
      <3>. QED
        BY <1>1, <2>1, <2>2, <3>1, <3>4
        DEF IInv, Progress, ThreadsProgress, CountersProgress, live
    <2>. QED
      BY <2>2, <2>3, <2>5, <2>6 DEF IInv, ThreadsConsistent
  <1>. QED
    BY <1>7, <1>8, <1>9

LEMMA DeleteLeftoversIInv == ASSUME IInv, DeleteLeftovers PROVE IInv'
  <1>. DEFINE K == {k \in job.existing : ~SkipInvitationDelete(k)}
  <1>1. /\ In("leftovers") /\ Delete(K) /\ job' = [Removed(K) EXCEPT !.phase = "threads"]
        /\ UNCHANGED <<live, counter, writes, runs>>
    BY DEF DeleteLeftovers
  <1>2. TypeOK /\ Running /\ RowsConsistent /\ job.existing \subseteq Keys
    BY <1>1, JobTyped DEF IInv, In
  <1>3. K \subseteq job.existing /\ \A k \in job.existing : version[k[3]] = 0 => k \in K
    BY DEF SkipInvitationDelete
  <1>. HIDE DEF K
  <1>4. /\ job' \in Jobs /\ job'.phase = "threads" /\ job'.existing = job.existing \ K
        /\ job'.old = job.old /\ job'.dry = job.dry /\ job'.since = job.since
        /\ job.recompute \subseteq job'.recompute
    <2>1. /\ Removed(K) \in Jobs /\ Removed(K).existing = job.existing \ K
          /\ Removed(K).old = job.old /\ Removed(K).dry = job.dry /\ Removed(K).since = job.since
          /\ job.recompute \subseteq Removed(K).recompute
      BY <1>2, <1>3, RemovedFields
    <2>. QED
      BY <1>1, <2>1 DEF Jobs, Phases
  <1>5. Running' /\ \A phase : In(phase)' <=> phase = "threads"
    BY <1>4, Entered
  <1>6. /\ rows' \in [Keys -> Row] /\ RowsConsistent'
        /\ \A k \in Keys \ K : rows'[k] = rows[k]
        /\ ~job.dry => \A k \in K : rows'[k] = NoRow
    BY <1>1, <1>2, <1>3, DeleteEffect
  <1>7. TypeOK'
    BY <1>1, <1>4, <1>6 DEF IInv, TypeOK, live
  <1>8. \A k \in Keys \ K : Present(k)' <=> Present(k)
    BY <1>6 DEF Present
  <1>9. ListsConsistent'
    BY <1>1, <1>2, <1>4, <1>8 DEF IInv, ListsConsistent, live
  <1>10. Progress'
    <2>. SUFFICES ASSUME Undisturbed' PROVE Progress'
      BY DEF Progress
    <2>1. Undisturbed
      BY <1>1, <1>2, <1>4 DEF Undisturbed
    <2>2. ASSUME NEW k \in InvitationKeys, k[3] \notin job.scanned
          PROVE  version[k[3]] = 0 /\ Expected(k) = 0 /\ k \notin ExpectedKeys
      <3>1. k[3] \in Invitations /\ k[3] \notin job.old
        BY <1>1, <2>2, KeyParts DEF IInv, InvitationsConsistent
      <3>2. version[k[3]] = 0
        BY <2>1, <3>1 DEF IInv, Progress
      <3>. QED
        BY <3>2, ExpectedParts DEF Expected
    <2>3. ~\E i : InPage(i)
      BY <1>1 DEF IInv, InvitationsConsistent, InPage
    <2>4. ASSUME NEW k \in InvitationKeys PROVE Settled(k)'
      <3>. k \in Keys
        BY KeyParts
      <3>1. CASE k \in K
        <4>1. k[3] \notin job.scanned
          BY <1>1, <1>3, <2>3, <3>1 DEF IInv, InvitationsConsistent
        <4>2. rows'[k].says = 0
          BY <1>6, <2>1, <3>1 DEF Undisturbed, NoRow
        <4>. QED
          BY <1>1, <2>2, <4>1, <4>2, Kept
      <3>2. CASE k \notin K /\ Settled(k)
        BY <1>1, <1>4, <1>6, <3>2, Kept DEF Settled
      <3>3. CASE k \notin K /\ k[3] \notin job.scanned /\ (Present(k) => k \in job.existing)
        <4>1. rows'[k].says = 0
          BY <1>3, <1>6, <2>2, <3>3 DEF Present
        <4>. QED
          BY <1>1, <2>2, <3>3, <4>1, Kept
      <3>. QED
        BY <1>1, <2>1, <2>3, <3>1, <3>2, <3>3 DEF IInv, Progress, InvitationsProgress
    <2>. QED
      BY <1>1, <1>4, <1>5, <2>1, <2>4
      DEF IInv, Progress, InvitationsProgress, ThreadsProgress, CountersProgress, live
  <1>. QED
    BY <1>5, <1>6, <1>7, <1>9, <1>10 DEF IInv, InvitationsConsistent, ThreadsConsistent

LEMMA ListThreadRowsIInv == ASSUME IInv, ListThreadRows PROVE IInv'
  <1>. DEFINE K == {k \in ThreadKeys : Present(k) /\ (message[k[3]] = "none" \/ k[3] \in job.old)}
  <1>1. /\ In("threads")
        /\ job' = [job EXCEPT !.phase = "history", !.existing = K, !.recompute = @ \union UsersOf(K)]
        /\ UNCHANGED <<live, rows, counter, writes, runs>>
    BY DEF ListThreadRows, table
  <1>2. /\ K \subseteq ThreadKeys /\ UsersOf(K) \subseteq Users
        /\ \A k \in K : k \in Keys /\ Present(k) /\ (message[k[3]] = "none" \/ k[3] \in job.old)
    BY KeyParts DEF UsersOf
  <1>3. job \in Jobs /\ Running
    BY <1>1, JobTyped DEF In, IInv
  <1>4. ASSUME Undisturbed, NEW k \in ThreadKeys, Present(k) PROVE k \in K
    BY <1>4, KeyParts DEF IInv, Progress
  <1>. HIDE DEF K
  <1>5. /\ job' \in Jobs /\ job'.phase = "history" /\ job'.existing = K /\ job'.dry = job.dry
        /\ job'.since = job.since /\ job'.old = job.old /\ job.recompute \subseteq job'.recompute
    BY <1>1, <1>2, <1>3 DEF Jobs, Phases
  <1>6. Running' /\ \A phase : In(phase)' <=> phase = "history"
    BY <1>5, Entered
  <1>7. TypeOK' /\ RowsConsistent'
    BY <1>1, <1>5 DEF IInv, TypeOK, RowsConsistent, Present, live
  <1>8. ListsConsistent'
    BY <1>1, <1>2, <1>3, <1>5, Kept DEF IInv, ListsConsistent, live
  <1>9. ThreadsConsistent'
    BY <1>1, <1>2, <1>5, <1>6 DEF ThreadsConsistent, live
  <1>10. Progress'
    <2>. SUFFICES ASSUME Undisturbed' PROVE Progress'
      BY DEF Progress
    <2>1. Undisturbed
      BY <1>1, <1>3, <1>5 DEF Undisturbed
    <2>2. \A k \in InvitationKeys : Settled(k)'
      BY <1>1, <1>5, <2>1, Kept DEF IInv, Progress, ThreadsProgress, Settled
    <2>3. \A k \in ThreadKeys : Present(k)' => k \in job'.existing
      BY <1>1, <1>4, <1>5, <2>1, Kept
    <2>. QED
      BY <1>1, <1>5, <1>6, <2>1, <2>2, <2>3
      DEF IInv, Progress, InvitationsProgress, ThreadsProgress, CountersProgress, live
  <1>. QED
    BY <1>6, <1>7, <1>8, <1>9, <1>10 DEF IInv, InvitationsConsistent

LEMMA LoadThreadHistoryIInv == ASSUME IInv, LoadThreadHistory PROVE IInv'
  <1>. DEFINE V == Visible \intersect job.old
              todo == BuildThreadNotificationHistory(V)
  <1>1. /\ In("history")
        /\ job' = [job EXCEPT !.phase = "messages", !.history = V, !.todo = todo]
        /\ UNCHANGED <<live, rows, counter, writes, runs>>
    BY DEF LoadThreadHistory, table
  <1>2. job \in Jobs /\ Running
    BY <1>1, JobTyped DEF In, IInv
  <1>3. V \subseteq Messages /\ \A m \in Messages : m \in V <=> message[m] = "visible" /\ m \in job.old
    BY DEF Visible
  <1>4. Undisturbed => V = Visible
    BY DEF Visible, IInv, Progress
  <1>. HIDE DEF V
  <1>5. todo \subseteq ThreadKeys
    BY <1>3, HistoryKeys
  <1>6. Undisturbed => \A k \in ThreadKeys : k \in todo <=> k \in ExpectedKeys
    BY <1>4, ExpectedParts
  <1>. HIDE DEF todo
  <1>7. /\ job' \in Jobs /\ job'.phase = "messages" /\ job'.existing = job.existing
        /\ job'.history = V /\ job'.todo = todo /\ job'.dry = job.dry
        /\ job'.since = job.since /\ job'.old = job.old /\ job'.recompute = job.recompute
    BY <1>1, <1>2, <1>3, <1>5 DEF Jobs, Phases
  <1>8. Running' /\ \A phase : In(phase)' <=> phase = "messages"
    BY <1>7, Entered
  <1>9. TypeOK' /\ RowsConsistent'
    BY <1>1, <1>7 DEF IInv, TypeOK, RowsConsistent, Present, live
  <1>10. ListsConsistent'
    BY <1>1, <1>2, <1>7, Kept DEF IInv, ListsConsistent, live
  <1>11. ThreadsConsistent'
    <2>1. ASSUME NEW k \in job.existing PROVE message[k[3]] = "none" \/ k[3] \in V
      <3>1. k \in ThreadKeys /\ Present(k) /\ (message[k[3]] = "none" \/ k[3] \in job.old)
        BY <1>1, <1>2, <2>1 DEF IInv, ThreadsConsistent, ListsConsistent
      <3>2. k[3] \in Messages /\ message[k[3]] # "stamped"
        BY <3>1, KeyParts DEF IInv, RowsConsistent
      <3>. QED
        BY <1>3, <3>1, <3>2 DEF IInv, TypeOK
    <2>2. BuildThreadNotificationHistory(job.history)' = todo
      BY <1>7 DEF todo, BuildThreadNotificationHistory, CommentRecipients, MentionRecipients,
         Addressed, Authors
    <2>. QED
      BY <1>1, <1>3, <1>7, <1>8, <2>1, <2>2 DEF IInv, ThreadsConsistent, live
  <1>12. Progress'
    <2>. SUFFICES ASSUME Undisturbed' PROVE Progress'
      BY DEF Progress
    <2>1. Undisturbed
      BY <1>1, <1>2, <1>7 DEF Undisturbed
    <2>2. \A k \in InvitationKeys : Settled(k)'
      BY <1>1, <1>7, <2>1, Kept DEF IInv, Progress, ThreadsProgress, Settled
    <2>3. ASSUME NEW k \in ThreadKeys
          PROVE  \/ k \in job'.todo
                 \/ k \in job'.existing /\ k \notin ExpectedKeys
                 \/ k \notin job'.existing /\ Settled(k)'
      <3>1. CASE k \in todo \/ k \in job.existing
        BY <1>6, <1>7, <2>1, <3>1
      <3>2. CASE k \notin todo /\ k \notin job.existing
        <4>1. ~Present(k)
          BY <1>1, <2>1, <3>2 DEF IInv, Progress, ThreadsProgress
        <4>2. k \notin ExpectedKeys
          BY <1>6, <2>1, <3>2
        <4>3. Settled(k)'
          BY <1>1, <4>1, <4>2, Kept DEF Expected, Present
        <4>. QED
          BY <1>7, <3>2, <4>3
      <3>. QED
        BY <3>1, <3>2
    <2>4. ThreadsProgress'
      <3>1. job'.todo \subseteq ExpectedKeys'
        BY <1>1, <1>5, <1>6, <1>7, <2>1, SourcesKept
      <3>. QED
        BY <1>1, <1>8, <2>2, <2>3, <3>1, SourcesKept DEF ThreadsProgress
    <2>. QED
      BY <1>1, <1>7, <1>8, <2>1, <2>4
      DEF IInv, Progress, InvitationsProgress, CountersProgress, live
  <1>. QED
    BY <1>8, <1>9, <1>10, <1>11, <1>12 DEF IInv, InvitationsConsistent

LEMMA UpsertThreadIInv ==
  ASSUME IInv, NEW k0 \in ThreadKeys, UpsertThread(k0) PROVE IInv'
  <1>. DEFINE after == [job EXCEPT !.todo = @ \ {k0}]
              says == Canonical
              now == k0 \in job.existing
  <1>1. /\ In("messages") /\ k0 \in job.todo
        /\ Repair(k0, says, now, after)
        /\ UNCHANGED <<live, counter, writes, runs>>
    BY DEF UpsertThread
  <1>2. TypeOK /\ Running /\ RowsConsistent /\ job \in Jobs /\ now \in BOOLEAN
    BY <1>1, JobTyped DEF IInv, In
  <1>3. k0 \in Keys /\ says \in 1 .. MaxVersion /\ k0 \notin InvitationKeys /\ k0[3] \in Messages
    BY KeyParts, Rows
  <1>4. /\ after \in Jobs /\ after.phase = "messages" /\ after.existing = job.existing
        /\ after.history = job.history /\ after.todo = job.todo \ {k0} /\ after.old = job.old
        /\ after.dry = job.dry /\ after.since = job.since /\ after.recompute = job.recompute
        /\ after.changed = job.changed
    BY <1>1, <1>2 DEF Jobs, In
  <1>5. message[k0[3]] # "stamped"
    <2>1. k0 \in BuildThreadNotificationHistory(job.history)
      BY <1>1 DEF IInv, ThreadsConsistent
    <2>2. job.history \in SUBSET Messages
      BY <1>2, JobTyped
    <2>3. k0[3] \in job.history
      BY <2>1, <2>2, HistoryKeys
    <2>. QED
      BY <1>1, <2>3 DEF IInv, ThreadsConsistent
  <1>6. Undisturbed => Expected(k0) = says /\ k0 \in ExpectedKeys
    <2>1. k0[2] # "invitation"
      BY KeyParts
    <2>. QED
      BY <1>1, <2>1 DEF IInv, Progress, ThreadsProgress, Expected
  <1>. HIDE DEF after, says, now
  <1>7. /\ rows' \in [Keys -> Row]
        /\ \A l \in Keys \ {k0} : rows'[l] = rows[l]
        /\ rows'[k0] # rows[k0] => rows'[k0].says = says
        /\ \/ rows' = rows /\ job' = [job EXCEPT !.phase = "conflict"]
           \/ (~job.dry => rows'[k0].says = says) /\ AfterRepair(job', k0, after)
    BY <1>1, <1>2, <1>3, <1>4, RepairEffect
  <1>8. CASE rows' = rows /\ job' = [job EXCEPT !.phase = "conflict"]
    BY <1>1, <1>2, <1>8, ConflictIInv DEF table
  <1>9. CASE (~job.dry => rows'[k0].says = says) /\ AfterRepair(job', k0, after)
    <2>1. /\ job' \in Jobs /\ job'.phase = "messages" /\ job'.existing = job.existing \ {k0}
          /\ job'.history = job.history /\ job'.todo = job.todo \ {k0} /\ job'.old = job.old
          /\ job'.dry = job.dry /\ job'.since = job.since
          /\ job'.recompute = job.recompute \union {k0[1]}
      BY <1>4, <1>9 DEF AfterRepair
    <2>2. Running' /\ \A phase : In(phase)' <=> phase = "messages"
      BY <2>1, Entered
    <2>3. TypeOK' /\ RowsConsistent' /\ ListsConsistent'
      BY <1>1, <1>2, <1>3, <1>4, <1>5, <1>7, <1>9, RepairKeeps
    <2>4. ThreadsConsistent'
      <3>1. BuildThreadNotificationHistory(job.history)' = BuildThreadNotificationHistory(job.history)
        BY <2>1 DEF BuildThreadNotificationHistory, CommentRecipients, MentionRecipients,
           Addressed, Authors
      <3>. QED
        BY <1>1, <2>1, <2>2, <3>1 DEF IInv, ThreadsConsistent, live
    <2>5. Progress'
      <3>. SUFFICES ASSUME Undisturbed' PROVE Progress'
        BY DEF Progress
      <3>1. Undisturbed
        BY <1>1, <1>2, <2>1 DEF Undisturbed
      <3>2. \A k \in InvitationKeys : Settled(k)'
        <4>1. \A k \in InvitationKeys : k \in Keys \ {k0}
          BY <1>3, KeyParts
        <4>. QED
          BY <1>1, <1>7, <2>1, <3>1, <4>1, Kept DEF IInv, Progress, ThreadsProgress, Settled
      <3>3. ASSUME NEW k \in ThreadKeys
            PROVE  \/ k \in job'.todo
                   \/ k \in job'.existing /\ k \notin ExpectedKeys
                   \/ k \notin job'.existing /\ Settled(k)'
        <4>1. CASE k = k0
          BY <1>1, <1>6, <1>9, <2>1, <3>1, <4>1, Kept DEF Undisturbed
        <4>2. CASE k # k0
          <5>1. k \in Keys /\ rows'[k] = rows[k]
            BY <1>7, <4>2, KeyParts
          <5>2. Settled(k) => Settled(k)'
            BY <1>1, <2>1, <5>1, Kept DEF Settled
          <5>. QED
            BY <1>1, <2>1, <3>1, <4>2, <5>2 DEF IInv, Progress, ThreadsProgress
        <4>. QED
          BY <4>1, <4>2
      <3>4. ThreadsProgress'
        <4>1. job'.todo \subseteq ExpectedKeys'
          BY <1>1, <2>1, <3>1, SourcesKept DEF IInv, Progress, ThreadsProgress
        <4>. QED
          BY <1>1, <2>2, <3>2, <3>3, <4>1, SourcesKept DEF ThreadsProgress
      <3>. QED
        BY <1>1, <2>1, <2>2, <3>1, <3>4
        DEF IInv, Progress, InvitationsProgress, CountersProgress, live
    <2>. QED
      BY <2>2, <2>3, <2>4, <2>5 DEF IInv, InvitationsConsistent
  <1>. QED
    BY <1>7, <1>8, <1>9

LEMMA DeleteOrphansIInv ==
  ASSUME IInv, NEW type, DeleteOrphans(type) PROVE IInv'
  <1>. DEFINE K == {k \in Orphans : k[2] = type}
  <1>1. /\ In("messages") /\ job.todo = {} /\ Delete(K) /\ job' = Removed(K)
        /\ UNCHANGED <<live, counter, writes, runs>>
    BY DEF DeleteOrphans
  <1>2. TypeOK /\ Running /\ RowsConsistent /\ job.existing \subseteq Keys
    BY <1>1, JobTyped DEF IInv, In
  <1>3. K \subseteq job.existing /\ K \subseteq ThreadKeys
    BY <1>1 DEF Orphans, IInv, ThreadsConsistent
  <1>. HIDE DEF K
  <1>4. K \subseteq Keys
    BY <1>2, <1>3
  <1>5. /\ job' \in Jobs /\ job'.phase = "messages" /\ job'.existing = job.existing \ K
        /\ job'.history = job.history /\ job'.todo = {} /\ job'.old = job.old
        /\ job'.dry = job.dry /\ job'.since = job.since /\ job.recompute \subseteq job'.recompute
    BY <1>1, <1>2, <1>4, RemovedFields DEF In
  <1>6. Running' /\ \A phase : In(phase)' <=> phase = "messages"
    BY <1>5, Entered
  <1>7. /\ rows' \in [Keys -> Row] /\ RowsConsistent'
        /\ \A k \in Keys \ K : rows'[k] = rows[k]
        /\ ~job.dry => \A k \in K : rows'[k] = NoRow
    BY <1>1, <1>2, <1>4, DeleteEffect
  <1>8. TypeOK'
    BY <1>1, <1>5, <1>7 DEF IInv, TypeOK, live
  <1>9. \A k \in Keys \ K : Present(k)' <=> Present(k)
    BY <1>7 DEF Present
  <1>10. ListsConsistent'
    BY <1>1, <1>2, <1>5, <1>9 DEF IInv, ListsConsistent, live
  <1>11. ThreadsConsistent'
    <2>1. BuildThreadNotificationHistory(job.history)' = BuildThreadNotificationHistory(job.history)
      BY <1>5 DEF BuildThreadNotificationHistory, CommentRecipients, MentionRecipients,
         Addressed, Authors
    <2>. QED
      BY <1>1, <1>5, <1>6, <2>1 DEF IInv, ThreadsConsistent, live
  <1>12. Progress'
    <2>. SUFFICES ASSUME Undisturbed' PROVE Progress'
      BY DEF Progress
    <2>1. Undisturbed
      BY <1>1, <1>2, <1>5 DEF Undisturbed
    <2>2. \A k \in InvitationKeys : Settled(k)'
      <3>1. \A k \in InvitationKeys : k \in Keys \ K
        BY <1>3, KeyParts
      <3>. QED
        BY <1>1, <1>5, <1>7, <2>1, <3>1, Kept DEF IInv, Progress, ThreadsProgress, Settled
    <2>3. ASSUME NEW k \in ThreadKeys
          PROVE  \/ k \in job'.existing /\ k \notin ExpectedKeys
                 \/ k \notin job'.existing /\ Settled(k)'
      <3>. k \in Keys
        BY KeyParts
      <3>1. CASE k \in K
        <4>1. k \notin ExpectedKeys
          BY <1>1, <1>3, <2>1, <3>1 DEF IInv, Progress, ThreadsProgress
        <4>2. rows'[k].says = 0
          BY <1>7, <2>1, <3>1 DEF Undisturbed, NoRow
        <4>3. Settled(k)'
          BY <1>1, <4>1, <4>2, Kept DEF Expected
        <4>. QED
          BY <1>5, <3>1, <4>3
      <3>2. CASE k \notin K
        <4>1. Settled(k) => Settled(k)'
          BY <1>1, <1>5, <1>7, <3>2, Kept DEF Settled
        <4>. QED
          BY <1>1, <1>5, <2>1, <3>2, <4>1 DEF IInv, Progress, ThreadsProgress
      <3>. QED
        BY <3>1, <3>2
    <2>4. ThreadsProgress'
      BY <1>1, <1>5, <1>6, <2>2, <2>3, SourcesKept DEF ThreadsProgress
    <2>. QED
      BY <1>1, <1>5, <1>6, <2>1, <2>4
      DEF IInv, Progress, InvitationsProgress, CountersProgress, live
  <1>. QED
    BY <1>6, <1>7, <1>8, <1>10, <1>11, <1>12 DEF IInv, InvitationsConsistent

LEMMA EndThreadsIInv == ASSUME IInv, EndThreads PROVE IInv'
  <1>1. /\ In("messages") /\ job.todo = {} /\ job.existing = {}
        /\ job' = [job EXCEPT !.phase = "counters", !.existing = {}, !.history = {}]
        /\ UNCHANGED <<live, rows, counter, writes, runs>>
    BY DEF EndThreads, Orphans, table
  <1>2. job \in Jobs /\ Running
    BY <1>1, JobTyped DEF In, IInv
  <1>3. /\ job' \in Jobs /\ job'.phase = "counters" /\ job'.existing = {} /\ job'.dry = job.dry
        /\ job'.since = job.since /\ job'.old = job.old /\ job'.recompute = job.recompute
    BY <1>1, <1>2 DEF Jobs, Phases
  <1>4. Running' /\ \A phase : In(phase)' <=> phase = "counters"
    BY <1>3, Entered
  <1>5. TypeOK' /\ RowsConsistent'
    BY <1>1, <1>3 DEF IInv, TypeOK, RowsConsistent, Present, live
  <1>6. ListsConsistent'
    BY <1>1, <1>2, <1>3 DEF IInv, ListsConsistent, live
  <1>7. Progress'
    <2>. SUFFICES ASSUME Undisturbed' PROVE Progress'
      BY DEF Progress
    <2>1. Undisturbed
      BY <1>1, <1>2, <1>3 DEF Undisturbed
    <2>2. \A k \in Keys : Settled(k)
      BY <1>1, <2>1, KeyParts DEF IInv, Progress, ThreadsProgress
    <2>3. /\ \A k \in Keys : rows'[k].says = Expected(k)'
          /\ \A k \in ExpectedKeys' : k[1] \in job'.recompute
      BY <1>1, <1>3, <2>2, Kept, SourcesKept, ExpectedParts DEF Settled
    <2>4. CountersProgress'
      BY <1>4, <2>3 DEF CountersProgress
    <2>. QED
      BY <1>1, <1>3, <1>4, <2>1, <2>4
      DEF IInv, Progress, InvitationsProgress, ThreadsProgress, live
  <1>. QED
    BY <1>4, <1>5, <1>6, <1>7 DEF IInv, InvitationsConsistent, ThreadsConsistent

\* The steps that recount leave the rows.
LEMMA CountersKept ==
  ASSUME IInv, Running, UNCHANGED <<live, rows, writes>>, Undisturbed,
         In("counters") \/ In("count")
  PROVE  /\ \A k \in Keys : rows'[k].says = Expected(k)'
         /\ \A k \in ExpectedKeys' :
              k \in Keys /\ (k[1] \in job.recompute \/ counter[k[1]] = Unread(k[1]))
         /\ \A u : Unread(u)' = Unread(u)
  <1>1. \A u : Unread(u)' = Unread(u)
    BY DEF Unread, Present
  <1>2. /\ \A k \in Keys : rows'[k].says = Expected(k)'
        /\ \A k \in ExpectedKeys' :
             k \in Keys /\ (k[1] \in job.recompute \/ counter[k[1]] = Unread(k[1]))
    BY Kept, SourcesKept, ExpectedParts DEF IInv, Progress, CountersProgress
  <1>. QED
    BY <1>1, <1>2

LEMMA CountUnreadIInv ==
  ASSUME IInv, NEW u \in Users, CountUnread(u) PROVE IInv'
  <1>1. /\ In("counters") /\ u \in job.recompute
        /\ job' = [job EXCEPT !.phase = "count", !.count = Unread(u), !.counting = {u}]
        /\ UNCHANGED <<live, rows, counter, writes, runs>>
    BY DEF CountUnread, table
  <1>2. job \in Jobs /\ Running
    BY <1>1, JobTyped DEF In, IInv
  <1>3. /\ job' \in Jobs /\ job'.phase = "count" /\ job'.existing = job.existing
        /\ job'.counting = {u} /\ job'.count = Unread(u) /\ job'.dry = job.dry
        /\ job'.since = job.since /\ job'.old = job.old /\ job'.recompute = job.recompute
    BY <1>1, <1>2, UnreadIsNat DEF Jobs, Phases
  <1>4. Running' /\ \A phase : In(phase)' <=> phase = "count"
    BY <1>3, Entered
  <1>5. TypeOK' /\ RowsConsistent'
    BY <1>1, <1>3 DEF IInv, TypeOK, RowsConsistent, Present, live
  <1>6. ListsConsistent'
    BY <1>1, <1>2, <1>3, Kept DEF IInv, ListsConsistent, live
  <1>7. Progress'
    <2>. SUFFICES ASSUME Undisturbed' PROVE Progress'
      BY DEF Progress
    <2>1. Undisturbed
      BY <1>1, <1>2, <1>3 DEF Undisturbed
    <2>2. CountersProgress'
      BY <1>1, <1>2, <1>3, <2>1, CountersKept DEF CountersProgress
    <2>. QED
      BY <1>1, <1>3, <1>4, <2>1, <2>2
      DEF IInv, Progress, InvitationsProgress, ThreadsProgress, live
  <1>. QED
    BY <1>4, <1>5, <1>6, <1>7 DEF IInv, InvitationsConsistent, ThreadsConsistent

LEMMA SetCounterIInv ==
  ASSUME IInv, NEW u \in Users, SetCounter(u) PROVE IInv'
  <1>. DEFINE C == IF counter[u] # job.count THEN job.changed \union {u} ELSE job.changed
  <1>1. /\ In("count") /\ u \in job.counting
        /\ counter' = IF job.dry THEN counter ELSE [counter EXCEPT ![u] = job.count]
        /\ job' = [job EXCEPT !.phase = "counters", !.counting = {}, !.recompute = @ \ {u},
                              !.changed = C]
        /\ UNCHANGED <<live, rows, writes, runs>>
    BY DEF SetCounter
  <1>2. job \in Jobs /\ Running /\ job.count \in Nat /\ C \subseteq Users
    BY <1>1, JobTyped DEF In, IInv
  <1>. HIDE DEF C
  <1>3. /\ job' \in Jobs /\ job'.phase = "counters" /\ job'.existing = job.existing
        /\ job'.dry = job.dry
        /\ job'.since = job.since /\ job'.old = job.old /\ job'.recompute = job.recompute \ {u}
    BY <1>1, <1>2 DEF Jobs, Phases
  <1>4. Running' /\ \A phase : In(phase)' <=> phase = "counters"
    BY <1>3, Entered
  <1>5. counter' \in [Users -> Nat]
    BY <1>1, <1>2 DEF IInv, TypeOK
  <1>6. TypeOK' /\ RowsConsistent'
    BY <1>1, <1>3, <1>5 DEF IInv, TypeOK, RowsConsistent, Present, live
  <1>7. ListsConsistent'
    BY <1>1, <1>2, <1>3, Kept DEF IInv, ListsConsistent, live
  <1>8. Progress'
    <2>. SUFFICES ASSUME Undisturbed' PROVE Progress'
      BY DEF Progress
    <2>1. Undisturbed
      BY <1>1, <1>2, <1>3 DEF Undisturbed
    <2>2. counter' = [counter EXCEPT ![u] = job.count] /\ job.count = Unread(u)
      BY <1>1, <2>1 DEF Undisturbed, IInv, Progress, CountersProgress
    <2>3. CountersProgress'
      <3>1. ASSUME NEW k \in ExpectedKeys'
            PROVE  k[1] \in job'.recompute \/ counter'[k[1]] = Unread(k[1])'
        <4>1. k[1] \in Users /\ (k[1] \in job.recompute \/ counter[k[1]] = Unread(k[1]))
              /\ Unread(k[1])' = Unread(k[1])
          BY <1>1, <1>2, <2>1, <3>1, CountersKept, KeyParts
        <4>. QED
          BY <1>3, <2>2, <4>1 DEF IInv, TypeOK
      <3>. QED
        BY <1>1, <1>2, <1>4, <2>1, <3>1, CountersKept DEF CountersProgress
    <2>. QED
      BY <1>1, <1>3, <1>4, <2>1, <2>3
      DEF IInv, Progress, InvitationsProgress, ThreadsProgress, live
  <1>. QED
    BY <1>4, <1>6, <1>7, <1>8 DEF IInv, InvitationsConsistent, ThreadsConsistent

LEMMA EndCountersIInv == ASSUME IInv, EndCounters PROVE IInv'
  <1>1. /\ In("counters") /\ job.recompute = {} /\ job' = [job EXCEPT !.phase = "publish"]
        /\ UNCHANGED <<live, rows, counter, writes, runs>>
    BY DEF EndCounters, table
  <1>2. job \in Jobs /\ Running
    BY <1>1, JobTyped DEF In, IInv
  <1>3. /\ job' \in Jobs /\ job'.phase = "publish" /\ job'.existing = job.existing
        /\ job'.dry = job.dry
        /\ job'.since = job.since /\ job'.old = job.old /\ job'.recompute = {}
    BY <1>1, <1>2 DEF Jobs, Phases
  <1>4. Running' /\ \A phase : In(phase)' <=> phase = "publish"
    BY <1>3, Entered
  <1>5. TypeOK' /\ RowsConsistent'
    BY <1>1, <1>3 DEF IInv, TypeOK, RowsConsistent, Present, live
  <1>6. ListsConsistent'
    BY <1>1, <1>2, <1>3, Kept DEF IInv, ListsConsistent, live
  <1>7. Progress'
    <2>. SUFFICES ASSUME Undisturbed' PROVE Progress'
      BY DEF Progress
    <2>1. Undisturbed
      BY <1>1, <1>2, <1>3 DEF Undisturbed
    <2>2. CountersProgress'
      BY <1>1, <1>2, <1>4, <2>1, CountersKept DEF CountersProgress
    <2>. QED
      BY <1>1, <1>3, <1>4, <2>1, <2>2
      DEF IInv, Progress, InvitationsProgress, ThreadsProgress, live
  <1>. QED
    BY <1>4, <1>5, <1>6, <1>7 DEF IInv, InvitationsConsistent, ThreadsConsistent

\* An invitation action is about an entry of the page.
LEMMA JobStepIInv == ASSUME IInv, JobStep PROVE IInv'
  <1>1. CASE \E p \in Invitations \X (1 .. MaxVersion) \X BOOLEAN :
               RemoveMisplaced(p) \/ SkipUnregistered(p) \/ UpsertInvitation(p)
    BY <1>1, RemoveMisplacedIInv, SkipUnregisteredIInv, UpsertInvitationIInv
    DEF RemoveMisplaced, SkipUnregistered, UpsertInvitation
  <1>2. CASE Finish \/ Stop
    BY <1>2, IdleIInv DEF Finish, Stop
  <1>. QED
    BY <1>1, <1>2, BeginIInv, ListInvitationRowsIInv, FetchPageIInv, DeleteLeftoversIInv,
       ListThreadRowsIInv, LoadThreadHistoryIInv, UpsertThreadIInv, DeleteOrphansIInv,
       EndThreadsIInv, CountUnreadIInv, SetCounterIInv, EndCountersIInv
    DEF JobStep

LEMMA StutterIInv == ASSUME IInv, UNCHANGED vars PROVE IInv'
  <1>1. UNCHANGED <<registered, version, unnotified, message, rows, counter, job, writes, runs>>
    BY DEF vars, live, table
  <1>2. TypeOK' /\ RowsConsistent' /\ ListsConsistent'
    BY <1>1 DEF IInv, TypeOK, RowsConsistent, ListsConsistent, Present, Running
  <1>3. InvitationsConsistent' /\ ThreadsConsistent'
    BY <1>1 DEF IInv, InvitationsConsistent, ThreadsConsistent, InPage, InvitationKey, In, Running,
       BuildThreadNotificationHistory, CommentRecipients, MentionRecipients, Addressed, Authors
  <1>4. /\ ExpectedKeys' = ExpectedKeys /\ \A k : Settled(k)' <=> Settled(k)
        /\ \A k : Expected(k)' = Expected(k)
    BY <1>1, SourcesKept, Kept DEF live, Settled
  <1>5. \A u : Unread(u)' = Unread(u)
    BY <1>1 DEF Unread, Present
  <1>6. InvitationsProgress' <=> InvitationsProgress
    BY <1>1, <1>4 DEF InvitationsProgress, InPage, In, Running, Present
  <1>7. ThreadsProgress' <=> ThreadsProgress
    BY <1>1, <1>4 DEF ThreadsProgress, In, Running, Present
  <1>8. CountersProgress' <=> CountersProgress
    BY <1>1, <1>4, <1>5 DEF CountersProgress, In, Running
  <1>. QED
    BY <1>1, <1>2, <1>3, <1>6, <1>7, <1>8 DEF IInv, Progress, Undisturbed, Running

\* The invariant holds of every reachable state, whatever requests and
\* projections come between the statements of a run, and wherever it stops.
THEOREM Inductive == Spec => []IInv
  <1>1. IInv /\ [Next]_vars => IInv'
    BY RequestsIInv, JobStepIInv, StutterIInv DEF Next
  <1>. QED
    BY <1>1, InitIInv, PTL DEF Spec

\* Every table, list and count keeps its type; unread_count is never negative.
THEOREM TypeCorrect == Spec => []TypeOK
  <1>1. IInv => TypeOK
    BY DEF IInv
  <1>. QED
    BY <1>1, Inductive, PTL

\* A run that nothing interferes with ends with exactly the rows the sources
\* call for, whatever it found, and with the right counts for their users.
THEOREM Repairs == Spec => []RunRepairs
  <1>1. IInv => RunRepairs
    BY DEF IInv, ListsConsistent, Progress, CountersProgress, RunRepairs, In
  <1>. QED
    BY <1>1, Inductive, PTL

-----------------------------------------------------------------------------
(* What a step does to the tables.                                         *)

LEMMA InsertKeeps ==
  ASSUME IInv, NEW K \in SUBSET Keys, NEW says \in 1 .. MaxVersion, Insert(K, says)
  PROVE  \A k \in Keys : Present(k) => Present(k)' /\ rows'[k] = rows[k]
  <1>1. \A k \in Keys : Present(k) => rows'[k] = rows[k]
    BY InsertTyped DEF IInv
  <1>. QED
    BY <1>1 DEF Present

\* Requests and projections remove no row and make none unread.
LEMMA RequestEffect ==
  ASSUME IInv, Requests
  PROVE  /\ writes' = writes + 1
         /\ \A k \in Keys : Present(k) => Present(k)' /\ (rows[k].read => rows'[k].read)
  <1>1. ASSUME NEW i \in Invitations, NotifyInvitationCreated(i)
        PROVE  \A k \in Keys : Present(k) => Present(k)' /\ (rows[k].read => rows'[k].read)
    <2>. DEFINE K == ({Invitee[i]} \intersect registered) \X {"invitation"} \X {i}
    <2>1. K \in SUBSET Keys
      BY DEF IInv, TypeOK, Keys, InvitationKeys
    <2>2. 1 \in 1 .. MaxVersion /\ Insert(K, 1)
      BY <1>1, ReconciliationAssumption DEF NotifyInvitationCreated
    <2>. HIDE DEF K
    <2>. QED
      BY <2>1, <2>2, InsertKeeps
  <1>2. ASSUME NEW m \in Messages, ProjectComment(m)
        PROVE  \A k \in Keys : Present(k) => Present(k)' /\ (rows[k].read => rows'[k].read)
    <2>. DEFINE K == (ResolveRecipients(m, Visible) \X {"comment"} \X {m})
                       \union (MentionRecipients(m) \X {"mention"} \X {m})
                says == Canonical
    <2>1. ResolveRecipients(m, Visible) \subseteq Users /\ MentionRecipients(m) \subseteq Users
      BY ReconciliationAssumption DEF ResolveRecipients, MentionRecipients, Addressed
    <2>2. K \in SUBSET Keys
      BY <2>1 DEF Keys, ThreadKeys
    <2>3. says \in 1 .. MaxVersion /\ Insert(K, says)
      BY <1>2, Rows DEF ProjectComment
    <2>. HIDE DEF K, says
    <2>. QED
      BY <2>2, <2>3, InsertKeeps
  <1>3. ASSUME NEW k \in Keys, MarkRead(k)
        PROVE  \A l \in Keys : Present(l) => Present(l)' /\ (rows[l].read => rows'[l].read)
    BY <1>3 DEF MarkRead, IInv, TypeOK, Row, Present
  <1>4. UNCHANGED rows =>
          \A k \in Keys : Present(k) => Present(k)' /\ (rows[k].read => rows'[k].read)
    BY DEF Present
  <1>5. writes' = writes + 1
    BY DEF Requests, CreateInvitation, ChangeInvitation, NotifyInvitationCreated, Register,
       StampMessage, CommitMessage, ProjectComment, MarkRead, Request
  <1>6. \/ \E i \in Invitations : NotifyInvitationCreated(i)
        \/ \E m \in Messages : ProjectComment(m)
        \/ \E k \in Keys : MarkRead(k)
        \/ UNCHANGED rows
    BY DEF Requests, CreateInvitation, ChangeInvitation, Register, StampMessage, CommitMessage, table
  <1>. QED
    BY <1>1, <1>2, <1>3, <1>4, <1>5, <1>6

\* A run deletes rows of its list that no source calls for, or only since.
Deletes(K) ==
  /\ ~job.dry /\ K \subseteq job.existing
  /\ \A k \in Keys : rows'[k] = IF k \in K THEN NoRow ELSE rows[k]
  /\ \A k \in K : k \in ExpectedKeys => LateCommit(k)
  /\ counter' = counter
  /\ job' \in Jobs /\ UsersOf(K) \subseteq job'.changed

\* It writes a row, which stays read if it was.
Writes(k) ==
  /\ ~job.dry /\ rows'[k].says # 0 /\ (Present(k) /\ rows[k].read => rows'[k].read)
  /\ \A l \in Keys \ {k} : rows'[l] = rows[l]
  /\ counter' = counter
  /\ job' \in Jobs /\ k[1] \in job'.changed

\* It sets a counter.
Counts(u) ==
  /\ ~job.dry /\ rows' = rows
  /\ \A v \in Users \ {u} : counter'[v] = counter[v]
  /\ job' \in Jobs /\ (counter'[u] # counter[u] => u \in job'.changed)

LEMMA DeletesRows ==
  ASSUME IInv, Running, NEW K \in SUBSET job.existing, Delete(K), counter' = counter,
         UNCHANGED live, job' \in Jobs, job'.changed = Removed(K).changed,
         \A k \in K : k \in ExpectedKeys => LateCommit(k)
  PROVE  UNCHANGED table \/ Deletes(K)
  <1>1. job.existing \subseteq Keys
    BY JobTyped DEF IInv
  <1>2. K \in SUBSET Keys
    BY <1>1
  <1>3. UsersOf(K) \subseteq job'.changed
    BY <1>2, RemovedFields DEF IInv
  <1>4. CASE job.dry
    BY <1>4 DEF Delete, table
  <1>5. CASE ~job.dry
    BY <1>2, <1>3, <1>5, DeleteEffect DEF Deletes, IInv
  <1>. QED
    BY <1>4, <1>5

LEMMA WritesRow ==
  ASSUME IInv, Running, NEW k \in Keys, NEW says \in 1 .. MaxVersion, NEW now \in BOOLEAN,
         NEW after \in Jobs, after.changed = job.changed, Repair(k, says, now, after),
         counter' = counter
  PROVE  UNCHANGED table \/ Writes(k)
  <1>1. /\ rows' \in [Keys -> Row] /\ \A l \in Keys \ {k} : rows'[l] = rows[l]
        /\ rows'[k] # rows[k] => ~job.dry /\ rows'[k].says = says
        /\ Present(k) /\ rows[k].read => rows'[k].read
        /\ \/ rows' = rows
           \/ AfterRepair(job', k, after) /\ (rows'[k] # rows[k] => k[1] \in job'.changed)
    BY RepairEffect DEF IInv
  <1>2. rows \in [Keys -> Row]
    BY DEF IInv, TypeOK
  <1>3. CASE rows'[k] = rows[k]
    BY <1>1, <1>2, <1>3 DEF table
  <1>4. CASE rows'[k] # rows[k]
    BY <1>1, <1>4 DEF Writes, AfterRepair
  <1>. QED
    BY <1>3, <1>4

LEMMA RemoveMisplacedEffect ==
  ASSUME IInv, NEW p \in job.page, RemoveMisplaced(p)
  PROVE  UNCHANGED table \/ Deletes(Misplaced(p))
  <1>1. In("page") /\ Running /\ Delete(Misplaced(p)) /\ job' = Removed(Misplaced(p))
        /\ UNCHANGED <<live, counter>>
    BY DEF RemoveMisplaced, In
  <1>2. Misplaced(p) \subseteq job.existing /\ job.existing \subseteq Keys
    BY <1>1, JobTyped DEF Misplaced, IInv
  <1>3. ASSUME NEW k \in Misplaced(p) PROVE k \notin ExpectedKeys
    <2>1. k \in job.existing /\ k[3] = p[1] /\ (k # InvitationKey(p[1]) \/ ~p[3])
      BY <1>3 DEF Misplaced
    <2>2. k \in InvitationKeys /\ (InvitationKey(p[1]) \in job.existing => p[3])
      BY <1>1, <2>1 DEF IInv, InvitationsConsistent
    <2>3. k # InvitationKey(k[3])
      BY <2>1, <2>2
    <2>. QED
      BY <2>2, <2>3, ExpectedParts
  <1>4. job' \in Jobs
    BY <1>1, <1>2, RemovedFields DEF IInv
  <1>. QED
    BY <1>1, <1>2, <1>3, <1>4, DeletesRows

LEMMA DeleteLeftoversEffect ==
  ASSUME IInv, DeleteLeftovers
  PROVE  UNCHANGED table \/ \E K : Deletes(K)
  <1>. DEFINE K == {k \in job.existing : ~SkipInvitationDelete(k)}
  <1>1. In("leftovers") /\ Running /\ Delete(K) /\ job' = [Removed(K) EXCEPT !.phase = "threads"]
        /\ UNCHANGED <<live, counter>>
    BY DEF DeleteLeftovers, In
  <1>2. K \subseteq job.existing /\ job.existing \subseteq Keys
    BY <1>1, JobTyped DEF IInv
  <1>3. ASSUME NEW k \in K PROVE k \notin ExpectedKeys
    <2>1. k \in InvitationKeys /\ k[3] \notin job.scanned
      BY <1>1, <1>3 DEF IInv, InvitationsConsistent, InPage
    <2>2. k[3] \in Invitations /\ (version[k[3]] = 0 \/ k[3] \in job.old)
      BY <1>3, <2>1, KeyParts DEF SkipInvitationDelete
    <2>3. version[k[3]] = 0
      BY <1>1, <2>1, <2>2 DEF IInv, InvitationsConsistent
    <2>. QED
      BY <2>1, <2>3, ExpectedParts
  <1>. HIDE DEF K
  <1>4. job' \in Jobs /\ job'.changed = Removed(K).changed
    BY <1>1, <1>2, RemovedFields DEF IInv, Jobs, Phases
  <1>5. UNCHANGED table \/ Deletes(K)
    BY <1>1, <1>2, <1>3, <1>4, DeletesRows
  <1>. QED
    BY <1>5

LEMMA DeleteOrphansEffect ==
  ASSUME IInv, NEW type, DeleteOrphans(type)
  PROVE  UNCHANGED table \/ \E K : Deletes(K)
  <1>. DEFINE K == {k \in Orphans : k[2] = type}
  <1>1. In("messages") /\ Running /\ job.todo = {} /\ Delete(K) /\ job' = Removed(K)
        /\ UNCHANGED <<live, counter>>
    BY DEF DeleteOrphans, In
  <1>2. K \subseteq job.existing /\ job.existing \subseteq Keys
    BY <1>1, JobTyped DEF IInv, Orphans
  <1>3. ASSUME NEW k \in K, k \in ExpectedKeys PROVE LateCommit(k)
    <2>1. /\ k \in ThreadKeys /\ k \notin BuildThreadNotificationHistory(job.history)
          /\ message[k[3]] = "none" \/ k[3] \in job.history
      BY <1>1, <1>2, <1>3 DEF IInv, ThreadsConsistent
    <2>2. k \in BuildThreadNotificationHistory(Visible)
      BY <1>3, <2>1, ExpectedParts
    <2>3. job.history \in SUBSET Messages /\ Visible \in SUBSET Messages
      BY <1>1, JobTyped, VisibleMessages DEF IInv
    <2>4. k[3] \in job.history
      <3>1. k[3] \in Visible
        BY <2>1, <2>2, <2>3, HistoryKeys
      <3>. QED
        BY <2>1, <3>1 DEF Visible
    <2>5. /\ k[2] = "comment" /\ k[1] \in CommentRecipients(k[3], Visible)
          /\ k[1] \notin CommentRecipients(k[3], job.history)
      BY <2>1, <2>2, <2>3, <2>4, HistoryKeys
    <2>6. PICK n \in {x \in Visible : x < k[3]} : k[1] = Author[n] /\ n \notin job.history
      BY <2>5 DEF CommentRecipients, Addressed, Authors
    <2>. QED
      BY <1>1, <2>5, <2>6 DEF LateCommit
  <1>. HIDE DEF K
  <1>4. job' \in Jobs
    BY <1>1, <1>2, RemovedFields DEF IInv
  <1>5. UNCHANGED table \/ Deletes(K)
    BY <1>1, <1>2, <1>3, <1>4, DeletesRows
  <1>. QED
    BY <1>5

LEMMA UpsertInvitationEffect ==
  ASSUME IInv, NEW p \in job.page, UpsertInvitation(p)
  PROVE  UNCHANGED table \/ \E k \in Keys : Writes(k)
  <1>. DEFINE k == InvitationKey(p[1])
              after == [job EXCEPT !.page = @ \ {p}]
  <1>1. In("page") /\ Running /\ Repair(k, p[2], FALSE, after) /\ counter' = counter
    BY DEF UpsertInvitation, In
  <1>2. job \in Jobs /\ k \in Keys /\ p[2] \in 1 .. MaxVersion
    BY <1>1, JobTyped, PageTyped DEF IInv
  <1>3. after \in Jobs /\ after.changed = job.changed
    BY <1>2 DEF Jobs
  <1>. HIDE DEF k, after
  <1>. QED
    BY <1>1, <1>2, <1>3, WritesRow

LEMMA UpsertThreadEffect ==
  ASSUME IInv, NEW k \in ThreadKeys, UpsertThread(k)
  PROVE  UNCHANGED table \/ \E l \in Keys : Writes(l)
  <1>. DEFINE after == [job EXCEPT !.todo = @ \ {k}]
              says == Canonical
              now == k \in job.existing
  <1>1. In("messages") /\ Running /\ Repair(k, says, now, after) /\ counter' = counter
    BY DEF UpsertThread, In
  <1>2. job \in Jobs /\ k \in Keys /\ says \in 1 .. MaxVersion /\ now \in BOOLEAN
    BY <1>1, JobTyped, KeyParts, Rows DEF IInv
  <1>3. after \in Jobs /\ after.changed = job.changed
    BY <1>2 DEF Jobs
  <1>. HIDE DEF after, says, now
  <1>. QED
    BY <1>1, <1>2, <1>3, WritesRow

LEMMA SetCounterEffect ==
  ASSUME IInv, NEW u \in Users, SetCounter(u)
  PROVE  UNCHANGED table \/ Counts(u)
  <1>1. job \in Jobs
    BY JobTyped DEF IInv, SetCounter, In
  <1>2. CASE job.dry
    BY <1>2 DEF SetCounter, table
  <1>3. CASE ~job.dry
    <2>. DEFINE C == IF counter[u] # job.count THEN job.changed \union {u} ELSE job.changed
    <2>1. /\ counter' = [counter EXCEPT ![u] = job.count] /\ rows' = rows
          /\ job' = [job EXCEPT !.phase = "counters", !.counting = {}, !.recompute = @ \ {u},
                                !.changed = C]
      BY <1>3 DEF SetCounter
    <2>2. C \subseteq Users /\ (counter[u] # job.count => u \in C)
      BY <1>1 DEF Jobs
    <2>. HIDE DEF C
    <2>3. job' \in Jobs /\ job'.changed = C
      BY <1>1, <2>1, <2>2 DEF Jobs, Phases
    <2>. QED
      BY <1>3, <2>1, <2>2, <2>3 DEF Counts, IInv, TypeOK
  <1>. QED
    BY <1>2, <1>3

LEMMA JobStepEffect ==
  ASSUME IInv, JobStep
  PROVE  /\ writes' = writes
         /\ \/ UNCHANGED table
            \/ \E K : Deletes(K)
            \/ \E k \in Keys : Writes(k)
            \/ \E u \in Users : Counts(u)
  <1>1. CASE \E p \in Invitations \X (1 .. MaxVersion) \X BOOLEAN :
               RemoveMisplaced(p) \/ UpsertInvitation(p)
    BY <1>1, RemoveMisplacedEffect, UpsertInvitationEffect DEF RemoveMisplaced, UpsertInvitation
  <1>2. CASE DeleteLeftovers \/ (\E k \in ThreadKeys : UpsertThread(k)) \/ (\E type : DeleteOrphans(type))
    BY <1>2, DeleteLeftoversEffect, UpsertThreadEffect, DeleteOrphansEffect
    DEF DeleteLeftovers, UpsertThread, DeleteOrphans
  <1>3. CASE \E u \in Users : SetCounter(u)
    BY <1>3, SetCounterEffect DEF SetCounter
  <1>4. CASE UNCHANGED table /\ writes' = writes
    BY <1>4
  <1>. QED
    BY <1>1, <1>2, <1>3, <1>4
    DEF JobStep, Begin, ListInvitationRows, FetchPage, SkipUnregistered, ListThreadRows,
        LoadThreadHistory, EndThreads, CountUnread, EndCounters, Finish, Stop

LEMMA StepEffect ==
  ASSUME IInv, [Next]_vars
  PROVE  \/ /\ writes' # writes
            /\ \A k \in Keys : Present(k) => Present(k)' /\ (rows[k].read => rows'[k].read)
         \/ UNCHANGED table
         \/ \E K : Deletes(K)
         \/ \E k \in Keys : Writes(k)
         \/ \E u \in Users : Counts(u)
  <1>1. writes \in Nat
    BY DEF IInv, TypeOK
  <1>. QED
    BY <1>1, RequestEffect, JobStepEffect DEF Next, vars

\* No step of a run deletes a row that the sources call for, unless they have
\* come to call for it since by a message that was committed out of order.
THEOREM ExpectedRowsStay == Spec => ExpectedRowsKept
  <1>1. IInv /\ [Next]_vars =>
          [\A k \in ExpectedKeys : Present(k) /\ ~LateCommit(k) => Present(k)']_vars
    <2>. SUFFICES ASSUME IInv, [Next]_vars, NEW k \in ExpectedKeys, Present(k), ~LateCommit(k)
                  PROVE  Present(k)'
      OBVIOUS
    <2>1. k \in Keys
      BY ExpectedParts
    <2>2. UNCHANGED table => Present(k)'
      BY DEF table, Present
    <2>3. ASSUME NEW K, Deletes(K) PROVE Present(k)'
      BY <2>1, <2>3 DEF Deletes, Present
    <2>4. ASSUME NEW l \in Keys, Writes(l) PROVE Present(k)'
      BY <2>1, <2>4 DEF Writes, Present
    <2>5. ASSUME NEW u \in Users, Counts(u) PROVE Present(k)'
      BY <2>5 DEF Counts, Present
    <2>. QED
      BY <2>1, <2>2, <2>3, <2>4, <2>5, StepEffect
  <1>. QED
    BY <1>1, Inductive, PTL DEF Spec, ExpectedRowsKept

\* What a user has read stays read, through repairs and projections.
THEOREM ReadStays == Spec => ReadStateKept
  <1>1. IInv /\ [Next]_vars =>
          [\A k \in Keys : rows[k].read /\ Present(k)' => rows'[k].read]_vars
    <2>. SUFFICES ASSUME IInv, [Next]_vars, NEW k \in Keys, rows[k].read, Present(k)'
                  PROVE  rows'[k].read
      OBVIOUS
    <2>1. Present(k)
      <3>1. ~Present(k) => rows[k] = NoRow
        BY DEF IInv, RowsConsistent
      <3>. QED
        BY <3>1 DEF NoRow
    <2>2. UNCHANGED table => rows'[k].read
      BY DEF table
    <2>3. ASSUME NEW K, Deletes(K) PROVE rows'[k].read
      BY <2>3 DEF Deletes, Present, NoRow
    <2>4. ASSUME NEW l \in Keys, Writes(l) PROVE rows'[k].read
      BY <2>1, <2>4 DEF Writes
    <2>5. ASSUME NEW u \in Users, Counts(u) PROVE rows'[k].read
      BY <2>5 DEF Counts
    <2>. QED
      BY <2>1, <2>2, <2>3, <2>4, <2>5, StepEffect
  <1>. QED
    BY <1>1, Inductive, PTL DEF Spec, ReadStateKept

\* A step of a run that changes rows or the counter of a user leaves the user
\* among those the run will tell.
THEOREM ChangesTold == Spec => ChangesAnnounced
  <1>. DEFINE Touched(u) ==
                counter'[u] # counter[u] \/ \E k \in Keys : k[1] = u /\ rows'[k] # rows[k]
  <1>1. IInv /\ [Next]_vars =>
          [writes' = writes =>
             \A u \in Users : Touched(u) => job' # Idle /\ u \in job'.changed]_vars
    <2>. SUFFICES ASSUME IInv, [Next]_vars, writes' = writes, NEW u \in Users, Touched(u)
                  PROVE  job' # Idle /\ u \in job'.changed
      OBVIOUS
    <2>1. ~UNCHANGED table
      BY DEF table
    <2>2. ASSUME NEW K, Deletes(K) PROVE job' # Idle /\ u \in job'.changed
      BY <2>2, NotIdle DEF Deletes, UsersOf
    <2>3. ASSUME NEW k \in Keys, Writes(k) PROVE job' # Idle /\ u \in job'.changed
      BY <2>3, NotIdle DEF Writes
    <2>4. ASSUME NEW v \in Users, Counts(v) PROVE job' # Idle /\ u \in job'.changed
      BY <2>4, NotIdle DEF Counts
    <2>. QED
      BY <2>1, <2>2, <2>3, <2>4, StepEffect
  <1>. QED
    BY <1>1, Inductive, PTL DEF Spec, ChangesAnnounced

\* A dry run changes no row and no counter.
THEOREM DryRunIsDry == Spec => DryRunWritesNothing
  <1>1. IInv /\ [Next]_vars => [Running /\ job.dry /\ writes' = writes => UNCHANGED table]_vars
    BY StepEffect DEF Deletes, Writes, Counts
  <1>. QED
    BY <1>1, Inductive, PTL DEF Spec, DryRunWritesNothing

=============================================================================
