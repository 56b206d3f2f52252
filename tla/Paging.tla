------------------------------- MODULE Paging -------------------------------
(* The lists that are handed out a page at a time: threads of a page or a     *)
(* workspace, notifications of an inbox, invitations.  A client walks a list  *)
(* by giving back the cursor of each answer while rows come, change, move and *)
(* go between its requests.  A row has an id, the times it was created and    *)
(* last active, and a state that a list can be filtered by: open or resolved, *)
(* unread or read, pending or answered.                                       *)
EXTENDS Integers, FiniteSets

CONSTANTS Ids,       \* the ids rows can have, in the order the database compares them
          Sorts,     \* the orders lists are asked for in
          Filters,   \* the states they are filtered by
          Limits,    \* the limits a client asks with
          MaxClock   \* bound: the last time anything is stamped with

ASSUME IdsAssumption == Ids \subseteq Nat /\ IsFiniteSet(Ids)
(* "latest" is the order of notifications and invitations, the others are     *)
(* the sort modes of threads.                                                 *)
ASSUME SortsAssumption == Sorts \subseteq {"recent_activity", "newest", "oldest", "latest"}
ASSUME FiltersAssumption == Filters \subseteq {"all", "open", "closed"}
ASSUME LimitsAssumption == Limits \subseteq Nat \ {0}
ASSUME ClockAssumption == MaxClock \in Nat \ {0}

VARIABLES
  present,   \* the rows a list can see
  created,   \* created_at of each row, 0 for one never stored
  activity,  \* last_activity_at
  open,      \* whether thread_state is open, the notification unread, the invitation pending
  sort,      \* the order of the walk
  cursor,    \* next_cursor of the last answer
  hasMore,   \* has_more of the last answer
  shown,     \* how often the walk showed each row since it was last given a new creation time
  steady     \* rows that fitted every request of the walk, and kept their place in its order

rowVars == <<present, created, activity, open>>
walkVars == <<sort, cursor, hasMore, shown, steady>>
vars == <<rowVars, walkVars>>

Times == 1..MaxClock
Often == 2   \* bound: twice or more
NoCursor == [sort |-> "none"]
Cursors == [sort : Sorts, filter : Filters \union {"any"}, open : BOOLEAN, at : Times, id : Ids]

threadStateRank(o) == IF o THEN 0 ELSE 1

Fits(i, filter) ==
  \/ filter = "all"
  \/ filter = "open" /\ open[i]
  \/ filter = "closed" /\ ~open[i]

-----------------------------------------------------------------------------
(* ORDER BY, and the WHERE clause that continues after a cursor.              *)
Before(s, i, j) ==
  \/ /\ s = "recent_activity"
     /\ \/ threadStateRank(open[i]) < threadStateRank(open[j])
        \/ open[i] = open[j] /\ activity[i] > activity[j]
        \/ open[i] = open[j] /\ activity[i] = activity[j] /\ i < j
  \/ /\ s = "newest"
     /\ created[i] > created[j] \/ (created[i] = created[j] /\ i < j)
  \/ /\ s = "oldest"
     /\ created[i] < created[j] \/ (created[i] = created[j] /\ i < j)
  \/ /\ s = "latest"
     /\ created[i] > created[j] \/ (created[i] = created[j] /\ i > j)

(* Mutant: rows of the cursor's own time are left out.                        *)
BeyondTimeOnly(i, c) ==
  \/ c.sort = "recent_activity" /\ open[i] = c.open /\ activity[i] < c.at
  \/ c.sort \in {"newest", "latest"} /\ created[i] < c.at
  \/ c.sort = "oldest" /\ created[i] > c.at

(* Mutant: rows of the cursor's own time come again.                          *)
BeyondOrAtTime(i, c) ==
  \/ c.sort = "recent_activity" /\ open[i] = c.open /\ activity[i] <= c.at
  \/ c.sort \in {"newest", "latest"} /\ created[i] <= c.at
  \/ c.sort = "oldest" /\ created[i] >= c.at

Beyond(i, c) ==
  \/ /\ c.sort = "recent_activity"
     /\ \/ threadStateRank(open[i]) > threadStateRank(c.open)
        \/ open[i] = c.open /\ activity[i] < c.at
        \/ open[i] = c.open /\ activity[i] = c.at /\ i > c.id
  \/ /\ c.sort = "newest"
     /\ created[i] < c.at \/ (created[i] = c.at /\ i > c.id)
  \/ /\ c.sort = "oldest"
     /\ created[i] > c.at \/ (created[i] = c.at /\ i > c.id)
  \/ /\ c.sort = "latest"
     /\ created[i] < c.at \/ (created[i] = c.at /\ i < c.id)

(* A cursor remembers the order and where it stopped; those of notifications  *)
(* and invitations also the filter.  A request that differs is refused.       *)
CursorAt(s, filter, i) ==
  [sort |-> s, id |-> i,
   filter |-> IF s = "latest" THEN filter ELSE "any",
   open |-> s = "recent_activity" /\ open[i],
   at |-> IF s = "recent_activity" THEN activity[i] ELSE created[i]]

(* Mutant: the cursor is not compared with the request.                       *)
AcceptsAnySort(c, s, filter) == TRUE

Accepts(c, s, filter) == c.sort = s /\ c.filter \in {filter, "any"}

(* ORDER BY ... LIMIT n: the set of the first n rows, or of all.              *)
Firsts(s, S, n) ==
  {T \in SUBSET S : /\ Cardinality(T) <= n
                    /\ T = S \/ Cardinality(T) = n
                    /\ \A i \in T, j \in S \ T : Before(s, i, j)}

(* Mutant: the cursor is made of the row that was fetched in excess.          *)
LastsOfFetched(s, page, fetched) == {l \in fetched : \A i \in fetched \ {l} : Before(s, i, l)}

(* threads[limit-1], the row the next request continues after.                *)
Lasts(s, page, fetched) == {l \in page : \A i \in page \ {l} : Before(s, i, l)}

(* Mutant: every answer has a cursor.                                         *)
NextCursorsAlways(s, filter, page, fetched, n) ==
  IF fetched # {} THEN {CursorAt(s, filter, l) : l \in Lasts(s, page, fetched)} ELSE {NoCursor}

NextCursors(s, filter, page, fetched, n) ==
  IF Cardinality(fetched) > n
    THEN {CursorAt(s, filter, l) : l \in Lasts(s, page, fetched)}
    ELSE {NoCursor}

-----------------------------------------------------------------------------
(* A walk starts over any rows.                                               *)
Init ==
  /\ created \in [Ids -> 0..MaxClock]
  /\ present \in SUBSET {i \in Ids : created[i] # 0}
  /\ activity \in [Ids -> 0..MaxClock]
  /\ open \in [Ids -> BOOLEAN]
  /\ sort \in Sorts
  /\ \A i \in Ids : /\ (activity[i] = 0) <=> (created[i] = 0)
                    /\ created[i] <= activity[i]
                    /\ open[i] => created[i] # 0
                    /\ sort = "latest" => activity[i] = created[i]
  /\ cursor = NoCursor
  /\ hasMore = FALSE
  /\ shown = [i \in Ids |-> 0]
  /\ steady = {}

(* One row more than asked for is fetched; it says that there is more.        *)
Answer(s, filter, n, rest, before) ==
  /\ UNCHANGED rowVars
  /\ sort' = s
  /\ \E fetched \in Firsts(s, rest, n + 1) : \E page \in Firsts(s, fetched, n) :
       /\ hasMore' = (Cardinality(fetched) > n)
       /\ cursor' \in NextCursors(s, filter, page, fetched, n)
       /\ shown' = [i \in Ids |-> IF i \in page /\ before[i] < Often THEN before[i] + 1 ELSE before[i]]

(* A request without a cursor starts a walk; the lists of threads have three  *)
(* orders.                                                                    *)
Begin(s, filter, n) ==
  LET fitting == {i \in present : Fits(i, filter)}
  IN  /\ ~hasMore
      /\ (s = "latest") <=> (sort = "latest")
      /\ steady' = fitting
      /\ Answer(s, filter, n, fitting, [i \in Ids |-> 0])

Continue(s, filter, n) ==
  LET fitting == {i \in present : Fits(i, filter)}
  IN  /\ hasMore
      /\ Accepts(cursor, s, filter)
      /\ steady' = steady \intersect fitting
      /\ Answer(s, filter, n, {i \in fitting : Beyond(i, cursor)}, shown)

-----------------------------------------------------------------------------
(* What others do to the rows between two requests of a walk.  Each server stamps a row by its own clock,    *)
(* before its statement runs: times come in no particular order.              *)
BetweenRequests == hasMore /\ UNCHANGED <<sort, cursor, hasMore>>

Store(i, t) ==
  /\ created[i] = 0
  /\ present' = present \union {i}
  /\ created' = [created EXCEPT ![i] = t]
  /\ activity' = [activity EXCEPT ![i] = t]
  /\ open' = [open EXCEPT ![i] = TRUE]
  /\ BetweenRequests /\ UNCHANGED <<shown, steady>>

(* A reply leaves the thread open, resolving closes it, reopening opens it;   *)
(* each is an activity.  Reading a notification, answering an invitation      *)
(* closes it; those have no last activity.                                    *)
Change(i, o, t) ==
  /\ i \in present /\ created[i] <= t
  /\ sort = "latest" => t = activity[i]
  /\ o \/ open[i]
  /\ activity' = [activity EXCEPT ![i] = t]
  /\ open' = [open EXCEPT ![i] = o]
  /\ steady' = IF sort = "recent_activity" /\ <<open[i], activity[i]>> # <<o, t>>
                 THEN steady \ {i} ELSE steady
  /\ BetweenRequests /\ UNCHANGED <<present, created, shown>>

(* The page of a thread goes to the trash, a notification is deleted; the     *)
(* page comes back.                                                           *)
Hide(i) ==
  /\ i \in present
  /\ present' = present \ {i}
  /\ steady' = steady \ {i}
  /\ BetweenRequests /\ UNCHANGED <<created, activity, open, shown>>

Reveal(i) ==
  /\ created[i] # 0 /\ i \notin present
  /\ present' = present \union {i}
  /\ BetweenRequests /\ UNCHANGED <<created, activity, open, shown, steady>>

(* Reconciliation gives the card of an invitation another creation time, and  *)
(* another owner, who may be the one who walks.                               *)
Reconcile(i, t, mine) ==
  /\ sort = "latest" /\ created[i] # 0
  /\ present' = IF mine THEN present \union {i} ELSE present \ {i}
  /\ created' = [created EXCEPT ![i] = t]
  /\ activity' = [activity EXCEPT ![i] = t]
  /\ shown' = IF t = created[i] THEN shown ELSE [shown EXCEPT ![i] = 0]
  /\ steady' = IF mine /\ t = created[i] THEN steady ELSE steady \ {i}
  /\ BetweenRequests /\ UNCHANGED open

Next ==
  \/ \E s \in Sorts, f \in Filters, n \in Limits : Begin(s, f, n) \/ Continue(s, f, n)
  \/ \E i \in Ids, t \in Times : Store(i, t) \/ \E o \in BOOLEAN : Change(i, o, t) \/ Reconcile(i, t, o)
  \/ \E i \in Ids : Hide(i) \/ Reveal(i)

(* The client goes on asking while it is told that there is more.             *)
Fairness == WF_vars(\E s \in Sorts, f \in Filters, n \in Limits : Continue(s, f, n))

Spec == Init /\ [][Next]_vars /\ Fairness

-----------------------------------------------------------------------------
(* Times are times, and an answer has a cursor exactly when it has more.      *)
TypeOK ==
  /\ present \in SUBSET Ids /\ steady \in SUBSET present
  /\ created \in [Ids -> 0..MaxClock] /\ activity \in [Ids -> 0..MaxClock]
  /\ \A i \in present : created[i] # 0
  /\ \A i \in Ids : (activity[i] = 0) <=> (created[i] = 0)
  /\ open \in [Ids -> BOOLEAN]
  /\ sort \in Sorts
  /\ hasMore \in BOOLEAN
  /\ IF hasMore THEN cursor \in Cursors /\ cursor.sort = sort ELSE cursor = NoCursor
  /\ shown \in [Ids -> 0..Often]

(* A row that kept its place, and fitted every request of a walk, is shown    *)
(* once by the time the walk is over and never twice, whatever other rows do: *)
(* the cursor clause of the query continues exactly where ORDER BY stopped.   *)
SteadyShownOnce == \A i \in steady : shown[i] <= 1 /\ (~hasMore => shown[i] = 1)

(* Pages follow each other in the order of the list: no such row is still to  *)
(* come once a later one was shown.                                           *)
SteadyInOrder ==
  \A i, j \in steady : shown[i] > 0 /\ shown[j] = 0 => Before(sort, i, j)

(* In the orders by creation time no row is shown twice, even one that was    *)
(* hidden or changed on the way, unless it was given another creation time in *)
(* between; in recent_activity a row that moves can be.                       *)
NothingTwice == sort # "recent_activity" => \A i \in Ids : shown[i] <= 1

(* A walk ends: no answer says that there is more for ever, though rows keep  *)
(* moving.  A cursor that let rows of its own time in again would not get on. *)
WalkEnds == hasMore ~> ~hasMore

=============================================================================
