---------------------------- MODULE PagingProofs ----------------------------
(* What a walk through a list shows, for any rows, limits and stamps.         *)
EXTENDS Paging, FiniteSetTheorems, TLAPS

(* Where a row stands relative to the cursor says how often it was shown.     *)
Placed ==
  \A i \in steady : shown[i] = IF hasMore /\ Beyond(i, cursor) THEN 0 ELSE 1

(* In the orders by creation time this holds of any row that was shown.       *)
PlacedForEver ==
  sort # "recent_activity" =>
    \A i \in Ids : /\ shown[i] <= 1
                   /\ hasMore /\ shown[i] = 1 => created[i] # 0 /\ ~Beyond(i, cursor)

IInv == TypeOK /\ Placed /\ PlacedForEver

-----------------------------------------------------------------------------
(* The cursor clause and ORDER BY agree.                                      *)
LEMMA OrderIsAsymmetric ==
  ASSUME TypeOK, NEW s \in Sorts, NEW i \in Ids, NEW j \in Ids, Before(s, i, j)
  PROVE  ~Before(s, j, i)
<1>1. /\ i \in Int /\ j \in Int /\ created[i] \in Int /\ created[j] \in Int
      /\ activity[i] \in Int /\ activity[j] \in Int
      /\ open[i] \in BOOLEAN /\ open[j] \in BOOLEAN
  BY IdsAssumption, ClockAssumption DEF TypeOK
<1>2. CASE s = "recent_activity"
  BY <1>1, <1>2 DEF Before, threadStateRank
<1>3. CASE s # "recent_activity"
  BY <1>1, <1>3 DEF Before
<1> QED BY <1>2, <1>3

LEMMA CursorContinuesOrder ==
  ASSUME TypeOK, NEW s \in Sorts, NEW f, NEW l \in Ids, NEW i \in Ids
  PROVE  Beyond(i, CursorAt(s, f, l)) <=> Before(s, l, i)
<1>1. /\ i \in Int /\ l \in Int /\ created[i] \in Int /\ created[l] \in Int
      /\ activity[i] \in Int /\ activity[l] \in Int
      /\ open[i] \in BOOLEAN /\ open[l] \in BOOLEAN
  BY IdsAssumption, ClockAssumption DEF TypeOK
<1>2. CASE s = "recent_activity"
  BY <1>1, <1>2 DEF Before, Beyond, CursorAt, threadStateRank
<1>3. CASE s # "recent_activity"
  BY <1>1, <1>3 DEF Before, Beyond, CursorAt
<1> QED BY <1>2, <1>3

LEMMA CursorSeparates ==
  ASSUME TypeOK, hasMore, NEW i \in Ids, NEW j \in Ids,
         ~Beyond(i, cursor), Beyond(j, cursor)
  PROVE  Before(sort, i, j)
<1>1. /\ i \in Int /\ j \in Int /\ created[i] \in Int /\ created[j] \in Int
      /\ activity[i] \in Int /\ activity[j] \in Int
      /\ open[i] \in BOOLEAN /\ open[j] \in BOOLEAN
  BY IdsAssumption, ClockAssumption DEF TypeOK
<1>2. /\ cursor.sort = sort /\ cursor.id \in Int /\ cursor.at \in Int
      /\ cursor.open \in BOOLEAN
      /\ sort \in {"recent_activity", "newest", "oldest", "latest"}
  <2>1. cursor \in Cursors /\ cursor.sort = sort /\ sort \in Sorts
    BY DEF TypeOK
  <2>2. cursor.id \in Ids /\ cursor.at \in Times /\ cursor.open \in BOOLEAN
    BY <2>1 DEF Cursors
  <2>3. cursor.id \in Int
    <3>1. \A k \in Ids : k \in Int
      BY IdsAssumption
    <3> QED BY <2>2, <3>1
  <2>4. cursor.at \in Int
    BY <2>2, ClockAssumption DEF Times
  <2>5. sort \in {"recent_activity", "newest", "oldest", "latest"}
    BY <2>1, SortsAssumption
  <2> QED BY <2>1, <2>2, <2>3, <2>4, <2>5
<1>3. CASE sort = "recent_activity"
  BY <1>1, <1>2, <1>3 DEF Before, Beyond, threadStateRank
<1>4. CASE sort # "recent_activity"
  BY <1>1, <1>2, <1>4 DEF Before, Beyond
<1> QED BY <1>3, <1>4

(* One row more than the limit is enough to know whether there is more.       *)
LEMMA AllWhenNoMore ==
  ASSUME NEW s, NEW n \in Nat, NEW S, IsFiniteSet(S),
         NEW fetched \in Firsts(s, S, n + 1), NEW page \in Firsts(s, fetched, n),
         ~(Cardinality(fetched) > n)
  PROVE  page = S
<1>1. fetched \subseteq S /\ page \subseteq fetched
  BY DEF Firsts
<1>2. IsFiniteSet(fetched) /\ IsFiniteSet(page)
  BY <1>1, FS_Subset
<1>3. Cardinality(fetched) \in Nat /\ Cardinality(page) \in Nat
  BY <1>2, FS_CardinalityType
<1>4. fetched = S
  BY <1>3 DEF Firsts
<1>5. page = fetched \/ Cardinality(page) = n
  BY DEF Firsts
<1>6. CASE Cardinality(page) = n
  <2>1. Cardinality(page) <= Cardinality(fetched)
    BY <1>1, <1>2, FS_Subset
  <2>2. Cardinality(page) = Cardinality(fetched)
    BY <1>3, <1>6, <2>1
  <2> QED BY <1>1, <1>2, <1>4, <2>2, FS_Subset
<1> QED BY <1>4, <1>5, <1>6

-----------------------------------------------------------------------------
(* An answer: the rows of a page, once counted, are those the cursor is past. *)
LEMMA AnswerPlaces ==
  ASSUME TypeOK, NEW s \in Sorts, NEW f, NEW n \in Nat, NEW S, S \subseteq Ids,
         NEW fetched \in Firsts(s, S, n + 1), NEW page \in Firsts(s, fetched, n),
         hasMore' = (Cardinality(fetched) > n),
         cursor' \in NextCursors(s, f, page, fetched, n),
         NEW i \in S
  PROVE  i \in page <=> ~(hasMore' /\ Beyond(i, cursor'))
<1>1. fetched \subseteq S /\ page \subseteq fetched
  BY DEF Firsts
<1>2. CASE ~hasMore'
  <2>1. IsFiniteSet(S)
    BY IdsAssumption, FS_Subset
  <2>2. page = S
    BY <1>2, <2>1, AllWhenNoMore
  <2> QED BY <1>2, <2>2
<1>3. CASE hasMore'
  <2>1. PICK l \in Lasts(s, page, fetched) : cursor' = CursorAt(s, f, l)
    BY <1>3 DEF NextCursors
  <2>2. l \in page /\ l \in fetched /\ l \in Ids /\ i \in Ids
    BY <1>1, <2>1 DEF Lasts
  <2>3. Beyond(i, cursor') <=> Before(s, l, i)
    BY <2>1, <2>2, CursorContinuesOrder
  <2>4. i \in page => ~Before(s, l, i)
    <3>1. CASE i = l
      BY <2>2, <3>1, OrderIsAsymmetric
    <3>2. CASE i # l /\ i \in page
      <4>1. Before(s, i, l)
        BY <2>1, <3>2 DEF Lasts
      <4> QED BY <2>2, <4>1, OrderIsAsymmetric
    <3> QED BY <3>1, <3>2
  <2>5. i \notin page => Before(s, l, i)
    <3>1. i \in fetched \ page => Before(s, l, i)
      BY <2>2 DEF Firsts
    <3>2. i \in S \ fetched => Before(s, l, i)
      BY <2>2 DEF Firsts
    <3> QED BY <3>1, <3>2
  <2> QED BY <1>3, <2>3, <2>4, <2>5
<1> QED BY <1>2, <1>3

LEMMA AnswerType ==
  ASSUME TypeOK, NEW s \in Sorts, NEW f \in Filters, NEW n \in Nat, NEW S \in SUBSET Ids,
         NEW before \in [Ids -> 0..Often],
         S \subseteq present,
         Answer(s, f, n, S, before), steady' \subseteq present
  PROVE  TypeOK'
<1>1. PICK fetched \in Firsts(s, S, n + 1) : \E page \in Firsts(s, fetched, n) :
         /\ hasMore' = (Cardinality(fetched) > n)
         /\ cursor' \in NextCursors(s, f, page, fetched, n)
         /\ shown' = [i \in Ids |-> IF i \in page /\ before[i] < Often
                                     THEN before[i] + 1 ELSE before[i]]
  BY DEF Answer
<1>2. PICK page \in Firsts(s, fetched, n) :
         /\ hasMore' = (Cardinality(fetched) > n)
         /\ cursor' \in NextCursors(s, f, page, fetched, n)
         /\ shown' = [i \in Ids |-> IF i \in page /\ before[i] < Often
                                     THEN before[i] + 1 ELSE before[i]]
  BY <1>1
<1>3. sort' = s /\ UNCHANGED <<present, created, activity, open>>
  BY DEF Answer, rowVars
<1>4. shown' \in [Ids -> 0..Often]
  BY <1>2 DEF Often
<1>5. IF hasMore' THEN cursor' \in Cursors /\ cursor'.sort = s ELSE cursor' = NoCursor
  <2>1. CASE ~hasMore'
    BY <1>2, <2>1 DEF NextCursors
  <2>2. CASE hasMore'
    <3>1. PICK l \in Lasts(s, page, fetched) : cursor' = CursorAt(s, f, l)
      BY <1>2, <2>2 DEF NextCursors
    <3>2. l \in present /\ l \in Ids
      BY <3>1 DEF Lasts, Firsts
    <3>3. /\ created[l] \in 0..MaxClock /\ created[l] # 0 /\ open[l] \in BOOLEAN
          /\ activity[l] \in 0..MaxClock /\ activity[l] # 0
      BY <3>2 DEF TypeOK
    <3>4. created[l] \in Times /\ activity[l] \in Times
      BY <3>3, ClockAssumption DEF Times
    <3>5. (s = "recent_activity" /\ open[l]) \in BOOLEAN
      BY <3>3
    <3>6. cursor' \in Cursors /\ cursor'.sort = s
      BY <3>1, <3>2, <3>4, <3>5 DEF CursorAt, Cursors
    <3> QED BY <2>2, <3>6
  <2> QED BY <2>1, <2>2
<1>6. hasMore' \in BOOLEAN
  BY <1>2
<1> QED BY <1>3, <1>4, <1>5, <1>6 DEF TypeOK

-----------------------------------------------------------------------------
LEMMA InitEstablishes == Init => IInv
<1> SUFFICES ASSUME Init PROVE IInv
  OBVIOUS
<1>1. TypeOK
  <2>1. present \in SUBSET Ids /\ \A i \in present : created[i] # 0
    BY DEF Init
  <2>2. shown \in [Ids -> 0..Often]
    BY DEF Init, Often
  <2> QED BY <2>1, <2>2 DEF Init, TypeOK
<1>2. Placed
  BY DEF Init, Placed
<1>3. PlacedForEver
  BY DEF Init, PlacedForEver
<1> QED BY <1>1, <1>2, <1>3 DEF IInv

LEMMA BeginPreserves ==
  ASSUME IInv, NEW s \in Sorts, NEW f \in Filters, NEW n \in Limits, Begin(s, f, n)
  PROVE  IInv'
<1> DEFINE fitting == {i \in present : Fits(i, f)}
           none == [i \in Ids |-> 0]
<1>1. Answer(s, f, n, fitting, none) /\ steady' = fitting
  BY DEF Begin
<1>2. TypeOK /\ fitting \subseteq present /\ fitting \in SUBSET Ids /\ n \in Nat /\ n > 0
  BY LimitsAssumption DEF IInv, TypeOK
<1>3. none \in [Ids -> 0..Often]
  BY DEF Often
<1>4. TypeOK'
  <2>1. steady' \subseteq present
    BY <1>1, <1>2
  <2> HIDE DEF fitting, none
  <2> QED BY <1>1, <1>2, <1>3, <2>1, AnswerType
<1>a. PICK fetched \in Firsts(s, fitting, n + 1) : \E page \in Firsts(s, fetched, n) :
         /\ hasMore' = (Cardinality(fetched) > n)
         /\ cursor' \in NextCursors(s, f, page, fetched, n)
         /\ shown' = [i \in Ids |-> IF i \in page /\ none[i] < Often
                                     THEN none[i] + 1 ELSE none[i]]
  BY <1>1 DEF Answer
<1>b. PICK page \in Firsts(s, fetched, n) :
         /\ hasMore' = (Cardinality(fetched) > n)
         /\ cursor' \in NextCursors(s, f, page, fetched, n)
         /\ shown' = [i \in Ids |-> IF i \in page /\ none[i] < Often
                                     THEN none[i] + 1 ELSE none[i]]
  BY <1>a
<1>5. /\ hasMore' = (Cardinality(fetched) > n)
      /\ cursor' \in NextCursors(s, f, page, fetched, n)
      /\ \A i \in Ids : shown'[i] = IF i \in page THEN 1 ELSE 0
  BY <1>b DEF Often
<1>6. sort' = s /\ UNCHANGED <<present, created, activity, open>>
  BY <1>1 DEF Answer, rowVars
<1>7. page \subseteq fitting
  BY DEF Firsts
<1> HIDE DEF fitting, none
<1>8. \A i \in fitting : i \in page <=> ~(hasMore' /\ Beyond(i, cursor'))
  BY <1>2, <1>5, AnswerPlaces
<1>9. \A i \in fitting : i \in page <=> ~(hasMore' /\ Beyond(i, cursor)')
  BY <1>6, <1>8 DEF Beyond
<1>10. Placed'
  BY <1>1, <1>2, <1>5, <1>9 DEF Placed
<1>11. PlacedForEver'
  <2>1. \A i \in Ids : shown'[i] <= 1
    BY <1>5
  <2>2. \A i \in Ids : hasMore' /\ shown'[i] = 1 => i \in page
    BY <1>5
  <2>3. \A i \in page : created'[i] # 0 /\ ~(hasMore' /\ Beyond(i, cursor)')
    BY <1>2, <1>6, <1>7, <1>9 DEF TypeOK
  <2> QED BY <2>1, <2>2, <2>3 DEF PlacedForEver
<1> QED BY <1>4, <1>10, <1>11 DEF IInv

(* What the cursor is past stays behind the next one.                         *)
LEMMA CursorMovesOn ==
  ASSUME TypeOK, hasMore, NEW f, NEW n \in Nat, NEW S \in SUBSET Ids,
         \A j \in S : Beyond(j, cursor),
         NEW fetched \in Firsts(sort, S, n + 1), NEW page \in Firsts(sort, fetched, n),
         hasMore' = (Cardinality(fetched) > n),
         cursor' \in NextCursors(sort, f, page, fetched, n),
         NEW i \in Ids, ~Beyond(i, cursor)
  PROVE  ~(hasMore' /\ Beyond(i, cursor'))
<1> SUFFICES ASSUME hasMore' PROVE ~Beyond(i, cursor')
  OBVIOUS
<1>1. PICK l \in Lasts(sort, page, fetched) : cursor' = CursorAt(sort, f, l)
  BY DEF NextCursors
<1>2. l \in S /\ l \in Ids /\ sort \in Sorts
  BY <1>1 DEF Lasts, Firsts, TypeOK
<1>3. Before(sort, i, l)
  BY <1>2, CursorSeparates
<1>4. ~Before(sort, l, i)
  BY <1>2, <1>3, OrderIsAsymmetric
<1> QED BY <1>1, <1>2, <1>4, CursorContinuesOrder

LEMMA ContinuePreserves ==
  ASSUME IInv, NEW s \in Sorts, NEW f \in Filters, NEW n \in Limits, Continue(s, f, n)
  PROVE  IInv'
<1> DEFINE fitting == {i \in present : Fits(i, f)}
           rest == {i \in fitting : Beyond(i, cursor)}
<1>1. Answer(s, f, n, rest, shown) /\ steady' = steady \intersect fitting /\ hasMore
  BY DEF Continue
<1>2. /\ TypeOK /\ rest \subseteq present /\ rest \in SUBSET Ids /\ steady \subseteq Ids
      /\ n \in Nat /\ shown \in [Ids -> 0..Often]
  BY LimitsAssumption DEF IInv, TypeOK
<1>3. s = sort /\ \A i \in fitting : i \in rest <=> Beyond(i, cursor)
  BY <1>1, <1>2 DEF Continue, Accepts, TypeOK
<1>4. TypeOK'
  <2>1. steady' \subseteq present
    BY <1>1, <1>2 DEF TypeOK
  <2> HIDE DEF fitting, rest
  <2> QED BY <1>1, <1>2, <2>1, AnswerType
<1>a. PICK fetched \in Firsts(s, rest, n + 1) : \E page \in Firsts(s, fetched, n) :
         /\ hasMore' = (Cardinality(fetched) > n)
         /\ cursor' \in NextCursors(s, f, page, fetched, n)
         /\ shown' = [i \in Ids |-> IF i \in page /\ shown[i] < Often
                                     THEN shown[i] + 1 ELSE shown[i]]
  BY <1>1 DEF Answer
<1>5. PICK page \in Firsts(s, fetched, n) :
         /\ hasMore' = (Cardinality(fetched) > n)
         /\ cursor' \in NextCursors(s, f, page, fetched, n)
         /\ shown' = [i \in Ids |-> IF i \in page /\ shown[i] < Often
                                     THEN shown[i] + 1 ELSE shown[i]]
  BY <1>a
<1>6. sort' = s /\ UNCHANGED <<present, created, activity, open>>
  BY <1>1 DEF Answer, rowVars
<1>7. page \subseteq rest /\ \A i \in rest : Beyond(i, cursor)
  BY DEF Firsts
<1> HIDE DEF fitting, rest
<1>8. \A i \in rest : i \in page <=> ~(hasMore' /\ Beyond(i, cursor'))
  BY <1>2, <1>5, AnswerPlaces
<1>9. \A i \in Ids : ~Beyond(i, cursor) => ~(hasMore' /\ Beyond(i, cursor'))
  BY <1>1, <1>2, <1>3, <1>5, <1>7, CursorMovesOn
<1>10. \A i \in Ids : Beyond(i, cursor)' <=> Beyond(i, cursor')
  BY <1>6 DEF Beyond
<1>11. Placed'
  <2> SUFFICES ASSUME NEW i \in steady'
               PROVE  shown'[i] = IF hasMore' /\ Beyond(i, cursor)' THEN 0 ELSE 1
    BY DEF Placed
  <2>1. i \in steady /\ i \in fitting /\ i \in Ids
    BY <1>1, <1>2
  <2>2. shown[i] = IF Beyond(i, cursor) THEN 0 ELSE 1
    BY <1>1, <2>1 DEF IInv, Placed
  <2>3. CASE Beyond(i, cursor)
    BY <1>3, <1>5, <1>8, <1>10, <2>1, <2>2, <2>3 DEF Often
  <2>4. CASE ~Beyond(i, cursor)
    BY <1>3, <1>5, <1>7, <1>9, <1>10, <2>1, <2>2, <2>4
  <2> QED BY <2>3, <2>4
<1>12. PlacedForEver'
  <2> SUFFICES ASSUME sort' # "recent_activity", NEW i \in Ids
               PROVE  /\ shown'[i] <= 1
                      /\ hasMore' /\ shown'[i] = 1 => created'[i] # 0 /\ ~Beyond(i, cursor)'
    BY DEF PlacedForEver
  <2>1. shown[i] <= 1 /\ (shown[i] = 1 => created[i] # 0 /\ ~Beyond(i, cursor))
    BY <1>1, <1>3, <1>6 DEF IInv, PlacedForEver
  <2>2. shown[i] \in 0..Often
    BY <1>2
  <2>3. CASE i \in page
    <3>1. i \in present /\ created[i] # 0 /\ Beyond(i, cursor)
      BY <1>2, <1>7, <2>3 DEF TypeOK
    <3>2. shown[i] = 0
      BY <2>1, <2>2, <3>1 DEF Often
    <3>3. shown'[i] = 1
      BY <1>5, <2>3, <3>2 DEF Often
    <3> QED BY <1>6, <1>7, <1>8, <1>10, <2>3, <3>1, <3>3
  <2>4. CASE i \notin page
    BY <1>5, <1>6, <1>9, <1>10, <2>1, <2>4
  <2> QED BY <2>3, <2>4
<1> QED BY <1>4, <1>11, <1>12 DEF IInv

-----------------------------------------------------------------------------
(* Rows change between two requests.  A row that is not on the way keeps its  *)
(* side of the cursor.                                                        *)
LEMMA StorePreserves ==
  ASSUME IInv, NEW i \in Ids, NEW t \in Times, Store(i, t)
  PROVE  IInv'
<1> USE DEF Store, BetweenRequests
<1>1. TypeOK /\ t \in 0..MaxClock /\ t # 0
  BY ClockAssumption DEF IInv, Times
<1>2. TypeOK'
  <2>1. created' \in [Ids -> 0..MaxClock] /\ activity' \in [Ids -> 0..MaxClock]
    BY <1>1 DEF TypeOK
  <2>2. present' \in SUBSET Ids /\ steady' \in SUBSET present'
    BY <1>1 DEF TypeOK
  <2>3. /\ \A j \in present' : created'[j] # 0
        /\ \A j \in Ids : (activity'[j] = 0) <=> (created'[j] = 0)
    BY <1>1 DEF TypeOK
  <2>4. open' \in [Ids -> BOOLEAN]
    BY <1>1 DEF TypeOK
  <2> QED BY <1>1, <2>1, <2>2, <2>3, <2>4 DEF TypeOK
<1>3. \A j \in Ids : j # i => (Beyond(j, cursor)' <=> Beyond(j, cursor))
  BY <1>1 DEF Beyond, TypeOK
<1>4. Placed'
  <2>1. \A j \in steady : j # i /\ j \in Ids
    BY <1>1 DEF TypeOK
  <2> QED BY <1>3, <2>1 DEF IInv, Placed
<1>5. PlacedForEver'
  <2> SUFFICES ASSUME sort' # "recent_activity", NEW j \in Ids
               PROVE  /\ shown'[j] <= 1
                      /\ hasMore' /\ shown'[j] = 1 => created'[j] # 0 /\ ~Beyond(j, cursor)'
    BY DEF PlacedForEver
  <2>1. /\ shown[j] <= 1
        /\ shown[j] = 1 => created[j] # 0 /\ ~Beyond(j, cursor)
    BY DEF IInv, PlacedForEver
  <2>2. CASE j = i
    BY <2>1, <2>2
  <2>3. CASE j # i
    BY <1>1, <1>3, <2>1, <2>3 DEF TypeOK
  <2> QED BY <2>2, <2>3
<1> QED BY <1>2, <1>4, <1>5 DEF IInv

LEMMA ChangePreserves ==
  ASSUME IInv, NEW i \in Ids, NEW o \in BOOLEAN, NEW t \in Times, Change(i, o, t)
  PROVE  IInv'
<1> USE DEF Change, BetweenRequests
<1>1. TypeOK /\ t \in 0..MaxClock /\ t # 0
  BY ClockAssumption DEF IInv, Times
<1>2. TypeOK'
  <2>1. activity' \in [Ids -> 0..MaxClock]
    BY <1>1 DEF TypeOK
  <2>2. steady' \in SUBSET present'
    BY <1>1 DEF TypeOK
  <2>3. /\ \A j \in present' : created'[j] # 0
        /\ \A j \in Ids : (activity'[j] = 0) <=> (created'[j] = 0)
    BY <1>1 DEF TypeOK
  <2>4. open' \in [Ids -> BOOLEAN]
    BY <1>1 DEF TypeOK
  <2> QED BY <1>1, <2>1, <2>2, <2>3, <2>4 DEF TypeOK
<1>3. CASE sort = "recent_activity"
  <2>1. \A j \in steady' : j \in steady /\ open'[j] = open[j] /\ activity'[j] = activity[j]
    BY <1>1, <1>3 DEF TypeOK
  <2>2. \A j \in steady' : Beyond(j, cursor)' <=> Beyond(j, cursor)
    BY <2>1 DEF Beyond
  <2>3. Placed'
    BY <2>1, <2>2 DEF IInv, Placed
  <2>4. PlacedForEver'
    BY <1>3 DEF PlacedForEver
  <2> QED BY <1>2, <2>3, <2>4 DEF IInv
<1>4. CASE sort # "recent_activity"
  <2>1. steady' = steady /\ cursor.sort # "recent_activity"
    BY <1>1, <1>4 DEF TypeOK
  <2>2. \A j \in Ids : Beyond(j, cursor)' <=> Beyond(j, cursor)
    BY <2>1 DEF Beyond
  <2>3. Placed'
    BY <1>1, <2>1, <2>2 DEF IInv, Placed, TypeOK
  <2>4. PlacedForEver'
    BY <2>2 DEF IInv, PlacedForEver
  <2> QED BY <1>2, <2>3, <2>4 DEF IInv
<1> QED BY <1>3, <1>4

(* A row with another creation time starts anew; one with the same stays.     *)
LEMMA ReconcilePreserves ==
  ASSUME IInv, NEW i \in Ids, NEW t \in Times, NEW mine \in BOOLEAN, Reconcile(i, t, mine)
  PROVE  IInv'
<1> USE DEF Reconcile, BetweenRequests
<1>1. TypeOK /\ t \in 0..MaxClock /\ t # 0
  BY ClockAssumption DEF IInv, Times
<1>2. TypeOK'
  <2>1. created' \in [Ids -> 0..MaxClock] /\ activity' \in [Ids -> 0..MaxClock]
    BY <1>1 DEF TypeOK
  <2>2. present' \in SUBSET Ids /\ steady' \in SUBSET present'
    BY <1>1 DEF TypeOK
  <2>3. /\ \A j \in present' : created'[j] # 0
        /\ \A j \in Ids : (activity'[j] = 0) <=> (created'[j] = 0)
    BY <1>1 DEF TypeOK
  <2>4. shown' \in [Ids -> 0..Often]
    BY <1>1 DEF TypeOK, Often
  <2> QED BY <1>1, <2>1, <2>2, <2>3, <2>4 DEF TypeOK
<1>3. cursor.sort = "latest"
  BY <1>1 DEF TypeOK
<1>4. \A j \in Ids : j # i \/ t = created[i] =>
        /\ Beyond(j, cursor)' <=> Beyond(j, cursor)
        /\ shown'[j] = shown[j] /\ created'[j] = created[j]
  <2> SUFFICES ASSUME NEW j \in Ids, j # i \/ t = created[i]
               PROVE  /\ Beyond(j, cursor)' <=> Beyond(j, cursor)
                      /\ shown'[j] = shown[j] /\ created'[j] = created[j]
    OBVIOUS
  <2>1. shown'[j] = shown[j] /\ created'[j] = created[j]
    BY <1>1 DEF TypeOK
  <2> QED BY <1>3, <2>1 DEF Beyond
<1>5. \A j \in steady' : j \in steady /\ j \in Ids /\ (j # i \/ t = created[i])
  BY <1>1 DEF TypeOK
<1>6. Placed'
  BY <1>4, <1>5 DEF IInv, Placed
<1>7. PlacedForEver'
  <2> SUFFICES ASSUME NEW j \in Ids
               PROVE  /\ shown'[j] <= 1
                      /\ hasMore' /\ shown'[j] = 1 => created'[j] # 0 /\ ~Beyond(j, cursor)'
    BY DEF PlacedForEver
  <2>1. /\ shown[j] <= 1
        /\ shown[j] = 1 => created[j] # 0 /\ ~Beyond(j, cursor)
    BY DEF IInv, PlacedForEver
  <2>2. CASE j # i \/ t = created[i]
    BY <1>4, <2>1, <2>2
  <2>3. CASE j = i /\ t # created[i]
    BY <1>1, <2>3 DEF TypeOK
  <2> QED BY <2>2, <2>3
<1> QED BY <1>2, <1>6, <1>7 DEF IInv

LEMMA PresencePreserves ==
  ASSUME IInv, NEW i \in Ids, Hide(i) \/ Reveal(i)
  PROVE  IInv'
<1> USE DEF Hide, Reveal, BetweenRequests
<1>1. /\ UNCHANGED <<created, activity, open, sort, cursor, hasMore, shown>>
      /\ steady' \subseteq steady /\ steady' \subseteq present'
      /\ present' \subseteq Ids /\ \A j \in present' : created[j] # 0
  BY DEF IInv, TypeOK
<1> QED BY <1>1 DEF IInv, TypeOK, Placed, PlacedForEver, Beyond

THEOREM Invariance == Spec => []IInv
<1>1. IInv /\ [Next]_vars => IInv'
  <2> SUFFICES ASSUME IInv, [Next]_vars PROVE IInv'
    OBVIOUS
  <2>1. CASE UNCHANGED vars
    BY <2>1 DEF vars, rowVars, walkVars, IInv, TypeOK, Placed, PlacedForEver, Beyond
  <2>2. ASSUME NEW s \in Sorts, NEW f \in Filters, NEW n \in Limits, Begin(s, f, n)
        PROVE  IInv'
    BY <2>2, BeginPreserves
  <2>3. ASSUME NEW s \in Sorts, NEW f \in Filters, NEW n \in Limits, Continue(s, f, n)
        PROVE  IInv'
    BY <2>3, ContinuePreserves
  <2>4. ASSUME NEW i \in Ids, NEW t \in Times, Store(i, t)
        PROVE  IInv'
    BY <2>4, StorePreserves
  <2>5. ASSUME NEW i \in Ids, NEW t \in Times, NEW o \in BOOLEAN, Change(i, o, t)
        PROVE  IInv'
    BY <2>5, ChangePreserves
  <2>6. ASSUME NEW i \in Ids, Hide(i) \/ Reveal(i)
        PROVE  IInv'
    BY <2>6, PresencePreserves
  <2>7. ASSUME NEW i \in Ids, NEW t \in Times, NEW o \in BOOLEAN, Reconcile(i, t, o)
        PROVE  IInv'
    BY <2>7, ReconcilePreserves
  <2> QED BY <2>1, <2>2, <2>3, <2>4, <2>5, <2>6, <2>7 DEF Next
<1> QED BY InitEstablishes, <1>1, PTL DEF Spec

(* The rows of a list have times, and an answer has a cursor exactly when it  *)
(* has more.                                                                  *)
THEOREM TypeCorrect == Spec => []TypeOK
<1>1. IInv => TypeOK
  BY DEF IInv
<1> QED BY Invariance, <1>1, PTL

(* Whatever limits a client asks with, and whatever happens to the other rows *)
(* of the list between its requests, a row that stays where it is is shown    *)
(* once in a walk.                                                            *)
THEOREM ShownOnce == Spec => []SteadyShownOnce
<1>1. IInv => SteadyShownOnce
  BY DEF IInv, TypeOK, Placed, SteadyShownOnce
<1> QED BY Invariance, <1>1, PTL

(* Rows that stay where they are are shown in the order of the list.          *)
THEOREM ShownInOrder == Spec => []SteadyInOrder
<1>1. IInv => SteadyInOrder
  <2> SUFFICES ASSUME IInv, NEW i \in steady, NEW j \in steady, shown[i] > 0, shown[j] = 0
               PROVE  Before(sort, i, j)
    BY DEF SteadyInOrder
  <2>1. hasMore /\ ~Beyond(i, cursor) /\ Beyond(j, cursor)
    BY DEF IInv, Placed
  <2>2. TypeOK /\ i \in Ids /\ j \in Ids
    BY DEF IInv, TypeOK
  <2> QED BY <2>1, <2>2, CursorSeparates
<1> QED BY Invariance, <1>1, PTL

(* In an order by creation time no row is shown twice, unless it was given    *)
(* another creation time in between.                                          *)
THEOREM ShownOnceAsCreated == Spec => []NothingTwice
<1>1. IInv => NothingTwice
  BY DEF IInv, PlacedForEver, NothingTwice
<1> QED BY Invariance, <1>1, PTL
=============================================================================
