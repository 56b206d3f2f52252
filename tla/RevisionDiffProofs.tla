------------------------- MODULE RevisionDiffProofs -------------------------
(***************************************************************************)
(* Proofs about MyersDiff and RevisionDiff, for any sequences: what the    *)
(* trace holds when the way back begins, that the way back follows it to   *)
(* the origin, and that the search is never ahead of the best way and      *)
(* always keeps up with it, so that no script is shorter than the one it   *)
(* finds; and that blocks, lines and chunks made from that script read as  *)
(* either side, which needs that the script is a shortest one: a removal   *)
(* right before an addition of the same element would be shown as a        *)
(* modification that changes nothing.                                      *)
(***************************************************************************)
EXTENDS RevisionDiff, FiniteSetTheorems, FunctionTheorems, SequenceTheorems,
        WellFoundedInduction, TLAPS

\* The diagonals that distance j reaches.
Reachable(j) == {i \in (-j)..j : (i + j) % 2 = 0}

\* Diagonal i is followed up to end at this distance, when w is how far the
\* diagonals went at the distance before.
Reached(w, distance, i, end) ==
  LET start == Start(w, distance, i) IN
  /\ start \in Nat
  /\ start - i \in Nat
  /\ end \in Nat
  /\ SnakeTo(start, end, i)

\* Between two rows of the trace lies one round.
TraceInv ==
  /\ Len(trace) > 0
  /\ Len(trace) <= maxDistance + 1
  /\ trace[1] = [i \in Diagonals |-> 0]
  /\ \A j \in 1..(Len(trace) - 1) : \A i \in Reachable(j - 1) :
       Reached(trace[j], j - 1, i, trace[j + 1][i])

\* The round of distance d is done up to diagonal k, in place: the other
\* diagonals, which it reads, are still what they were before it.
RoundInv ==
  pc = "forward" =>
    /\ maxDistance > 0
    /\ d <= maxDistance
    /\ Len(trace) = d + 1
    /\ k \in (-d)..(d + 2)
    /\ (k + d) % 2 = 0
    /\ \A i \in Reachable(d) : i < k => Reached(trace[d + 1], d, i, furthest[i])
    /\ \A i \in Diagonals : (i + d) % 2 # 0 => furthest[i] = trace[d + 1][i]
    /\ x = N /\ y = M /\ edits = <<>>

\* The way back is on the snake by which distance d reached its diagonal.
BackInv ==
  pc = "backward" =>
    /\ maxDistance > 0
    /\ d <= maxDistance
    /\ d + 1 <= Len(trace)
    /\ x - y \in Reachable(d)
    /\ Reached(trace[d + 1], d, x - y, x)

\* While the edits are collected, last first: they show what follows x in
\* from, and what follows y in to.
Collects(OnSide(_), Ix(_), low, high) ==
  /\ \A p, q \in DOMAIN edits :
       p < q /\ OnSide(edits[p]) /\ OnSide(edits[q]) => Ix(edits[p]) > Ix(edits[q])
  /\ \A p \in DOMAIN edits : OnSide(edits[p]) => Ix(edits[p]) \in low..(high - 1)
  /\ \A i \in low..(high - 1) : \E p \in DOMAIN edits : OnSide(edits[p]) /\ Ix(edits[p]) = i

CollectsFrom == Collects(Keeps, FromIx, x, N)
CollectsTo == Collects(Brings, ToIx, y, M)

EqualAreEqual ==
  \A p \in DOMAIN edits :
    edits[p].typ = "equal" => from[edits[p].fromIx + 1] = to[edits[p].toIx + 1]

EditsInv ==
  pc \in {"forward", "backward"} =>
    /\ CollectsFrom
    /\ CollectsTo
    /\ EqualAreEqual

IInv == TypeOK /\ TraceInv /\ RoundInv /\ BackInv /\ EditsInv /\ ScriptReadsBothWays

-----------------------------------------------------------------------------
LEMMA LengthsNat ==
  ASSUME TypeOK PROVE N \in Nat /\ M \in Nat /\ maxDistance \in Nat /\ maxDistance = N + M
  BY DEF TypeOK, N, M, maxDistance

LEMMA InitHolds == Init => IInv
  <1>. SUFFICES ASSUME Init PROVE IInv
    OBVIOUS
  <1>1. PICK pair \in Inputs : from = pair[1] /\ to = pair[2]
    BY DEF Init
  <1>2. from \in Seq(Elements) /\ to \in Seq(Elements)
    BY <1>1, InputsAssumption
  <1>3. N \in Nat /\ M \in Nat /\ maxDistance \in Nat /\ maxDistance = N + M
    BY <1>2 DEF N, M, maxDistance
  <1>4. furthest \in [Diagonals -> Nat]
    BY DEF Init
  <1>5. trace \in Seq([Diagonals -> Nat]) /\ Len(trace) = 1 /\ trace[1] = furthest
    BY <1>4 DEF Init
  <1>6. TypeOK
    BY <1>2, <1>3, <1>4, <1>5 DEF Init, TypeOK
  <1>7. TraceInv
    BY <1>3, <1>5 DEF Init, TraceInv
  <1>8. RoundInv
    BY <1>3, <1>5 DEF Init, RoundInv, Reachable
  <1>9. BackInv
    BY DEF Init, BackInv
  <1>10. EditsInv
    BY <1>3 DEF Init, EditsInv, CollectsFrom, CollectsTo, Collects, EqualAreEqual
  <1>11. ScriptReadsBothWays
    BY <1>3 DEF Init, ScriptReadsBothWays, InOrder
  <1>. QED
    BY <1>6, <1>7, <1>8, <1>9, <1>10, <1>11 DEF IInv

-----------------------------------------------------------------------------
\* The diagonal from which distance j - 1 reaches diagonal i.
PrevOf(j, i) == IF ByAddition(trace[j], j - 1, i) THEN i + 1 ELSE i - 1

LEMMA RowType ==
  ASSUME TypeOK, NEW j \in 1..Len(trace)
  PROVE  trace[j] \in [Diagonals -> Nat]
  BY DEF TypeOK

\* It was reached at the distance before.
LEMMA Predecessor ==
  ASSUME TypeOK, TraceInv, NEW j \in 2..Len(trace), NEW i \in Reachable(j - 1)
  PROVE  /\ PrevOf(j, i) \in Reachable(j - 2)
         /\ PrevOf(j, i) \in Diagonals
         /\ Reached(trace[j - 1], j - 2, PrevOf(j, i), trace[j][PrevOf(j, i)])
         /\ trace[j][PrevOf(j, i)] \in Nat
         /\ trace[j][PrevOf(j, i)] - PrevOf(j, i) \in Nat
  <1>. DEFINE q == PrevOf(j, i)
  <1>1. /\ i \in Int /\ j \in Nat /\ i >= -(j - 1) /\ i <= j - 1 /\ (i + (j - 1)) % 2 = 0
        /\ maxDistance \in Nat /\ j - 1 <= maxDistance
    BY LengthsNat DEF Reachable, TraceInv
  <1>2. q \in Reachable(j - 2)
    <2>1. CASE ByAddition(trace[j], j - 1, i)
      BY <1>1, <2>1 DEF PrevOf, ByAddition, Reachable
    <2>2. CASE ~ByAddition(trace[j], j - 1, i)
      BY <1>1, <2>2 DEF PrevOf, ByAddition, Reachable
    <2>. QED
      BY <2>1, <2>2
  <1>3. q \in Diagonals
    BY <1>1, <1>2 DEF Reachable, Diagonals
  <1>4. Reached(trace[j - 1], j - 2, q, trace[j][q])
    <2>1. j - 1 \in 1..(Len(trace) - 1)
      BY <1>1
    <2>2. \A p \in Reachable((j - 1) - 1) :
            Reached(trace[j - 1], (j - 1) - 1, p, trace[(j - 1) + 1][p])
      BY <2>1 DEF TraceInv
    <2>3. (j - 1) - 1 = j - 2 /\ (j - 1) + 1 = j
      BY <1>1
    <2>. QED
      BY <1>2, <2>2, <2>3
  <1>5. trace[j][q] \in Nat /\ trace[j][q] - q \in Nat
    <2>. DEFINE start == Start(trace[j - 1], j - 2, q)
    <2>1. /\ start \in Nat /\ start - q \in Nat
          /\ trace[j][q] \in Nat /\ start <= trace[j][q]
      BY <1>4 DEF Reached, SnakeTo
    <2>2. q \in Int
      BY <1>3, <1>1 DEF Diagonals
    <2>. QED
      BY <2>1, <2>2
  <1>. QED
    BY <1>2, <1>3, <1>4, <1>5

\* From there the way begins with one more element of to, or of from.
LEMMA StartsInside ==
  ASSUME TypeOK, TraceInv, maxDistance > 0, NEW j \in 1..Len(trace), NEW i \in Reachable(j - 1)
  PROVE  /\ Start(trace[j], j - 1, i) \in Nat
         /\ Start(trace[j], j - 1, i) - i \in Nat
         /\ j = 1 => i = 0 /\ Start(trace[j], j - 1, i) = 0
         /\ j > 1 => Start(trace[j], j - 1, i) =
                       IF ByAddition(trace[j], j - 1, i)
                         THEN trace[j][PrevOf(j, i)] ELSE trace[j][PrevOf(j, i)] + 1
  <1>1. /\ i \in Int /\ j \in Nat /\ i >= -(j - 1) /\ i <= j - 1 /\ maxDistance \in Nat
    BY LengthsNat DEF Reachable
  <1>2. CASE j = 1
    <2>1. i = 0 /\ 1 \in Diagonals /\ ByAddition(trace[j], j - 1, i)
      BY <1>1, <1>2 DEF ByAddition, Diagonals
    <2>2. trace[1][1] = 0
      BY <2>1 DEF TraceInv
    <2>. QED
      BY <1>2, <2>1, <2>2 DEF Start
  <1>3. CASE j > 1
    <2>1. j \in 2..Len(trace)
      BY <1>1, <1>3
    <2>2. PrevOf(j, i) \in Int /\ trace[j][PrevOf(j, i)] \in Nat
          /\ trace[j][PrevOf(j, i)] - PrevOf(j, i) \in Nat
      BY <1>1, <2>1, Predecessor DEF Diagonals
    <2>3. CASE ByAddition(trace[j], j - 1, i)
      BY <1>1, <1>3, <2>2, <2>3 DEF Start, PrevOf
    <2>4. CASE ~ByAddition(trace[j], j - 1, i)
      BY <1>1, <1>3, <2>2, <2>4 DEF Start, PrevOf
    <2>. QED
      BY <2>3, <2>4
  <1>. QED
    BY <1>1, <1>2, <1>3

\* A round reads of the array only what it does not write.
LEMMA StartIsOfTrace ==
  ASSUME TypeOK, TraceInv, RoundInv, pc = "forward", k <= d
  PROVE  /\ k \in Reachable(d)
         /\ k \in Diagonals
         /\ Start(furthest, d, k) = Start(trace[d + 1], d, k)
         /\ Start(furthest, d, k) \in Nat
         /\ Start(furthest, d, k) - k \in Nat
  <1>1. /\ d \in Nat /\ maxDistance \in Nat /\ d <= maxDistance /\ maxDistance > 0
        /\ k \in Int /\ k >= -d /\ k <= d /\ (k + d) % 2 = 0 /\ Len(trace) = d + 1
    BY LengthsNat DEF TypeOK, RoundInv
  <1>2. k \in Reachable(d) /\ k \in Diagonals
    BY <1>1 DEF Reachable, Diagonals
  <1>3. k # -d => k - 1 \in Diagonals /\ furthest[k - 1] = trace[d + 1][k - 1]
    <2>1. k # -d => k - 1 \in Diagonals
      BY <1>1 DEF Diagonals
    <2>2. (k - 1 + d) % 2 # 0
      BY <1>1
    <2>. QED
      BY <2>1, <2>2 DEF RoundInv
  <1>4. k # d \/ k = -d => k + 1 \in Diagonals /\ furthest[k + 1] = trace[d + 1][k + 1]
    <2>1. k # d \/ k = -d => k + 1 \in Diagonals
      BY <1>1 DEF Diagonals
    <2>2. (k + 1 + d) % 2 # 0
      BY <1>1
    <2>. QED
      BY <2>1, <2>2 DEF RoundInv
  <1>5. ByAddition(furthest, d, k) <=> ByAddition(trace[d + 1], d, k)
    BY <1>3, <1>4 DEF ByAddition
  <1>6. Start(furthest, d, k) = Start(trace[d + 1], d, k)
    BY <1>3, <1>4, <1>5 DEF Start, ByAddition
  <1>7. d + 1 \in 1..Len(trace) /\ d = (d + 1) - 1
    BY <1>1
  <1>8. /\ Start(trace[d + 1], (d + 1) - 1, k) \in Nat
        /\ Start(trace[d + 1], (d + 1) - 1, k) - k \in Nat
    BY <1>1, <1>2, <1>7, StartsInside
  <1>. QED
    BY <1>2, <1>6, <1>7, <1>8

-----------------------------------------------------------------------------
LEMMA ExtendStep ==
  ASSUME IInv, Extend PROVE IInv'
  <1>. USE DEF IInv
  <1>1. /\ pc = "forward" /\ k <= d /\ d \in Nat /\ d <= maxDistance /\ maxDistance > 0
        /\ Len(trace) = d + 1 /\ k \in Int /\ k >= -d /\ maxDistance \in Nat
        /\ N \in Nat /\ M \in Nat /\ (k + d) % 2 = 0
    BY LengthsNat DEF Extend, TypeOK, RoundInv
  <1>. DEFINE start == Start(furthest, d, k)
  <1>2. /\ k \in Reachable(d) /\ k \in Diagonals
        /\ start = Start(trace[d + 1], d, k) /\ start \in Nat /\ start - k \in Nat
    BY <1>1, StartIsOfTrace
  <1>3. PICK end \in start..(start + N) :
          /\ SnakeTo(start, end, k)
          /\ furthest' = [furthest EXCEPT ![k] = end]
          /\ IF Found(end, k) THEN pc' = "backward" /\ k' = k ELSE k' = k + 2 /\ pc' = pc
    BY DEF Extend
  <1>4. end \in Nat
    BY <1>1, <1>2, <1>3
  <1>5. /\ UNCHANGED <<from, to, d, trace, x, y, edits>>
        /\ N' = N /\ M' = M /\ maxDistance' = maxDistance /\ Diagonals' = Diagonals
    BY DEF Extend, N, M, maxDistance, Diagonals
  <1>6. \A start_, end_, diagonal : SnakeTo(start_, end_, diagonal)' <=> SnakeTo(start_, end_, diagonal)
    BY <1>5 DEF SnakeTo, Matches
  <1>7. \A w, distance, i, end_ :
          Reached(w, distance, i, end_)' <=> Reached(w, distance, i, end_)
    BY <1>6 DEF Reached
  <1>8. furthest' \in [Diagonals -> Nat]
    BY <1>3, <1>4 DEF TypeOK
  <1>9. TypeOK'
    BY <1>1, <1>3, <1>5, <1>8 DEF TypeOK
  <1>10. TraceInv'
    BY <1>5, <1>7 DEF TraceInv, Reachable
  <1>11. Reached(trace[d + 1], d, k, end)
    BY <1>2, <1>3, <1>4 DEF Reached
  <1>12. RoundInv'
    <2>. SUFFICES ASSUME pc' = "forward" PROVE RoundInv'
      BY DEF RoundInv
    <2>1. k' = k + 2
      BY <1>3
    <2>2. ASSUME NEW i \in Reachable(d), i < k + 2
          PROVE  Reached(trace[d + 1], d, i, furthest'[i])
      <3>1. i \in Diagonals /\ i \in Int /\ (i + d) % 2 = 0
        BY <1>1 DEF Reachable, Diagonals
      <3>2. CASE i = k
        BY <1>2, <1>3, <1>11, <3>2 DEF TypeOK
      <3>3. CASE i # k
        <4>1. i < k
          BY <1>1, <2>2, <3>1, <3>3
        <4>2. furthest'[i] = furthest[i]
          BY <1>3, <3>1, <3>3 DEF TypeOK
        <4>. QED
          BY <1>1, <4>1, <4>2 DEF RoundInv
      <3>. QED
        BY <3>2, <3>3
    <2>3. ASSUME NEW i \in Diagonals, (i + d) % 2 # 0
          PROVE  furthest'[i] = trace[d + 1][i]
      BY <1>1, <1>3, <2>3 DEF RoundInv, TypeOK
    <2>4. k + 2 \in (-d)..(d + 2) /\ (k + 2 + d) % 2 = 0
      BY <1>1
    <2>. QED
      BY <1>1, <1>5, <1>7, <2>1, <2>2, <2>3, <2>4 DEF RoundInv, Reachable
  <1>13. BackInv'
    <2>. SUFFICES ASSUME pc' = "backward" PROVE BackInv'
      BY DEF BackInv
    <2>1. end = N /\ end - k = M
      BY <1>1, <1>3 DEF Found
    <2>2. x = end /\ x - y = k
      BY <1>1, <1>4, <2>1 DEF RoundInv
    <2>. QED
      BY <1>1, <1>2, <1>5, <1>7, <1>11, <2>2 DEF BackInv, Reachable
  <1>14. EditsInv'
    BY <1>1, <1>5 DEF EditsInv, CollectsFrom, CollectsTo, Collects, EqualAreEqual
  <1>15. ScriptReadsBothWays'
    BY <1>1, <1>3 DEF ScriptReadsBothWays
  <1>. QED
    BY <1>9, <1>10, <1>12, <1>13, <1>14, <1>15

LEMMA NextRoundStep ==
  ASSUME IInv, NextRound PROVE IInv'
  <1>. USE DEF IInv
  <1>1. /\ pc = "forward" /\ k > d /\ d \in Nat /\ d <= maxDistance /\ maxDistance > 0
        /\ Len(trace) = d + 1 /\ k \in Int /\ maxDistance \in Nat
        /\ N \in Nat /\ M \in Nat
    <2>1. pc = "forward" /\ k > d
      BY DEF NextRound
    <2>2. N \in Nat /\ M \in Nat /\ maxDistance \in Nat
      BY LengthsNat
    <2>3. d \in 0..(maxDistance + 1) /\ k \in (-maxDistance - 1)..(maxDistance + 2)
      BY DEF TypeOK
    <2>4. d <= maxDistance /\ maxDistance > 0 /\ Len(trace) = d + 1
      BY <2>1 DEF RoundInv
    <2>. QED
      BY <2>1, <2>2, <2>3, <2>4
  <1>2. /\ UNCHANGED <<from, to, furthest, x, y, edits>>
        /\ d' = d + 1 /\ k' = -(d + 1)
        /\ N' = N /\ M' = M /\ maxDistance' = maxDistance /\ Diagonals' = Diagonals
    BY DEF NextRound, N, M, maxDistance, Diagonals
  <1>3. \A start_, end_, diagonal : SnakeTo(start_, end_, diagonal)' <=> SnakeTo(start_, end_, diagonal)
    BY <1>2 DEF SnakeTo, Matches
  <1>4. \A w, distance, i, end_ :
          Reached(w, distance, i, end_)' <=> Reached(w, distance, i, end_)
    BY <1>3 DEF Reached
  <1>5. BackInv' /\ ScriptReadsBothWays'
    BY <1>1 DEF NextRound, BackInv, ScriptReadsBothWays
  <1>6. EditsInv'
    BY <1>1, <1>2 DEF NextRound, EditsInv, CollectsFrom, CollectsTo, Collects, EqualAreEqual
  <1>7. CASE d = maxDistance
    <2>1. pc' = "nil" /\ trace' = trace
      BY <1>7 DEF NextRound
    <2>2. TypeOK'
      BY <1>1, <1>2, <2>1 DEF TypeOK
    <2>3. TraceInv'
      BY <1>2, <1>4, <2>1 DEF TraceInv
    <2>4. RoundInv'
      BY <2>1 DEF RoundInv
    <2>. QED
      BY <1>5, <1>6, <2>2, <2>3, <2>4
  <1>8. CASE d # maxDistance
    <2>1. pc' = pc /\ trace' = Append(trace, furthest)
      BY <1>8 DEF NextRound
    <2>2. /\ trace' \in Seq([Diagonals -> Nat])
          /\ Len(trace') = d + 2
          /\ \A j \in 1..(d + 1) : trace'[j] = trace[j]
          /\ trace'[d + 2] = furthest
      BY <1>1, <2>1 DEF TypeOK
    <2>3. TypeOK'
      BY <1>1, <1>2, <1>8, <2>1, <2>2 DEF TypeOK
    <2>4. ASSUME NEW j \in 1..(d + 1), NEW i \in Reachable(j - 1)
          PROVE  Reached(trace'[j], j - 1, i, trace'[j + 1][i])
      <3>1. CASE j = d + 1
        <4>1. i \in Reachable(d) /\ j - 1 = d /\ j + 1 = d + 2
          BY <1>1, <3>1
        <4>2. i < k
          BY <1>1, <4>1 DEF Reachable
        <4>3. Reached(trace[d + 1], d, i, furthest[i])
          BY <1>1, <4>1, <4>2 DEF RoundInv
        <4>. QED
          BY <2>2, <3>1, <4>1, <4>3
      <3>2. CASE j # d + 1
        <4>1. j \in 1..(Len(trace) - 1) /\ j + 1 \in 1..(d + 1)
          BY <1>1, <3>2
        <4>. QED
          BY <2>2, <4>1 DEF TraceInv
      <3>. QED
        BY <3>1, <3>2
    <2>5. TraceInv'
      <3>1. Len(trace') - 1 = d + 1 /\ Len(trace') > 0 /\ Len(trace') <= maxDistance + 1
        BY <1>1, <1>8, <2>2
      <3>2. trace'[1] = [i \in Diagonals |-> 0]
        BY <1>1, <2>2 DEF TraceInv
      <3>. QED
        BY <1>2, <1>4, <2>4, <3>1, <3>2 DEF TraceInv, Reachable
    <2>6. RoundInv'
      <3>1. \A i \in Reachable(d + 1) : ~(i < -(d + 1))
        BY <1>1 DEF Reachable
      <3>2. d + 1 <= maxDistance /\ (-(d + 1) + (d + 1)) % 2 = 0 /\ (d + 1) + 1 = d + 2
            /\ -(d + 1) \in (-(d + 1))..((d + 1) + 2)
        BY <1>1, <1>8
      <3>. QED
        BY <1>1, <1>2, <2>1, <2>2, <3>1, <3>2 DEF RoundInv, Reachable
    <2>. QED
      BY <1>5, <1>6, <2>3, <2>5, <2>6
  <1>. QED
    BY <1>7, <1>8

-----------------------------------------------------------------------------
\* What one more edit does to what is collected of either side.
LEMMA OneMoreKept ==
  ASSUME edits \in Seq(Edit), NEW e \in Edit, Keeps(e), e.fromIx = x - 1, x > 0,
         edits' = Append(edits, e), x \in Nat, N \in Nat, x <= N,
         CollectsFrom,
         N' = N, x' = x - 1
  PROVE  CollectsFrom'
  <1>1. /\ DOMAIN edits' = DOMAIN edits \union {Len(edits) + 1}
        /\ \A p \in DOMAIN edits : edits'[p] = edits[p] /\ p < Len(edits) + 1
        /\ edits'[Len(edits) + 1] = e
        /\ DOMAIN edits \subseteq Nat /\ Len(edits) \in Nat
    OBVIOUS
  <1>2. /\ \A p, q \in DOMAIN edits :
             p < q /\ Keeps(edits[p]) /\ Keeps(edits[q]) => edits[p].fromIx > edits[q].fromIx
        /\ \A p \in DOMAIN edits : Keeps(edits[p]) => edits[p].fromIx \in x..(N - 1)
        /\ \A i \in x..(N - 1) :
             \E p \in DOMAIN edits : Keeps(edits[p]) /\ edits[p].fromIx = i
    BY DEF Collects, CollectsFrom, CollectsTo, FromIx, ToIx
  <1>3. ASSUME NEW p \in DOMAIN edits', NEW q \in DOMAIN edits',
               p < q, Keeps(edits'[p]), Keeps(edits'[q])
        PROVE  edits'[p].fromIx > edits'[q].fromIx
    <2>1. p \in DOMAIN edits
      BY <1>1, <1>3
    <2>2. CASE q \in DOMAIN edits
      BY <1>1, <1>2, <1>3, <2>1, <2>2
    <2>3. CASE q = Len(edits) + 1
      BY <1>1, <1>2, <1>3, <2>1, <2>3
    <2>. QED
      BY <1>1, <2>2, <2>3
  <1>4. ASSUME NEW p \in DOMAIN edits', Keeps(edits'[p])
        PROVE  edits'[p].fromIx \in x'..(N - 1)
    BY <1>1, <1>2, <1>4
  <1>5. ASSUME NEW i \in x'..(N - 1)
        PROVE  \E p \in DOMAIN edits' : Keeps(edits'[p]) /\ edits'[p].fromIx = i
    <2>1. CASE i = x - 1
      BY <1>1, <2>1
    <2>2. CASE i # x - 1
      <3>1. i \in x..(N - 1)
        BY <1>5, <2>2
      <3>2. PICK p \in DOMAIN edits : Keeps(edits[p]) /\ edits[p].fromIx = i
        BY <1>2, <3>1
      <3>. QED
        BY <1>1, <3>2
    <2>. QED
      BY <2>1, <2>2
  <1>6. \A f : Keeps(f)' <=> Keeps(f)
    BY DEF Keeps
  <1>. QED
    BY <1>3, <1>4, <1>5, <1>6 DEF Collects, CollectsFrom, FromIx, Keeps

LEMMA NoneKept ==
  ASSUME edits \in Seq(Edit), NEW e \in Edit, ~Keeps(e),
         edits' = Append(edits, e), x \in Nat, N \in Nat, x <= N,
         CollectsFrom,
         N' = N, x' = x
  PROVE  CollectsFrom'
  <1>1. /\ DOMAIN edits' = DOMAIN edits \union {Len(edits) + 1}
        /\ \A p \in DOMAIN edits : edits'[p] = edits[p] /\ p < Len(edits) + 1
        /\ edits'[Len(edits) + 1] = e
        /\ DOMAIN edits \subseteq Nat /\ Len(edits) \in Nat
    OBVIOUS
  <1>2. /\ \A p, q \in DOMAIN edits :
             p < q /\ Keeps(edits[p]) /\ Keeps(edits[q]) => edits[p].fromIx > edits[q].fromIx
        /\ \A p \in DOMAIN edits : Keeps(edits[p]) => edits[p].fromIx \in x..(N - 1)
        /\ \A i \in x..(N - 1) :
             \E p \in DOMAIN edits : Keeps(edits[p]) /\ edits[p].fromIx = i
    BY DEF Collects, CollectsFrom, CollectsTo, FromIx, ToIx
  <1>3. ASSUME NEW p \in DOMAIN edits', NEW q \in DOMAIN edits',
               p < q, Keeps(edits'[p]), Keeps(edits'[q])
        PROVE  edits'[p].fromIx > edits'[q].fromIx
    <2>1. p \in DOMAIN edits
      BY <1>1, <1>3
    <2>2. CASE q \in DOMAIN edits
      BY <1>1, <1>2, <1>3, <2>1, <2>2
    <2>3. CASE q = Len(edits) + 1
      BY <1>1, <1>2, <1>3, <2>1, <2>3
    <2>. QED
      BY <1>1, <2>2, <2>3
  <1>4. ASSUME NEW p \in DOMAIN edits', Keeps(edits'[p])
        PROVE  edits'[p].fromIx \in x'..(N - 1)
    BY <1>1, <1>2, <1>4
  <1>5. ASSUME NEW i \in x'..(N - 1)
        PROVE  \E p \in DOMAIN edits' : Keeps(edits'[p]) /\ edits'[p].fromIx = i
    <2>1. PICK p \in DOMAIN edits : Keeps(edits[p]) /\ edits[p].fromIx = i
      BY <1>2, <1>5
    <2>. QED
      BY <1>1, <2>1
  <1>6. \A f : Keeps(f)' <=> Keeps(f)
    BY DEF Keeps
  <1>. QED
    BY <1>3, <1>4, <1>5, <1>6 DEF Collects, CollectsFrom, FromIx, Keeps

LEMMA OneMoreBrought ==
  ASSUME edits \in Seq(Edit), NEW e \in Edit, Brings(e), e.toIx = y - 1, y > 0,
         edits' = Append(edits, e), y \in Nat, M \in Nat, y <= M,
         CollectsTo,
         M' = M, y' = y - 1
  PROVE  CollectsTo'
  <1>1. /\ DOMAIN edits' = DOMAIN edits \union {Len(edits) + 1}
        /\ \A p \in DOMAIN edits : edits'[p] = edits[p] /\ p < Len(edits) + 1
        /\ edits'[Len(edits) + 1] = e
        /\ DOMAIN edits \subseteq Nat /\ Len(edits) \in Nat
    OBVIOUS
  <1>2. /\ \A p, q \in DOMAIN edits :
             p < q /\ Brings(edits[p]) /\ Brings(edits[q]) => edits[p].toIx > edits[q].toIx
        /\ \A p \in DOMAIN edits : Brings(edits[p]) => edits[p].toIx \in y..(M - 1)
        /\ \A i \in y..(M - 1) :
             \E p \in DOMAIN edits : Brings(edits[p]) /\ edits[p].toIx = i
    BY DEF Collects, CollectsFrom, CollectsTo, FromIx, ToIx
  <1>3. ASSUME NEW p \in DOMAIN edits', NEW q \in DOMAIN edits',
               p < q, Brings(edits'[p]), Brings(edits'[q])
        PROVE  edits'[p].toIx > edits'[q].toIx
    <2>1. p \in DOMAIN edits
      BY <1>1, <1>3
    <2>2. CASE q \in DOMAIN edits
      BY <1>1, <1>2, <1>3, <2>1, <2>2
    <2>3. CASE q = Len(edits) + 1
      BY <1>1, <1>2, <1>3, <2>1, <2>3
    <2>. QED
      BY <1>1, <2>2, <2>3
  <1>4. ASSUME NEW p \in DOMAIN edits', Brings(edits'[p])
        PROVE  edits'[p].toIx \in y'..(M - 1)
    BY <1>1, <1>2, <1>4
  <1>5. ASSUME NEW i \in y'..(M - 1)
        PROVE  \E p \in DOMAIN edits' : Brings(edits'[p]) /\ edits'[p].toIx = i
    <2>1. CASE i = y - 1
      BY <1>1, <2>1
    <2>2. CASE i # y - 1
      <3>1. i \in y..(M - 1)
        BY <1>5, <2>2
      <3>2. PICK p \in DOMAIN edits : Brings(edits[p]) /\ edits[p].toIx = i
        BY <1>2, <3>1
      <3>. QED
        BY <1>1, <3>2
    <2>. QED
      BY <2>1, <2>2
  <1>6. \A f : Brings(f)' <=> Brings(f)
    BY DEF Brings
  <1>. QED
    BY <1>3, <1>4, <1>5, <1>6 DEF Collects, CollectsTo, ToIx, Brings

LEMMA NoneBrought ==
  ASSUME edits \in Seq(Edit), NEW e \in Edit, ~Brings(e),
         edits' = Append(edits, e), y \in Nat, M \in Nat, y <= M,
         CollectsTo,
         M' = M, y' = y
  PROVE  CollectsTo'
  <1>1. /\ DOMAIN edits' = DOMAIN edits \union {Len(edits) + 1}
        /\ \A p \in DOMAIN edits : edits'[p] = edits[p] /\ p < Len(edits) + 1
        /\ edits'[Len(edits) + 1] = e
        /\ DOMAIN edits \subseteq Nat /\ Len(edits) \in Nat
    OBVIOUS
  <1>2. /\ \A p, q \in DOMAIN edits :
             p < q /\ Brings(edits[p]) /\ Brings(edits[q]) => edits[p].toIx > edits[q].toIx
        /\ \A p \in DOMAIN edits : Brings(edits[p]) => edits[p].toIx \in y..(M - 1)
        /\ \A i \in y..(M - 1) :
             \E p \in DOMAIN edits : Brings(edits[p]) /\ edits[p].toIx = i
    BY DEF Collects, CollectsFrom, CollectsTo, FromIx, ToIx
  <1>3. ASSUME NEW p \in DOMAIN edits', NEW q \in DOMAIN edits',
               p < q, Brings(edits'[p]), Brings(edits'[q])
        PROVE  edits'[p].toIx > edits'[q].toIx
    <2>1. p \in DOMAIN edits
      BY <1>1, <1>3
    <2>2. CASE q \in DOMAIN edits
      BY <1>1, <1>2, <1>3, <2>1, <2>2
    <2>3. CASE q = Len(edits) + 1
      BY <1>1, <1>2, <1>3, <2>1, <2>3
    <2>. QED
      BY <1>1, <2>2, <2>3
  <1>4. ASSUME NEW p \in DOMAIN edits', Brings(edits'[p])
        PROVE  edits'[p].toIx \in y'..(M - 1)
    BY <1>1, <1>2, <1>4
  <1>5. ASSUME NEW i \in y'..(M - 1)
        PROVE  \E p \in DOMAIN edits' : Brings(edits'[p]) /\ edits'[p].toIx = i
    <2>1. PICK p \in DOMAIN edits : Brings(edits[p]) /\ edits[p].toIx = i
      BY <1>2, <1>5
    <2>. QED
      BY <1>1, <2>1
  <1>6. \A f : Brings(f)' <=> Brings(f)
    BY DEF Brings
  <1>. QED
    BY <1>3, <1>4, <1>5, <1>6 DEF Collects, CollectsTo, ToIx, Brings

-----------------------------------------------------------------------------
\* Where the way back is, in terms of the snake it is on.
LEMMA OnSnake ==
  ASSUME TypeOK, TraceInv, BackInv, pc = "backward",
         NEW start, start = Start(trace[d + 1], d, x - y)
  PROVE  /\ start \in Nat /\ start - (x - y) \in Nat /\ start <= x
         /\ \A i \in start..(x - 1) : Matches(i, x - y)
         /\ (x > PrevX /\ y > PrevY) <=> x > start
         /\ d = 0 => start = 0 /\ x = y
         /\ d > 0 => /\ PrevK = PrevOf(d + 1, x - y)
                     /\ PrevX \in Nat
                     /\ start = IF ByAddition(trace[d + 1], d, x - y) THEN PrevX ELSE PrevX + 1
  <1>1. /\ d \in Nat /\ d + 1 \in 1..Len(trace) /\ x \in Nat /\ y \in Nat /\ maxDistance > 0
        /\ x - y \in Reachable(d) /\ x - y \in Int /\ maxDistance \in Nat
        /\ (d + 1) - 1 = d
    BY LengthsNat DEF TypeOK, BackInv
  <1>2. /\ start \in Nat /\ start - (x - y) \in Nat /\ start <= x
        /\ \A i \in start..(x - 1) : Matches(i, x - y)
    BY DEF BackInv, Reached, SnakeTo
  <1>3. CASE d = 0
    <2>1. x - y = 0 /\ start = 0
      <3>1. d + 1 = 1
        BY <1>1, <1>3
      <3>2. x - y = 0 /\ Start(trace[d + 1], (d + 1) - 1, x - y) = 0
        BY <1>1, <3>1, StartsInside
      <3>. QED
        BY <1>1, <3>2
    <2>2. PrevK = 0 /\ 0 \in Diagonals
      BY <1>1, <1>3 DEF PrevK, Diagonals
    <2>3. PrevX = 0 /\ PrevY = 0
      BY <1>3, <2>2 DEF PrevX, PrevY, TraceInv
    <2>. QED
      BY <1>1, <1>2, <1>3, <2>1, <2>3
  <1>4. CASE d > 0
    <2>1. PrevK = PrevOf(d + 1, x - y)
      BY <1>1, <1>4 DEF PrevK, PrevOf
    <2>2. d + 1 \in 2..Len(trace)
      BY <1>1, <1>4
    <2>3. PrevX \in Nat
      BY <1>1, <2>1, <2>2, Predecessor DEF PrevX
    <2>4. start = IF ByAddition(trace[d + 1], d, x - y) THEN PrevX ELSE PrevX + 1
      BY <1>1, <1>4 DEF Start, PrevX, PrevK
    <2>5. PrevY = PrevX - (IF ByAddition(trace[d + 1], d, x - y) THEN x - y + 1 ELSE x - y - 1)
      BY <1>1, <2>1 DEF PrevY, PrevOf
    <2>6. (x > PrevX /\ y > PrevY) <=> x > start
      <3>1. CASE ByAddition(trace[d + 1], d, x - y)
        BY <1>1, <2>3, <2>4, <2>5, <3>1
      <3>2. CASE ~ByAddition(trace[d + 1], d, x - y)
        BY <1>1, <2>3, <2>4, <2>5, <3>2
      <3>. QED
        BY <3>1, <3>2
    <2>. QED
      BY <1>2, <1>4, <2>1, <2>3, <2>4, <2>6
  <1>. QED
    BY <1>1, <1>3, <1>4

LEMMA BackEqualStep ==
  ASSUME IInv, BackEqual PROVE IInv'
  <1>. USE DEF IInv
  <1>1. /\ pc = "backward" /\ x > PrevX /\ y > PrevY
        /\ x' = x - 1 /\ y' = y - 1
        /\ UNCHANGED <<from, to, pc, d, k, furthest, trace>>
        /\ N' = N /\ M' = M /\ maxDistance' = maxDistance /\ Diagonals' = Diagonals
        /\ x \in Nat /\ y \in Nat /\ x <= N /\ y <= M /\ N \in Nat /\ M \in Nat
    BY LengthsNat DEF BackEqual, TypeOK, N, M, maxDistance, Diagonals
  <1>. DEFINE e == [typ |-> "equal", fromIx |-> x - 1, toIx |-> y - 1]
              start == Start(trace[d + 1], d, x - y)
  <1>2. /\ start \in Nat /\ start - (x - y) \in Nat /\ x > start
        /\ \A i \in start..(x - 1) : Matches(i, x - y)
    BY <1>1, OnSnake
  <1>3. x > 0 /\ y > 0 /\ x' - y' = x - y
    BY <1>1, <1>2
  <1>4. edits' = Append(edits, e) /\ e \in Edit /\ edits \in Seq(Edit)
    BY <1>1, <1>3 DEF BackEqual, Edit, TypeOK
  <1>5. \A s, t, diagonal : SnakeTo(s, t, diagonal)' <=> SnakeTo(s, t, diagonal)
    BY <1>1 DEF SnakeTo, Matches
  <1>6. \A w, distance, i, t : Reached(w, distance, i, t)' <=> Reached(w, distance, i, t)
    BY <1>5 DEF Reached
  <1>7. TypeOK'
    BY <1>1, <1>3, <1>4 DEF TypeOK
  <1>8. TraceInv'
    BY <1>1, <1>6 DEF TraceInv, Reachable
  <1>9. Reached(trace[d + 1], d, x - y, x - 1)
    BY <1>1, <1>2, <1>3 DEF Reached, SnakeTo
  <1>10. BackInv'
    BY <1>1, <1>3, <1>6, <1>9 DEF BackInv, Reachable
  <1>11. /\ CollectsFrom
         /\ CollectsTo
         /\ EqualAreEqual
    BY <1>1 DEF EditsInv
  <1>12. CollectsFrom'
    BY <1>1, <1>3, <1>4, <1>11, OneMoreKept DEF Keeps
  <1>13. CollectsTo'
    BY <1>1, <1>3, <1>4, <1>11, OneMoreBrought DEF Brings
  <1>14. EqualAreEqual'
    <2>1. Matches(x - 1, x - y) /\ (x - 1) - (x - y) = y - 1
      BY <1>1, <1>2
    <2>2. from[(x - 1) + 1] = to[(y - 1) + 1]
      BY <2>1 DEF Matches
    <2>. QED
      BY <1>1, <1>4, <1>11, <2>2 DEF EqualAreEqual
  <1>15. EditsInv'
    BY <1>12, <1>13, <1>14 DEF EditsInv
  <1>16. RoundInv' /\ ScriptReadsBothWays'
    BY <1>1 DEF RoundInv, ScriptReadsBothWays
  <1>. QED
    BY <1>7, <1>8, <1>10, <1>15, <1>16

LEMMA BackEditStep ==
  ASSUME IInv, BackEdit PROVE IInv'
  <1>. USE DEF IInv
  <1>1. /\ pc = "backward" /\ ~(x > PrevX /\ y > PrevY)
        /\ d > 0 /\ d' = d - 1 /\ d \in Nat /\ d <= maxDistance
        /\ UNCHANGED <<from, to, pc, k, furthest, trace>>
        /\ N' = N /\ M' = M /\ maxDistance' = maxDistance /\ Diagonals' = Diagonals
        /\ x \in Nat /\ y \in Nat /\ x <= N /\ y <= M /\ N \in Nat /\ M \in Nat
        /\ maxDistance \in Nat /\ d + 1 \in 2..Len(trace) /\ x - y \in Reachable(d)
    <2>1. /\ pc = "backward" /\ ~(x > PrevX /\ y > PrevY) /\ d > 0 /\ d' = d - 1
          /\ UNCHANGED <<from, to, pc, k, furthest, trace>>
      BY DEF BackEdit
    <2>2. N' = N /\ M' = M /\ maxDistance' = maxDistance /\ Diagonals' = Diagonals
      BY <2>1 DEF N, M, maxDistance, Diagonals
    <2>3. /\ d \in Nat /\ d <= maxDistance /\ maxDistance \in Nat /\ N \in Nat /\ M \in Nat
          /\ x \in Nat /\ y \in Nat /\ x <= N /\ y <= M
      BY <2>1, LengthsNat DEF TypeOK, BackInv
    <2>4. d + 1 \in 2..Len(trace) /\ x - y \in Reachable(d)
      BY <2>1, <2>3 DEF TypeOK, BackInv
    <2>. QED
      BY <2>1, <2>2, <2>3, <2>4
  <1>. DEFINE start == Start(trace[d + 1], d, x - y)
              add == ByAddition(trace[d + 1], d, x - y)
              e == IF add THEN [typ |-> "add", fromIx |-> 0, toIx |-> y - 1]
                          ELSE [typ |-> "remove", fromIx |-> x - 1, toIx |-> 0]
  <1>2. /\ start \in Nat /\ start - (x - y) \in Nat /\ x = start
        /\ PrevK = PrevOf(d + 1, x - y) /\ PrevX \in Nat
        /\ start = IF add THEN PrevX ELSE PrevX + 1
    BY <1>1, OnSnake
  <1>3. /\ (d + 1) - 1 = d /\ (d + 1) - 2 = d - 1 /\ (d - 1) + 1 = d
        /\ PrevOf(d + 1, x - y) = IF add THEN x - y + 1 ELSE x - y - 1
    BY <1>1 DEF PrevOf
  <1>4. /\ PrevK \in Reachable(d - 1)
        /\ Reached(trace[d], d - 1, PrevK, PrevX)
        /\ PrevX - PrevK \in Nat
    <2>1. /\ PrevK \in Reachable((d + 1) - 2)
          /\ Reached(trace[(d + 1) - 1], (d + 1) - 2, PrevK, trace[d + 1][PrevK])
          /\ trace[d + 1][PrevK] - PrevK \in Nat
      BY <1>1, <1>2, <1>3, Predecessor
    <2>. QED
      BY <1>3, <2>1 DEF PrevX
  <1>5. /\ add => x' = x /\ y' = y - 1
        /\ ~add => x' = x - 1 /\ y' = y
        /\ edits' = Append(edits, e)
    BY <1>1, <1>2 DEF BackEdit
  <1>6. x' = PrevX /\ x' - y' = PrevK /\ y' \in Nat
    <2>1. CASE add
      BY <1>1, <1>2, <1>3, <1>4, <1>5, <2>1
    <2>2. CASE ~add
      BY <1>1, <1>2, <1>3, <1>4, <1>5, <2>2
    <2>. QED
      BY <2>1, <2>2
  <1>7. /\ add => y > 0 /\ ~Keeps(e) /\ Brings(e) /\ e.toIx = y - 1
        /\ ~add => x > 0 /\ Keeps(e) /\ ~Brings(e) /\ e.fromIx = x - 1
        /\ e \in Edit /\ e.typ # "equal"
    <2>. HIDE DEF add
    <2>1. add => y > 0 /\ y - 1 \in Nat
      BY <1>1, <1>5, <1>6
    <2>2. ~add => x > 0 /\ x - 1 \in Nat
      BY <1>1, <1>2
    <2>3. CASE add
      BY <2>1, <2>3 DEF Keeps, Brings, Edit
    <2>4. CASE ~add
      BY <2>2, <2>4 DEF Keeps, Brings, Edit
    <2>. QED
      BY <2>3, <2>4
  <1>. HIDE DEF e, add
  <1>8. edits \in Seq(Edit)
    BY DEF TypeOK
  <1>9. \A s, t, diagonal : SnakeTo(s, t, diagonal)' <=> SnakeTo(s, t, diagonal)
    BY <1>1 DEF SnakeTo, Matches
  <1>10. \A w, distance, i, t : Reached(w, distance, i, t)' <=> Reached(w, distance, i, t)
    BY <1>9 DEF Reached
  <1>11. TypeOK'
    <2>1. x' \in 0..N /\ y' \in 0..M
      BY <1>1, <1>2, <1>5, <1>6
    <2>. QED
      BY <1>1, <1>5, <1>7, <2>1 DEF TypeOK
  <1>12. TraceInv'
    BY <1>1, <1>10 DEF TraceInv, Reachable
  <1>13. BackInv'
    <2>1. maxDistance' > 0 /\ d' <= maxDistance' /\ d' + 1 <= Len(trace')
      BY <1>1
    <2>2. (x - y)' \in Reachable(d)'
      BY <1>1, <1>4, <1>6 DEF Reachable
    <2>3. Reached(trace[d + 1], d, x - y, x)'
      BY <1>1, <1>3, <1>4, <1>6, <1>10
    <2>. QED
      BY <2>1, <2>2, <2>3 DEF BackInv
  <1>14. /\ CollectsFrom
         /\ CollectsTo
         /\ EqualAreEqual
    BY <1>1 DEF EditsInv
  <1>15. CollectsFrom'
    <2>1. CASE add
      BY <1>1, <1>5, <1>7, <1>8, <1>14, <2>1, NoneKept
    <2>2. CASE ~add
      BY <1>1, <1>5, <1>7, <1>8, <1>14, <2>2, OneMoreKept
    <2>. QED
      BY <2>1, <2>2
  <1>16. CollectsTo'
    <2>1. CASE add
      BY <1>1, <1>5, <1>7, <1>8, <1>14, <2>1, OneMoreBrought
    <2>2. CASE ~add
      BY <1>1, <1>5, <1>7, <1>8, <1>14, <2>2, NoneBrought
    <2>. QED
      BY <2>1, <2>2
  <1>17. EqualAreEqual'
    BY <1>1, <1>5, <1>7, <1>8, <1>14 DEF EqualAreEqual
  <1>18. EditsInv' /\ RoundInv' /\ ScriptReadsBothWays'
    BY <1>1, <1>15, <1>16, <1>17 DEF EditsInv, RoundInv, ScriptReadsBothWays
  <1>. QED
    BY <1>11, <1>12, <1>13, <1>18

LEMMA BackEndStep ==
  ASSUME IInv, BackEnd PROVE IInv'
  <1>. USE DEF IInv
  <1>1. /\ pc = "backward" /\ pc' = "done" /\ d = 0 /\ ~(x > PrevX /\ y > PrevY)
        /\ edits' = [i \in 1..Len(edits) |-> edits[Len(edits) + 1 - i]]
        /\ UNCHANGED <<from, to, d, k, furthest, trace, x, y>>
        /\ N' = N /\ M' = M /\ maxDistance' = maxDistance /\ Diagonals' = Diagonals
        /\ x \in Nat /\ y \in Nat /\ N \in Nat /\ M \in Nat /\ edits \in Seq(Edit)
    BY LengthsNat DEF BackEnd, reverseSequenceEdits, TypeOK, N, M, maxDistance, Diagonals
  <1>2. x = 0 /\ y = 0
    <2>1. PICK start : start = Start(trace[d + 1], d, x - y)
      OBVIOUS
    <2>. QED
      BY <1>1, <2>1, OnSnake
  <1>3. \A s, t, diagonal : SnakeTo(s, t, diagonal)' <=> SnakeTo(s, t, diagonal)
    BY <1>1 DEF SnakeTo, Matches
  <1>4. \A w, distance, i, t : Reached(w, distance, i, t)' <=> Reached(w, distance, i, t)
    BY <1>3 DEF Reached
  <1>5. /\ edits' \in Seq(Edit)
        /\ DOMAIN edits' = DOMAIN edits
        /\ \A p \in DOMAIN edits :
             /\ Len(edits) + 1 - p \in DOMAIN edits
             /\ edits'[p] = edits[Len(edits) + 1 - p]
             /\ edits'[Len(edits) + 1 - p] = edits[p]
        /\ DOMAIN edits \subseteq Nat /\ Len(edits) \in Nat
        /\ \A p \in DOMAIN edits : edits[p] \in Edit
    <2>1. Len(edits) \in Nat /\ DOMAIN edits = 1..Len(edits) /\ DOMAIN edits' = 1..Len(edits)
      BY <1>1
    <2>2. \A p \in 1..Len(edits) : Len(edits) + 1 - p \in 1..Len(edits) /\ edits[p] \in Edit
      BY <1>1, <2>1
    <2>3. \A p \in 1..Len(edits) : edits'[p] = edits[Len(edits) + 1 - p] /\ edits'[p] \in Edit
      BY <1>1, <2>2
    <2>4. \A p \in 1..Len(edits) : edits'[Len(edits) + 1 - p] = edits[p]
      <3>. SUFFICES ASSUME NEW p \in 1..Len(edits) PROVE edits'[Len(edits) + 1 - p] = edits[p]
        OBVIOUS
      <3>1. Len(edits) + 1 - (Len(edits) + 1 - p) = p
        BY <2>1
      <3>. QED
        BY <2>2, <2>3, <3>1
    <2>5. edits' \in Seq(Edit)
      BY <1>1, <2>1, <2>2
    <2>. QED
      BY <2>1, <2>2, <2>3, <2>4, <2>5
  <1>6. TypeOK'
    BY <1>1, <1>5 DEF TypeOK
  <1>7. TraceInv'
    BY <1>1, <1>4 DEF TraceInv, Reachable
  <1>8. RoundInv' /\ BackInv' /\ EditsInv'
    BY <1>1 DEF RoundInv, BackInv, EditsInv
  <1>9. /\ Collects(Keeps, FromIx, 0, N)
        /\ Collects(Brings, ToIx, 0, M)
        /\ EqualAreEqual
    BY <1>1, <1>2 DEF EditsInv, CollectsFrom, CollectsTo
  <1>10. InOrder(Keeps, FromIx, N)'
    <2>1. ASSUME NEW p \in DOMAIN edits, NEW q \in DOMAIN edits,
                 p < q, Keeps(edits'[p]), Keeps(edits'[q])
          PROVE  edits'[p].fromIx < edits'[q].fromIx
      <3>. DEFINE pp == Len(edits) + 1 - p
                  qq == Len(edits) + 1 - q
      <3>1. /\ pp \in DOMAIN edits /\ qq \in DOMAIN edits /\ qq < pp
            /\ edits'[p] = edits[pp] /\ edits'[q] = edits[qq]
        BY <1>5, <2>1
      <3>2. edits[qq].fromIx > edits[pp].fromIx
        BY <1>9, <2>1, <3>1 DEF Collects, FromIx, ToIx
      <3>3. edits[qq].fromIx \in Int /\ edits[pp].fromIx \in Int
        <4>1. edits[qq] \in Edit /\ edits[pp] \in Edit
          BY <1>5, <3>1
        <4>2. \A e \in Edit : e.fromIx \in Int
          BY DEF Edit
        <4>. QED
          BY <4>1, <4>2
      <3>. QED
        BY <3>1, <3>2, <3>3
    <2>2. ASSUME NEW p \in DOMAIN edits, Keeps(edits'[p]) PROVE edits'[p].fromIx < N
      BY <1>1, <1>5, <1>9, <2>2 DEF Collects, FromIx, ToIx
    <2>3. ASSUME NEW i \in 0..(N - 1)
          PROVE  \E p \in DOMAIN edits : Keeps(edits'[p]) /\ edits'[p].fromIx = i
      <3>1. PICK p \in DOMAIN edits : Keeps(edits[p]) /\ edits[p].fromIx = i
        BY <1>9, <2>3 DEF Collects, FromIx, ToIx
      <3>. QED
        BY <1>5, <3>1
    <2>. QED
      BY <1>1, <1>5, <2>1, <2>2, <2>3 DEF InOrder, Keeps, FromIx
  <1>11. InOrder(Brings, ToIx, M)'
    <2>1. ASSUME NEW p \in DOMAIN edits, NEW q \in DOMAIN edits,
                 p < q, Brings(edits'[p]), Brings(edits'[q])
          PROVE  edits'[p].toIx < edits'[q].toIx
      <3>. DEFINE pp == Len(edits) + 1 - p
                  qq == Len(edits) + 1 - q
      <3>1. /\ pp \in DOMAIN edits /\ qq \in DOMAIN edits /\ qq < pp
            /\ edits'[p] = edits[pp] /\ edits'[q] = edits[qq]
        BY <1>5, <2>1
      <3>2. edits[qq].toIx > edits[pp].toIx
        BY <1>9, <2>1, <3>1 DEF Collects, FromIx, ToIx
      <3>3. edits[qq].toIx \in Int /\ edits[pp].toIx \in Int
        <4>1. edits[qq] \in Edit /\ edits[pp] \in Edit
          BY <1>5, <3>1
        <4>2. \A e \in Edit : e.toIx \in Int
          BY DEF Edit
        <4>. QED
          BY <4>1, <4>2
      <3>. QED
        BY <3>1, <3>2, <3>3
    <2>2. ASSUME NEW p \in DOMAIN edits, Brings(edits'[p]) PROVE edits'[p].toIx < M
      BY <1>1, <1>5, <1>9, <2>2 DEF Collects, FromIx, ToIx
    <2>3. ASSUME NEW i \in 0..(M - 1)
          PROVE  \E p \in DOMAIN edits : Brings(edits'[p]) /\ edits'[p].toIx = i
      <3>1. PICK p \in DOMAIN edits : Brings(edits[p]) /\ edits[p].toIx = i
        BY <1>9, <2>3 DEF Collects, FromIx, ToIx
      <3>. QED
        BY <1>5, <3>1
    <2>. QED
      BY <1>1, <1>5, <2>1, <2>2, <2>3 DEF InOrder, Brings, ToIx
  <1>12. EqualAreEqual'
    BY <1>1, <1>5, <1>9 DEF EqualAreEqual
  <1>13. ScriptReadsBothWays'
    BY <1>10, <1>11, <1>12 DEF ScriptReadsBothWays, EqualAreEqual, InOrder, Keeps, Brings,
       FromIx, ToIx, N, M
  <1>. QED
    BY <1>6, <1>7, <1>8, <1>13

-----------------------------------------------------------------------------
LEMMA Inductive == Init /\ [][Next]_vars => []IInv
  <1>1. ASSUME IInv, [Next]_vars PROVE IInv'
    <2>1. CASE Extend
      BY <1>1, <2>1, ExtendStep
    <2>2. CASE NextRound
      BY <1>1, <2>2, NextRoundStep
    <2>3. CASE BackEqual
      BY <1>1, <2>3, BackEqualStep
    <2>4. CASE BackEdit
      BY <1>1, <2>4, BackEditStep
    <2>5. CASE BackEnd
      BY <1>1, <2>5, BackEndStep
    <2>6. CASE UNCHANGED vars
      BY <1>1, <2>6 DEF vars, IInv, TypeOK, TraceInv, RoundInv, BackInv, EditsInv,
         ScriptReadsBothWays, CollectsFrom, CollectsTo, Collects, InOrder, EqualAreEqual, Reachable, Reached, SnakeTo,
         Matches, N, M, maxDistance, Diagonals
    <2>. QED
      BY <1>1, <2>1, <2>2, <2>3, <2>4, <2>5, <2>6 DEF Next
  <1>. QED
    BY <1>1, InitHolds, PTL

\* The variables of the search keep their types: no index leaves the arrays.
THEOREM TypeCorrect == Spec => []TypeOK
  BY Inductive, PTL DEF IInv, Spec

\* Whatever two sequences are compared, the script shows all of both, each in
\* its order, and calls equal only what is.
THEOREM ReadsBothWays == Spec => []ScriptReadsBothWays
  BY Inductive, PTL DEF IInv, Spec

-----------------------------------------------------------------------------
(* That no script is shorter.                                              *)

Grid == (0..N) \X (0..M)

\* The value of lcs at p, from the values f.
LcsAt(f, p) ==
  IF p[1] = N \/ p[2] = M THEN 0
  ELSE IF from[p[1] + 1] = to[p[2] + 1] THEN f[<<p[1] + 1, p[2] + 1>>] + 1
  ELSE IF f[<<p[1] + 1, p[2]>>] >= f[<<p[1], p[2] + 1>>]
    THEN f[<<p[1] + 1, p[2]>>] ELSE f[<<p[1], p[2] + 1>>]

IsLcs(f) == f = [p \in Grid |-> LcsAt(f, p)]

InGrid(e, i) == e \in 0..N /\ e - i \in 0..M

\* What follows point e of diagonal i in from and in to has this in common,
Common(f, e, i) == IF InGrid(e, i) THEN f[<<e, e - i>>] ELSE 0

\* and it takes this, at least, from there to the end.
Rest(f, e, i) == (N - e) + (M - (e - i)) - 2 * Common(f, e, i)

Best(f) == N + M - 2 * f[<<0, 0>>]

\* A round goes as far as it can and stops when it is at the end.
AtRest(e, i) == ~Matches(e, i) /\ ~Found(e, i)

\* No diagonal is ahead of the best way, and one of every round is on it.
ForwardMin(f) ==
  pc = "forward" =>
    /\ d <= Best(f)
    /\ \A i \in Reachable(d) :
         i < k => AtRest(furthest[i], i) /\ d + Rest(f, furthest[i], i) >= Best(f)
    /\ d > 0 =>
         /\ \A i \in Reachable(d - 1) :
              /\ AtRest(trace[d + 1][i], i)
              /\ d - 1 + Rest(f, trace[d + 1][i], i) >= Best(f)
         /\ \E i \in Reachable(d - 1) :
              InGrid(trace[d + 1][i], i) /\ d - 1 + Rest(f, trace[d + 1][i], i) = Best(f)

\* What is still to go back, and what has been collected, is the best way.
BackwardMin(f) ==
  pc = "backward" => 2 * Cardinality(Equals) + Best(f) - d = (N - x) + (M - y)

DoneMin(f) == pc = "done" => Cardinality(Equals) = f[<<0, 0>>]

MinInv ==
  /\ pc # "nil"
  /\ \A f : IsLcs(f) => ForwardMin(f) /\ BackwardMin(f) /\ DoneMin(f)

LEMMA LeastOf ==
  ASSUME NEW S \in SUBSET Nat, S # {}
  PROVE  \E n \in S : \A m \in S : n <= m
  <1>1. PICK n \in S : \A m \in S : ~ (<<m, n>> \in OpToRel(<, Nat))
    BY NatLessThanWellFounded, WFMin
  <1>2. \A m \in S : ~ (m < n)
    BY <1>1 DEF OpToRel
  <1>. QED
    BY <1>2

Weight(p) == (N - p[1]) + (M - p[2])

LEMMA Cells ==
  ASSUME TypeOK, NEW p \in Grid
  PROVE  /\ p[1] \in 0..N /\ p[2] \in 0..M /\ p = <<p[1], p[2]>> /\ Weight(p) \in Nat
         /\ N \in Nat /\ M \in Nat
         /\ p[1] # N /\ p[2] # M =>
              /\ <<p[1] + 1, p[2]>> \in Grid /\ Weight(<<p[1] + 1, p[2]>>) = Weight(p) - 1
              /\ <<p[1], p[2] + 1>> \in Grid /\ Weight(<<p[1], p[2] + 1>>) = Weight(p) - 1
              /\ <<p[1] + 1, p[2] + 1>> \in Grid /\ Weight(<<p[1] + 1, p[2] + 1>>) = Weight(p) - 2
  BY LengthsNat DEF Grid, Weight

\* The equation of lcs has a solution: values right for the cells of up to some
\* weight give the values of the next.
LEMMA LcsExists ==
  ASSUME TypeOK PROVE IsLcs(lcs)
  <1>. DEFINE RightTo(n, f) == \A p \in Grid : Weight(p) <= n => f[p] = LcsAt(f, p)
              Bad == {n \in Nat : ~ \E f : RightTo(n, f)}
  <1>1. ASSUME NEW n \in Nat, NEW f, n > 0 => RightTo(n - 1, f)
        PROVE  \E g : RightTo(n, g)
    <2>. DEFINE g == [p \in Grid |-> IF Weight(p) < n THEN f[p] ELSE LcsAt(f, p)]
    <2>1. ASSUME NEW p \in Grid, Weight(p) <= n PROVE LcsAt(g, p) = LcsAt(f, p)
      <3>1. \A q \in Grid : Weight(q) < n => g[q] = f[q]
        OBVIOUS
      <3>. HIDE DEF g
      <3>2. p[1] # N /\ p[2] # M =>
              /\ g[<<p[1] + 1, p[2]>>] = f[<<p[1] + 1, p[2]>>]
              /\ g[<<p[1], p[2] + 1>>] = f[<<p[1], p[2] + 1>>]
              /\ g[<<p[1] + 1, p[2] + 1>>] = f[<<p[1] + 1, p[2] + 1>>]
        BY <2>1, <3>1, Cells
      <3>. QED
        BY <3>2 DEF LcsAt
    <2>2. ASSUME NEW p \in Grid, Weight(p) <= n PROVE g[p] = LcsAt(g, p)
      <3>1. CASE Weight(p) < n
        <4>1. Weight(p) \in Nat
          BY Cells
        <4>2. n > 0 /\ Weight(p) <= n - 1
          BY <3>1, <4>1
        <4>3. g[p] = f[p]
          BY <3>1
        <4>. HIDE DEF g
        <4>. QED
          BY <1>1, <2>1, <2>2, <4>2, <4>3
      <3>2. CASE ~(Weight(p) < n)
        BY <2>1, <2>2, <3>2
      <3>. QED
        BY <3>1, <3>2
    <2>. QED
      BY <2>2
  <1>2. Bad = {}
    <2>. SUFFICES ASSUME Bad # {} PROVE FALSE
      OBVIOUS
    <2>1. PICK n \in Bad : \A m \in Bad : n <= m
      BY LeastOf
    <2>2. \E f : n > 0 => RightTo(n - 1, f)
      <3>1. n > 0 => n - 1 \in Nat /\ n - 1 \notin Bad
        BY <2>1
      <3>. QED
        BY <3>1
    <2>. QED
      BY <1>1, <2>1, <2>2
  <1>3. PICK f : RightTo(N + M, f)
    <2>1. N + M \in Nat
      BY LengthsNat
    <2>. QED
      BY <1>2, <2>1
  <1>. DEFINE h == [p \in Grid |-> f[p]]
  <1>4. ASSUME NEW p \in Grid PROVE h[p] = LcsAt(h, p)
    <2>1. Weight(p) <= N + M
      <3>1. p[1] \in 0..N /\ p[2] \in 0..M /\ N \in Nat /\ M \in Nat
        BY Cells
      <3>. QED
        BY <3>1 DEF Weight
    <2>2. LcsAt(h, p) = LcsAt(f, p)
      <3>1. \A q \in Grid : h[q] = f[q]
        OBVIOUS
      <3>. HIDE DEF h
      <3>. QED
        BY <3>1, Cells DEF LcsAt
    <2>. QED
      BY <1>3, <2>1, <2>2
  <1>5. IsLcs(h)
    BY <1>4 DEF IsLcs
  <1>6. lcs = CHOOSE g : g = [p \in Grid |-> LcsAt(g, p)]
    BY DEF lcs, Grid, LcsAt
  <1>. QED
    BY <1>5, <1>6 DEF IsLcs

\* What follows one element more has at most one element more in common.
Stepwise(f, p) ==
  /\ f[p] \in Nat /\ f[p] <= N - p[1] /\ f[p] <= M - p[2]
  /\ p[1] # N => f[<<p[1] + 1, p[2]>>] <= f[p] /\ f[p] <= f[<<p[1] + 1, p[2]>>] + 1
  /\ p[2] # M => f[<<p[1], p[2] + 1>>] <= f[p] /\ f[p] <= f[<<p[1], p[2] + 1>>] + 1

LEMMA LcsStepwise ==
  ASSUME TypeOK, NEW f, IsLcs(f) PROVE \A p \in Grid : Stepwise(f, p)
  <1>. DEFINE Bad == {n \in Nat : \E p \in Grid : Weight(p) = n /\ ~Stepwise(f, p)}
  <1>1. ASSUME NEW p \in Grid, \A q \in Grid : Weight(q) < Weight(p) => Stepwise(f, q)
        PROVE  Stepwise(f, p)
    <2>. DEFINE i == p[1]
                j == p[2]
    <2>1. /\ N \in Nat /\ M \in Nat /\ i \in 0..N /\ j \in 0..M /\ Weight(p) \in Nat
          /\ p = <<i, j>>
      BY Cells
    <2>2. f[p] = LcsAt(f, p)
      BY DEF IsLcs
    <2>3. ASSUME i # N PROVE <<i + 1, j>> \in Grid /\ Weight(<<i + 1, j>>) < Weight(p)
      BY <2>1, <2>3 DEF Grid, Weight
    <2>4. ASSUME j # M PROVE <<i, j + 1>> \in Grid /\ Weight(<<i, j + 1>>) < Weight(p)
      <3>1. j + 1 \in 0..M
        BY <2>1, <2>4
      <3>2. Weight(<<i, j + 1>>) = (N - i) + (M - (j + 1)) /\ Weight(p) = (N - i) + (M - j)
        BY DEF Weight
      <3>. HIDE DEF i, j
      <3>3. (N - i) + (M - (j + 1)) < (N - i) + (M - j)
        BY <2>1
      <3>. QED
        BY <2>1, <3>1, <3>2, <3>3 DEF Grid
    <2>5. CASE i = N \/ j = M
      <3>1. f[p] = 0
        BY <2>2, <2>5 DEF LcsAt
      <3>2. i # N => f[<<i + 1, j>>] = 0
        BY <2>1, <2>3, <2>5 DEF IsLcs, LcsAt
      <3>3. j # M => f[<<i, j + 1>>] = 0
        BY <2>1, <2>4, <2>5 DEF IsLcs, LcsAt
      <3>. QED
        BY <2>1, <3>1, <3>2, <3>3 DEF Stepwise
    <2>6. CASE i # N /\ j # M
      <3>. DEFINE a == f[<<i + 1, j>>]
                  b == f[<<i, j + 1>>]
                  c == f[<<i + 1, j + 1>>]
      <3>1. Stepwise(f, <<i + 1, j>>) /\ Stepwise(f, <<i, j + 1>>)
        BY <1>1, <2>3, <2>4, <2>6
      <3>2. Stepwise(f, <<i + 1, j + 1>>)
        <4>1. <<i + 1, j + 1>> \in Grid /\ Weight(<<i + 1, j + 1>>) < Weight(p)
          BY <2>1, <2>6 DEF Grid, Weight
        <4>. QED
          BY <1>1, <4>1
      <3>3. /\ a \in Nat /\ a <= N - (i + 1) /\ a <= M - j
            /\ b \in Nat /\ b <= N - i /\ b <= M - (j + 1)
            /\ c \in Nat /\ c <= N - (i + 1) /\ c <= M - (j + 1)
        BY <3>1, <3>2 DEF Stepwise
      <3>4. c <= a /\ a <= c + 1
        BY <2>6, <3>1 DEF Stepwise
      <3>5. c <= b /\ b <= c + 1
        BY <2>6, <3>1 DEF Stepwise
      <3>6. f[p] = IF from[i + 1] = to[j + 1] THEN c + 1 ELSE IF a >= b THEN a ELSE b
        BY <2>2, <2>6 DEF LcsAt
      <3>. HIDE DEF a, b, c
      <3>7. /\ f[p] \in Nat /\ f[p] <= N - i /\ f[p] <= M - j
            /\ a <= f[p] /\ f[p] <= a + 1 /\ b <= f[p] /\ f[p] <= b + 1
        BY <2>1, <3>3, <3>4, <3>5, <3>6
      <3>. QED
        BY <3>7 DEF Stepwise, a, b
    <2>. QED
      BY <2>5, <2>6
  <1>2. Bad = {}
    <2>. SUFFICES ASSUME Bad # {} PROVE FALSE
      OBVIOUS
    <2>1. PICK n \in Bad : \A m \in Bad : n <= m
      BY LeastOf
    <2>2. PICK p \in Grid : Weight(p) = n /\ ~Stepwise(f, p)
      BY <2>1
    <2>3. ASSUME NEW q \in Grid, Weight(q) < Weight(p) PROVE Stepwise(f, q)
      <3>1. Weight(q) \in Nat /\ Weight(p) \in Nat
        BY Cells
      <3>2. Weight(q) \notin Bad
        BY <2>1, <2>2, <2>3, <3>1
      <3>. QED
        BY <3>1, <3>2
    <2>. QED
      BY <1>1, <2>2, <2>3
  <1>. SUFFICES ASSUME NEW p \in Grid PROVE Stepwise(f, p)
    OBVIOUS
  <1>3. Weight(p) \in Nat
    BY Cells
  <1>. QED
    BY <1>2, <1>3

\* A point of the grid, by its diagonal.
LEMMA LcsValues ==
  ASSUME TypeOK, NEW f, IsLcs(f), NEW e \in Int, NEW i \in Int, InGrid(e, i)
  PROVE  /\ f[<<e, e - i>>] \in Nat
         /\ f[<<e, e - i>>] <= N - e /\ f[<<e, e - i>>] <= M - (e - i)
         /\ e = N \/ e - i = M => f[<<e, e - i>>] = 0
         /\ e # N => f[<<e + 1, e - i>>] \in Nat
         /\ e # N => f[<<e + 1, e - i>>] <= f[<<e, e - i>>]
         /\ e # N => f[<<e, e - i>>] <= f[<<e + 1, e - i>>] + 1
         /\ e - i # M => f[<<e, e - i + 1>>] \in Nat
         /\ e - i # M => f[<<e, e - i + 1>>] <= f[<<e, e - i>>]
         /\ e - i # M => f[<<e, e - i>>] <= f[<<e, e - i + 1>>] + 1
         /\ Matches(e, i) => f[<<e, e - i>>] = f[<<e + 1, e - i + 1>>] + 1
         /\ e # N /\ e - i # M =>
              /\ f[<<e + 1, e - i + 1>>] \in Nat
              /\ f[<<e, e - i>>] <= f[<<e + 1, e - i + 1>>] + 1
              /\ ~Matches(e, i) => \/ f[<<e, e - i>>] = f[<<e + 1, e - i>>]
                                   \/ f[<<e, e - i>>] = f[<<e, e - i + 1>>]
  <1>. DEFINE p == <<e, e - i>>
              q == <<e + 1, e - i>>
              r == <<e, e - i + 1>>
              s == <<e + 1, e - i + 1>>
  <1>1. N \in Nat /\ M \in Nat /\ e \in 0..N /\ e - i \in 0..M /\ p \in Grid
    BY LengthsNat DEF InGrid, Grid
  <1>2. p[1] = e /\ p[2] = e - i /\ q[1] = e + 1 /\ q[2] = e - i
        /\ r[1] = e /\ r[2] = e - i + 1 /\ s[1] = e + 1 /\ s[2] = e - i + 1
    OBVIOUS
  <1>3. /\ e # N => q \in Grid
        /\ e - i # M => r \in Grid
        /\ e # N /\ e - i # M => s \in Grid
    BY <1>1 DEF Grid
  <1>4. f[p] = LcsAt(f, p)
    BY <1>1 DEF IsLcs
  <1>5. Matches(e, i) <=> e # N /\ e - i # M /\ from[e + 1] = to[e - i + 1]
    BY <1>1 DEF Matches
  <1>6. /\ Stepwise(f, p)
        /\ e # N => Stepwise(f, q)
        /\ e - i # M => Stepwise(f, r)
        /\ e # N /\ e - i # M => Stepwise(f, s)
    BY <1>1, <1>3, LcsStepwise
  <1>. HIDE DEF p
  <1>7. f[p] = IF e = N \/ e - i = M THEN 0
               ELSE IF from[e + 1] = to[e - i + 1] THEN f[s] + 1
               ELSE IF f[q] >= f[r] THEN f[q] ELSE f[r]
    BY <1>2, <1>4 DEF LcsAt
  <1>8. /\ f[p] \in Nat /\ f[p] <= N - e /\ f[p] <= M - (e - i)
        /\ e # N => f[q] \in Nat /\ f[q] <= f[p] /\ f[p] <= f[q] + 1
        /\ e - i # M => f[r] \in Nat /\ f[r] <= f[p] /\ f[p] <= f[r] + 1
        /\ e # N /\ e - i # M => f[s] \in Nat /\ f[q] <= f[s] + 1 /\ f[r] <= f[s] + 1
    BY <1>1, <1>2, <1>6 DEF Stepwise
  <1>. HIDE DEF q, r, s
  <1>9. /\ e = N \/ e - i = M => f[p] = 0
        /\ Matches(e, i) => f[p] = f[s] + 1
        /\ e # N /\ e - i # M =>
             /\ f[p] <= f[s] + 1
             /\ ~Matches(e, i) => f[p] = f[q] \/ f[p] = f[r]
    BY <1>5, <1>7, <1>8
  <1>. QED
    BY <1>8, <1>9 DEF p, q, r, s

LEMMA CommonBounds ==
  ASSUME TypeOK, NEW f, IsLcs(f), NEW e \in Int, NEW i \in Int
  PROVE  /\ Common(f, e, i) \in Nat
         /\ InGrid(e, i) => Common(f, e, i) <= N - e /\ Common(f, e, i) <= M - (e - i)
         /\ ~InGrid(e, i) \/ e = N \/ e - i = M => Common(f, e, i) = 0
  <1>1. CASE InGrid(e, i)
    BY <1>1, LcsValues DEF Common
  <1>2. CASE ~InGrid(e, i)
    BY <1>2 DEF Common
  <1>. QED
    BY <1>1, <1>2

\* After one removal, or one addition, it is not more.
LEMMA CommonAfterEdit ==
  ASSUME TypeOK, NEW f, IsLcs(f), NEW e \in Int, NEW i \in Int, e >= 0, e - i >= 0
  PROVE  /\ Common(f, e + 1, i + 1) <= Common(f, e, i)
         /\ Common(f, e, i - 1) <= Common(f, e, i)
  <1>1. N \in Nat /\ M \in Nat /\ (e + 1) - (i + 1) = e - i /\ e - (i - 1) = e - i + 1
    BY LengthsNat
  <1>2. Common(f, e, i) \in Nat
    BY CommonBounds
  <1>3. Common(f, e + 1, i + 1) <= Common(f, e, i)
    <2>1. CASE InGrid(e + 1, i + 1)
      <3>1. InGrid(e, i) /\ e # N
        BY <1>1, <2>1 DEF InGrid
      <3>2. f[<<e + 1, e - i>>] <= f[<<e, e - i>>]
        BY <3>1, LcsValues
      <3>. QED
        BY <1>1, <2>1, <3>1, <3>2 DEF Common
    <2>2. CASE ~InGrid(e + 1, i + 1)
      BY <1>2, <2>2 DEF Common
    <2>. QED
      BY <2>1, <2>2
  <1>4. Common(f, e, i - 1) <= Common(f, e, i)
    <2>1. CASE InGrid(e, i - 1)
      <3>1. InGrid(e, i) /\ e - i # M
        BY <1>1, <2>1 DEF InGrid
      <3>2. f[<<e, e - i + 1>>] <= f[<<e, e - i>>]
        BY <3>1, LcsValues
      <3>. QED
        BY <1>1, <2>1, <3>1, <3>2 DEF Common
    <2>2. CASE ~InGrid(e, i - 1)
      BY <1>2, <2>2 DEF Common
    <2>. QED
      BY <2>1, <2>2
  <1>. QED
    BY <1>3, <1>4

\* After one element of both it is one less, at most, and exactly if they are
\* the same.
LEMMA CommonFurther ==
  ASSUME TypeOK, NEW f, IsLcs(f), NEW e \in Int, NEW i \in Int, e >= 0, e - i >= 0
  PROVE  /\ Common(f, e, i) <= Common(f, e + 1, i) + 1
         /\ InGrid(e + 1, i) => InGrid(e, i)
         /\ Matches(e, i) => /\ InGrid(e, i) /\ InGrid(e + 1, i)
                             /\ Common(f, e, i) = Common(f, e + 1, i) + 1
  <1>1. N \in Nat /\ M \in Nat /\ (e + 1) - i = e - i + 1
    BY LengthsNat
  <1>2. Common(f, e, i) \in Nat
    BY CommonBounds
  <1>3. InGrid(e + 1, i) => InGrid(e, i) /\ e # N /\ e - i # M
    BY <1>1 DEF InGrid
  <1>4. Matches(e, i) => InGrid(e + 1, i)
    BY <1>1 DEF Matches, InGrid
  <1>5. ASSUME InGrid(e + 1, i)
        PROVE  /\ Common(f, e, i) <= Common(f, e + 1, i) + 1
               /\ Matches(e, i) => Common(f, e, i) = Common(f, e + 1, i) + 1
    <2>1. /\ f[<<e, e - i>>] <= f[<<e + 1, e - i + 1>>] + 1
          /\ Matches(e, i) => f[<<e, e - i>>] = f[<<e + 1, e - i + 1>>] + 1
      BY <1>3, <1>5, LcsValues
    <2>. QED
      BY <1>1, <1>3, <1>5, <2>1 DEF Common
  <1>6. ASSUME ~InGrid(e + 1, i) PROVE Common(f, e, i) = 0 /\ Common(f, e + 1, i) = 0
    <2>1. ~InGrid(e, i) \/ e = N \/ e - i = M
      BY <1>1, <1>6 DEF InGrid
    <2>. QED
      BY <1>6, <2>1, CommonBounds DEF Common
  <1>. QED
    BY <1>3, <1>4, <1>5, <1>6

\* Where elements differ before the end, a removal or an addition loses nothing.
LEMMA CommonOfNext ==
  ASSUME TypeOK, NEW f, IsLcs(f), NEW e \in Int, NEW i \in Int,
         InGrid(e, i), AtRest(e, i)
  PROVE  \/ InGrid(e + 1, i + 1) /\ Common(f, e + 1, i + 1) = Common(f, e, i)
         \/ InGrid(e, i - 1) /\ Common(f, e, i - 1) = Common(f, e, i)
  <1>1. /\ N \in Nat /\ M \in Nat
        /\ (e + 1) - (i + 1) = e - i /\ e - (i - 1) = e - i + 1
    BY LengthsNat
  <1>2. ~Matches(e, i) /\ ~(e = N /\ e - i = M) /\ e \in 0..N /\ e - i \in 0..M
    BY DEF AtRest, Found, InGrid
  <1>3. e # N => InGrid(e + 1, i + 1)
    BY <1>1, <1>2 DEF InGrid
  <1>4. e - i # M => InGrid(e, i - 1)
    BY <1>1, <1>2 DEF InGrid
  <1>5. CASE e = N
    <2>1. Common(f, e, i) = 0
      BY <1>5, CommonBounds
    <2>2. Common(f, e, i - 1) = 0
      <3>1. i - 1 \in Int
        OBVIOUS
      <3>. QED
        BY <1>5, <3>1, CommonBounds
    <2>. QED
      BY <1>2, <1>4, <1>5, <2>1, <2>2
  <1>6. CASE e - i = M
    <2>1. Common(f, e, i) = 0
      BY <1>6, CommonBounds
    <2>2. Common(f, e + 1, i + 1) = 0
      <3>1. e + 1 \in Int /\ i + 1 \in Int /\ (e + 1) - (i + 1) = M
        BY <1>1, <1>6
      <3>. QED
        BY <3>1, CommonBounds
    <2>. QED
      BY <1>2, <1>3, <1>6, <2>1, <2>2
  <1>7. CASE e # N /\ e - i # M
    <2>1. f[<<e, e - i>>] = f[<<e + 1, e - i>>] \/ f[<<e, e - i>>] = f[<<e, e - i + 1>>]
      BY <1>2, <1>7, LcsValues
    <2>. QED
      BY <1>1, <1>3, <1>4, <1>7, <2>1 DEF Common
  <1>. QED
    BY <1>5, <1>6, <1>7

-----------------------------------------------------------------------------
\* What an edit, or equal elements, do to the way that is left.
LEMMA RestBounds ==
  ASSUME TypeOK, NEW f, IsLcs(f), NEW e \in Int, NEW i \in Int
  PROVE  /\ Rest(f, e, i) \in Int
         /\ InGrid(e, i) => Rest(f, e, i) >= 0
  BY LengthsNat, CommonBounds DEF Rest

LEMMA RestAfterEdit ==
  ASSUME TypeOK, NEW f, IsLcs(f), NEW e \in Int, NEW i \in Int, e >= 0, e - i >= 0
  PROVE  /\ Rest(f, e + 1, i + 1) >= Rest(f, e, i) - 1
         /\ Rest(f, e, i - 1) >= Rest(f, e, i) - 1
  <1>. DEFINE a == Common(f, e, i)
              b == Common(f, e + 1, i + 1)
              c == Common(f, e, i - 1)
  <1>1. a \in Nat /\ b \in Nat /\ c \in Nat /\ N \in Nat /\ M \in Nat
    <2>1. e + 1 \in Int /\ i + 1 \in Int /\ i - 1 \in Int
      OBVIOUS
    <2>. QED
      BY <2>1, CommonBounds, LengthsNat
  <1>2. b <= a /\ c <= a
    BY CommonAfterEdit
  <1>3. /\ Rest(f, e, i) = (N - e) + (M - (e - i)) - 2 * a
        /\ Rest(f, e + 1, i + 1) = (N - (e + 1)) + (M - ((e + 1) - (i + 1))) - 2 * b
        /\ Rest(f, e, i - 1) = (N - e) + (M - (e - (i - 1))) - 2 * c
    BY DEF Rest
  <1>. HIDE DEF a, b, c
  <1>4. (N - (e + 1)) + (M - ((e + 1) - (i + 1))) - 2 * b >= (N - e) + (M - (e - i)) - 2 * a - 1
    BY <1>1, <1>2
  <1>5. (N - e) + (M - (e - (i - 1))) - 2 * c >= (N - e) + (M - (e - i)) - 2 * a - 1
    BY <1>1, <1>2
  <1>. QED
    BY <1>1, <1>3, <1>4, <1>5

LEMMA RestFurther ==
  ASSUME TypeOK, NEW f, IsLcs(f), NEW e \in Int, NEW i \in Int, e >= 0, e - i >= 0
  PROVE  /\ Rest(f, e + 1, i) <= Rest(f, e, i)
         /\ InGrid(e, i) /\ ~InGrid(e + 1, i) => Rest(f, e + 1, i) = Rest(f, e, i) - 2
         /\ Matches(e, i) => Rest(f, e + 1, i) = Rest(f, e, i) /\ InGrid(e + 1, i)
  <1>. DEFINE a == Common(f, e, i)
              b == Common(f, e + 1, i)
  <1>1. N \in Nat /\ M \in Nat
    BY LengthsNat
  <1>2. a \in Nat /\ b \in Nat
    BY CommonBounds
  <1>3. a <= b + 1 /\ (Matches(e, i) => a = b + 1 /\ InGrid(e + 1, i))
    BY CommonFurther
  <1>4. InGrid(e, i) /\ ~InGrid(e + 1, i) => a = 0 /\ b = 0
    <2>1. InGrid(e, i) /\ ~InGrid(e + 1, i) => e = N \/ e - i = M
      BY <1>1 DEF InGrid
    <2>. QED
      BY <2>1, CommonBounds DEF Common
  <1>5. /\ Rest(f, e, i) = (N - e) + (M - (e - i)) - 2 * a
        /\ Rest(f, e + 1, i) = (N - (e + 1)) + (M - ((e + 1) - i)) - 2 * b
    BY DEF Rest
  <1>. HIDE DEF a, b
  <1>6. (N - (e + 1)) + (M - ((e + 1) - i)) - 2 * b = (N - e) + (M - (e - i)) - 2 * b - 2
    BY <1>1, <1>2
  <1>. QED
    BY <1>1, <1>2, <1>3, <1>4, <1>5, <1>6

LEMMA RestOfNext ==
  ASSUME TypeOK, NEW f, IsLcs(f), NEW e \in Int, NEW i \in Int,
         InGrid(e, i), AtRest(e, i)
  PROVE  \/ InGrid(e + 1, i + 1) /\ Rest(f, e + 1, i + 1) = Rest(f, e, i) - 1
         \/ InGrid(e, i - 1) /\ Rest(f, e, i - 1) = Rest(f, e, i) - 1
  <1>. DEFINE a == Common(f, e, i)
              b == Common(f, e + 1, i + 1)
              c == Common(f, e, i - 1)
  <1>1. a \in Nat /\ N \in Nat /\ M \in Nat
    BY CommonBounds, LengthsNat
  <1>2. \/ InGrid(e + 1, i + 1) /\ b = a
        \/ InGrid(e, i - 1) /\ c = a
    BY CommonOfNext
  <1>3. /\ Rest(f, e, i) = (N - e) + (M - (e - i)) - 2 * a
        /\ Rest(f, e + 1, i + 1) = (N - (e + 1)) + (M - ((e + 1) - (i + 1))) - 2 * b
        /\ Rest(f, e, i - 1) = (N - e) + (M - (e - (i - 1))) - 2 * c
    BY DEF Rest
  <1>. HIDE DEF a, b, c
  <1>4. /\ (N - (e + 1)) + (M - ((e + 1) - (i + 1))) - 2 * a = (N - e) + (M - (e - i)) - 2 * a - 1
        /\ (N - e) + (M - (e - (i - 1))) - 2 * a = (N - e) + (M - (e - i)) - 2 * a - 1
    BY <1>1
  <1>5. CASE InGrid(e + 1, i + 1) /\ b = a
    BY <1>1, <1>3, <1>4, <1>5
  <1>6. CASE InGrid(e, i - 1) /\ c = a
    BY <1>1, <1>3, <1>4, <1>6
  <1>. QED
    BY <1>2, <1>5, <1>6

\* Along a diagonal: there is never more to do further on, and outside the grid
\* less by two at least than there was in it.
LEMMA RestAhead ==
  ASSUME TypeOK, NEW f, IsLcs(f), NEW s \in Int, NEW i \in Int, InGrid(s, i),
         NEW t \in Int, s <= t
  PROVE  /\ Rest(f, t, i) <= Rest(f, s, i)
         /\ ~InGrid(t, i) => Rest(f, t, i) <= Rest(f, s, i) - 2
  <1>. DEFINE OK(n) == /\ Rest(f, n, i) <= Rest(f, s, i)
                       /\ ~InGrid(n, i) => Rest(f, n, i) <= Rest(f, s, i) - 2
              Bad == {n \in Nat : s <= n /\ ~OK(n)}
  <1>0. s >= 0 /\ s - i >= 0 /\ t \in Nat /\ N \in Nat /\ M \in Nat /\ Rest(f, s, i) \in Int
    BY LengthsNat, RestBounds DEF InGrid
  <1>. SUFFICES ASSUME Bad # {} PROVE FALSE
    BY <1>0
  <1>1. PICK n \in Bad : \A m \in Bad : n <= m
    BY LeastOf
  <1>2. n # s
    BY <1>0, <1>1
  <1>3. PICK m \in Int : m + 1 = n
    <2>1. n - 1 \in Int /\ (n - 1) + 1 = n
      BY <1>1
    <2>. QED
      BY <2>1
  <1>4. m >= 0 /\ s <= m /\ m - i >= 0 /\ m \notin Bad /\ m \in Nat
    BY <1>0, <1>1, <1>2, <1>3
  <1>5. OK(m) /\ ~OK(m + 1)
    BY <1>1, <1>3, <1>4
  <1>6. /\ Rest(f, m + 1, i) <= Rest(f, m, i)
        /\ InGrid(m, i) /\ ~InGrid(m + 1, i) => Rest(f, m + 1, i) = Rest(f, m, i) - 2
    BY <1>4, RestFurther
  <1>7. Rest(f, m, i) \in Int /\ Rest(f, m + 1, i) \in Int
    BY <1>3, RestBounds
  <1>. QED
    BY <1>0, <1>5, <1>6, <1>7

\* Equal elements change nothing of what is left.
LEMMA RestOfSnake ==
  ASSUME TypeOK, NEW f, IsLcs(f), NEW s \in Int, NEW e \in Int, NEW i \in Int,
         s >= 0, s - i >= 0, SnakeTo(s, e, i)
  PROVE  /\ Rest(f, e, i) = Rest(f, s, i)
         /\ InGrid(s, i) => InGrid(e, i)
  <1>. DEFINE OK(n) == /\ Rest(f, n, i) = Rest(f, s, i)
                       /\ InGrid(s, i) => InGrid(n, i)
              Bad == {n \in Nat : s <= n /\ n <= e /\ ~OK(n)}
  <1>1. s <= e /\ (\A n \in s..(e - 1) : Matches(n, i)) /\ e \in Nat
    BY DEF SnakeTo
  <1>. SUFFICES ASSUME Bad # {} PROVE FALSE
    BY <1>1
  <1>2. PICK n \in Bad : \A m \in Bad : n <= m
    BY LeastOf
  <1>3. n # s
    BY <1>2
  <1>4. PICK m \in Int : m + 1 = n
    <2>1. n - 1 \in Int /\ (n - 1) + 1 = n
      BY <1>2
    <2>. QED
      BY <2>1
  <1>5. m >= 0 /\ m - i >= 0 /\ m \notin Bad /\ m \in Nat /\ s <= m /\ m \in s..(e - 1)
    BY <1>2, <1>3, <1>4
  <1>6. OK(m) /\ ~OK(m + 1)
    BY <1>2, <1>4, <1>5
  <1>7. Rest(f, m + 1, i) = Rest(f, m, i) /\ InGrid(m + 1, i)
    BY <1>1, <1>5, RestFurther
  <1>. QED
    BY <1>6, <1>7

-----------------------------------------------------------------------------
LEMMA BestIsRest ==
  ASSUME TypeOK, NEW f, IsLcs(f)
  PROVE  Best(f) = Rest(f, 0, 0) /\ InGrid(0, 0) /\ Best(f) \in Nat /\ Best(f) <= maxDistance
  <1>1. N \in Nat /\ M \in Nat /\ maxDistance = N + M /\ 0 - 0 = 0
    BY LengthsNat
  <1>2. InGrid(0, 0)
    BY <1>1 DEF InGrid
  <1>3. Common(f, 0, 0) \in Nat
    BY CommonBounds
  <1>4. Common(f, 0, 0) = f[<<0, 0>>]
    BY <1>1, <1>2 DEF Common
  <1>5. Rest(f, 0, 0) = N + M - 2 * Common(f, 0, 0)
    BY <1>1, <1>3 DEF Rest
  <1>6. Rest(f, 0, 0) >= 0
    BY <1>2, RestBounds
  <1>. QED
    BY <1>1, <1>2, <1>3, <1>4, <1>5, <1>6 DEF Best

\* What is about from and to alone does not change.
LEMMA SameRest ==
  ASSUME NEW f, UNCHANGED <<from, to>>
  PROVE  /\ N' = N /\ M' = M
         /\ Best(f)' = Best(f)
         /\ \A e, i : Rest(f, e, i)' = Rest(f, e, i)
         /\ \A e, i : InGrid(e, i)' <=> InGrid(e, i)
         /\ \A e, i : AtRest(e, i)' <=> AtRest(e, i)
         /\ \A n : Reachable(n)' = Reachable(n)
  BY DEF N, M, Best, Rest, Common, InGrid, AtRest, Matches, Found, Reachable

LEMMA InRound ==
  ASSUME IInv, pc = "forward"
  PROVE  /\ d \in Nat /\ k \in Int /\ maxDistance \in Nat /\ d <= maxDistance
         /\ maxDistance > 0 /\ Len(trace) = d + 1 /\ N \in Nat /\ M \in Nat
  <1>1. N \in Nat /\ M \in Nat /\ maxDistance \in Nat
    BY LengthsNat DEF IInv
  <1>2. d \in Nat /\ k \in Int
    BY <1>1 DEF IInv, TypeOK
  <1>. QED
    BY <1>1, <1>2 DEF IInv, RoundInv

\* The distance before being nowhere ahead of the best way, this one starts
\* nowhere ahead of it.
LEMMA StartNotAhead ==
  ASSUME IInv, pc = "forward", NEW f, IsLcs(f), ForwardMin(f), NEW i \in Reachable(d)
  PROVE  /\ Start(trace[d + 1], d, i) \in Nat
         /\ Start(trace[d + 1], d, i) - i \in Nat
         /\ d + Rest(f, Start(trace[d + 1], d, i), i) >= Best(f)
  <1>. USE DEF IInv
  <1>. DEFINE j == d + 1
              start == Start(trace[j], d, i)
  <1>1. /\ d \in Nat /\ maxDistance > 0 /\ Len(trace) = d + 1 /\ i \in Int
        /\ j \in 1..Len(trace) /\ j - 1 = d
    BY LengthsNat DEF TypeOK, RoundInv, Reachable
  <1>2. /\ start \in Nat /\ start - i \in Nat
        /\ j = 1 => i = 0 /\ start = 0
        /\ j > 1 => start = IF ByAddition(trace[j], d, i)
                              THEN trace[j][PrevOf(j, i)] ELSE trace[j][PrevOf(j, i)] + 1
    <2>1. i \in Reachable(j - 1)
      BY <1>1
    <2>. QED
      BY <1>1, <2>1, StartsInside
  <1>3. Best(f) \in Nat /\ Best(f) = Rest(f, 0, 0)
    BY BestIsRest
  <1>4. CASE d = 0
    BY <1>2, <1>3, <1>4
  <1>5. CASE d > 0
    <2>. DEFINE q == PrevOf(j, i)
                e == trace[j][q]
    <2>1. /\ q \in Reachable(d - 1) /\ e \in Nat /\ e - q \in Nat
      <3>1. j \in 2..Len(trace) /\ j - 2 = d - 1 /\ i \in Reachable(j - 1)
        BY <1>1, <1>5
      <3>. QED
        BY <3>1, Predecessor
    <2>2. q \in Int /\ e \in Int /\ e >= 0 /\ e - q >= 0
      BY <1>1, <2>1 DEF Reachable
    <2>3. d - 1 + Rest(f, e, q) >= Best(f)
      BY <1>1, <1>5, <2>1 DEF ForwardMin
    <2>4. /\ Rest(f, e + 1, q + 1) >= Rest(f, e, q) - 1
          /\ Rest(f, e, q - 1) >= Rest(f, e, q) - 1
          /\ Rest(f, e, q) \in Int
      BY <2>2, RestAfterEdit, RestBounds
    <2>5. \/ start = e /\ i = q - 1
          \/ start = e + 1 /\ i = q + 1
      BY <1>1, <1>2, <1>5 DEF PrevOf
    <2>6. Rest(f, start, i) >= Rest(f, e, q) - 1
      BY <2>4, <2>5
    <2>7. Rest(f, start, i) \in Int
      BY <1>1, <1>2, RestBounds
    <2>. HIDE DEF e, q, start
    <2>8. d + Rest(f, start, i) >= Best(f)
      BY <1>1, <1>3, <2>3, <2>4, <2>6, <2>7
    <2>. QED
      BY <1>2, <2>8 DEF start
  <1>. QED
    BY <1>1, <1>4, <1>5

LEMMA ExtendMin ==
  ASSUME IInv, Extend, NEW f, IsLcs(f), ForwardMin(f)
  PROVE  (pc # "nil" /\ ForwardMin(f) /\ BackwardMin(f) /\ DoneMin(f))'
  <1>. USE DEF IInv
  <1>1. /\ pc = "forward" /\ k <= d /\ d \in Nat /\ k \in Int /\ (k + d) % 2 = 0
        /\ x = N /\ y = M /\ edits = <<>> /\ N \in Nat /\ M \in Nat
        /\ UNCHANGED <<from, to, d, trace, x, y, edits>>
    BY LengthsNat DEF Extend, TypeOK, RoundInv
  <1>. DEFINE start == Start(furthest, d, k)
  <1>2. /\ k \in Reachable(d) /\ k \in Diagonals
        /\ start = Start(trace[d + 1], d, k) /\ start \in Nat /\ start - k \in Nat
    BY <1>1, StartIsOfTrace
  <1>3. PICK end \in start..(start + N) :
          /\ SnakeTo(start, end, k)
          /\ ~Matches(end, k)
          /\ furthest' = [furthest EXCEPT ![k] = end]
          /\ IF Found(end, k) THEN pc' = "backward" /\ k' = k ELSE k' = k + 2 /\ pc' = pc
    BY DEF Extend
  <1>4. end \in Int
    BY <1>1, <1>2, <1>3
  <1>5. d + Rest(f, start, k) >= Best(f)
    BY <1>1, <1>2, StartNotAhead
  <1>6. Rest(f, end, k) = Rest(f, start, k)
    <2>1. start \in Int /\ start >= 0 /\ start - k >= 0
      BY <1>1, <1>2
    <2>. HIDE DEF start
    <2>. QED
      BY <1>1, <1>3, <1>4, <2>1, RestOfSnake
  <1>7. d + Rest(f, end, k) >= Best(f)
    BY <1>5, <1>6
  <1>8. d <= Best(f) /\ Best(f) \in Nat
    BY <1>1, BestIsRest DEF ForwardMin
  <1>9. CASE Found(end, k)
    <2>1. end = N /\ end - k = M /\ pc' = "backward"
      BY <1>3, <1>9 DEF Found
    <2>2. InGrid(end, k)
      BY <1>1, <2>1 DEF InGrid
    <2>3. Common(f, end, k) = 0
      BY <1>1, <1>4, <2>1, CommonBounds
    <2>4. Rest(f, end, k) = 0
      BY <1>1, <2>1, <2>3 DEF Rest
    <2>5. d = Best(f)
      BY <1>1, <1>7, <1>8, <2>4
    <2>6. Equals' = {}
      BY <1>1 DEF Equals
    <2>7. Cardinality(Equals') = 0
      BY <2>6, FS_EmptySet
    <2>8. BackwardMin(f)'
      BY <1>1, <1>8, <2>5, <2>7, SameRest DEF BackwardMin
    <2>. QED
      BY <2>1, <2>8 DEF ForwardMin, DoneMin
  <1>10. CASE ~Found(end, k)
    <2>1. pc' = "forward" /\ k' = k + 2
      BY <1>1, <1>3, <1>10
    <2>2. ASSUME NEW i \in Reachable(d), i < k + 2
          PROVE  AtRest(furthest'[i], i) /\ d + Rest(f, furthest'[i], i) >= Best(f)
      <3>1. i \in Int /\ (i + d) % 2 = 0 /\ i \in Diagonals
        <4>1. d <= maxDistance /\ maxDistance \in Nat
          BY <1>1, InRound
        <4>. QED
          BY <1>1, <4>1 DEF Reachable, Diagonals
      <3>2. CASE i = k
        <4>1. furthest'[i] = end
          BY <1>2, <1>3, <3>2 DEF TypeOK
        <4>. QED
          BY <1>3, <1>7, <1>10, <3>2, <4>1 DEF AtRest
      <3>3. CASE i # k
        <4>1. i < k
          BY <1>1, <2>2, <3>1, <3>3
        <4>2. furthest'[i] = furthest[i]
          BY <1>3, <3>1, <3>3 DEF TypeOK
        <4>. QED
          BY <1>1, <4>1, <4>2 DEF ForwardMin
      <3>. QED
        BY <3>2, <3>3
    <2>3. ForwardMin(f)'
      BY <1>1, <1>8, <2>1, <2>2, SameRest DEF ForwardMin
    <2>. QED
      BY <2>1, <2>3 DEF BackwardMin, DoneMin
  <1>. QED
    BY <1>9, <1>10

\* The diagonal that follows the best way starts at least as far as an edit
\* brings it: the further of the two ways to it is continued.
LEMMA StartsFurthest ==
  ASSUME IInv, pc = "forward", d > 0, NEW i \in Reachable(d - 1), NEW q \in Int,
         NEW s \in Int,
         \/ q = i + 1 /\ s = trace[d + 1][i] + 1
         \/ q = i - 1 /\ s = trace[d + 1][i]
  PROVE  q \in Reachable(d) /\ Start(trace[d + 1], d, q) >= s
  <1>. USE DEF IInv
  <1>. DEFINE w == trace[d + 1]
  <1>1. /\ d \in Nat /\ d <= maxDistance /\ maxDistance \in Nat /\ Len(trace) = d + 1
        /\ i \in Int /\ i >= -(d - 1) /\ i <= d - 1 /\ (i + (d - 1)) % 2 = 0
    <2>1. d \in Nat /\ d <= maxDistance /\ maxDistance \in Nat /\ Len(trace) = d + 1
      BY InRound
    <2>. QED
      BY <2>1 DEF Reachable
  <1>2. w \in [Diagonals -> Nat]
    <2>1. d + 1 \in 1..Len(trace)
      BY <1>1
    <2>. QED
      BY <2>1, RowType
  <1>3. q >= -d /\ q <= d /\ (q + d) % 2 = 0
    BY <1>1
  <1>4. q \in Reachable(d)
    BY <1>1, <1>3 DEF Reachable
  <1>5. /\ q # -d => q - 1 \in Diagonals
        /\ q # d => q + 1 \in Diagonals
        /\ i \in Diagonals
    BY <1>1, <1>3 DEF Diagonals
  <1>6. /\ q # -d => w[q - 1] \in Nat
        /\ q # d => w[q + 1] \in Nat
        /\ w[i] \in Nat
    BY <1>2, <1>5
  <1>. HIDE DEF w
  <1>7. CASE q = i + 1 /\ s = w[i] + 1
    <2>1. q # -d /\ q - 1 = i
      BY <1>1, <1>7
    <2>. QED
      BY <1>4, <1>6, <1>7, <2>1 DEF Start, ByAddition, w
  <1>8. CASE q = i - 1 /\ s = w[i]
    <2>1. q # d /\ q + 1 = i
      BY <1>1, <1>8
    <2>. QED
      BY <1>4, <1>6, <1>8, <2>1 DEF Start, ByAddition, w
  <1>. QED
    BY <1>7, <1>8 DEF w

\* When a round is done, one of its diagonals is on a best way.
LEMMA RoundOnBestWay ==
  ASSUME IInv, pc = "forward", k > d, NEW f, IsLcs(f), ForwardMin(f)
  PROVE  \E i \in Reachable(d) : InGrid(furthest[i], i) /\ d + Rest(f, furthest[i], i) = Best(f)
  <1>. USE DEF IInv
  <1>1. d \in Nat /\ k \in Int /\ Len(trace) = d + 1 /\ maxDistance > 0 /\ Best(f) \in Nat
    BY InRound, BestIsRest
  <1>2. ASSUME NEW q \in Reachable(d), NEW t, t = Start(trace[d + 1], d, q),
               InGrid(t, q), d + Rest(f, t, q) = Best(f)
        PROVE  InGrid(furthest[q], q) /\ d + Rest(f, furthest[q], q) = Best(f)
    <2>1. q \in Int /\ q < k
      BY <1>1 DEF Reachable
    <2>2. Reached(trace[d + 1], d, q, furthest[q])
      BY <1>1, <2>1 DEF RoundInv
    <2>3. /\ t \in Int /\ t >= 0 /\ t - q >= 0 /\ furthest[q] \in Int
          /\ SnakeTo(t, furthest[q], q)
      BY <1>2, <2>1, <2>2 DEF Reached
    <2>4. Rest(f, furthest[q], q) = Rest(f, t, q) /\ InGrid(furthest[q], q)
      BY <1>2, <2>1, <2>3, RestOfSnake
    <2>. QED
      BY <1>2, <2>4
  <1>3. CASE d = 0
    <2>1. 0 \in Reachable(d) /\ 0 \in Reachable(1 - 1)
      BY <1>3 DEF Reachable
    <2>2. Start(trace[d + 1], d, 0) = 0
      <3>1. 1 \in 1..Len(trace) /\ 1 - 1 = 0
        BY <1>1
      <3>2. Start(trace[1], 1 - 1, 0) = 0
        BY <1>1, <2>1, <3>1, StartsInside
      <3>. QED
        BY <1>3, <3>1, <3>2
    <2>3. InGrid(0, 0) /\ d + Rest(f, 0, 0) = Best(f)
      BY <1>1, <1>3, BestIsRest
    <2>. QED
      BY <1>2, <2>1, <2>2, <2>3
  <1>4. CASE d > 0
    <2>1. PICK i \in Reachable(d - 1) :
            InGrid(trace[d + 1][i], i) /\ d - 1 + Rest(f, trace[d + 1][i], i) = Best(f)
      BY <1>4 DEF ForwardMin
    <2>. DEFINE e == trace[d + 1][i]
    <2>2. i \in Int /\ e \in Int /\ N \in Nat
      <3>1. i \in Int /\ N \in Nat
        BY <1>1, LengthsNat DEF Reachable
      <3>. QED
        BY <2>1, <3>1 DEF InGrid
    <2>3. AtRest(e, i)
      BY <1>4 DEF ForwardMin
    <2>4. PICK q \in Int, s \in Int :
            /\ \/ q = i + 1 /\ s = e + 1
               \/ q = i - 1 /\ s = e
            /\ InGrid(s, q) /\ Rest(f, s, q) = Rest(f, e, i) - 1
      <3>1. \/ InGrid(e + 1, i + 1) /\ Rest(f, e + 1, i + 1) = Rest(f, e, i) - 1
            \/ InGrid(e, i - 1) /\ Rest(f, e, i - 1) = Rest(f, e, i) - 1
        BY <2>1, <2>2, <2>3, RestOfNext
      <3>2. e + 1 \in Int /\ i + 1 \in Int /\ i - 1 \in Int
        BY <2>2
      <3>. HIDE DEF e
      <3>. QED
        BY <2>2, <3>1, <3>2
    <2>. DEFINE t == Start(trace[d + 1], d, q)
    <2>5. q \in Reachable(d) /\ t >= s
      BY <1>4, <2>4, StartsFurthest
    <2>6. t \in Nat /\ d + Rest(f, t, q) >= Best(f)
      BY <2>5, StartNotAhead
    <2>7. Rest(f, t, q) <= Rest(f, s, q) /\ (~InGrid(t, q) => Rest(f, t, q) <= Rest(f, s, q) - 2)
      <3>1. t \in Int /\ s <= t
        BY <2>5, <2>6
      <3>. HIDE DEF t
      <3>. QED
        BY <2>4, <3>1, RestAhead
    <2>8. Rest(f, t, q) \in Int /\ Rest(f, s, q) \in Int /\ Rest(f, e, i) \in Int
      <3>1. t \in Int
        BY <2>6
      <3>. HIDE DEF t, e
      <3>. QED
        BY <2>2, <2>4, <3>1, RestBounds
    <2>9. d - 1 + Rest(f, e, i) = Best(f)
      BY <2>1
    <2>10. InGrid(t, q) /\ d + Rest(f, t, q) = Best(f)
      <3>. DEFINE a == Rest(f, t, q)
                  b == Rest(f, s, q)
                  c == Rest(f, e, i)
      <3>1. /\ a \in Int /\ b \in Int /\ c \in Int /\ b = c - 1 /\ d - 1 + c = Best(f)
            /\ d + a >= Best(f) /\ a <= b /\ (~InGrid(t, q) => a <= b - 2)
        BY <2>4, <2>6, <2>7, <2>8, <2>9
      <3>. HIDE DEF a, b, c
      <3>2. InGrid(t, q) /\ d + a = Best(f)
        BY <1>1, <3>1
      <3>. QED
        BY <3>2 DEF a
    <2>. QED
      BY <1>2, <2>5, <2>10
  <1>. QED
    BY <1>1, <1>3, <1>4

LEMMA NextRoundMin ==
  ASSUME IInv, NextRound, NEW f, IsLcs(f), ForwardMin(f)
  PROVE  (pc # "nil" /\ ForwardMin(f) /\ BackwardMin(f) /\ DoneMin(f))'
  <1>. USE DEF IInv
  <1>1. /\ pc = "forward" /\ k > d /\ d \in Nat /\ d <= maxDistance /\ maxDistance \in Nat
        /\ Len(trace) = d + 1 /\ k \in Int
        /\ UNCHANGED <<from, to, furthest, x, y, edits>>
        /\ d' = d + 1 /\ k' = -(d + 1)
    <2>1. pc = "forward" /\ k > d
      BY DEF NextRound
    <2>2. /\ d \in Nat /\ d <= maxDistance /\ maxDistance \in Nat
          /\ Len(trace) = d + 1 /\ k \in Int
      BY <2>1, InRound
    <2>. QED
      BY <2>1, <2>2 DEF NextRound
  <1>2. \A i \in Reachable(d) : AtRest(furthest[i], i) /\ d + Rest(f, furthest[i], i) >= Best(f)
    <2>1. \A i \in Reachable(d) : i < k
      BY <1>1 DEF Reachable
    <2>. QED
      BY <1>1, <2>1 DEF ForwardMin
  <1>3. PICK i \in Reachable(d) :
          InGrid(furthest[i], i) /\ d + Rest(f, furthest[i], i) = Best(f)
    BY <1>1, RoundOnBestWay
  <1>4. Best(f) \in Nat /\ Best(f) <= maxDistance
    BY BestIsRest
  <1>5. d + 1 <= Best(f)
    <2>. DEFINE e == furthest[i]
    <2>1. i \in Int /\ e \in Int
      BY <1>1, <1>3, LengthsNat DEF Reachable, InGrid
    <2>2. AtRest(e, i) /\ InGrid(e, i) /\ d + Rest(f, e, i) = Best(f)
      BY <1>2, <1>3
    <2>. HIDE DEF e
    <2>3. \/ InGrid(e + 1, i + 1) /\ Rest(f, e + 1, i + 1) = Rest(f, e, i) - 1
          \/ InGrid(e, i - 1) /\ Rest(f, e, i - 1) = Rest(f, e, i) - 1
      BY <2>1, <2>2, RestOfNext
    <2>4. /\ InGrid(e + 1, i + 1) => Rest(f, e + 1, i + 1) >= 0
          /\ InGrid(e, i - 1) => Rest(f, e, i - 1) >= 0
          /\ Rest(f, e, i) \in Int
      <3>1. e + 1 \in Int /\ i + 1 \in Int /\ i - 1 \in Int
        BY <2>1
      <3>. QED
        BY <2>1, <3>1, RestBounds
    <2>5. Rest(f, e, i) - 1 >= 0
      BY <2>3, <2>4
    <2>. QED
      BY <1>1, <1>4, <2>2, <2>4, <2>5
  <1>6. pc' = "forward" /\ trace' = Append(trace, furthest)
    BY <1>1, <1>4, <1>5 DEF NextRound
  <1>7. trace'[d' + 1] = furthest
    <2>1. trace \in Seq([Diagonals -> Nat]) /\ furthest \in [Diagonals -> Nat]
      BY DEF TypeOK
    <2>2. d' + 1 = Len(trace) + 1
      BY <1>1
    <2>. QED
      BY <1>6, <2>1, <2>2
  <1>8. \A j \in Reachable(d + 1) : ~(j < k')
    BY <1>1 DEF Reachable
  <1>9. (d + 1) - 1 = d /\ d' > 0 /\ d' - 1 = d /\ d' = d + 1
    BY <1>1
  <1>10. ForwardMin(f)'
    BY <1>1, <1>2, <1>3, <1>5, <1>7, <1>8, <1>9, SameRest DEF ForwardMin
  <1>. QED
    BY <1>6, <1>10 DEF BackwardMin, DoneMin

-----------------------------------------------------------------------------
LEMMA EqualsFinite ==
  ASSUME TypeOK PROVE IsFiniteSet(Equals) /\ Cardinality(Equals) \in Nat
  <1>1. Len(edits) \in Nat /\ DOMAIN edits = 1..Len(edits)
    BY DEF TypeOK
  <1>2. IsFiniteSet(DOMAIN edits)
    BY <1>1, FS_Interval
  <1>3. Equals \in SUBSET DOMAIN edits
    BY DEF Equals
  <1>. QED
    BY <1>2, <1>3, FS_Subset, FS_CardinalityType

LEMMA BackEqualMin ==
  ASSUME IInv, BackEqual, NEW f, IsLcs(f), BackwardMin(f)
  PROVE  (pc # "nil" /\ ForwardMin(f) /\ BackwardMin(f) /\ DoneMin(f))'
  <1>. USE DEF IInv
  <1>1. /\ pc = "backward" /\ pc' = "backward" /\ d \in Nat /\ d' = d
        /\ x \in Int /\ y \in Int /\ x' = x - 1 /\ y' = y - 1
        /\ N \in Nat /\ M \in Nat /\ UNCHANGED <<from, to>>
    <2>1. d \in Nat /\ x \in Int /\ y \in Int /\ N \in Nat /\ M \in Nat
      BY LengthsNat DEF TypeOK
    <2>. QED
      BY <2>1 DEF BackEqual
  <1>2. Equals' = Equals \cup {Len(edits) + 1} /\ Len(edits) + 1 \notin Equals
    <2>. DEFINE e == [typ |-> "equal", fromIx |-> x - 1, toIx |-> y - 1]
    <2>1. edits' = Append(edits, e) /\ e.typ = "equal"
      BY DEF BackEqual
    <2>. HIDE DEF e
    <2>2. /\ Len(edits) \in Nat /\ DOMAIN edits = 1..Len(edits)
          /\ DOMAIN edits' = 1..(Len(edits) + 1) /\ edits'[Len(edits) + 1] = e
          /\ \A p \in 1..Len(edits) : edits'[p] = edits[p]
      BY <2>1 DEF TypeOK
    <2>3. 1..(Len(edits) + 1) = 1..Len(edits) \cup {Len(edits) + 1}
          /\ Len(edits) + 1 \notin 1..Len(edits)
      BY <2>2
    <2>. QED
      BY <2>1, <2>2, <2>3 DEF Equals
  <1>3. Cardinality(Equals') = Cardinality(Equals) + 1 /\ Cardinality(Equals) \in Nat
    BY <1>2, EqualsFinite, FS_AddElement
  <1>4. 2 * Cardinality(Equals) + Best(f) - d = (N - x) + (M - y) /\ Best(f) \in Nat
    BY <1>1, BestIsRest DEF BackwardMin
  <1>5. 2 * (Cardinality(Equals) + 1) + Best(f) - d = (N - (x - 1)) + (M - (y - 1))
    BY <1>1, <1>3, <1>4
  <1>6. BackwardMin(f)'
    BY <1>1, <1>3, <1>5, SameRest DEF BackwardMin
  <1>. QED
    BY <1>1, <1>6 DEF ForwardMin, DoneMin

LEMMA BackEditMin ==
  ASSUME IInv, BackEdit, NEW f, IsLcs(f), BackwardMin(f)
  PROVE  (pc # "nil" /\ ForwardMin(f) /\ BackwardMin(f) /\ DoneMin(f))'
  <1>. USE DEF IInv
  <1>1. /\ pc = "backward" /\ pc' = "backward" /\ d \in Nat /\ d' = d - 1
        /\ x \in Int /\ y \in Int
        /\ \/ x' = x /\ y' = y - 1
           \/ x' = x - 1 /\ y' = y
        /\ N \in Nat /\ M \in Nat /\ UNCHANGED <<from, to>>
    <2>1. d \in Nat /\ x \in Int /\ y \in Int /\ N \in Nat /\ M \in Nat
      BY LengthsNat DEF TypeOK
    <2>2. \/ x' = x /\ y' = y - 1
          \/ x' = x - 1 /\ y' = y
      BY DEF BackEdit
    <2>3. /\ pc = "backward" /\ pc' = "backward" /\ d' = d - 1 /\ UNCHANGED <<from, to>>
      BY DEF BackEdit
    <2>. QED
      BY <2>1, <2>2, <2>3
  <1>2. Equals' = Equals
    <2>1. PICK e : edits' = Append(edits, e) /\ e.typ # "equal"
      BY DEF BackEdit
    <2>2. /\ Len(edits) \in Nat /\ DOMAIN edits = 1..Len(edits)
          /\ DOMAIN edits' = 1..(Len(edits) + 1) /\ edits'[Len(edits) + 1] = e
          /\ \A p \in 1..Len(edits) : edits'[p] = edits[p]
      BY <2>1 DEF TypeOK
    <2>3. 1..(Len(edits) + 1) = 1..Len(edits) \cup {Len(edits) + 1}
      BY <2>2
    <2>. QED
      BY <2>1, <2>2, <2>3 DEF Equals
  <1>3. Cardinality(Equals) \in Nat
    BY EqualsFinite
  <1>4. 2 * Cardinality(Equals) + Best(f) - d = (N - x) + (M - y) /\ Best(f) \in Nat
    BY <1>1, BestIsRest DEF BackwardMin
  <1>5. 2 * Cardinality(Equals) + Best(f) - (d - 1) = (N - x') + (M - y')
    <2>. DEFINE a == Cardinality(Equals)
                b == Best(f)
    <2>1. a \in Nat /\ b \in Nat /\ 2 * a + b - d = (N - x) + (M - y)
      BY <1>3, <1>4
    <2>. HIDE DEF a, b
    <2>2. /\ (N - x) + (M - (y - 1)) = (N - x) + (M - y) + 1
          /\ (N - (x - 1)) + (M - y) = (N - x) + (M - y) + 1
          /\ 2 * a + b - (d - 1) = 2 * a + b - d + 1
      BY <1>1, <2>1
    <2>3. 2 * a + b - (d - 1) = (N - x') + (M - y')
      BY <1>1, <2>1, <2>2
    <2>. QED
      BY <2>3 DEF a, b
  <1>6. BackwardMin(f)'
    BY <1>1, <1>2, <1>5, SameRest DEF BackwardMin
  <1>. QED
    BY <1>1, <1>6 DEF ForwardMin, DoneMin

\* Where the way back ends, it has collected all there is in common.
LEMMA AtOrigin ==
  ASSUME IInv, BackEnd, NEW f, IsLcs(f), BackwardMin(f)
  PROVE  x = 0 /\ y = 0 /\ Cardinality(Equals) = f[<<0, 0>>]
  <1>. USE DEF IInv
  <1>1. /\ pc = "backward" /\ d = 0 /\ ~(x > PrevX /\ y > PrevY)
        /\ x \in Nat /\ y \in Nat /\ N \in Nat /\ M \in Nat
    BY LengthsNat DEF BackEnd, TypeOK
  <1>2. x = 0 /\ y = 0
    <2>1. PICK start : start = Start(trace[d + 1], d, x - y)
      OBVIOUS
    <2>. QED
      BY <1>1, <2>1, OnSnake
  <1>3. f[<<0, 0>>] \in Nat
    <2>1. InGrid(0, 0) /\ Common(f, 0, 0) \in Nat
      BY BestIsRest, CommonBounds
    <2>. QED
      BY <2>1 DEF Common
  <1>4. 2 * Cardinality(Equals) + (N + M - 2 * f[<<0, 0>>]) - 0 = (N - 0) + (M - 0)
    BY <1>1, <1>2 DEF BackwardMin, Best
  <1>5. Cardinality(Equals) = f[<<0, 0>>]
    <2>1. Cardinality(Equals) \in Nat
      BY EqualsFinite
    <2>. DEFINE c == Cardinality(Equals)
                z == f[<<0, 0>>]
    <2>2. c \in Nat /\ z \in Nat /\ 2 * c + (N + M - 2 * z) - 0 = (N - 0) + (M - 0)
      BY <1>3, <1>4, <2>1
    <2>. HIDE DEF c, z
    <2>3. c = z
      BY <1>1, <2>2
    <2>. QED
      BY <2>3 DEF c, z
  <1>. QED
    BY <1>2, <1>5

LEMMA BackEndMin ==
  ASSUME IInv, BackEnd, NEW f, IsLcs(f), BackwardMin(f)
  PROVE  (pc # "nil" /\ ForwardMin(f) /\ BackwardMin(f) /\ DoneMin(f))'
  <1>. USE DEF IInv
  <1>1. /\ pc = "backward" /\ pc' = "done"
        /\ edits' = [i \in 1..Len(edits) |-> edits[Len(edits) + 1 - i]]
        /\ Len(edits) \in Nat /\ DOMAIN edits = 1..Len(edits)
    BY DEF BackEnd, reverseSequenceEdits, TypeOK
  <1>2. Cardinality(Equals') = Cardinality(Equals)
    <2>. DEFINE n == Len(edits) + 1
                g == [p \in Equals |-> n - p]
    <2>1. \A p \in 1..Len(edits) : n - p \in 1..Len(edits) /\ n - (n - p) = p
                                   /\ edits'[p] = edits[n - p]
      BY <1>1
    <2>2. /\ Equals = {p \in 1..Len(edits) : edits[p].typ = "equal"}
          /\ Equals' = {p \in 1..Len(edits) : edits'[p].typ = "equal"}
      BY <1>1 DEF Equals
    <2>3. g \in [Equals -> Equals']
      BY <2>1, <2>2
    <2>4. \A p, q \in Equals : g[p] = g[q] => p = q
      BY <2>1, <2>2
    <2>5. \A q \in Equals' : \E p \in Equals : g[p] = q
      <3>. SUFFICES ASSUME NEW q \in Equals' PROVE \E p \in Equals : g[p] = q
        OBVIOUS
      <3>1. n - q \in Equals /\ n - (n - q) = q
        BY <2>1, <2>2
      <3>. QED
        BY <3>1
    <2>6. g \in Bijection(Equals, Equals')
      <3>. HIDE DEF g
      <3>. QED
        BY <2>3, <2>4, <2>5, Fun_IsBij
    <2>7. ExistsBijection(Equals, Equals')
      BY <2>6 DEF ExistsBijection
    <2>. QED
      BY <2>7, EqualsFinite, FS_Bijection
  <1>3. Cardinality(Equals) = f[<<0, 0>>]
    BY AtOrigin
  <1>. QED
    BY <1>1, <1>2, <1>3 DEF ForwardMin, BackwardMin, DoneMin

-----------------------------------------------------------------------------
LEMMA InitMin == Init => MinInv
  <1>. SUFFICES ASSUME Init, NEW f, IsLcs(f)
                PROVE  pc # "nil" /\ ForwardMin(f) /\ BackwardMin(f) /\ DoneMin(f)
    BY DEF Init, MinInv
  <1>1. TypeOK
    BY InitHolds DEF IInv
  <1>2. N \in Nat /\ M \in Nat /\ maxDistance = N + M
    BY <1>1, LengthsNat
  <1>3. CASE maxDistance = 0
    <2>1. N = 0 /\ M = 0 /\ pc = "done" /\ edits = <<>>
      BY <1>2, <1>3 DEF Init
    <2>2. Equals = {}
      BY <2>1 DEF Equals
    <2>3. Common(f, 0, 0) = 0
      BY <1>1, <2>1, CommonBounds
    <2>4. f[<<0, 0>>] = 0
      BY <1>1, <2>3, BestIsRest DEF Common
    <2>. QED
      BY <2>1, <2>2, <2>4, FS_EmptySet DEF ForwardMin, BackwardMin, DoneMin
  <1>4. CASE maxDistance # 0
    <2>1. pc = "forward" /\ d = 0 /\ k = 0
      BY <1>4 DEF Init
    <2>2. 0 <= Best(f)
      BY <1>1, BestIsRest
    <2>3. \A i \in Reachable(0) : ~(i < 0)
      BY DEF Reachable
    <2>. QED
      BY <2>1, <2>2, <2>3 DEF ForwardMin, BackwardMin, DoneMin
  <1>. QED
    BY <1>3, <1>4

LEMMA MinStep ==
  ASSUME IInv, MinInv, [Next]_vars PROVE MinInv'
  <1>1. UNCHANGED <<from, to>>
    BY DEF Next, Extend, NextRound, BackEqual, BackEdit, BackEnd, vars
  <1>2. ASSUME NEW f PROVE IsLcs(f)' <=> IsLcs(f)
    BY <1>1 DEF IsLcs, LcsAt, Grid, N, M
  <1>3. IsLcs(lcs)
    BY LcsExists DEF IInv
  <1>4. ASSUME NEW f, IsLcs(f)
        PROVE  (pc # "nil" /\ ForwardMin(f) /\ BackwardMin(f) /\ DoneMin(f))'
    <2>1. pc # "nil" /\ ForwardMin(f) /\ BackwardMin(f) /\ DoneMin(f)
      BY <1>4 DEF MinInv
    <2>2. CASE Extend
      BY <1>4, <2>1, <2>2, ExtendMin
    <2>3. CASE NextRound
      BY <1>4, <2>1, <2>3, NextRoundMin
    <2>4. CASE BackEqual
      BY <1>4, <2>1, <2>4, BackEqualMin
    <2>5. CASE BackEdit
      BY <1>4, <2>1, <2>5, BackEditMin
    <2>6. CASE BackEnd
      BY <1>4, <2>1, <2>6, BackEndMin
    <2>7. CASE UNCHANGED vars
      BY <2>1, <2>7, SameRest DEF vars, ForwardMin, BackwardMin, DoneMin, Equals
    <2>. QED
      BY <2>2, <2>3, <2>4, <2>5, <2>6, <2>7 DEF Next
  <1>. QED
    BY <1>2, <1>3, <1>4 DEF MinInv

LEMMA MinInductive == Init /\ [][Next]_vars => [](IInv /\ MinInv)
  <1>1. Init => MinInv
    BY InitMin
  <1>2. IInv /\ MinInv /\ [Next]_vars => MinInv'
    BY MinStep
  <1>. QED
    BY <1>1, <1>2, Inductive, PTL

\* The loop over distances never runs out of them: buildMyersEdits never
\* answers nil, which callers would show as two sequences with nothing in them.
THEOREM AlwaysFindsScript == Spec => [](pc # "nil")
  <1>1. IInv /\ MinInv => pc # "nil"
    BY DEF MinInv
  <1>. QED
    BY <1>1, MinInductive, PTL DEF Spec

\* The greedy search finds a shortest script, whatever it compares: what the
\* sequences have most in common, by the table of buildLCSMatrix, is shown as
\* equal.
THEOREM ScriptsAreMinimal == Spec => []ScriptIsMinimal
  <1>1. ASSUME IInv, MinInv PROVE ScriptIsMinimal
    <2>1. IsLcs(lcs)
      BY <1>1, LcsExists DEF IInv
    <2>. QED
      BY <1>1, <2>1 DEF MinInv, DoneMin, ScriptIsMinimal
  <1>. QED
    BY <1>1, MinInductive, PTL DEF Spec

-----------------------------------------------------------------------------
(* No removal in a script is undone by the addition after it.              *)

\* No removal is followed by an addition of what was removed: both could have
\* been kept.
Apart ==
  \A p \in DOMAIN edits :
    p + 1 \in DOMAIN edits /\ edits[p].typ = "remove" /\ edits[p + 1].typ = "add" =>
      FromOf(edits[p]) # ToOf(edits[p + 1])

\* The same of a script that is being collected, last edit first.
BackApart ==
  \A p \in DOMAIN edits :
    p + 1 \in DOMAIN edits /\ edits[p].typ = "add" /\ edits[p + 1].typ = "remove" =>
      FromOf(edits[p + 1]) # ToOf(edits[p])

\* What has been collected is not more than there is in common; if it is not
\* Apart it is less, and stays so.
ApartMin(f) ==
  /\ pc = "backward" =>
       /\ Cardinality(Equals) <= f[<<x, y>>]
       /\ edits # <<>> /\ edits[Len(edits)].typ = "add" =>
            /\ edits[Len(edits)].toIx = y
            /\ y < M
            /\ Cardinality(Equals) <= f[<<x, y + 1>>]
       /\ ~BackApart => Cardinality(Equals) < f[<<x, y>>]
  /\ pc = "done" => Apart

ApartInv == \A f : IsLcs(f) => ApartMin(f)

ScriptInv == IInv /\ MinInv /\ ApartInv

\* One element less on either side takes at most one from what is in common.
LEMMA LcsAround ==
  ASSUME TypeOK, NEW f, IsLcs(f), NEW i \in 0..N, NEW j \in 0..M
  PROVE  /\ f[<<i, j>>] \in Nat
         /\ i < N => f[<<i + 1, j>>] <= f[<<i, j>>]
         /\ j < M => f[<<i, j + 1>>] <= f[<<i, j>>]
         /\ i < N /\ j < M /\ from[i + 1] = to[j + 1] => f[<<i, j>>] = f[<<i + 1, j + 1>>] + 1
  <1>1. N \in Nat /\ M \in Nat /\ <<i, j>> \in Grid
    BY LengthsNat DEF Grid
  <1>2. Stepwise(f, <<i, j>>) /\ f[<<i, j>>] = LcsAt(f, <<i, j>>)
    BY <1>1, LcsStepwise DEF IsLcs
  <1>3. /\ f[<<i, j>>] \in Nat
        /\ i # N => f[<<i + 1, j>>] <= f[<<i, j>>]
        /\ j # M => f[<<i, j + 1>>] <= f[<<i, j>>]
    BY <1>2 DEF Stepwise
  <1>4. i # N /\ j # M /\ from[i + 1] = to[j + 1] => f[<<i, j>>] = f[<<i + 1, j + 1>>] + 1
    BY <1>2 DEF LcsAt
  <1>. QED
    BY <1>1, <1>3, <1>4

\* Two equal elements before a point add one to what is in common after it.
LEMMA LcsBefore ==
  ASSUME TypeOK, NEW f, IsLcs(f), NEW i \in 1..N, NEW j \in 1..M, from[i] = to[j]
  PROVE  f[<<i - 1, j - 1>>] = f[<<i, j>>] + 1
  <1>. DEFINE a == i - 1
              b == j - 1
  <1>1. N \in Nat /\ M \in Nat
    BY LengthsNat
  <1>2. a \in 0..N /\ b \in 0..M /\ a < N /\ b < M /\ a + 1 = i /\ b + 1 = j
    BY <1>1
  <1>. HIDE DEF a, b
  <1>3. from[a + 1] = to[b + 1]
    BY <1>2
  <1>4. f[<<a, b>>] = f[<<a + 1, b + 1>>] + 1
    BY <1>2, <1>3, LcsAround
  <1>5. f[<<a, b>>] = f[<<i, j>>] + 1
    BY <1>2, <1>4
  <1>. QED
    BY <1>5 DEF a, b

\* One edit more is collected.
LEMMA Collected ==
  ASSUME TypeOK, NEW e \in Edit, edits' = Append(edits, e)
  PROVE  /\ Len(edits) \in Nat
         /\ DOMAIN edits = 1..Len(edits) /\ DOMAIN edits' = 1..(Len(edits) + 1)
         /\ Len(edits') = Len(edits) + 1 /\ edits'[Len(edits) + 1] = e
         /\ \A p \in 1..Len(edits) : edits'[p] = edits[p] /\ edits[p] \in Edit
         /\ Equals' = IF e.typ = "equal" THEN Equals \cup {Len(edits) + 1} ELSE Equals
         /\ Cardinality(Equals) \in Nat
         /\ Cardinality(Equals') = Cardinality(Equals) + (IF e.typ = "equal" THEN 1 ELSE 0)
  <1>1. /\ Len(edits) \in Nat
        /\ DOMAIN edits = 1..Len(edits) /\ DOMAIN edits' = 1..(Len(edits) + 1)
        /\ Len(edits') = Len(edits) + 1 /\ edits'[Len(edits) + 1] = e
        /\ \A p \in 1..Len(edits) : edits'[p] = edits[p] /\ edits[p] \in Edit
    BY DEF TypeOK
  <1>2. 1..(Len(edits) + 1) = 1..Len(edits) \cup {Len(edits) + 1} /\ Len(edits) + 1 \notin 1..Len(edits)
    BY <1>1
  <1>3. Equals' = (IF e.typ = "equal" THEN Equals \cup {Len(edits) + 1} ELSE Equals)
        /\ Len(edits) + 1 \notin Equals
    BY <1>1, <1>2 DEF Equals
  <1>4. IsFiniteSet(Equals) /\ Cardinality(Equals) \in Nat
    BY EqualsFinite
  <1>5. Cardinality(Equals') = Cardinality(Equals) + (IF e.typ = "equal" THEN 1 ELSE 0)
    <2>1. e.typ = "equal" => Cardinality(Equals') = Cardinality(Equals) + 1
      BY <1>3, <1>4, FS_AddElement
    <2>. QED
      BY <1>3, <1>4, <2>1
  <1>. QED
    BY <1>1, <1>3, <1>4, <1>5

\* Going back over equal elements.
LEMMA ApartBackEqual ==
  ASSUME IInv, IInv', BackEqual, NEW f, IsLcs(f), ApartMin(f) PROVE ApartMin(f)'
  <1>. DEFINE e == [typ |-> "equal", fromIx |-> x - 1, toIx |-> y - 1]
  <1>1. /\ pc = "backward" /\ pc' = "backward" /\ UNCHANGED <<from, to>>
        /\ x' = x - 1 /\ y' = y - 1 /\ edits' = Append(edits, e)
    BY DEF BackEqual
  <1>2. TypeOK /\ TypeOK'
    BY DEF IInv
  <1>3. N \in Nat /\ M \in Nat /\ N' = N /\ M' = M /\ x - 1 \in 0..N /\ y - 1 \in 0..M /\ x \in 0..N /\ y \in 0..M
    BY <1>1, <1>2, LengthsNat DEF TypeOK, N, M
  <1>4. e \in Edit /\ e.typ = "equal"
    BY <1>3 DEF Edit
  <1>5. from[x] = to[y]
    <2>1. \A p \in DOMAIN edits' : edits'[p].typ = "equal" => from[edits'[p].fromIx + 1] = to[edits'[p].toIx + 1]
      BY <1>1 DEF IInv, EditsInv, EqualAreEqual
    <2>2. Len(edits) + 1 \in DOMAIN edits' /\ edits'[Len(edits) + 1] = e
      BY <1>1, <1>2, <1>4, Collected
    <2>3. e.fromIx + 1 = x /\ e.toIx + 1 = y
      BY <1>3
    <2>. QED
      BY <1>4, <2>1, <2>2, <2>3
  <1>. HIDE DEF e
  <1>6. /\ Len(edits) \in Nat
        /\ DOMAIN edits = 1..Len(edits) /\ DOMAIN edits' = 1..(Len(edits) + 1)
        /\ Len(edits') = Len(edits) + 1 /\ edits'[Len(edits) + 1] = e
        /\ \A p \in 1..Len(edits) : edits'[p] = edits[p]
        /\ Cardinality(Equals) \in Nat /\ Cardinality(Equals') = Cardinality(Equals) + 1
    BY <1>1, <1>2, <1>4, Collected
  <1>7. f[<<x - 1, y - 1>>] = f[<<x, y>>] + 1 /\ f[<<x, y>>] \in Nat
    <2>1. x \in 1..N /\ y \in 1..M
      BY <1>3
    <2>. QED
      BY <1>2, <1>3, <1>5, <2>1, LcsAround, LcsBefore
  <1>8. Cardinality(Equals) <= f[<<x, y>>] /\ (~BackApart => Cardinality(Equals) < f[<<x, y>>])
    BY <1>1 DEF ApartMin
  <1>9. BackApart => BackApart'
    BY <1>1, <1>4, <1>6 DEF BackApart, FromOf, ToOf
  <1>10. Cardinality(Equals') <= f[<<x', y'>>] /\ (~BackApart' => Cardinality(Equals') < f[<<x', y'>>])
    BY <1>1, <1>6, <1>7, <1>8, <1>9
  <1>11. edits'[Len(edits')].typ # "add"
    BY <1>4, <1>6
  <1>. QED
    BY <1>1, <1>10, <1>11 DEF ApartMin

\* Going back over an edit; the one that could have been kept would cost one.
LEMMA ApartBackEdit ==
  ASSUME IInv, IInv', BackEdit, NEW f, IsLcs(f), ApartMin(f) PROVE ApartMin(f)'
  <1>1. /\ pc = "backward" /\ pc' = "backward" /\ UNCHANGED <<from, to>>
        /\ \/ x' = x /\ y' = y - 1 /\ edits' = Append(edits, [typ |-> "add", fromIx |-> 0, toIx |-> y - 1])
           \/ x' = x - 1 /\ y' = y /\ edits' = Append(edits, [typ |-> "remove", fromIx |-> x - 1, toIx |-> 0])
    BY DEF BackEdit
  <1>2. TypeOK /\ TypeOK'
    BY DEF IInv
  <1>3. N \in Nat /\ M \in Nat /\ N' = N /\ M' = M /\ x \in 0..N /\ y \in 0..M /\ x' \in 0..N /\ y' \in 0..M
    BY <1>1, <1>2, LengthsNat DEF TypeOK, N, M
  <1>4. Cardinality(Equals) <= f[<<x, y>>] /\ (~BackApart => Cardinality(Equals) < f[<<x, y>>])
    BY <1>1 DEF ApartMin
  <1>5. f[<<x, y>>] \in Nat
    BY <1>2, <1>3, LcsAround
  <1>6. CASE x' = x /\ y' = y - 1 /\ edits' = Append(edits, [typ |-> "add", fromIx |-> 0, toIx |-> y - 1])
    <2>. DEFINE e == [typ |-> "add", fromIx |-> 0, toIx |-> y - 1]
    <2>1. e \in Edit /\ e.typ = "add" /\ e.toIx = y - 1 /\ edits' = Append(edits, e)
      BY <1>3, <1>6 DEF Edit
    <2>. HIDE DEF e
    <2>2. /\ Len(edits) \in Nat
          /\ DOMAIN edits = 1..Len(edits) /\ DOMAIN edits' = 1..(Len(edits) + 1)
          /\ Len(edits') = Len(edits) + 1 /\ edits'[Len(edits) + 1] = e
          /\ \A p \in 1..Len(edits) : edits'[p] = edits[p]
          /\ Cardinality(Equals) \in Nat /\ Cardinality(Equals') = Cardinality(Equals)
      BY <1>2, <2>1, Collected
    <2>3. f[<<x, y>>] <= f[<<x, y - 1>>] /\ f[<<x, y - 1>>] \in Nat
      <3>1. y - 1 \in 0..M /\ y - 1 < M /\ (y - 1) + 1 = y
        BY <1>3, <1>6
      <3>. QED
        BY <1>2, <1>3, <3>1, LcsAround
    <2>4. BackApart => BackApart'
      BY <1>1, <2>1, <2>2 DEF BackApart, FromOf, ToOf
    <2>5. /\ Cardinality(Equals') <= f[<<x, y - 1>>]
          /\ ~BackApart' => Cardinality(Equals') < f[<<x, y - 1>>]
          /\ Cardinality(Equals') <= f[<<x, y>>]
      BY <1>4, <1>5, <2>2, <2>3, <2>4
    <2>6. edits'[Len(edits')].toIx = y' /\ y' < M' /\ y' + 1 = y
      BY <1>3, <1>6, <2>1, <2>2
    <2>. QED
      BY <1>1, <1>6, <2>5, <2>6 DEF ApartMin
  <1>7. CASE x' = x - 1 /\ y' = y /\ edits' = Append(edits, [typ |-> "remove", fromIx |-> x - 1, toIx |-> 0])
    <2>. DEFINE e == [typ |-> "remove", fromIx |-> x - 1, toIx |-> 0]
                n == Len(edits)
    <2>1. e \in Edit /\ e.typ = "remove" /\ e.fromIx = x - 1 /\ edits' = Append(edits, e)
      BY <1>3, <1>7 DEF Edit
    <2>. HIDE DEF e
    <2>2. /\ n \in Nat /\ n = Len(edits)
          /\ DOMAIN edits = 1..n /\ DOMAIN edits' = 1..(n + 1)
          /\ Len(edits') = n + 1 /\ edits'[n + 1] = e
          /\ \A p \in 1..n : edits'[p] = edits[p]
          /\ Cardinality(Equals) \in Nat /\ Cardinality(Equals') = Cardinality(Equals)
      BY <1>2, <2>1, Collected
    <2>. HIDE DEF n
    <2>3. f[<<x, y>>] <= f[<<x - 1, y>>] /\ f[<<x - 1, y>>] \in Nat
      <3>1. x - 1 \in 0..N /\ x - 1 < N /\ (x - 1) + 1 = x
        BY <1>3, <1>7
      <3>. QED
        BY <1>2, <1>3, <3>1, LcsAround
    <2>4. CASE n > 0 /\ edits[n].typ = "add" /\ from[x] = to[y + 1]
      <3>1. edits # <<>> /\ n = Len(edits)
        BY <2>2, <2>4
      <3>2. y < M /\ Cardinality(Equals) <= f[<<x, y + 1>>]
        BY <1>1, <2>4, <3>1 DEF ApartMin
      <3>3. f[<<x - 1, y>>] = f[<<x, y + 1>>] + 1 /\ f[<<x, y + 1>>] \in Nat
        <4>1. x \in 1..N /\ y + 1 \in 1..M /\ y + 1 \in 0..M /\ (y + 1) - 1 = y
          BY <1>3, <1>7, <3>2
        <4>2. f[<<x, y + 1>>] \in Nat
          BY <1>2, <1>3, <4>1, LcsAround
        <4>3. f[<<x - 1, (y + 1) - 1>>] = f[<<x, y + 1>>] + 1
          BY <1>2, <2>4, <4>1, LcsBefore
        <4>. QED
          BY <4>1, <4>2, <4>3
      <3>4. Cardinality(Equals') < f[<<x - 1, y>>]
        BY <2>2, <3>2, <3>3
      <3>5. Cardinality(Equals') <= f[<<x - 1, y>>]
        BY <2>2, <2>3, <3>4
      <3>6. edits'[Len(edits')].typ # "add"
        BY <2>1, <2>2
      <3>. QED
        BY <1>1, <1>7, <3>4, <3>5, <3>6 DEF ApartMin
    <2>5. CASE ~(n > 0 /\ edits[n].typ = "add" /\ from[x] = to[y + 1])
      <3>1. BackApart => BackApart'
        <4>1. ASSUME BackApart, NEW p \in 1..(n + 1), p + 1 \in 1..(n + 1),
                     edits'[p].typ = "add", edits'[p + 1].typ = "remove"
              PROVE  from[edits'[p + 1].fromIx + 1] # to[edits'[p].toIx + 1]
          <5>1. CASE p + 1 = n + 1
            <6>1. p = n /\ n > 0 /\ n \in 1..n
              <7>1. n \in Nat /\ p \in Int /\ p >= 1
                BY <2>2
              <7>. QED
                BY <5>1, <7>1
            <6>2. edits # <<>> /\ edits[n].typ = "add" /\ edits'[n] = edits[n]
              BY <2>2, <4>1, <6>1
            <6>3. edits[n].toIx = y
              BY <1>1, <2>2, <6>2 DEF ApartMin
            <6>4. edits'[p + 1].fromIx + 1 = x
              BY <1>3, <2>1, <2>2, <5>1
            <6>. QED
              BY <2>5, <6>1, <6>2, <6>3, <6>4
          <5>2. CASE p + 1 # n + 1
            <6>1. p \in 1..n /\ p + 1 \in 1..n
              BY <2>2, <4>1, <5>2
            <6>. QED
              BY <2>2, <4>1, <6>1 DEF BackApart, FromOf, ToOf
          <5>. QED
            BY <5>1, <5>2
        <4>. QED
          BY <1>1, <2>2, <4>1 DEF BackApart, FromOf, ToOf
      <3>2. /\ Cardinality(Equals') <= f[<<x - 1, y>>]
            /\ ~BackApart' => Cardinality(Equals') < f[<<x - 1, y>>]
        BY <1>4, <1>5, <2>2, <2>3, <3>1
      <3>3. edits'[Len(edits')].typ # "add"
        BY <2>1, <2>2
      <3>. QED
        BY <1>1, <1>7, <3>2, <3>3 DEF ApartMin
    <2>. QED
      BY <2>4, <2>5
  <1>. QED
    BY <1>1, <1>6, <1>7

\* At the origin the script is reversed, and as long as it can be.
LEMMA ApartBackEnd ==
  ASSUME IInv, BackEnd, NEW f, IsLcs(f), BackwardMin(f), ApartMin(f) PROVE ApartMin(f)'
  <1>1. /\ pc = "backward" /\ pc' = "done" /\ UNCHANGED <<from, to, x, y>>
        /\ edits' = [i \in 1..Len(edits) |-> edits[Len(edits) + 1 - i]]
        /\ Len(edits) \in Nat /\ DOMAIN edits = 1..Len(edits)
    BY DEF BackEnd, reverseSequenceEdits, IInv, TypeOK
  <1>2. BackApart
    <2>1. x = 0 /\ y = 0 /\ Cardinality(Equals) = f[<<0, 0>>]
      BY AtOrigin
    <2>2. Cardinality(Equals) \in Nat
      BY EqualsFinite DEF IInv
    <2>. QED
      BY <1>1, <2>1, <2>2 DEF ApartMin
  <1>3. Apart'
    <2>1. ASSUME NEW p \in 1..Len(edits), p + 1 \in 1..Len(edits),
                 edits'[p].typ = "remove", edits'[p + 1].typ = "add"
          PROVE  from[edits'[p].fromIx + 1] # to[edits'[p + 1].toIx + 1]
      <3>. DEFINE n == Len(edits)
                  q == n - p
      <3>1. q \in 1..n /\ q + 1 \in 1..n /\ n + 1 - p = q + 1 /\ n + 1 - (p + 1) = q
        <4>1. n \in Nat /\ p \in 1..n /\ p + 1 \in 1..n
          BY <1>1, <2>1
        <4>. HIDE DEF n
        <4>. QED
          BY <4>1
      <3>2. edits'[p] = edits[q + 1] /\ edits'[p + 1] = edits[q]
        BY <1>1, <2>1, <3>1
      <3>. QED
        BY <1>1, <1>2, <2>1, <3>1, <3>2 DEF BackApart, FromOf, ToOf
    <2>. QED
      BY <1>1, <2>1 DEF Apart, FromOf, ToOf
  <1>. QED
    BY <1>1, <1>3 DEF ApartMin

\* In the states before there is a script, and in those in which there is one.
LEMMA ApartStep ==
  ASSUME IInv, IInv', MinInv, ApartInv, [Next]_vars PROVE ApartInv'
  <1>1. UNCHANGED <<from, to>>
    BY DEF Next, Extend, NextRound, BackEqual, BackEdit, BackEnd, vars
  <1>2. ASSUME NEW f PROVE IsLcs(f)' <=> IsLcs(f)
    BY <1>1 DEF IsLcs, LcsAt, Grid, N, M
  <1>3. ASSUME NEW f, IsLcs(f) PROVE ApartMin(f)'
    <2>1. ApartMin(f) /\ BackwardMin(f)
      BY <1>3 DEF ApartInv, MinInv
    <2>2. CASE Extend
      <3>1. /\ pc = "forward" /\ UNCHANGED <<x, y, edits>>
            /\ pc' \in {"forward", "backward"}
        BY <2>2 DEF Extend
      <3>2. /\ N \in Nat /\ M \in Nat /\ x = N /\ y = M /\ edits = <<>>
        BY <3>1, LengthsNat DEF IInv, RoundInv
      <3>3. edits' = <<>> /\ Equals' = {} /\ x' = N /\ y' = M
        BY <3>1, <3>2 DEF Equals
      <3>4. Cardinality(Equals') = 0
        BY <3>3, FS_EmptySet
      <3>5. f[<<N, M>>] \in Nat
        <4>1. N \in 0..N /\ M \in 0..M
          BY <3>2
        <4>. QED
          BY <1>3, <4>1, LcsAround DEF IInv
      <3>6. BackApart'
        BY <3>3 DEF BackApart
      <3>7. Cardinality(Equals') <= f[<<x', y'>>]
        BY <3>3, <3>4, <3>5
      <3>. QED
        BY <3>1, <3>3, <3>6, <3>7 DEF ApartMin
    <2>3. CASE NextRound
      <3>1. pc' \in {"forward", "nil"}
        BY <2>3 DEF NextRound
      <3>. QED
        BY <3>1 DEF ApartMin
    <2>4. CASE BackEqual
      BY <1>3, <2>1, <2>4, ApartBackEqual
    <2>5. CASE BackEdit
      BY <1>3, <2>1, <2>5, ApartBackEdit
    <2>6. CASE BackEnd
      BY <1>3, <2>1, <2>6, ApartBackEnd
    <2>7. CASE UNCHANGED vars
      BY <2>1, <2>7 DEF vars, ApartMin, Equals, BackApart, Apart, FromOf, ToOf, M
    <2>. QED
      BY <2>2, <2>3, <2>4, <2>5, <2>6, <2>7 DEF Next
  <1>. QED
    BY <1>2, <1>3 DEF ApartInv

\* A script is complete, shortest and apart.
LEMMA ScriptInductive == Init /\ [][Next]_vars => []ScriptInv
  <1>1. Init => ApartInv
    <2>. SUFFICES ASSUME Init, NEW f PROVE ApartMin(f)
      BY DEF ApartInv
    <2>1. edits = <<>> /\ pc # "backward"
      BY DEF Init
    <2>. QED
      BY <2>1 DEF ApartMin, Apart
  <1>2. IInv /\ IInv' /\ MinInv /\ ApartInv /\ [Next]_vars => ApartInv'
    BY ApartStep
  <1>. QED
    BY <1>1, <1>2, MinInductive, PTL DEF ScriptInv

-----------------------------------------------------------------------------
(* What holds while the answer is built from the script.                   *)

BlockItem == [status : {"unchanged", "modified", "removed", "added"}, fromIx : Int, toIx : Int]
LineItem == [operation : {"context", "removed", "added"}, fromIx : Int, toIx : Int]
ChunkItem == [operation : {"equal", "removed", "added"}, text : Seq(Elements)]

AnswerTyped ==
  /\ stage \in {"blocks", "lines", "text", "sides", "shown"}
  /\ at \in Nat \ {0}
  /\ stage \in {"blocks", "lines", "text"} => at <= Len(edits) + 1
  /\ stage = "sides" => at <= Len(chunks) + 1
  /\ blocks \in Seq(BlockItem)
  /\ lines \in Seq(LineItem)
  /\ removed \in Seq(Nat)
  /\ added \in Seq(Nat)
  /\ chunks \in Seq(ChunkItem)
  /\ projected \in [Sides -> Seq(ChunkItem)]

\* The indexes that the edits before the n-th show of a side.
Seen(side, n) ==
  {IndexOn(side, edits[p]) : p \in {q \in DOMAIN edits : q < n /\ ShownOn(side, edits[q])}}

Waiting == pc # "done" => stage = "blocks"

\* Before a loop begins, nothing is there; it has listed what it has seen; and
\* what it has listed stays.
BlocksInv ==
  /\ stage = "blocks" => \A side \in Sides : Lists(Column(side, blocks), Seen(side, at))
  /\ stage # "blocks" => ReadsBothSides(blocks)
  /\ pc # "done" => blocks = <<>> /\ at = 1
  /\ \A i \in DOMAIN blocks :
       /\ blocks[i].status = "unchanged" => FromOf(blocks[i]) = ToOf(blocks[i])
       /\ blocks[i].status = "modified" =>
            /\ FromOf(blocks[i]) # ToOf(blocks[i])
            /\ TypeOf[FromOf(blocks[i])] = TypeOf[ToOf(blocks[i])]

Pending(side) == IF side = "from" THEN removed ELSE added

\* The indexes of S are shown in part, the rest is pending and comes after them.
Splits(shown, pending, S) ==
  \E part \in SUBSET S :
    /\ Lists(shown, part)
    /\ Lists(pending, S \ part)
    /\ \A i \in part, j \in S \ part : i < j

LinesInv ==
  /\ stage = "blocks" => lines = <<>> /\ removed = <<>> /\ added = <<>>
  /\ stage = "lines" =>
       \A side \in Sides : Splits(Column(side, lines), Pending(side), Seen(side, at))
  /\ stage \in {"text", "sides", "shown"} => ReadsBothSides(lines)
  /\ \A i \in DOMAIN lines : lines[i].operation = "context" => FromOf(lines[i]) = ToOf(lines[i])

\* cut is where the chunks that this side has end in its text, of which they
\* are the first n words.
IsCut(cut, side, cs, n) ==
  /\ cut \in [0..Len(cs) -> 0..n]
  /\ cut[0] = 0
  /\ cut[Len(cs)] = n
  /\ \A i \in 1..Len(cs) :
       /\ cut[i - 1] <= cut[i]
       /\ IF cs[i].operation \in Operations(side)
            THEN cs[i].text = SubSeq(TextOn(side), cut[i - 1] + 1, cut[i])
            ELSE cut[i] = cut[i - 1]

Cuts(side, cs, n) == \E cut : IsCut(cut, side, cs, n)

TextInv ==
  /\ stage \in {"blocks", "lines"} => chunks = <<>>
  /\ stage = "text" =>
       \A side \in Sides : \A n \in Nat : Seen(side, at) = 0..(n - 1) => Cuts(side, chunks, n)
  /\ stage \in {"sides", "shown"} =>
       \A side \in Sides : Cuts(side, chunks, Len(TextOn(side)))
  /\ Alternates(chunks)

SidesInv ==
  /\ stage \in {"blocks", "lines", "text"} => projected = [side \in Sides |-> <<>>]
  /\ stage = "sides" =>
       \A side \in Sides :
         \E cut : /\ IsCut(cut, side, chunks, Len(TextOn(side)))
                  /\ Cuts(side, projected[side], cut[at - 1])
  /\ stage = "shown" => \A side \in Sides : Cuts(side, projected[side], Len(TextOn(side)))
  /\ \A side \in Sides :
       /\ Alternates(projected[side])
       /\ \A i \in DOMAIN projected[side] : projected[side][i].operation \in Operations(side)

AnswerInv == AnswerTyped /\ Waiting /\ BlocksInv /\ LinesInv /\ TextInv /\ SidesInv

-----------------------------------------------------------------------------
\* An item of the other side changes nothing; one of this side comes last.
LEMMA ListsAppend ==
  ASSUME NEW s \in Seq(Int), NEW S, Lists(s, S), NEW v \in Int
  PROVE  /\ v = None => Lists(Append(s, v), S)
         /\ v # None /\ (\A u \in S : u < v) => Lists(Append(s, v), S \union {v})
  <1>. DEFINE n == Len(s)
              t == Append(s, v)
  <1>1. /\ n \in Nat /\ DOMAIN s = 1..n /\ DOMAIN t = 1..(n + 1) /\ t[n + 1] = v
        /\ \A i \in 1..n : t[i] = s[i] /\ s[i] \in Int
    OBVIOUS
  <1>2. 1..(n + 1) = 1..n \union {n + 1}
    BY <1>1
  <1>3. {t[i] : i \in DOMAIN t} = {s[i] : i \in DOMAIN s} \union {v}
    <2>. HIDE DEF t, n
    <2>. QED
      BY <1>1, <1>2
  <1>4. \A i, j \in 1..n : i < j /\ s[i] # None /\ s[j] # None => s[i] < s[j]
    BY <1>1 DEF Lists
  <1>5. \A i \in 1..n : s[i] # None => s[i] \in S
    BY <1>1 DEF Lists
  <1>6. {s[i] : i \in DOMAIN s} \ {None} = S
    BY DEF Lists
  <1>7. ASSUME v = None \/ \A u \in S : u < v
        PROVE  \A i, j \in 1..(n + 1) : i < j /\ t[i] # None /\ t[j] # None => t[i] < t[j]
    <2>. SUFFICES ASSUME NEW i \in 1..(n + 1), NEW j \in 1..(n + 1), i < j, t[i] # None, t[j] # None
                  PROVE  t[i] < t[j]
      OBVIOUS
    <2>. HIDE DEF n, t
    <2>1. i \in 1..n
      BY <1>1
    <2>2. CASE j = n + 1
      BY <1>1, <1>5, <1>7, <2>1, <2>2
    <2>3. CASE j # n + 1
      BY <1>1, <1>2, <1>4, <2>1, <2>3
    <2>. QED
      BY <2>2, <2>3
  <1>. HIDE DEF n, t
  <1>8. v = None => Lists(t, S)
    BY <1>1, <1>3, <1>6, <1>7 DEF Lists
  <1>9. v # None /\ (\A u \in S : u < v) => Lists(t, S \union {v})
    BY <1>1, <1>3, <1>6, <1>7 DEF Lists
  <1>. QED
    BY <1>8, <1>9 DEF t

\* Nothing lists nothing.
LEMMA ListsNothing == Lists(<<>>, {})
  BY DEF Lists

\* What is listed, and only that, is in the set.
LEMMA ListsElements ==
  ASSUME NEW s, NEW S, Lists(s, S)
  PROVE  /\ S = {s[i] : i \in DOMAIN s} \ {None}
         /\ \A i \in DOMAIN s : s[i] # None => s[i] \in S
         /\ \A v \in S : v # None /\ \E i \in DOMAIN s : s[i] = v
  BY DEF Lists

\* The first of those that are pending is shown.
LEMMA SplitsShow ==
  ASSUME NEW s \in Seq(Int), NEW t \in Seq(Nat), t # <<>>, NEW S, Splits(s, t, S)
  PROVE  Splits(Append(s, Head(t)), Tail(t), S)
  <1>1. PICK part \in SUBSET S : /\ Lists(s, part) /\ Lists(t, S \ part)
                                 /\ \A i \in part, j \in S \ part : i < j
    BY DEF Splits
  <1>. DEFINE h == Head(t)
              u == Tail(t)
              rest == S \ part
              more == part \union {h}
  <1>2. /\ Len(t) \in Nat /\ Len(t) > 0 /\ DOMAIN t = 1..Len(t) /\ h = t[1] /\ h \in Nat
        /\ u \in Seq(Nat) /\ DOMAIN u = 1..(Len(t) - 1)
        /\ \A i \in DOMAIN t : t[i] \in Nat
        /\ \A i \in DOMAIN u : i + 1 \in DOMAIN t /\ u[i] = t[i + 1]
        /\ \A i \in DOMAIN t : i # 1 => i - 1 \in DOMAIN u /\ u[i - 1] = t[i]
    OBVIOUS
  <1>. HIDE DEF h, u
  <1>3. h # None /\ h \in Int /\ 1 \in DOMAIN t /\ h \in rest
    BY <1>1, <1>2, ListsElements DEF None
  <1>4. \A i, j \in DOMAIN t : i < j => t[i] < t[j]
    <2>1. \A i \in DOMAIN t : t[i] # None
      BY <1>2 DEF None
    <2>. QED
      BY <1>1, <2>1 DEF Lists
  <1>5. Lists(Append(s, h), more)
    BY <1>1, <1>3, ListsAppend
  <1>6. \A i \in DOMAIN u : u[i] > h /\ u[i] \in rest /\ u[i] \in Nat
    <2>. SUFFICES ASSUME NEW i \in DOMAIN u PROVE u[i] > h /\ u[i] \in rest /\ u[i] \in Nat
      OBVIOUS
    <2>1. i + 1 \in DOMAIN t /\ u[i] = t[i + 1] /\ 1 < i + 1 /\ t[i + 1] \in Nat
      BY <1>2
    <2>2. t[1] < t[i + 1]
      BY <1>3, <1>4, <2>1
    <2>3. t[i + 1] \in rest
      BY <1>1, <2>1, ListsElements DEF None
    <2>. QED
      BY <1>2, <2>1, <2>2, <2>3
  <1>7. {u[i] : i \in DOMAIN u} \ {None} = rest \ {h}
    <2>1. ASSUME NEW v \in rest \ {h} PROVE v \in {u[i] : i \in DOMAIN u} /\ v # None
      <3>1. PICK i \in DOMAIN t : t[i] = v
        BY <1>1, ListsElements
      <3>2. v # None /\ i # 1
        BY <1>1, <1>2, <2>1, <3>1, ListsElements
      <3>. QED
        BY <1>2, <3>1, <3>2
    <2>2. ASSUME NEW i \in DOMAIN u PROVE u[i] \in rest \ {h}
      BY <1>2, <1>6
    <2>. QED
      BY <2>1, <2>2
  <1>8. \A i, j \in DOMAIN u : i < j => u[i] < u[j]
    <2>. SUFFICES ASSUME NEW i \in DOMAIN u, NEW j \in DOMAIN u, i < j PROVE u[i] < u[j]
      OBVIOUS
    <2>1. i + 1 \in DOMAIN t /\ j + 1 \in DOMAIN t /\ i + 1 < j + 1 /\ u[i] = t[i + 1] /\ u[j] = t[j + 1]
      BY <1>2
    <2>. QED
      BY <1>4, <2>1
  <1>9. Lists(u, rest \ {h})
    BY <1>7, <1>8 DEF Lists
  <1>10. more \in SUBSET S /\ S \ more = rest \ {h}
    BY <1>3
  <1>11. \A i \in more, j \in S \ more : i < j
    <2>. SUFFICES ASSUME NEW i \in more, NEW j \in rest \ {h} PROVE i < j
      BY <1>10
    <2>1. CASE i \in part
      BY <1>1, <2>1
    <2>2. CASE i = h
      <3>1. PICK l \in DOMAIN u : u[l] = j
        BY <1>7
      <3>. QED
        BY <1>2, <1>6, <2>2, <3>1
    <2>. QED
      BY <2>1, <2>2
  <1>12. Lists(u, S \ more)
    BY <1>9, <1>10
  <1>. HIDE DEF more, rest
  <1>13. Splits(Append(s, h), u, S)
    BY <1>5, <1>10, <1>11, <1>12 DEF Splits
  <1>. QED
    BY <1>13 DEF h, u

\* A place of the other side comes between.
LEMMA SplitsNone ==
  ASSUME NEW s \in Seq(Int), NEW t, NEW S, Splits(s, t, S)
  PROVE  Splits(Append(s, None), t, S)
  <1>1. PICK part \in SUBSET S : /\ Lists(s, part) /\ Lists(t, S \ part)
                                 /\ \A i \in part, j \in S \ part : i < j
    BY DEF Splits
  <1>2. Lists(Append(s, None), part)
    <2>1. None \in Int
      BY DEF None
    <2>. QED
      BY <1>1, <2>1, ListsAppend
  <1>. QED
    BY <1>1, <1>2 DEF Splits

\* One more is pending.
LEMMA SplitsCollect ==
  ASSUME NEW s, NEW t \in Seq(Nat), NEW S, Splits(s, t, S), NEW v \in Nat, \A u \in S : u < v
  PROVE  Splits(s, Append(t, v), S \union {v})
  <1>1. PICK part \in SUBSET S : /\ Lists(s, part) /\ Lists(t, S \ part)
                                 /\ \A i \in part, j \in S \ part : i < j
    BY DEF Splits
  <1>2. t \in Seq(Int) /\ v \in Int /\ v # None
    BY DEF None
  <1>3. Lists(Append(t, v), (S \ part) \union {v})
    BY <1>1, <1>2, ListsAppend
  <1>4. v \notin S
    BY <1>2
  <1>5. (S \union {v}) \ part = (S \ part) \union {v} /\ part \in SUBSET (S \union {v})
    BY <1>4
  <1>6. \A i \in part, j \in (S \union {v}) \ part : i < j
    BY <1>1, <1>5
  <1>. QED
    BY <1>1, <1>3, <1>5, <1>6 DEF Splits

\* Nothing is pending: all are shown.
LEMMA SplitsDone ==
  ASSUME NEW s, NEW S
  PROVE  Splits(s, <<>>, S) <=> Lists(s, S)
  <1>1. ASSUME Splits(s, <<>>, S) PROVE Lists(s, S)
    <2>1. PICK part \in SUBSET S : Lists(s, part) /\ Lists(<<>>, S \ part)
      BY <1>1 DEF Splits
    <2>2. S \ part = {}
      BY <2>1 DEF Lists
    <2>3. S = part
      BY <2>2
    <2>. QED
      BY <2>1, <2>3
  <1>2. ASSUME Lists(s, S) PROVE Splits(s, <<>>, S)
    <2>1. S \ S = {}
      OBVIOUS
    <2>2. Lists(<<>>, S \ S)
      BY <2>1, ListsNothing
    <2>3. \A i \in S, j \in S \ S : i < j
      BY <2>1
    <2>4. S \in SUBSET S
      OBVIOUS
    <2>. QED
      BY <1>2, <2>2, <2>3, <2>4 DEF Splits
  <1>. QED
    BY <1>1, <1>2

\* A column grows with the items.
LEMMA ColumnAppend ==
  ASSUME NEW I, \A e \in I : e.fromIx \in Int /\ e.toIx \in Int,
         NEW items \in Seq(I), NEW item \in I, NEW side
  PROVE  /\ Column(side, items) \in Seq(Int)
         /\ IndexOn(side, item) \in Int
         /\ Column(side, Append(items, item)) = Append(Column(side, items), IndexOn(side, item))
  <1>1. \A e \in I : IndexOn(side, e) \in Int
    BY DEF IndexOn
  <1>. DEFINE n == Len(items)
              c == Column(side, items)
              more == Append(items, item)
  <1>2. /\ n \in Nat /\ DOMAIN items = 1..n /\ \A i \in 1..n : items[i] \in I /\ more[i] = items[i]
        /\ DOMAIN more = 1..(n + 1) /\ more[n + 1] = item
    OBVIOUS
  <1>. HIDE DEF more, n
  <1>3. c = [i \in 1..n |-> IndexOn(side, items[i])]
    BY <1>2 DEF Column
  <1>4. c \in Seq(Int) /\ Len(c) = n
    BY <1>1, <1>2, <1>3
  <1>5. Column(side, more) = [i \in 1..(n + 1) |-> IndexOn(side, more[i])]
    BY <1>2 DEF Column
  <1>. HIDE DEF c
  <1>6. \A i \in 1..(n + 1) : IndexOn(side, more[i]) = Append(c, IndexOn(side, item))[i]
    BY <1>2, <1>3, <1>4
  <1>7. Column(side, more) = Append(c, IndexOn(side, item))
    <2>. DEFINE v == IndexOn(side, item)
                g == Append(c, v)
    <2>1. v \in Int
      BY <1>1
    <2>2. Len(g) = n + 1 /\ g \in Seq(Int)
      BY <1>2, <1>4, <2>1
    <2>. HIDE DEF g
    <2>3. g = [i \in 1..(n + 1) |-> g[i]]
      BY <2>2
    <2>4. \A i \in 1..(n + 1) : IndexOn(side, more[i]) = g[i]
      BY <1>6 DEF g
    <2>5. Column(side, more) = g
      BY <1>5, <2>3, <2>4
    <2>. QED
      BY <2>5 DEF g
  <1>. QED
    BY <1>1, <1>4, <1>7 DEF c, more

\* Without items a column is empty.
LEMMA ColumnNothing == ASSUME NEW side PROVE Column(side, <<>>) = <<>>
  BY DEF Column

-----------------------------------------------------------------------------
\* What is known of a script and of either of its sides.
Script ==
  /\ pc = "done"
  /\ from \in Seq(Elements) /\ to \in Seq(Elements)
  /\ Len(edits) \in Nat /\ DOMAIN edits = 1..Len(edits)
  /\ \A p \in DOMAIN edits : edits[p] \in Edit
  /\ \A p \in DOMAIN edits : edits[p].typ = "equal" => FromOf(edits[p]) = ToOf(edits[p])
  /\ Apart

Shows(side) ==
  /\ Len(TextOn(side)) \in Nat
  /\ \A p, q \in DOMAIN edits :
       p < q /\ ShownOn(side, edits[p]) /\ ShownOn(side, edits[q]) =>
         IndexOn(side, edits[p]) < IndexOn(side, edits[q])
  /\ \A p \in DOMAIN edits :
       /\ IndexOn(side, edits[p]) \in Nat
       /\ ShownOn(side, edits[p]) => IndexOn(side, edits[p]) \in 0..(Len(TextOn(side)) - 1)
  /\ \A i \in 0..(Len(TextOn(side)) - 1) :
       \E p \in DOMAIN edits : ShownOn(side, edits[p]) /\ IndexOn(side, edits[p]) = i

\* The search gives both sides of a script.
LEMMA ScriptShows ==
  ASSUME ScriptInv, pc = "done"
  PROVE  Script /\ \A side \in Sides : Shows(side)
  <1>1. TypeOK /\ ScriptReadsBothWays /\ MinInv /\ ApartInv
    BY DEF ScriptInv, IInv
  <1>2. /\ from \in Seq(Elements) /\ to \in Seq(Elements)
        /\ N \in Nat /\ M \in Nat /\ N = Len(from) /\ M = Len(to)
        /\ Len(edits) \in Nat /\ DOMAIN edits = 1..Len(edits)
        /\ \A p \in DOMAIN edits : edits[p] \in Edit
    BY <1>1, LengthsNat DEF TypeOK, N, M
  <1>3. \A e \in Edit : e.fromIx \in Nat /\ e.toIx \in Nat
    BY DEF Edit
  <1>4. Apart
    BY <1>1, LcsExists DEF ApartInv, ApartMin
  <1>5. /\ InOrder(Keeps, FromIx, N)
        /\ InOrder(Brings, ToIx, M)
        /\ \A p \in DOMAIN edits : edits[p].typ = "equal" => FromOf(edits[p]) = ToOf(edits[p])
    BY <1>1 DEF ScriptReadsBothWays, FromOf, ToOf
  <1>6. Script
    BY <1>2, <1>4, <1>5 DEF Script
  <1>7. Shows("from")
    <2>1. \A p \in DOMAIN edits : edits[p].fromIx \in Nat
      BY <1>2, <1>3
    <2>2. \A p, q \in DOMAIN edits : p < q /\ Keeps(edits[p]) /\ Keeps(edits[q]) => edits[p].fromIx < edits[q].fromIx
      BY <1>5 DEF InOrder, FromIx
    <2>3. \A p \in DOMAIN edits : Keeps(edits[p]) => edits[p].fromIx \in 0..(N - 1)
      BY <1>2, <1>5, <2>1 DEF InOrder, FromIx
    <2>4. \A i \in 0..(N - 1) : \E p \in DOMAIN edits : Keeps(edits[p]) /\ edits[p].fromIx = i
      BY <1>5 DEF InOrder, FromIx
    <2>. QED
      BY <1>2, <2>1, <2>2, <2>3, <2>4 DEF Shows, TextOn, ShownOn, IndexOn
  <1>8. Shows("to")
    <2>1. \A p \in DOMAIN edits : edits[p].toIx \in Nat
      BY <1>2, <1>3
    <2>2. \A p, q \in DOMAIN edits : p < q /\ Brings(edits[p]) /\ Brings(edits[q]) => edits[p].toIx < edits[q].toIx
      BY <1>5 DEF InOrder, ToIx
    <2>3. \A p \in DOMAIN edits : Brings(edits[p]) => edits[p].toIx \in 0..(M - 1)
      BY <1>2, <1>5, <2>1 DEF InOrder, ToIx
    <2>4. \A i \in 0..(M - 1) : \E p \in DOMAIN edits : Brings(edits[p]) /\ edits[p].toIx = i
      BY <1>5 DEF InOrder, ToIx
    <2>. QED
      BY <1>2, <2>1, <2>2, <2>3, <2>4 DEF Shows, TextOn, ShownOn, IndexOn
  <1>. QED
    BY <1>6, <1>7, <1>8 DEF Sides

\* Before the first edit nothing has been seen,
LEMMA SeenStart ==
  ASSUME Script, NEW side PROVE Seen(side, 1) = {}
  <1>1. \A q \in DOMAIN edits : ~(q < 1)
    BY DEF Script
  <1>. QED
    BY <1>1 DEF Seen

\* and after the last one all of the side.
LEMMA SeenEnd ==
  ASSUME Script, NEW side, Shows(side)
  PROVE  Seen(side, Len(edits) + 1) = 0..(Len(TextOn(side)) - 1)
  <1>1. \A q \in DOMAIN edits : q < Len(edits) + 1
    BY DEF Script
  <1>2. Seen(side, Len(edits) + 1)
          = {IndexOn(side, edits[p]) : p \in {q \in DOMAIN edits : ShownOn(side, edits[q])}}
    BY <1>1 DEF Seen
  <1>. QED
    BY <1>2 DEF Shows

\* An edit that shows a side shows more of it than was seen before.
LEMMA SeenNext ==
  ASSUME Script, NEW side, Shows(side), NEW n \in DOMAIN edits
  PROVE  /\ ~ShownOn(side, edits[n]) => Seen(side, n + 1) = Seen(side, n)
         /\ ShownOn(side, edits[n]) =>
              /\ Seen(side, n + 1) = Seen(side, n) \union {IndexOn(side, edits[n])}
              /\ \A u \in Seen(side, n) : u < IndexOn(side, edits[n])
         /\ Seen(side, n) \subseteq Nat
         /\ IndexOn(side, edits[n]) \in Nat /\ IndexOn(side, edits[n]) # None
  <1>. DEFINE before(i) == {q \in DOMAIN edits : q < i /\ ShownOn(side, edits[q])}
  <1>1. \A i : Seen(side, i) = {IndexOn(side, edits[p]) : p \in before(i)}
    BY DEF Seen
  <1>2. before(n + 1) = IF ShownOn(side, edits[n]) THEN before(n) \union {n} ELSE before(n)
    <2>1. \A q \in DOMAIN edits : q < n + 1 <=> q < n \/ q = n
      BY DEF Script
    <2>2. ~(n < n)
      BY DEF Script
    <2>. QED
      BY <2>1, <2>2
  <1>3. \A p \in before(n) : p \in DOMAIN edits /\ p < n /\ ShownOn(side, edits[p])
    OBVIOUS
  <1>. HIDE DEF before
  <1>4. ShownOn(side, edits[n]) => Seen(side, n + 1) = Seen(side, n) \union {IndexOn(side, edits[n])}
    BY <1>1, <1>2
  <1>5. ShownOn(side, edits[n]) => \A u \in Seen(side, n) : u < IndexOn(side, edits[n])
    BY <1>1, <1>3 DEF Shows
  <1>6. Seen(side, n) \subseteq Nat
    BY <1>1, <1>3 DEF Shows
  <1>7. IndexOn(side, edits[n]) \in Nat /\ IndexOn(side, edits[n]) # None
    BY DEF Shows, None
  <1>. QED
    BY <1>1, <1>2, <1>4, <1>5, <1>6, <1>7

\* What has been seen is a beginning of the side, and the next is next.
LEMMA SeenPrefix ==
  ASSUME Script, NEW side, Shows(side), NEW n \in DOMAIN edits
  PROVE  /\ \E c \in Nat : Seen(side, n) = 0..(c - 1)
         /\ ShownOn(side, edits[n]) =>
              \A c \in Nat : Seen(side, n) = 0..(c - 1) => IndexOn(side, edits[n]) = c
  <1>. DEFINE len == Len(TextOn(side))
              free == {i \in Nat : i \notin Seen(side, n)}
  <1>1. ASSUME NEW v \in Seen(side, n)
        PROVE  v \in 0..(len - 1) /\ \E p \in DOMAIN edits : p < n /\ ShownOn(side, edits[p]) /\ IndexOn(side, edits[p]) = v
    BY DEF Seen, Shows
  <1>2. ASSUME NEW i \in 0..(len - 1), i \notin Seen(side, n)
        PROVE  \E p \in DOMAIN edits : ~(p < n) /\ ShownOn(side, edits[p]) /\ IndexOn(side, edits[p]) = i
    BY <1>2 DEF Seen, Shows
  <1>3. ASSUME NEW v \in Seen(side, n), NEW i \in 0..(len - 1), i \notin Seen(side, n) PROVE v < i
    <2>1. PICK p \in DOMAIN edits : p < n /\ ShownOn(side, edits[p]) /\ IndexOn(side, edits[p]) = v
      BY <1>1
    <2>2. PICK q \in DOMAIN edits : ~(q < n) /\ ShownOn(side, edits[q]) /\ IndexOn(side, edits[q]) = i
      BY <1>2, <1>3
    <2>3. p < q
      BY <2>1, <2>2 DEF Script
    <2>. QED
      BY <2>1, <2>2, <2>3 DEF Shows
  <1>4. len \in Nat /\ len \in free
    <2>1. len \in Nat
      BY DEF Shows
    <2>2. len \notin 0..(len - 1)
      BY <2>1
    <2>. QED
      BY <1>1, <2>1, <2>2
  <1>5. PICK c \in free : \A m \in free : c <= m
    BY <1>4, LeastOf
  <1>6. c \in Nat /\ c <= len
    BY <1>4, <1>5
  <1>7. Seen(side, n) = 0..(c - 1)
    <2>1. ASSUME NEW i \in 0..(c - 1) PROVE i \in Seen(side, n)
      <3>1. i \in Nat /\ ~(c <= i)
        BY <1>6, <2>1
      <3>. QED
        BY <1>5, <3>1
    <2>2. ASSUME NEW v \in Seen(side, n) PROVE v \in 0..(c - 1)
      <3>1. v \in 0..(len - 1)
        BY <1>1, <2>2
      <3>2. c \notin Seen(side, n)
        BY <1>5
      <3>. HIDE DEF len
      <3>3. CASE c = len
        BY <3>1, <3>3
      <3>4. CASE c # len
        <4>1. c \in 0..(len - 1)
          BY <1>4, <1>6, <3>4
        <4>2. v < c
          BY <1>3, <2>2, <3>2, <4>1
        <4>. QED
          BY <1>4, <1>6, <3>1, <4>2
      <3>. QED
        BY <3>3, <3>4
    <2>. QED
      BY <2>1, <2>2
  <1>8. ASSUME ShownOn(side, edits[n]), NEW b \in Nat, Seen(side, n) = 0..(b - 1)
        PROVE  IndexOn(side, edits[n]) = b
    <2>. DEFINE ix == IndexOn(side, edits[n])
    <2>1. ix \in 0..(len - 1) /\ ix \notin Seen(side, n)
      <3>1. \A u \in Seen(side, n) : u < ix
        BY <1>8, SeenNext
      <3>2. ix \in 0..(len - 1) /\ ix \in Nat
        BY <1>8 DEF Shows
      <3>3. ~(ix < ix)
        BY <3>2
      <3>. QED
        BY <3>1, <3>2, <3>3
    <2>. HIDE DEF ix
    <2>2. ix >= b /\ ix \in Nat
      BY <1>8, <2>1, <1>4
    <2>3. CASE ix > b
      <3>1. b \in 0..(len - 1) /\ b \notin Seen(side, n)
        BY <1>4, <1>8, <2>1, <2>3
      <3>2. PICK p \in DOMAIN edits : ~(p < n) /\ ShownOn(side, edits[p]) /\ IndexOn(side, edits[p]) = b
        BY <1>2, <3>1
      <3>3. p # n
        BY <2>3, <3>2 DEF ix
      <3>4. n < p
        BY <3>2, <3>3 DEF Script
      <3>5. ix < b
        BY <1>8, <3>2, <3>4 DEF Shows, ix
      <3>. QED
        BY <2>2, <2>3, <3>5
    <2>4. CASE ~(ix > b)
      BY <2>2, <2>4 DEF ix
    <2>. QED
      BY <2>3, <2>4 DEF ix
  <1>. QED
    BY <1>6, <1>7, <1>8

-----------------------------------------------------------------------------
(* Chunks, and where in a text they end.                                   *)

\* A piece of a text.
LEMMA SubSeqOf ==
  ASSUME NEW E, NEW t \in Seq(E), NEW a \in Nat, NEW b \in Nat, a <= b, b <= Len(t)
  PROVE  /\ SubSeq(t, a + 1, b) \in Seq(E)
         /\ Len(SubSeq(t, a + 1, b)) = b - a
         /\ \A i \in 1..(b - a) : SubSeq(t, a + 1, b)[i] = t[a + i]
  <1>1. a + 1 \in Int /\ b \in Int /\ \A i \in (a + 1)..b : t[i] \in E
    OBVIOUS
  <1>2. /\ SubSeq(t, a + 1, b) \in Seq(E)
        /\ Len(SubSeq(t, a + 1, b)) = IF a + 1 <= b THEN b - (a + 1) + 1 ELSE 0
        /\ \A i \in 1..(b - (a + 1) + 1) : SubSeq(t, a + 1, b)[i] = t[(a + 1) + i - 1]
    BY <1>1, SubSeqProperties
  <1>3. b - (a + 1) + 1 = b - a /\ \A i \in 1..(b - a) : (a + 1) + i - 1 = a + i
    OBVIOUS
  <1>. QED
    BY <1>2, <1>3

\* A piece of one word.
LEMMA SubSeqOne ==
  ASSUME NEW E, NEW t \in Seq(E), NEW c \in 0..(Len(t) - 1)
  PROVE  SubSeq(t, c + 1, c + 1) = <<t[c + 1]>>
  <1>. DEFINE b == c + 1
              piece == SubSeq(t, c + 1, b)
  <1>1. c \in Nat /\ b \in Nat /\ c <= b /\ b <= Len(t) /\ b - c = 1
    OBVIOUS
  <1>2. b = c + 1
    OBVIOUS
  <1>. HIDE DEF b
  <1>3. piece \in Seq(E) /\ Len(piece) = b - c /\ \A i \in 1..(b - c) : piece[i] = t[c + i]
    BY <1>1, SubSeqOf
  <1>. HIDE DEF piece
  <1>4. piece \in Seq(E) /\ Len(piece) = 1 /\ piece[1] = t[c + 1]
    BY <1>1, <1>3
  <1>5. piece = <<piece[1]>>
    BY <1>4
  <1>. QED
    BY <1>2, <1>4, <1>5 DEF piece

\* Two pieces, one after the other, are one.
LEMMA SubSeqJoin ==
  ASSUME NEW E, NEW t \in Seq(E), NEW a \in Nat, NEW b \in Nat, NEW c \in Nat,
         a <= b, b <= c, c <= Len(t)
  PROVE  SubSeq(t, a + 1, b) \o SubSeq(t, b + 1, c) = SubSeq(t, a + 1, c)
  <1>. DEFINE u == SubSeq(t, a + 1, b)
              v == SubSeq(t, b + 1, c)
              w == SubSeq(t, a + 1, c)
  <1>1. u \in Seq(E) /\ Len(u) = b - a /\ \A i \in 1..(b - a) : u[i] = t[a + i]
    <2>1. b <= Len(t)
      OBVIOUS
    <2>. QED
      BY <2>1, SubSeqOf
  <1>2. v \in Seq(E) /\ Len(v) = c - b /\ \A i \in 1..(c - b) : v[i] = t[b + i]
    BY SubSeqOf
  <1>3. w \in Seq(E) /\ Len(w) = c - a /\ \A i \in 1..(c - a) : w[i] = t[a + i]
    <2>1. a <= c
      OBVIOUS
    <2>. QED
      BY <2>1, SubSeqOf
  <1>. HIDE DEF u, v, w
  <1>4. /\ u \o v \in Seq(E) /\ Len(u \o v) = c - a
        /\ \A i \in 1..(c - a) : (u \o v)[i] = IF i <= b - a THEN u[i] ELSE v[i - (b - a)]
    <2>1. Len(u) + Len(v) = c - a
      BY <1>1, <1>2
    <2>2. /\ u \o v \in Seq(E) /\ Len(u \o v) = Len(u) + Len(v)
          /\ \A i \in 1..(Len(u) + Len(v)) : (u \o v)[i] = IF i <= Len(u) THEN u[i] ELSE v[i - Len(u)]
      BY <1>1, <1>2, ConcatProperties
    <2>. QED
      BY <1>1, <2>1, <2>2
  <1>5. ASSUME NEW i \in 1..(c - a) PROVE (u \o v)[i] = w[i]
    <2>1. CASE i <= b - a
      <3>1. i \in 1..(b - a)
        BY <2>1
      <3>. QED
        BY <1>1, <1>3, <1>4, <2>1, <3>1
    <2>2. CASE ~(i <= b - a)
      <3>1. i - (b - a) \in 1..(c - b) /\ b + (i - (b - a)) = a + i
        BY <2>2
      <3>2. v[i - (b - a)] = t[a + i]
        BY <1>2, <3>1
      <3>. QED
        BY <1>3, <1>4, <2>2, <3>2
    <2>. QED
      BY <2>1, <2>2
  <1>6. u \o v = w
    BY <1>3, <1>4, <1>5, SeqEqual
  <1>. QED
    BY <1>6 DEF u, v, w

\* The first of them begins the text.
LEMMA SubSeqJoinFirst ==
  ASSUME NEW E, NEW t \in Seq(E), NEW b \in Nat, NEW c \in Nat, b <= c, c <= Len(t)
  PROVE  SubSeq(t, 1, b) \o SubSeq(t, b + 1, c) = SubSeq(t, 1, c)
  <1>1. 0 \in Nat /\ 0 <= b /\ 0 + 1 = 1
    OBVIOUS
  <1>2. SubSeq(t, 0 + 1, b) \o SubSeq(t, b + 1, c) = SubSeq(t, 0 + 1, c)
    BY <1>1, SubSeqJoin
  <1>. QED
    BY <1>1, <1>2

\* The chunks after a text was added to them: as they were, with a longer last
\* one, or with one more.
ChunkLike(cs, operation, text, new) ==
  \/ text = <<>> /\ new = cs
  \/ /\ Len(cs) > 0 /\ Len(new) = Len(cs)
     /\ cs[Len(cs)].operation = operation /\ new[Len(cs)].operation = operation
     /\ new[Len(cs)].text = cs[Len(cs)].text \o text
     /\ \A i \in 1..(Len(cs) - 1) : new[i] = cs[i]
  \/ /\ Len(new) = Len(cs) + 1
     /\ Len(cs) > 0 => cs[Len(cs)].operation # operation
     /\ new[Len(cs) + 1].operation = operation
     /\ new[Len(cs) + 1].text = text
     /\ \A i \in 1..Len(cs) : new[i] = cs[i]

\* appendTextChunk adds to the last chunk or adds a chunk.
LEMMA ChunkAdded ==
  ASSUME NEW cs \in Seq(ChunkItem), NEW operation \in {"equal", "removed", "added"},
         NEW text \in Seq(Elements)
  PROVE  /\ appendTextChunk(cs, operation, text) \in Seq(ChunkItem)
         /\ ChunkLike(cs, operation, text, appendTextChunk(cs, operation, text))
  <1>. DEFINE n == Len(cs)
              new == appendTextChunk(cs, operation, text)
  <1>1. n \in Nat /\ DOMAIN cs = 1..n /\ (cs # <<>> <=> n > 0) /\ \A i \in 1..n : cs[i] \in ChunkItem
    OBVIOUS
  <1>2. Chunk(operation, text) \in ChunkItem
        /\ Chunk(operation, text).operation = operation /\ Chunk(operation, text).text = text
    BY DEF Chunk, ChunkItem
  <1>3. CASE text = <<>>
    BY <1>1, <1>3 DEF appendTextChunk, ChunkLike
  <1>4. CASE text # <<>> /\ cs # <<>> /\ cs[n].operation = operation
    <2>. DEFINE both == Chunk(operation, cs[n].text \o text)
    <2>1. n \in 1..n /\ cs[n] \in ChunkItem
      BY <1>1, <1>4
    <2>2. cs[n].text \o text \in Seq(Elements)
      BY <2>1 DEF ChunkItem
    <2>3. both \in ChunkItem /\ both.operation = operation /\ both.text = cs[n].text \o text
      BY <2>2 DEF Chunk, ChunkItem
    <2>4. new = [cs EXCEPT ![n] = both]
      BY <1>4 DEF appendTextChunk
    <2>. HIDE DEF both, n, new
    <2>5. new \in Seq(ChunkItem) /\ Len(new) = n /\ new[n] = both /\ \A i \in 1..(n - 1) : new[i] = cs[i]
      <3>1. Len(cs) = n
        BY DEF n
      <3>. QED
        BY <1>1, <2>1, <2>3, <2>4, <3>1
    <2>. QED
      BY <1>1, <1>4, <2>3, <2>5 DEF ChunkLike, n, new
  <1>5. CASE text # <<>> /\ ~(cs # <<>> /\ cs[n].operation = operation)
    <2>1. new = Append(cs, Chunk(operation, text))
      BY <1>5 DEF appendTextChunk
    <2>2. /\ new \in Seq(ChunkItem) /\ Len(new) = n + 1 /\ new[n + 1] = Chunk(operation, text)
          /\ \A i \in 1..n : new[i] = cs[i]
      BY <1>1, <1>2, <2>1
    <2>. HIDE DEF new
    <2>. QED
      BY <1>1, <1>2, <1>5, <2>2 DEF ChunkLike, new
  <1>. QED
    BY <1>3, <1>4, <1>5

\* appendTextChunk leaves no two chunks of one operation side by side.
LEMMA ChunkAlternates ==
  ASSUME NEW cs \in Seq(ChunkItem), NEW operation \in {"equal", "removed", "added"},
         NEW text \in Seq(Elements), Alternates(cs)
  PROVE  /\ Alternates(appendTextChunk(cs, operation, text))
         /\ \A side : operation \in Operations(side)
                        /\ (\A i \in DOMAIN cs : cs[i].operation \in Operations(side)) =>
              LET new == appendTextChunk(cs, operation, text) IN
              \A i \in DOMAIN new : new[i].operation \in Operations(side)
  <1>. DEFINE n == Len(cs)
              new == appendTextChunk(cs, operation, text)
  <1>1. /\ n \in Nat /\ DOMAIN cs = 1..n
        /\ \/ new = cs
           \/ n > 0 /\ Len(new) = n /\ new[n].operation = operation /\ cs[n].operation = operation
              /\ \A i \in 1..(n - 1) : new[i] = cs[i]
           \/ Len(new) = n + 1 /\ new[n + 1].operation = operation
              /\ (n > 0 => cs[n].operation # operation) /\ \A i \in 1..n : new[i] = cs[i]
    <2>1. n \in Nat /\ DOMAIN cs = 1..n
      OBVIOUS
    <2>2. ChunkLike(cs, operation, text, new)
      BY ChunkAdded
    <2>. HIDE DEF new
    <2>. QED
      BY <2>1, <2>2 DEF ChunkLike
  <1>2. new \in Seq(ChunkItem) /\ DOMAIN new = 1..Len(new)
    <2>1. new \in Seq(ChunkItem)
      BY ChunkAdded
    <2>. QED
      BY <2>1
  <1>3. \A i \in 2..n : cs[i - 1].operation # cs[i].operation
    BY DEF Alternates
  <1>. HIDE DEF n, new
  <1>4. CASE new = cs
    BY <1>4 DEF new
  <1>5. CASE n > 0 /\ Len(new) = n /\ new[n].operation = operation /\ cs[n].operation = operation
              /\ \A i \in 1..(n - 1) : new[i] = cs[i]
    <2>1. \A i \in 1..n : new[i].operation = cs[i].operation
      <3>1. \A i \in 1..n : i = n \/ i \in 1..(n - 1)
        BY <1>1
      <3>. QED
        BY <1>5, <3>1
    <2>2. \A i \in 2..n : i \in 1..n /\ i - 1 \in 1..n
      BY <1>1
    <2>. QED
      BY <1>1, <1>2, <1>3, <1>5, <2>1, <2>2 DEF Alternates, new
  <1>6. CASE Len(new) = n + 1 /\ new[n + 1].operation = operation
              /\ (n > 0 => cs[n].operation # operation) /\ \A i \in 1..n : new[i] = cs[i]
    <2>1. ASSUME NEW i \in 2..(n + 1) PROVE new[i - 1].operation # new[i].operation
      <3>1. CASE i = n + 1
        <4>1. i - 1 = n /\ n > 0 /\ n \in 1..n
          BY <1>1, <3>1
        <4>. QED
          BY <1>6, <3>1, <4>1
      <3>2. CASE i # n + 1
        <4>1. i \in 2..n /\ i \in 1..n /\ i - 1 \in 1..n
          BY <1>1, <3>2
        <4>. QED
          BY <1>3, <1>6, <4>1
      <3>. QED
        BY <3>1, <3>2
    <2>2. \A i \in 1..(n + 1) : i = n + 1 \/ i \in 1..n
      BY <1>1
    <2>3. Alternates(new)
      BY <1>6, <2>1 DEF Alternates
    <2>4. ASSUME NEW side, operation \in Operations(side),
                 \A i \in DOMAIN cs : cs[i].operation \in Operations(side), NEW i \in DOMAIN new
          PROVE  new[i].operation \in Operations(side)
      BY <1>1, <1>2, <1>6, <2>2, <2>4
    <2>. QED
      BY <2>3, <2>4 DEF new
  <1>. QED
    BY <1>1, <1>4, <1>5, <1>6

\* If the text is what comes next on this side, it is cut as far as the text goes.
LEMMA CutsAdded ==
  ASSUME NEW side, TextOn(side) \in Seq(Elements), NEW cs \in Seq(ChunkItem), NEW n \in Nat,
         Cuts(side, cs, n), NEW m \in Nat, n <= m, m <= Len(TextOn(side)),
         NEW operation \in {"equal", "removed", "added"}, NEW text \in Seq(Elements),
         \/ operation \in Operations(side) /\ text = SubSeq(TextOn(side), n + 1, m)
         \/ operation \notin Operations(side) /\ m = n
  PROVE  Cuts(side, appendTextChunk(cs, operation, text), m)
  <1>. DEFINE t == TextOn(side)
              l == Len(cs)
              new == appendTextChunk(cs, operation, text)
  <1>1. PICK cut : IsCut(cut, side, cs, n)
    BY DEF Cuts
  <1>2. /\ cut \in [0..l -> 0..n] /\ cut[0] = 0 /\ cut[l] = n
        /\ \A i \in 1..l : /\ cut[i - 1] <= cut[i]
                           /\ cs[i].operation \in Operations(side) =>
                                cs[i].text = SubSeq(t, cut[i - 1] + 1, cut[i])
                           /\ cs[i].operation \notin Operations(side) => cut[i] = cut[i - 1]
    BY <1>1 DEF IsCut
  <1>3. /\ l \in Nat
        /\ \/ text = <<>> /\ new = cs
           \/ /\ l > 0 /\ Len(new) = l
              /\ cs[l].operation = operation /\ new[l].operation = operation
              /\ new[l].text = cs[l].text \o text
              /\ \A i \in 1..(l - 1) : new[i] = cs[i]
           \/ /\ Len(new) = l + 1
              /\ new[l + 1].operation = operation
              /\ new[l + 1].text = text
              /\ \A i \in 1..l : new[i] = cs[i]
    <2>1. ChunkLike(cs, operation, text, new)
      BY ChunkAdded
    <2>. HIDE DEF new
    <2>. QED
      BY <2>1 DEF ChunkLike
  <1>4. t \in Seq(Elements) /\ Len(t) \in Nat /\ m <= Len(t)
    OBVIOUS
  <1>5. operation \in Operations(side) => text = SubSeq(t, n + 1, m)
    OBVIOUS
  <1>6. operation \notin Operations(side) => m = n
    OBVIOUS
  <1>7. \A i \in 0..l : cut[i] \in 0..n
    BY <1>2
  <1>. HIDE DEF l, new, t
  <1>8. CASE text = <<>> /\ new = cs
    <2>1. m = n
      <3>1. ASSUME operation \in Operations(side), m # n PROVE FALSE
        <4>1. Len(SubSeq(t, n + 1, m)) = m - n
          BY <1>4, SubSeqOf
        <4>. QED
          BY <1>5, <1>8, <3>1, <4>1
      <3>. QED
        BY <1>6, <3>1
    <2>. QED
      BY <1>8, <2>1 DEF new
  <1>9. CASE /\ l > 0 /\ Len(new) = l
             /\ cs[l].operation = operation /\ new[l].operation = operation
             /\ new[l].text = cs[l].text \o text
             /\ \A i \in 1..(l - 1) : new[i] = cs[i]
    <2>. DEFINE more == [i \in 0..l |-> IF i < l THEN cut[i] ELSE m]
    <2>1. /\ more \in [0..l -> 0..m] /\ more[0] = 0 /\ more[l] = m
          /\ \A i \in 0..(l - 1) : more[i] = cut[i]
      <3>1. \A i \in 0..l : (IF i < l THEN cut[i] ELSE m) \in 0..m
        BY <1>7
      <3>2. 0 \in 0..l /\ 0 < l /\ l \in 0..l /\ ~(l < l) /\ \A i \in 0..(l - 1) : i \in 0..l /\ i < l
        BY <1>3, <1>9
      <3>. QED
        BY <1>2, <3>1, <3>2
    <2>. HIDE DEF more
    <2>2. /\ l \in 1..l /\ l - 1 \in 0..(l - 1) /\ l - 1 \in 0..l
          /\ \A i \in 1..l : i = l \/ (i \in 1..(l - 1) /\ i \in 0..(l - 1) /\ i - 1 \in 0..(l - 1))
      BY <1>3, <1>9
    <2>3. more[l - 1] <= more[l] /\ more[l - 1] = cut[l - 1] /\ cut[l - 1] \in Nat /\ cut[l - 1] <= n
      <3>1. more[l - 1] = cut[l - 1] /\ cut[l - 1] \in 0..n
        BY <1>7, <2>1, <2>2
      <3>. QED
        BY <2>1, <3>1
    <2>4. operation \in Operations(side) => new[l].text = SubSeq(t, more[l - 1] + 1, more[l])
      <3>1. SUFFICES ASSUME operation \in Operations(side)
                     PROVE  new[l].text = SubSeq(t, more[l - 1] + 1, more[l])
        OBVIOUS
      <3>2. cs[l].text = SubSeq(t, cut[l - 1] + 1, n)
        BY <1>2, <1>9, <2>2, <3>1
      <3>3. SubSeq(t, cut[l - 1] + 1, n) \o SubSeq(t, n + 1, m) = SubSeq(t, cut[l - 1] + 1, m)
        BY <1>4, <2>3, SubSeqJoin
      <3>. QED
        BY <1>5, <1>9, <2>1, <2>3, <3>1, <3>2, <3>3
    <2>5. operation \notin Operations(side) => more[l] = more[l - 1]
      BY <1>2, <1>6, <1>9, <2>1, <2>2, <2>3
    <2>6. ASSUME NEW i \in 1..l
          PROVE  /\ more[i - 1] <= more[i]
                 /\ IF new[i].operation \in Operations(side)
                      THEN new[i].text = SubSeq(t, more[i - 1] + 1, more[i])
                      ELSE more[i] = more[i - 1]
      <3>1. CASE i = l
        BY <1>9, <2>3, <2>4, <2>5, <3>1
      <3>2. CASE i # l
        <4>1. i \in 1..(l - 1) /\ more[i] = cut[i] /\ more[i - 1] = cut[i - 1] /\ new[i] = cs[i]
          BY <1>9, <2>1, <2>2, <3>2
        <4>. QED
          BY <1>2, <4>1
      <3>. QED
        BY <3>1, <3>2
    <2>7. IsCut(more, side, new, m)
      BY <1>9, <2>1, <2>6 DEF IsCut, t
    <2>. QED
      BY <2>7 DEF Cuts, new
  <1>10. CASE /\ Len(new) = l + 1
              /\ new[l + 1].operation = operation
              /\ new[l + 1].text = text
              /\ \A i \in 1..l : new[i] = cs[i]
    <2>. DEFINE more == [i \in 0..(l + 1) |-> IF i <= l THEN cut[i] ELSE m]
    <2>1. /\ more \in [0..(l + 1) -> 0..m] /\ more[0] = 0 /\ more[l + 1] = m
          /\ \A i \in 0..l : more[i] = cut[i]
      <3>1. \A i \in 0..(l + 1) : (IF i <= l THEN cut[i] ELSE m) \in 0..m
        BY <1>3, <1>7
      <3>2. /\ 0 \in 0..(l + 1) /\ 0 <= l /\ l + 1 \in 0..(l + 1) /\ ~(l + 1 <= l)
            /\ \A i \in 0..l : i \in 0..(l + 1) /\ i <= l
        BY <1>3
      <3>. QED
        BY <1>2, <3>1, <3>2
    <2>. HIDE DEF more
    <2>2. /\ (l + 1) - 1 = l /\ l \in 0..l
          /\ \A i \in 1..(l + 1) : i = l + 1 \/ (i \in 1..l /\ i \in 0..l /\ i - 1 \in 0..l)
      BY <1>3
    <2>3. more[l] = n
      BY <1>2, <2>1, <2>2
    <2>4. ASSUME NEW i \in 1..(l + 1)
          PROVE  /\ more[i - 1] <= more[i]
                 /\ IF new[i].operation \in Operations(side)
                      THEN new[i].text = SubSeq(t, more[i - 1] + 1, more[i])
                      ELSE more[i] = more[i - 1]
      <3>1. CASE i = l + 1
        <4>1. i - 1 = l /\ more[i - 1] = n /\ more[i] = m
          BY <2>1, <2>2, <2>3, <3>1
        <4>. QED
          BY <1>5, <1>6, <1>10, <3>1, <4>1
      <3>2. CASE i # l + 1
        <4>1. i \in 1..l /\ more[i] = cut[i] /\ more[i - 1] = cut[i - 1] /\ new[i] = cs[i]
          BY <1>10, <2>1, <2>2, <3>2
        <4>. QED
          BY <1>2, <4>1
      <3>. QED
        BY <3>1, <3>2
    <2>5. IsCut(more, side, new, m)
      BY <1>10, <2>1, <2>4 DEF IsCut, t
    <2>. QED
      BY <2>5 DEF Cuts, new
  <1>. QED
    BY <1>3, <1>8, <1>9, <1>10

\* Chunks that are cut to the end are the text.
LEMMA CutsText ==
  ASSUME NEW side, TextOn(side) \in Seq(Elements), NEW cs \in Seq(ChunkItem),
         Cuts(side, cs, Len(TextOn(side)))
  PROVE  TextOf(side, cs) = TextOn(side)
  <1>. DEFINE t == TextOn(side)
              l == Len(cs)
              Step(f, i) == IF i = 0 THEN <<>>
                            ELSE IF cs[i].operation \in Operations(side) THEN f[i - 1] \o cs[i].text
                            ELSE f[i - 1]
  <1>1. PICK cut : IsCut(cut, side, cs, Len(t))
    BY DEF Cuts
  <1>2. /\ cut \in [0..l -> 0..Len(t)] /\ cut[0] = 0 /\ cut[l] = Len(t)
        /\ \A i \in 1..l : /\ cut[i - 1] <= cut[i]
                           /\ cs[i].operation \in Operations(side) =>
                                cs[i].text = SubSeq(t, cut[i - 1] + 1, cut[i])
                           /\ cs[i].operation \notin Operations(side) => cut[i] = cut[i - 1]
    BY <1>1 DEF IsCut
  <1>3. l \in Nat /\ Len(t) \in Nat /\ t \in Seq(Elements)
    OBVIOUS
  <1>. HIDE DEF t, l
  <1>4. SubSeq(t, 1, 0) = <<>> /\ SubSeq(t, 1, Len(t)) = t
    BY <1>3, SubSeqEmpty, SubSeqFull
  <1>. DEFINE h == [i \in 0..l |-> SubSeq(t, 1, cut[i])]
  <1>5. ASSUME NEW f, NEW i \in 0..l, i > 0 => f[i - 1] = SubSeq(t, 1, cut[i - 1])
        PROVE  Step(f, i) = SubSeq(t, 1, cut[i])
    <2>1. CASE i = 0
      BY <1>2, <1>4, <2>1
    <2>2. CASE i # 0 /\ cs[i].operation \in Operations(side)
      <3>1. i \in 1..l /\ i - 1 \in 0..l
        BY <1>3, <2>2
      <3>2. /\ cut[i - 1] \in Nat /\ cut[i] \in Nat /\ cut[i - 1] <= cut[i] /\ cut[i] <= Len(t)
            /\ cs[i].text = SubSeq(t, cut[i - 1] + 1, cut[i])
        <4>1. cut[i - 1] \in 0..Len(t) /\ cut[i] \in 0..Len(t)
          BY <1>2, <3>1
        <4>2. cut[i - 1] <= cut[i] /\ cs[i].text = SubSeq(t, cut[i - 1] + 1, cut[i])
          BY <1>2, <2>2, <3>1
        <4>. QED
          BY <1>3, <4>1, <4>2
      <3>3. SubSeq(t, 1, cut[i - 1]) \o SubSeq(t, cut[i - 1] + 1, cut[i]) = SubSeq(t, 1, cut[i])
        BY <1>3, <3>2, SubSeqJoinFirst
      <3>4. SubSeq(t, 1, cut[i - 1]) \o cs[i].text = SubSeq(t, 1, cut[i])
        BY <3>2, <3>3
      <3>5. f[i - 1] = SubSeq(t, 1, cut[i - 1])
        BY <1>5, <3>1
      <3>. QED
        BY <2>2, <3>4, <3>5
    <2>3. CASE i # 0 /\ cs[i].operation \notin Operations(side)
      <3>1. i \in 1..l
        BY <1>3, <2>3
      <3>. QED
        BY <1>2, <1>5, <2>3, <3>1
    <2>. QED
      BY <2>1, <2>2, <2>3
  <1>6. h = [i \in 0..l |-> Step(h, i)]
    <2>1. ASSUME NEW i \in 0..l PROVE h[i] = Step(h, i)
      <3>1. h[i] = SubSeq(t, 1, cut[i])
        OBVIOUS
      <3>2. i > 0 => h[i - 1] = SubSeq(t, 1, cut[i - 1])
        <4>1. i > 0 => i - 1 \in 0..l
          BY <1>3
        <4>. QED
          BY <4>1
      <3>. HIDE DEF h, Step
      <3>. QED
        BY <1>5, <3>1, <3>2
    <2>. HIDE DEF Step
    <2>2. h = [i \in 0..l |-> h[i]]
      OBVIOUS
    <2>. HIDE DEF h
    <2>. QED
      BY <2>1, <2>2
  <1>. DEFINE g == CHOOSE f : f = [i \in 0..l |-> Step(f, i)]
  <1>7. TextOf(side, cs) = g[l]
    BY DEF TextOf, l
  <1>. HIDE DEF Step, h
  <1>8. g = [i \in 0..l |-> Step(g, i)]
    BY <1>6
  <1>. HIDE DEF g
  <1>9. \A i \in 0..l : g[i] = SubSeq(t, 1, cut[i])
    <2>. DEFINE bad == {i \in Nat : i <= l /\ g[i] # SubSeq(t, 1, cut[i])}
    <2>. SUFFICES ASSUME bad # {} PROVE FALSE
      BY <1>3
    <2>1. PICK i \in bad : \A j \in bad : i <= j
      BY LeastOf
    <2>2. i \in 0..l /\ i \in Nat
      BY <1>3, <2>1
    <2>3. i > 0 => g[i - 1] = SubSeq(t, 1, cut[i - 1])
      <3>1. i > 0 => i - 1 \in Nat /\ ~(i <= i - 1) /\ i - 1 <= l
        BY <1>3, <2>2
      <3>. QED
        BY <2>1, <3>1
    <2>4. g[i] = Step(g, i)
      BY <1>8, <2>2
    <2>. QED
      BY <1>5, <2>1, <2>2, <2>3, <2>4
  <1>10. g[l] = t
    <2>1. l \in 0..l
      BY <1>3
    <2>. QED
      BY <1>2, <1>4, <1>9, <2>1
  <1>. QED
    BY <1>7, <1>10 DEF t

-----------------------------------------------------------------------------
(* Blocks.                                                                 *)

\* No step of the answer changes the script, or what is said of it.
LEMMA Frame ==
  ASSUME UNCHANGED vars
  PROVE  /\ pc' = pc /\ edits' = edits /\ Len(edits)' = Len(edits)
         /\ \A side : TextOn(side)' = TextOn(side)
         /\ \A side, n : Seen(side, n)' = Seen(side, n)
         /\ \A side, cut, cs, n : IsCut(cut, side, cs, n)' <=> IsCut(cut, side, cs, n)
         /\ \A side, cs, n : Cuts(side, cs, n)' <=> Cuts(side, cs, n)
         /\ \A e : FromOf(e)' = FromOf(e) /\ ToOf(e)' = ToOf(e)
         /\ \A items : ReadsBothSides(items)' <=> ReadsBothSides(items)
  <1>1. pc' = pc /\ edits' = edits /\ from' = from /\ to' = to
    BY DEF vars
  <1>2. \A side : TextOn(side)' = TextOn(side)
    BY <1>1 DEF TextOn
  <1>3. \A side, n : Seen(side, n)' = Seen(side, n)
    BY <1>1 DEF Seen
  <1>4. \A side, cut, cs, n : IsCut(cut, side, cs, n)' <=> IsCut(cut, side, cs, n)
    BY <1>2 DEF IsCut
  <1>5. \A side, cs, n : Cuts(side, cs, n)' <=> Cuts(side, cs, n)
    BY <1>4 DEF Cuts
  <1>6. \A e : FromOf(e)' = FromOf(e) /\ ToOf(e)' = ToOf(e)
    BY <1>1 DEF FromOf, ToOf
  <1>7. \A items : ReadsBothSides(items)' <=> ReadsBothSides(items)
    BY <1>2 DEF ReadsBothSides
  <1>. QED
    BY <1>1, <1>2, <1>3, <1>4, <1>5, <1>6, <1>7

\* A part of the answer that is not being built stays as it is.
LEMMA BlocksKept ==
  ASSUME BlocksInv, UNCHANGED <<vars, blocks>>, pc = "done", stage # "blocks", stage' # "blocks"
  PROVE  BlocksInv'
  <1>1. UNCHANGED vars /\ blocks' = blocks
    OBVIOUS
  <1>. QED
    BY <1>1, Frame DEF BlocksInv

\* The same of lines,
LEMMA LinesKept ==
  ASSUME LinesInv, UNCHANGED <<vars, lines, removed, added>>,
         \/ stage = "blocks" /\ stage' = "blocks"
         \/ stage \in {"text", "sides", "shown"} /\ stage' \in {"text", "sides", "shown"}
  PROVE  LinesInv'
  <1>1. UNCHANGED vars /\ lines' = lines /\ removed' = removed /\ added' = added
    OBVIOUS
  <1>. QED
    BY <1>1, Frame DEF LinesInv

\* of the chunks of a text,
LEMMA TextKept ==
  ASSUME TextInv, UNCHANGED <<vars, chunks>>,
         \/ stage \in {"blocks", "lines"} /\ stage' \in {"blocks", "lines"}
         \/ stage \in {"sides", "shown"} /\ stage' \in {"sides", "shown"}
  PROVE  TextInv'
  <1>1. UNCHANGED vars /\ chunks' = chunks
    OBVIOUS
  <1>. QED
    BY <1>1, Frame DEF TextInv

\* and of those of two paired lines.
LEMMA SidesKept ==
  ASSUME SidesInv, UNCHANGED <<vars, projected>>,
         stage \in {"blocks", "lines", "text"} /\ stage' \in {"blocks", "lines", "text"}
  PROVE  SidesInv'
  <1>1. UNCHANGED vars /\ projected' = projected
    OBVIOUS
  <1>. QED
    BY <1>1 DEF SidesInv

-----------------------------------------------------------------------------
\* While the search runs, no loop over its script has begun.
LEMMA SearchStep ==
  ASSUME AnswerInv, ScriptInv', Search PROVE AnswerInv'
  <1>1. pc # "done" /\ UNCHANGED answer
    BY DEF Search, Next, Extend, NextRound, BackEqual, BackEdit, BackEnd
  <1>2. UNCHANGED <<stage, at, blocks, lines, removed, added, chunks, projected>>
    BY <1>1 DEF answer
  <1>3. /\ stage = "blocks" /\ at = 1 /\ blocks = <<>> /\ lines = <<>>
        /\ removed = <<>> /\ added = <<>> /\ chunks = <<>> /\ projected = [side \in Sides |-> <<>>]
    BY <1>1 DEF AnswerInv, Waiting, BlocksInv, LinesInv, TextInv, SidesInv
  <1>4. Len(edits') \in Nat /\ DOMAIN edits' = 1..Len(edits')
    BY DEF ScriptInv, IInv, TypeOK
  <1>5. AnswerTyped' /\ Waiting'
    BY <1>2, <1>3, <1>4 DEF AnswerInv, AnswerTyped, Waiting
  <1>6. BlocksInv'
    <2>1. \A side : Lists(Column(side, blocks'), Seen(side, at)')
      <3>1. \A q \in DOMAIN edits' : ~(q < 1)
        BY <1>4
      <3>2. \A side : Seen(side, 1)' = {}
        BY <3>1 DEF Seen
      <3>. QED
        BY <1>2, <1>3, <3>2, ListsNothing, ColumnNothing
    <2>. QED
      BY <1>2, <1>3, <2>1 DEF BlocksInv
  <1>7. LinesInv' /\ TextInv' /\ SidesInv'
    BY <1>2, <1>3 DEF AnswerInv, LinesInv, TextInv, SidesInv
  <1>. QED
    BY <1>5, <1>6, <1>7 DEF AnswerInv

\* After one more edit, one more item lists one more index.
LEMMA Listed ==
  ASSUME Script, NEW side, Shows(side), NEW n \in DOMAIN edits,
         NEW s \in Seq(Int), Lists(s, Seen(side, n))
  PROVE  Lists(Append(s, IF ShownOn(side, edits[n]) THEN IndexOn(side, edits[n]) ELSE None),
               Seen(side, n + 1))
  <1>1. None \in Int
    BY DEF None
  <1>2. CASE ShownOn(side, edits[n])
    <2>1. IndexOn(side, edits[n]) \in Int /\ IndexOn(side, edits[n]) # None
      BY SeenNext
    <2>. QED
      BY <1>2, <2>1, ListsAppend, SeenNext
  <1>3. CASE ~ShownOn(side, edits[n])
    BY <1>1, <1>3, ListsAppend, SeenNext
  <1>. QED
    BY <1>2, <1>3

\* Indexes are numbers, or None.
LEMMA ItemsTyped ==
  /\ \A e \in BlockItem : e.fromIx \in Int /\ e.toIx \in Int
  /\ \A e \in LineItem : e.fromIx \in Int /\ e.toIx \in Int
  /\ \A e \in Edit : e.fromIx \in Nat /\ e.toIx \in Nat /\ e.typ \in {"equal", "add", "remove"}
  /\ None \in Int
  BY DEF BlockItem, LineItem, Edit, None

\* What the edits mean on either side.
LEMMA OnSides ==
  /\ Sides = {"from", "to"}
  /\ \A e : /\ ShownOn("from", e) <=> e.typ # "add"
            /\ ShownOn("to", e) <=> e.typ # "remove"
            /\ IndexOn("from", e) = e.fromIx
            /\ IndexOn("to", e) = e.toIx
  /\ TextOn("from") = from /\ TextOn("to") = to
  /\ Pending("from") = removed /\ Pending("to") = added
  BY DEF Sides, ShownOn, IndexOn, TextOn, Pending, Keeps, Brings

\* One iteration of the loop of buildRevisionDiffBlocks, a modification taking two edits.
LEMMA BlockStep ==
  ASSUME AnswerInv, ScriptInv, buildRevisionDiffBlocks PROVE AnswerInv'
  <1>. DEFINE e == edits[at]
              item == BlockAt(at)
  <1>1. /\ pc = "done" /\ stage = "blocks" /\ at \in DOMAIN edits
        /\ blocks' = Append(blocks, item)
        /\ at' = IF Modifies(at) THEN at + 2 ELSE at + 1
        /\ UNCHANGED vars /\ UNCHANGED <<stage, lines, removed, added, chunks, projected>>
    BY DEF buildRevisionDiffBlocks, Building
  <1>2. Script /\ \A side \in Sides : Shows(side)
    BY <1>1, ScriptShows
  <1>3. /\ AnswerTyped /\ BlocksInv
        /\ Len(edits) \in Nat /\ DOMAIN edits = 1..Len(edits) /\ e \in Edit /\ at \in Nat
        /\ blocks \in Seq(BlockItem)
    BY <1>1, <1>2 DEF AnswerInv, AnswerTyped, Script
  <1>4. Modifies(at) => at + 1 \in DOMAIN edits /\ e.typ = "remove" /\ edits[at + 1].typ = "add"
                          /\ edits[at + 1] \in Edit
    BY <1>2 DEF Modifies, Script
  <1>5. \/ e.typ = "equal" /\ ~Modifies(at) /\ item = Unchanged(e)
        \/ e.typ = "add" /\ ~Modifies(at) /\ item = AddedBlock(e)
        \/ e.typ = "remove" /\ ~Modifies(at) /\ item = RemovedBlock(e)
        \/ e.typ = "remove" /\ Modifies(at) /\ item = Modified(e, edits[at + 1])
    <2>1. e.typ \in {"equal", "add", "remove"}
      BY <1>3 DEF Edit
    <2>. QED
      BY <1>4, <2>1 DEF BlockAt
  <1>6. e.fromIx \in Nat /\ e.toIx \in Nat /\ (Modifies(at) => edits[at + 1].toIx \in Nat)
    BY <1>3, <1>4, ItemsTyped
  <1>. HIDE DEF e, item
  <1>7. item \in BlockItem
    BY <1>5, <1>6, ItemsTyped DEF BlockItem, Unchanged, AddedBlock, RemovedBlock, Modified
  <1>8. blocks' \in Seq(BlockItem)
    BY <1>1, <1>3, <1>7
  <1>9. AnswerTyped' /\ Waiting'
    <2>1. at' \in Nat \ {0} /\ at' <= Len(edits) + 1
      BY <1>1, <1>3, <1>4
    <2>. QED
      BY <1>1, <1>3, <1>8, <2>1, Frame DEF AnswerInv, AnswerTyped, Waiting
  <1>10. \A side \in Sides : Lists(Column(side, blocks'), Seen(side, at'))
    <2>. SUFFICES ASSUME NEW side \in Sides PROVE Lists(Column(side, blocks'), Seen(side, at'))
      OBVIOUS
    <2>. DEFINE c == Column(side, blocks)
                v == IndexOn(side, item)
    <2>1. c \in Seq(Int) /\ v \in Int /\ Column(side, blocks') = Append(c, v)
      BY <1>1, <1>3, <1>7, ColumnAppend, ItemsTyped
    <2>2. Lists(c, Seen(side, at)) /\ Shows(side)
      BY <1>1, <1>2, <1>3 DEF BlocksInv
    <2>. HIDE DEF c, v
    <2>3. Lists(Append(c, IF ShownOn(side, e) THEN IndexOn(side, e) ELSE None), Seen(side, at + 1))
      BY <1>1, <1>2, <2>1, <2>2, Listed DEF e
    <2>4. CASE ~Modifies(at)
      <3>1. v = IF ShownOn(side, e) THEN IndexOn(side, e) ELSE None
        BY <1>5, <2>4, OnSides DEF v, Unchanged, AddedBlock, RemovedBlock
      <3>. QED
        BY <1>1, <2>1, <2>3, <2>4, <3>1
    <2>5. CASE Modifies(at)
      <3>. DEFINE f == edits[at + 1]
      <3>1. /\ e.typ = "remove" /\ f.typ = "add" /\ item = Modified(e, f) /\ at' = at + 2
            /\ (at + 1) + 1 = at + 2 /\ at + 1 \in DOMAIN edits
        BY <1>1, <1>3, <1>4, <1>5, <2>5
      <3>. HIDE DEF f
      <3>2. CASE side = "from"
        <4>1. v = IF ShownOn(side, e) THEN IndexOn(side, e) ELSE None
          BY <3>1, <3>2, OnSides DEF v, Modified
        <4>2. ~ShownOn(side, edits[at + 1])
          BY <3>1, <3>2, OnSides DEF f
        <4>3. Seen(side, (at + 1) + 1) = Seen(side, at + 1)
          BY <1>2, <2>2, <3>1, <4>2, SeenNext
        <4>. QED
          BY <2>1, <2>3, <3>1, <4>1, <4>3
      <3>3. CASE side = "to"
        <4>1. ~ShownOn(side, edits[at])
          BY <3>1, <3>3, OnSides DEF e
        <4>2. Seen(side, at + 1) = Seen(side, at)
          BY <1>1, <1>2, <2>2, <4>1, SeenNext
        <4>3. v = IF ShownOn(side, edits[at + 1]) THEN IndexOn(side, edits[at + 1]) ELSE None
          BY <3>1, <3>3, OnSides DEF v, f, Modified
        <4>4. Lists(Append(c, IF ShownOn(side, edits[at + 1]) THEN IndexOn(side, edits[at + 1]) ELSE None),
                    Seen(side, (at + 1) + 1))
          BY <1>2, <2>1, <2>2, <3>1, <4>2, Listed
        <4>. QED
          BY <2>1, <3>1, <4>3, <4>4
      <3>. QED
        BY <3>2, <3>3 DEF Sides
    <2>. QED
      BY <2>4, <2>5
  <1>11. /\ item.status = "unchanged" => FromOf(item) = ToOf(item)
         /\ item.status = "modified" =>
              /\ FromOf(item) # ToOf(item)
              /\ TypeOf[FromOf(item)] = TypeOf[ToOf(item)]
    <2>1. CASE item = Unchanged(e) /\ e.typ = "equal"
      <3>1. FromOf(item) = FromOf(e) /\ ToOf(item) = ToOf(e) /\ item.status = "unchanged"
        BY <2>1 DEF Unchanged, FromOf, ToOf
      <3>2. FromOf(e) = ToOf(e)
        BY <1>1, <1>2, <2>1 DEF Script, e
      <3>. QED
        BY <3>1, <3>2
    <2>2. CASE item = AddedBlock(e) \/ item = RemovedBlock(e)
      BY <2>2 DEF AddedBlock, RemovedBlock
    <2>3. CASE item = Modified(e, edits[at + 1]) /\ Modifies(at)
      <3>1. FromOf(item) = FromOf(e) /\ ToOf(item) = ToOf(edits[at + 1]) /\ item.status = "modified"
        BY <2>3 DEF Modified, FromOf, ToOf
      <3>2. FromOf(e) # ToOf(edits[at + 1])
        BY <1>1, <1>2, <1>4, <2>3 DEF Script, Apart, e
      <3>3. TypeOf[FromOf(e)] = TypeOf[ToOf(edits[at + 1])]
        BY <2>3 DEF Modifies, e
      <3>. QED
        BY <3>1, <3>2, <3>3
    <2>. QED
      BY <1>5, <2>1, <2>2, <2>3
  <1>12. BlocksInv'
    <2>1. \A i \in DOMAIN blocks' : (i \in DOMAIN blocks /\ blocks'[i] = blocks[i]) \/ blocks'[i] = item
      BY <1>1, <1>3, <1>7
    <2>2. \A i \in DOMAIN blocks' :
            /\ blocks'[i].status = "unchanged" => FromOf(blocks'[i]) = ToOf(blocks'[i])
            /\ blocks'[i].status = "modified" =>
                 /\ FromOf(blocks'[i]) # ToOf(blocks'[i])
                 /\ TypeOf[FromOf(blocks'[i])] = TypeOf[ToOf(blocks'[i])]
      BY <1>3, <1>11, <2>1 DEF BlocksInv
    <2>. QED
      BY <1>1, <1>10, <2>2, Frame DEF BlocksInv
  <1>13. LinesInv' /\ TextInv' /\ SidesInv'
    BY <1>1, LinesKept, TextKept, SidesKept DEF AnswerInv
  <1>. QED
    BY <1>9, <1>12, <1>13 DEF AnswerInv

\* All blocks have been listed.
LEMMA BlocksEndStep ==
  ASSUME AnswerInv, ScriptInv, BlocksEnd PROVE AnswerInv'
  <1>1. /\ pc = "done" /\ stage = "blocks" /\ at \notin DOMAIN edits /\ stage' = "lines" /\ at' = 1
        /\ UNCHANGED vars /\ UNCHANGED <<blocks, lines, removed, added, chunks, projected>>
    BY DEF BlocksEnd, Building, Goes
  <1>2. Script /\ \A side \in Sides : Shows(side)
    BY <1>1, ScriptShows
  <1>3. AnswerTyped /\ BlocksInv /\ LinesInv
    BY DEF AnswerInv
  <1>4. at = Len(edits) + 1 /\ Len(edits) \in Nat
    BY <1>1, <1>2, <1>3 DEF AnswerTyped, Script
  <1>5. ReadsBothSides(blocks)
    BY <1>1, <1>2, <1>3, <1>4, SeenEnd DEF BlocksInv, ReadsBothSides
  <1>6. BlocksInv'
    BY <1>1, <1>3, <1>5, Frame DEF BlocksInv
  <1>7. lines = <<>> /\ removed = <<>> /\ added = <<>>
    BY <1>1, <1>3 DEF LinesInv
  <1>8. LinesInv'
    <2>1. \A side \in Sides : Splits(Column(side, lines'), Pending(side)', Seen(side, 1))
      BY <1>1, <1>2, <1>7, SeenStart, ColumnNothing, ListsNothing, SplitsDone DEF Pending
    <2>. QED
      BY <1>1, <1>7, <2>1, Frame DEF LinesInv
  <1>9. AnswerTyped' /\ Waiting'
    BY <1>1, <1>3, <1>4, Frame DEF AnswerTyped, Waiting
  <1>10. TextInv' /\ SidesInv'
    BY <1>1, TextKept, SidesKept DEF AnswerInv
  <1>. QED
    BY <1>6, <1>8, <1>9, <1>10 DEF AnswerInv

-----------------------------------------------------------------------------
(* The lines of a modified block.                                          *)

\* What is common to the steps of the loops over lines.
LEMMA InLines ==
  ASSUME AnswerInv, ScriptInv, Building("lines")
  PROVE  /\ pc = "done" /\ stage = "lines" /\ UNCHANGED vars
         /\ Script /\ \A side \in Sides : Shows(side)
         /\ AnswerTyped /\ LinesInv /\ Len(edits) \in Nat /\ DOMAIN edits = 1..Len(edits)
         /\ \A p \in DOMAIN edits : edits[p] \in Edit
         /\ lines \in Seq(LineItem) /\ removed \in Seq(Nat) /\ added \in Seq(Nat)
         /\ \A side \in Sides : /\ Splits(Column(side, lines), Pending(side), Seen(side, at))
                                /\ Column(side, lines) \in Seq(Int)
                                /\ Pending(side) \in Seq(Nat)
         /\ UNCHANGED <<stage, blocks, chunks, projected>> => BlocksInv' /\ TextInv' /\ SidesInv'
  <1>1. pc = "done" /\ stage = "lines" /\ UNCHANGED vars
    BY DEF Building
  <1>2. Script /\ \A side \in Sides : Shows(side)
    BY <1>1, ScriptShows
  <1>3. AnswerTyped /\ LinesInv /\ BlocksInv /\ TextInv /\ SidesInv
    BY DEF AnswerInv
  <1>4. lines \in Seq(LineItem) /\ removed \in Seq(Nat) /\ added \in Seq(Nat)
    BY <1>3 DEF AnswerTyped
  <1>5. \A side : Column(side, lines) \in Seq(Int)
    <2>1. \A e \in LineItem : IndexOn("from", e) \in Int /\ IndexOn("to", e) \in Int
      BY ItemsTyped, OnSides
    <2>2. ASSUME NEW side PROVE \A i \in DOMAIN lines : IndexOn(side, lines[i]) \in Int
      BY <1>4, ItemsTyped DEF IndexOn
    <2>3. DOMAIN lines = 1..Len(lines) /\ Len(lines) \in Nat
      BY <1>4
    <2>. QED
      BY <2>2, <2>3 DEF Column
  <1>6. \A side : Pending(side) \in Seq(Nat)
    BY <1>4 DEF Pending
  <1>7. UNCHANGED <<stage, blocks, chunks, projected>> => BlocksInv' /\ TextInv' /\ SidesInv'
    BY <1>1, <1>3, BlocksKept, TextKept, SidesKept
  <1>. QED
    BY <1>1, <1>2, <1>3, <1>4, <1>5, <1>6, <1>7 DEF LinesInv, Script

\* A line whose sides, if both are there, are the same text is shown.
LEMMA LineShown ==
  ASSUME AnswerInv, ScriptInv, Building("lines"), NEW item \in LineItem, NEW items \in Seq(LineItem),
         items = lines \/ \E other \in LineItem : other.operation # "context" /\ items = Append(lines, other),
         lines' = Append(items, item), item.operation = "context" => FromOf(item) = ToOf(item)
  PROVE  /\ lines' \in Seq(LineItem)
         /\ \A i \in DOMAIN lines' : lines'[i].operation = "context" => FromOf(lines'[i]) = ToOf(lines'[i])
  <1>1. lines \in Seq(LineItem) /\ LinesInv /\ UNCHANGED vars
    BY InLines
  <1>2. \A i \in DOMAIN items : items[i].operation = "context" => FromOf(items[i]) = ToOf(items[i])
    <2>1. CASE items = lines
      BY <1>1, <2>1 DEF LinesInv
    <2>2. ASSUME NEW other \in LineItem, other.operation # "context", items = Append(lines, other)
          PROVE  \A i \in DOMAIN items : items[i].operation = "context" => FromOf(items[i]) = ToOf(items[i])
      <3>1. \A i \in DOMAIN items : (i \in DOMAIN lines /\ items[i] = lines[i]) \/ items[i] = other
        BY <1>1, <2>2
      <3>. QED
        BY <1>1, <2>2, <3>1 DEF LinesInv
    <2>. QED
      BY <2>1, <2>2
  <1>3. \A i \in DOMAIN lines' : (i \in DOMAIN items /\ lines'[i] = items[i]) \/ lines'[i] = item
    OBVIOUS
  <1>4. \A i \in DOMAIN lines' : lines'[i].operation = "context" => FromOf(lines'[i]) = ToOf(lines'[i])
    BY <1>2, <1>3
  <1>5. lines' \in Seq(LineItem)
    OBVIOUS
  <1>. QED
    BY <1>4, <1>5

\* What is to be shown of a step of the loops over lines.
LEMMA LinesNext ==
  ASSUME UNCHANGED vars, stage' = "lines",
         \A side \in Sides : Splits(Column(side, lines'), Pending(side)', Seen(side, at')),
         \A i \in DOMAIN lines' : lines'[i].operation = "context" => FromOf(lines'[i]) = ToOf(lines'[i])
  PROVE  LinesInv'
  BY Frame DEF LinesInv

\* An edit of a hunk is collected.
LEMMA CollectStep ==
  ASSUME AnswerInv, ScriptInv, Collect PROVE AnswerInv'
  <1>. DEFINE e == edits[at]
  <1>1. /\ Building("lines") /\ at \in DOMAIN edits /\ e.typ # "equal" /\ at' = at + 1
        /\ UNCHANGED <<stage, blocks, lines, chunks, projected>>
    BY DEF Collect, HunkEnds
  <1>2. IF e.typ = "remove" THEN removed' = Append(removed, e.fromIx) /\ added' = added
                            ELSE added' = Append(added, e.toIx) /\ removed' = removed
    BY DEF Collect
  <1>3. /\ pc = "done" /\ stage = "lines" /\ UNCHANGED vars
        /\ Script /\ \A side \in Sides : Shows(side)
        /\ AnswerTyped /\ LinesInv /\ Len(edits) \in Nat /\ DOMAIN edits = 1..Len(edits)
        /\ e \in Edit /\ removed \in Seq(Nat) /\ added \in Seq(Nat)
        /\ \A side \in Sides : /\ Splits(Column(side, lines), Pending(side), Seen(side, at))
                               /\ Pending(side) \in Seq(Nat)
        /\ BlocksInv' /\ TextInv' /\ SidesInv'
    BY <1>1, InLines
  <1>4. e.fromIx \in Nat /\ e.toIx \in Nat /\ e.typ \in {"add", "remove"}
    BY <1>1, <1>3, ItemsTyped
  <1>. HIDE DEF e
  <1>5. removed' \in Seq(Nat) /\ added' \in Seq(Nat)
    <2>1. Append(removed, e.fromIx) \in Seq(Nat) /\ Append(added, e.toIx) \in Seq(Nat)
      BY <1>3, <1>4
    <2>. QED
      BY <1>2, <1>3, <2>1
  <1>6. AnswerTyped' /\ Waiting'
    <2>1. at' \in Nat \ {0} /\ at' <= Len(edits) + 1
      BY <1>1, <1>3
    <2>. QED
      BY <1>1, <1>3, <1>5, <2>1, Frame DEF AnswerTyped, Waiting
  <1>7. ASSUME NEW side \in Sides PROVE Splits(Column(side, lines), Pending(side)', Seen(side, at + 1))
    <2>1. CASE ShownOn(side, e)
      <3>1. /\ Seen(side, at + 1) = Seen(side, at) \union {IndexOn(side, e)}
            /\ \A u \in Seen(side, at) : u < IndexOn(side, e)
            /\ IndexOn(side, e) \in Nat
        BY <1>1, <1>3, <2>1, SeenNext DEF e
      <3>2. Pending(side)' = Append(Pending(side), IndexOn(side, e))
        BY <1>2, <1>4, <2>1, OnSides DEF Pending
      <3>. QED
        BY <1>3, <3>1, <3>2, SplitsCollect
    <2>2. CASE ~ShownOn(side, e)
      <3>1. Seen(side, at + 1) = Seen(side, at)
        BY <1>1, <1>3, <2>2, SeenNext DEF e
      <3>2. Pending(side)' = Pending(side)
        BY <1>2, <1>4, <2>2, OnSides DEF Pending
      <3>. QED
        BY <1>3, <3>1, <3>2
    <2>. QED
      BY <2>1, <2>2
  <1>8. LinesInv'
    <2>1. \A i \in DOMAIN lines' : lines'[i].operation = "context" => FromOf(lines'[i]) = ToOf(lines'[i])
      BY <1>1, <1>3 DEF LinesInv
    <2>. QED
      BY <1>1, <1>3, <1>7, <2>1, LinesNext
  <1>. QED
    BY <1>3, <1>6, <1>8 DEF AnswerInv

\* The lines that are shown.
LEMMA LinesTyped ==
  /\ \A ix \in Nat : /\ RemovedLine(ix) \in LineItem /\ AddedLine(ix) \in LineItem
                     /\ IndexOn("from", RemovedLine(ix)) = ix /\ IndexOn("to", RemovedLine(ix)) = None
                     /\ IndexOn("from", AddedLine(ix)) = None /\ IndexOn("to", AddedLine(ix)) = ix
                     /\ RemovedLine(ix).operation # "context" /\ AddedLine(ix).operation # "context"
  /\ \A e \in Edit : /\ ContextLine(e) \in LineItem
                     /\ IndexOn("from", ContextLine(e)) = e.fromIx /\ IndexOn("to", ContextLine(e)) = e.toIx
                     /\ FromOf(ContextLine(e)) = FromOf(e) /\ ToOf(ContextLine(e)) = ToOf(e)
  BY DEF RemovedLine, AddedLine, ContextLine, LineItem, IndexOn, None, FromOf, ToOf, Edit

\* What is pending is a sequence of indexes.
LEMMA FirstPending ==
  ASSUME NEW t \in Seq(Nat), t # <<>> PROVE Head(t) \in Nat /\ Tail(t) \in Seq(Nat)
  OBVIOUS

\* A removed and an added line are shown.
LEMMA PairStep ==
  ASSUME AnswerInv, ScriptInv, ShowPair PROVE AnswerInv'
  <1>. DEFINE r == RemovedLine(Head(removed))
              a == AddedLine(Head(added))
              first == Append(lines, r)
  <1>1. /\ Building("lines") /\ removed # <<>> /\ added # <<>>
        /\ lines' = lines \o <<r, a>> /\ removed' = Tail(removed) /\ added' = Tail(added)
        /\ UNCHANGED <<stage, at, blocks, chunks, projected>>
    BY DEF ShowPair
  <1>2. /\ pc = "done" /\ stage = "lines" /\ UNCHANGED vars
        /\ AnswerTyped /\ LinesInv
        /\ lines \in Seq(LineItem) /\ removed \in Seq(Nat) /\ added \in Seq(Nat)
        /\ \A side \in Sides : /\ Splits(Column(side, lines), Pending(side), Seen(side, at))
                               /\ Column(side, lines) \in Seq(Int)
        /\ BlocksInv' /\ TextInv' /\ SidesInv'
    BY <1>1, InLines
  <1>3. /\ Head(removed) \in Nat /\ removed' \in Seq(Nat)
        /\ Head(added) \in Nat /\ added' \in Seq(Nat)
    BY <1>1, <1>2, FirstPending
  <1>4. /\ r \in LineItem /\ r.operation # "context" /\ a \in LineItem /\ a.operation # "context"
        /\ IndexOn("from", r) = Head(removed) /\ IndexOn("to", r) = None
        /\ IndexOn("from", a) = None /\ IndexOn("to", a) = Head(added)
    BY <1>3, LinesTyped
  <1>. HIDE DEF r, a
  <1>5. first \in Seq(LineItem) /\ lines' = Append(first, a)
    BY <1>1, <1>2, <1>4
  <1>6. /\ lines' \in Seq(LineItem)
        /\ \A i \in DOMAIN lines' : lines'[i].operation = "context" => FromOf(lines'[i]) = ToOf(lines'[i])
    BY <1>1, <1>4, <1>5, LineShown
  <1>7. \A side \in Sides : Column(side, lines') = Append(Append(Column(side, lines), IndexOn(side, r)), IndexOn(side, a))
    <2>1. \A side : Column(side, first) = Append(Column(side, lines), IndexOn(side, r))
      BY <1>2, <1>4, ColumnAppend, ItemsTyped
    <2>. HIDE DEF first
    <2>2. first \in Seq(LineItem) /\ a \in LineItem /\ lines' = Append(first, a)
      BY <1>4, <1>5
    <2>3. \A side : Column(side, lines') = Append(Column(side, first), IndexOn(side, a))
      BY <2>2, ColumnAppend, ItemsTyped
    <2>. QED
      BY <2>1, <2>3
  <1>8. Splits(Column("from", lines'), removed', Seen("from", at))
    <2>. DEFINE c == Column("from", lines)
    <2>1. Splits(c, removed, Seen("from", at)) /\ c \in Seq(Int)
      BY <1>2, OnSides
    <2>. HIDE DEF c
    <2>2. Splits(Append(c, Head(removed)), Tail(removed), Seen("from", at))
      BY <1>1, <1>2, <2>1, SplitsShow
    <2>3. Append(c, Head(removed)) \in Seq(Int)
      BY <1>3, <2>1
    <2>4. Splits(Append(Append(c, Head(removed)), None), Tail(removed), Seen("from", at))
      BY <2>2, <2>3, SplitsNone
    <2>. QED
      BY <1>1, <1>4, <1>7, <2>4, OnSides DEF c
  <1>9. Splits(Column("to", lines'), added', Seen("to", at))
    <2>. DEFINE c == Column("to", lines)
    <2>1. Splits(c, added, Seen("to", at)) /\ c \in Seq(Int)
      BY <1>2, OnSides
    <2>. HIDE DEF c
    <2>2. Splits(Append(c, None), added, Seen("to", at))
      BY <2>1, SplitsNone
    <2>3. Append(c, None) \in Seq(Int)
      BY <2>1, ItemsTyped
    <2>4. Splits(Append(Append(c, None), Head(added)), Tail(added), Seen("to", at))
      BY <1>1, <1>2, <2>2, <2>3, SplitsShow
    <2>. QED
      BY <1>1, <1>4, <1>7, <2>4, OnSides DEF c
  <1>10. LinesInv'
    <2>1. \A side \in Sides : Splits(Column(side, lines'), Pending(side)', Seen(side, at))
      BY <1>8, <1>9 DEF Sides, Pending
    <2>. QED
      BY <1>1, <1>2, <1>6, <2>1, LinesNext
  <1>11. AnswerTyped' /\ Waiting'
    BY <1>1, <1>2, <1>3, <1>6, Frame DEF AnswerTyped, Waiting
  <1>. QED
    BY <1>2, <1>10, <1>11 DEF AnswerInv

\* A line of the longer side is shown.
LEMMA RestStep ==
  ASSUME AnswerInv, ScriptInv, ShowRest PROVE AnswerInv'
  <1>1. /\ Building("lines") /\ UNCHANGED <<stage, at, blocks, chunks, projected>>
        /\ \/ /\ removed # <<>> /\ added = <<>> /\ lines' = Append(lines, RemovedLine(Head(removed)))
              /\ removed' = Tail(removed) /\ added' = added
           \/ /\ removed = <<>> /\ added # <<>> /\ lines' = Append(lines, AddedLine(Head(added)))
              /\ added' = Tail(added) /\ removed' = removed
    BY DEF ShowRest
  <1>2. /\ pc = "done" /\ stage = "lines" /\ UNCHANGED vars
        /\ AnswerTyped /\ LinesInv
        /\ lines \in Seq(LineItem) /\ removed \in Seq(Nat) /\ added \in Seq(Nat)
        /\ \A side \in Sides : /\ Splits(Column(side, lines), Pending(side), Seen(side, at))
                               /\ Column(side, lines) \in Seq(Int)
        /\ BlocksInv' /\ TextInv' /\ SidesInv'
    BY <1>1, InLines
  <1>3. /\ lines' \in Seq(LineItem) /\ removed' \in Seq(Nat) /\ added' \in Seq(Nat)
        /\ \A i \in DOMAIN lines' : lines'[i].operation = "context" => FromOf(lines'[i]) = ToOf(lines'[i])
        /\ \A side \in Sides : Splits(Column(side, lines'), Pending(side)', Seen(side, at))
    <2>1. CASE /\ removed # <<>> /\ added = <<>> /\ lines' = Append(lines, RemovedLine(Head(removed)))
               /\ removed' = Tail(removed) /\ added' = added
      <3>. DEFINE r == RemovedLine(Head(removed))
      <3>1. Head(removed) \in Nat /\ removed' \in Seq(Nat)
        BY <1>2, <2>1, FirstPending
      <3>2. /\ r \in LineItem /\ r.operation # "context"
            /\ IndexOn("from", r) = Head(removed) /\ IndexOn("to", r) = None
        BY <3>1, LinesTyped
      <3>. HIDE DEF r
      <3>3. lines' = Append(lines, r)
        BY <2>1 DEF r
      <3>4. /\ lines' \in Seq(LineItem)
            /\ \A i \in DOMAIN lines' : lines'[i].operation = "context" => FromOf(lines'[i]) = ToOf(lines'[i])
        BY <1>1, <1>2, <3>2, <3>3, LineShown
      <3>5. \A side : Column(side, lines') = Append(Column(side, lines), IndexOn(side, r))
        BY <1>2, <3>2, <3>3, ColumnAppend, ItemsTyped
      <3>6. Splits(Column("from", lines'), removed', Seen("from", at))
        BY <1>2, <2>1, <3>2, <3>5, OnSides, SplitsShow
      <3>7. Splits(Column("to", lines'), added', Seen("to", at))
        BY <1>2, <2>1, <3>2, <3>5, OnSides, SplitsNone
      <3>. QED
        BY <1>2, <2>1, <3>1, <3>4, <3>6, <3>7 DEF Sides, Pending
    <2>2. CASE /\ removed = <<>> /\ added # <<>> /\ lines' = Append(lines, AddedLine(Head(added)))
               /\ added' = Tail(added) /\ removed' = removed
      <3>. DEFINE a == AddedLine(Head(added))
      <3>1. Head(added) \in Nat /\ added' \in Seq(Nat)
        BY <1>2, <2>2, FirstPending
      <3>2. /\ a \in LineItem /\ a.operation # "context"
            /\ IndexOn("from", a) = None /\ IndexOn("to", a) = Head(added)
        BY <3>1, LinesTyped
      <3>. HIDE DEF a
      <3>3. lines' = Append(lines, a)
        BY <2>2 DEF a
      <3>4. /\ lines' \in Seq(LineItem)
            /\ \A i \in DOMAIN lines' : lines'[i].operation = "context" => FromOf(lines'[i]) = ToOf(lines'[i])
        BY <1>1, <1>2, <3>2, <3>3, LineShown
      <3>5. \A side : Column(side, lines') = Append(Column(side, lines), IndexOn(side, a))
        BY <1>2, <3>2, <3>3, ColumnAppend, ItemsTyped
      <3>6. Splits(Column("from", lines'), removed', Seen("from", at))
        BY <1>2, <2>2, <3>2, <3>5, OnSides, SplitsNone
      <3>7. Splits(Column("to", lines'), added', Seen("to", at))
        BY <1>2, <2>2, <3>2, <3>5, OnSides, SplitsShow
      <3>. QED
        BY <1>2, <2>2, <3>1, <3>4, <3>6, <3>7 DEF Sides, Pending
    <2>. QED
      BY <1>1, <2>1, <2>2
  <1>4. LinesInv'
    BY <1>1, <1>2, <1>3, LinesNext
  <1>5. AnswerTyped' /\ Waiting'
    BY <1>1, <1>2, <1>3, Frame DEF AnswerTyped, Waiting
  <1>. QED
    BY <1>2, <1>4, <1>5 DEF AnswerInv

\* An equal line is shown, after all of its hunk.
LEMMA ContextStep ==
  ASSUME AnswerInv, ScriptInv, ShowContext PROVE AnswerInv'
  <1>. DEFINE e == edits[at]
              item == ContextLine(e)
  <1>1. /\ Building("lines") /\ at \in DOMAIN edits /\ e.typ = "equal" /\ at' = at + 1
        /\ removed = <<>> /\ added = <<>> /\ removed' = removed /\ added' = added
        /\ lines' = Append(lines, item)
        /\ UNCHANGED <<stage, blocks, chunks, projected>>
    BY DEF ShowContext, HunkEnds
  <1>2. /\ pc = "done" /\ stage = "lines" /\ UNCHANGED vars
        /\ Script /\ \A side \in Sides : Shows(side)
        /\ AnswerTyped /\ LinesInv /\ Len(edits) \in Nat /\ DOMAIN edits = 1..Len(edits)
        /\ e \in Edit /\ lines \in Seq(LineItem)
        /\ \A side \in Sides : /\ Splits(Column(side, lines), Pending(side), Seen(side, at))
                               /\ Column(side, lines) \in Seq(Int)
        /\ BlocksInv' /\ TextInv' /\ SidesInv'
    BY <1>1, InLines
  <1>3. /\ item \in LineItem
        /\ IndexOn("from", item) = e.fromIx /\ IndexOn("to", item) = e.toIx
        /\ FromOf(item) = FromOf(e) /\ ToOf(item) = ToOf(e)
    BY <1>2, LinesTyped
  <1>4. FromOf(e) = ToOf(e)
    BY <1>1, <1>2 DEF Script
  <1>. HIDE DEF e, item
  <1>5. /\ lines' \in Seq(LineItem)
        /\ \A i \in DOMAIN lines' : lines'[i].operation = "context" => FromOf(lines'[i]) = ToOf(lines'[i])
    BY <1>1, <1>2, <1>3, <1>4, LineShown
  <1>6. ASSUME NEW side \in Sides PROVE Splits(Column(side, lines'), Pending(side)', Seen(side, at + 1))
    <2>1. Pending(side) = <<>> /\ Pending(side)' = <<>>
      BY <1>1 DEF Pending
    <2>2. Lists(Column(side, lines), Seen(side, at))
      BY <1>2, <2>1, SplitsDone
    <2>3. ShownOn(side, e) /\ IndexOn(side, item) = IndexOn(side, e)
      BY <1>1, <1>3, OnSides
    <2>4. Lists(Append(Column(side, lines), IndexOn(side, e)), Seen(side, at + 1))
      BY <1>1, <1>2, <2>2, <2>3, Listed DEF e
    <2>5. Column(side, lines') = Append(Column(side, lines), IndexOn(side, e))
      BY <1>1, <1>2, <1>3, <2>3, ColumnAppend, ItemsTyped
    <2>. QED
      BY <2>1, <2>4, <2>5, SplitsDone
  <1>7. LinesInv'
    BY <1>1, <1>2, <1>5, <1>6, LinesNext
  <1>8. AnswerTyped' /\ Waiting'
    <2>1. at' \in Nat \ {0} /\ at' <= Len(edits) + 1
      BY <1>1, <1>2
    <2>. QED
      BY <1>1, <1>2, <1>5, <2>1, Frame DEF AnswerTyped, Waiting
  <1>. QED
    BY <1>2, <1>7, <1>8 DEF AnswerInv

\* All lines have been listed.
LEMMA LinesEndStep ==
  ASSUME AnswerInv, ScriptInv, LinesEnd PROVE AnswerInv'
  <1>1. /\ Building("lines") /\ at \notin DOMAIN edits /\ removed = <<>> /\ added = <<>>
        /\ stage' = "text" /\ at' = 1
        /\ UNCHANGED <<blocks, lines, removed, added, chunks, projected>>
    BY DEF LinesEnd, Goes
  <1>2. /\ pc = "done" /\ stage = "lines" /\ UNCHANGED vars
        /\ Script /\ \A side \in Sides : Shows(side)
        /\ AnswerTyped /\ LinesInv /\ Len(edits) \in Nat /\ DOMAIN edits = 1..Len(edits)
        /\ \A side \in Sides : Splits(Column(side, lines), Pending(side), Seen(side, at))
    BY <1>1, InLines
  <1>3. at = Len(edits) + 1
    BY <1>1, <1>2 DEF AnswerTyped
  <1>4. ReadsBothSides(lines)
    <2>1. \A side \in Sides : Lists(Column(side, lines), Seen(side, at))
      BY <1>1, <1>2, SplitsDone DEF Pending
    <2>. QED
      BY <1>2, <1>3, <2>1, SeenEnd DEF ReadsBothSides
  <1>5. LinesInv'
    BY <1>1, <1>2, <1>4, Frame DEF LinesInv
  <1>6. TextInv'
    <2>1. chunks = <<>> /\ Alternates(chunks)
      BY <1>2 DEF AnswerInv, TextInv
    <2>2. ASSUME NEW side \in Sides, NEW n \in Nat, Seen(side, 1) = 0..(n - 1) PROVE Cuts(side, <<>>, n)
      <3>1. n = 0
        <4>1. 0..(n - 1) = {}
          BY <1>2, <2>2, SeenStart
        <4>2. n # 0 => 0 \in 0..(n - 1)
          OBVIOUS
        <4>. QED
          BY <4>1, <4>2
      <3>. DEFINE cut == [i \in 0..0 |-> 0]
      <3>2. IsCut(cut, side, <<>>, 0)
        BY DEF IsCut
      <3>. QED
        BY <3>1, <3>2 DEF Cuts
    <2>. QED
      BY <1>1, <1>2, <2>1, <2>2, Frame DEF TextInv
  <1>7. BlocksInv' /\ SidesInv'
    BY <1>1, <1>2, BlocksKept, SidesKept DEF AnswerInv
  <1>8. AnswerTyped' /\ Waiting'
    BY <1>1, <1>2, Frame DEF AnswerTyped, Waiting
  <1>. QED
    BY <1>5, <1>6, <1>7, <1>8 DEF AnswerInv

-----------------------------------------------------------------------------
(* Texts, paired lines, and the whole answer.                              *)

\* An interval is known by its elements.
LEMMA Intervals ==
  ASSUME NEW a \in Nat, NEW b \in Nat
  PROVE  /\ 0..(a - 1) \subseteq 0..(b - 1) => a <= b
         /\ 0..(a - 1) = 0..(b - 1) => a = b
  <1>1. ASSUME NEW u \in Nat, NEW v \in Nat, 0..(u - 1) \subseteq 0..(v - 1) PROVE u <= v
    <2>1. CASE u = 0
      BY <2>1
    <2>2. CASE u # 0
      <3>1. u - 1 \in 0..(u - 1)
        BY <2>2
      <3>2. u - 1 \in 0..(v - 1)
        BY <1>1, <3>1
      <3>. QED
        BY <3>2
    <2>. QED
      BY <2>1, <2>2
  <1>2. 0..(a - 1) \subseteq 0..(b - 1) => a <= b
    BY <1>1
  <1>3. 0..(b - 1) \subseteq 0..(a - 1) => b <= a
    BY <1>1
  <1>. QED
    BY <1>2, <1>3

\* Without chunks no text has been shown.
LEMMA CutsNothing ==
  ASSUME NEW side PROVE Cuts(side, <<>>, 0) /\ \A n : Cuts(side, <<>>, n) => n = 0
  <1>. DEFINE cut == [i \in 0..0 |-> 0]
  <1>1. IsCut(cut, side, <<>>, 0)
    BY DEF IsCut
  <1>2. ASSUME NEW n, NEW c, IsCut(c, side, <<>>, n) PROVE n = 0
    BY <1>2 DEF IsCut
  <1>. QED
    BY <1>1, <1>2 DEF Cuts

\* What is common to the steps of the loops over words and over chunks.
LEMMA InText ==
  ASSUME AnswerInv, ScriptInv, NEW s \in {"text", "sides"}, Building(s)
  PROVE  /\ pc = "done" /\ stage = s /\ UNCHANGED vars
         /\ Script /\ \A side \in Sides : Shows(side) /\ TextOn(side) \in Seq(Elements)
         /\ AnswerTyped /\ TextInv /\ SidesInv /\ chunks \in Seq(ChunkItem)
         /\ Len(edits) \in Nat /\ DOMAIN edits = 1..Len(edits)
         /\ \A side \in Sides : projected[side] \in Seq(ChunkItem)
         /\ UNCHANGED <<blocks, lines, removed, added>> /\ stage' \in {"text", "sides", "shown"} =>
              BlocksInv' /\ LinesInv'
  <1>1. pc = "done" /\ stage = s /\ UNCHANGED vars
    BY DEF Building
  <1>2. Script /\ \A side \in Sides : Shows(side)
    BY <1>1, ScriptShows
  <1>3. AnswerTyped /\ TextInv /\ SidesInv /\ BlocksInv /\ LinesInv
    BY DEF AnswerInv
  <1>4. \A side \in Sides : TextOn(side) \in Seq(Elements)
    BY <1>2 DEF Script, TextOn
  <1>5. UNCHANGED <<blocks, lines, removed, added>> /\ stage' \in {"text", "sides", "shown"} =>
          BlocksInv' /\ LinesInv'
    BY <1>1, <1>3, BlocksKept, LinesKept
  <1>6. chunks \in Seq(ChunkItem) /\ \A side \in Sides : projected[side] \in Seq(ChunkItem)
    BY <1>3 DEF AnswerTyped
  <1>. QED
    BY <1>1, <1>2, <1>3, <1>4, <1>5, <1>6 DEF Script

\* A word is added to the chunks, on the sides it is on.
LEMMA TextStep ==
  ASSUME AnswerInv, ScriptInv, diffText PROVE AnswerInv'
  <1>. DEFINE e == edits[at]
              operation == IF e.typ = "equal" THEN "equal" ELSE IF e.typ = "add" THEN "added" ELSE "removed"
              word == IF e.typ = "add" THEN ToOf(e) ELSE FromOf(e)
  <1>1. /\ Building("text") /\ at \in DOMAIN edits /\ chunks' = WordChunk(chunks, e) /\ at' = at + 1
        /\ UNCHANGED <<stage, blocks, lines, removed, added, projected>>
    BY DEF diffText
  <1>2. /\ pc = "done" /\ stage = "text" /\ UNCHANGED vars
        /\ Script /\ \A side \in Sides : Shows(side) /\ TextOn(side) \in Seq(Elements)
        /\ AnswerTyped /\ TextInv /\ SidesInv /\ chunks \in Seq(ChunkItem)
        /\ Len(edits) \in Nat /\ DOMAIN edits = 1..Len(edits)
        /\ BlocksInv' /\ LinesInv'
    BY <1>1, InText
  <1>3. e \in Edit /\ e.typ \in {"equal", "add", "remove"}
    BY <1>1, <1>2, ItemsTyped DEF Script
  <1>4. chunks' = appendTextChunk(chunks, operation, <<word>>)
    BY <1>1, <1>3 DEF WordChunk
  <1>5. operation \in {"equal", "removed", "added"}
    OBVIOUS
  <1>6. \A side \in Sides : operation \in Operations(side) <=> ShownOn(side, e)
    BY <1>3, OnSides DEF Operations
  <1>7. \A side \in Sides : ShownOn(side, e) => word = TextOn(side)[IndexOn(side, e) + 1]
    <2>1. e.typ = "equal" => FromOf(e) = ToOf(e)
      BY <1>1, <1>2 DEF Script
    <2>. QED
      BY <1>3, <2>1, OnSides DEF FromOf, ToOf
  <1>8. word \in Elements
    <2>1. \A side \in Sides : ShownOn(side, e) => IndexOn(side, e) + 1 \in 1..Len(TextOn(side))
      BY <1>1, <1>2 DEF Shows
    <2>2. \A side \in Sides : ShownOn(side, e) => TextOn(side)[IndexOn(side, e) + 1] \in Elements
      BY <1>2, <2>1
    <2>3. \E side \in Sides : ShownOn(side, e)
      BY <1>3, OnSides
    <2>. QED
      BY <1>7, <2>2, <2>3
  <1>9. <<word>> \in Seq(Elements)
    BY <1>8
  <1>. HIDE DEF operation, word
  <1>10. chunks' \in Seq(ChunkItem) /\ Alternates(chunks')
    BY <1>2, <1>4, <1>5, <1>9, ChunkAdded, ChunkAlternates DEF TextInv
  <1>11. ASSUME NEW side \in Sides, NEW n \in Nat, Seen(side, at + 1) = 0..(n - 1)
         PROVE  Cuts(side, chunks', n)
    <2>. DEFINE t == TextOn(side)
    <2>1. Shows(side) /\ t \in Seq(Elements) /\ Len(t) \in Nat
      BY <1>2 DEF Shows
    <2>2. CASE ShownOn(side, e)
      <3>1. PICK c \in Nat : Seen(side, at) = 0..(c - 1)
        BY <1>1, <1>2, <2>1, SeenPrefix
      <3>2. IndexOn(side, e) = c
        BY <1>1, <1>2, <2>1, <2>2, <3>1, SeenPrefix
      <3>3. 0..(n - 1) = 0..(c - 1) \union {c}
        BY <1>1, <1>2, <1>11, <2>1, <2>2, <3>1, <3>2, SeenNext
      <3>4. 0..(c - 1) \union {c} = 0..((c + 1) - 1) /\ c + 1 \in Nat
        OBVIOUS
      <3>5. n = c + 1
        BY <3>3, <3>4, Intervals
      <3>6. c \in 0..(Len(t) - 1)
        BY <1>1, <2>1, <2>2, <3>2 DEF Shows
      <3>7. Cuts(side, chunks, c)
        BY <1>2, <3>1 DEF TextInv
      <3>8. <<word>> = SubSeq(t, c + 1, c + 1)
        <4>1. word = t[c + 1]
          BY <1>7, <2>2, <3>2
        <4>2. SubSeq(t, c + 1, c + 1) = <<t[c + 1]>>
          BY <2>1, <3>6, SubSeqOne
        <4>. QED
          BY <4>1, <4>2
      <3>9. c <= c + 1 /\ c + 1 <= Len(t)
        BY <2>1, <3>6
      <3>10. operation \in Operations(side)
        BY <1>6, <2>2
      <3>. QED
        BY <1>2, <1>4, <1>5, <1>9, <2>1, <3>5, <3>7, <3>8, <3>9, <3>10, CutsAdded
    <2>3. CASE ~ShownOn(side, e)
      <3>1. Seen(side, at) = 0..(n - 1)
        BY <1>1, <1>2, <1>11, <2>1, <2>3, SeenNext
      <3>2. Cuts(side, chunks, n)
        BY <1>2, <3>1 DEF TextInv
      <3>3. 0..(n - 1) \subseteq 0..(Len(t) - 1)
        <4>1. Seen(side, at) \subseteq 0..(Len(t) - 1)
          BY <2>1 DEF Seen, Shows
        <4>. QED
          BY <3>1, <4>1
      <3>4. n <= Len(t) /\ n <= n
        BY <2>1, <3>3, Intervals
      <3>5. operation \notin Operations(side)
        BY <1>6, <2>3
      <3>. QED
        BY <1>2, <1>4, <1>5, <1>9, <2>1, <3>2, <3>4, <3>5, CutsAdded
    <2>. QED
      BY <2>2, <2>3
  <1>12. TextInv'
    BY <1>1, <1>2, <1>10, <1>11, Frame DEF TextInv
  <1>13. SidesInv'
    BY <1>1, <1>2, SidesKept
  <1>14. AnswerTyped' /\ Waiting'
    <2>1. at' \in Nat \ {0} /\ at' <= Len(edits) + 1
      BY <1>1, <1>2
    <2>. QED
      BY <1>1, <1>2, <1>10, <2>1, Frame DEF AnswerTyped, Waiting
  <1>. QED
    BY <1>2, <1>12, <1>13, <1>14 DEF AnswerInv

\* What is to be shown of a step of projectLineChunks.
LEMMA SidesNext ==
  ASSUME UNCHANGED vars, stage' = "sides", chunks' = chunks,
         \A side \in Sides :
           /\ \E cut : /\ IsCut(cut, side, chunks, Len(TextOn(side)))
                       /\ Cuts(side, projected'[side], cut[at' - 1])
           /\ Alternates(projected'[side])
           /\ \A i \in DOMAIN projected'[side] : projected'[side][i].operation \in Operations(side)
  PROVE  SidesInv'
  BY Frame DEF SidesInv

\* All words of either text are in the chunks.
LEMMA TextEndStep ==
  ASSUME AnswerInv, ScriptInv, TextEnd PROVE AnswerInv'
  <1>1. /\ Building("text") /\ at \notin DOMAIN edits /\ stage' = "sides" /\ at' = 1
        /\ UNCHANGED <<blocks, lines, removed, added, chunks, projected>>
    BY DEF TextEnd, Goes
  <1>2. /\ pc = "done" /\ stage = "text" /\ UNCHANGED vars
        /\ Script /\ \A side \in Sides : Shows(side) /\ TextOn(side) \in Seq(Elements)
        /\ AnswerTyped /\ TextInv /\ SidesInv /\ chunks \in Seq(ChunkItem)
        /\ Len(edits) \in Nat /\ DOMAIN edits = 1..Len(edits)
        /\ BlocksInv' /\ LinesInv'
    BY <1>1, InText
  <1>3. at = Len(edits) + 1
    BY <1>1, <1>2 DEF AnswerTyped
  <1>4. \A side \in Sides : Cuts(side, chunks, Len(TextOn(side)))
    <2>1. ASSUME NEW side \in Sides PROVE Len(TextOn(side)) \in Nat /\ Seen(side, at) = 0..(Len(TextOn(side)) - 1)
      BY <1>2, <1>3, SeenEnd DEF Shows
    <2>. QED
      BY <1>2, <2>1 DEF TextInv
  <1>5. TextInv'
    BY <1>1, <1>2, <1>4, Frame DEF TextInv
  <1>6. SidesInv'
    <2>1. \A side \in Sides : projected'[side] = <<>>
      BY <1>1, <1>2 DEF SidesInv
    <2>2. ASSUME NEW side \in Sides
          PROVE  \E cut : /\ IsCut(cut, side, chunks, Len(TextOn(side)))
                          /\ Cuts(side, projected'[side], cut[at' - 1])
      <3>1. PICK cut : IsCut(cut, side, chunks, Len(TextOn(side)))
        BY <1>4 DEF Cuts
      <3>2. cut[at' - 1] = 0
        BY <1>1, <3>1 DEF IsCut
      <3>. QED
        BY <2>1, <3>1, <3>2, CutsNothing
    <2>3. \A side \in Sides :
            /\ Alternates(projected'[side])
            /\ \A i \in DOMAIN projected'[side] : projected'[side][i].operation \in Operations(side)
      BY <2>1 DEF Alternates
    <2>. QED
      BY <1>1, <1>2, <2>2, <2>3, SidesNext
  <1>7. AnswerTyped' /\ Waiting'
    BY <1>1, <1>2, Frame DEF AnswerTyped, Waiting
  <1>. QED
    BY <1>2, <1>5, <1>6, <1>7 DEF AnswerInv

\* A chunk is projected to the sides it is on.
LEMMA ProjectStep ==
  ASSUME AnswerInv, ScriptInv, projectLineChunks PROVE AnswerInv'
  <1>. DEFINE c == chunks[at]
  <1>1. /\ Building("sides") /\ at \in DOMAIN chunks /\ at' = at + 1
        /\ projected' = [side \in Sides |-> IF c.operation \in Operations(side)
                                              THEN appendTextChunk(projected[side], c.operation, c.text)
                                              ELSE projected[side]]
        /\ UNCHANGED <<stage, blocks, lines, removed, added, chunks>>
    BY DEF projectLineChunks
  <1>2. /\ pc = "done" /\ stage = "sides" /\ UNCHANGED vars
        /\ \A side \in Sides : Shows(side) /\ TextOn(side) \in Seq(Elements)
        /\ AnswerTyped /\ TextInv /\ SidesInv /\ chunks \in Seq(ChunkItem)
        /\ \A side \in Sides : projected[side] \in Seq(ChunkItem)
        /\ BlocksInv' /\ LinesInv'
    BY <1>1, InText
  <1>3. /\ Len(chunks) \in Nat /\ DOMAIN chunks = 1..Len(chunks) /\ at \in 1..Len(chunks)
        /\ c \in ChunkItem
    BY <1>1, <1>2
  <1>4. c.operation \in {"equal", "removed", "added"} /\ c.text \in Seq(Elements)
    BY <1>3 DEF ChunkItem
  <1>. HIDE DEF c
  <1>5. ASSUME NEW side \in Sides
        PROVE  /\ \E cut : /\ IsCut(cut, side, chunks, Len(TextOn(side)))
                           /\ Cuts(side, projected'[side], cut[at' - 1])
               /\ Alternates(projected'[side])
               /\ \A i \in DOMAIN projected'[side] : projected'[side][i].operation \in Operations(side)
               /\ projected'[side] \in Seq(ChunkItem)
    <2>. DEFINE old == projected[side]
                new == projected'[side]
    <2>1. PICK cut : IsCut(cut, side, chunks, Len(TextOn(side))) /\ Cuts(side, old, cut[at - 1])
      BY <1>2 DEF SidesInv
    <2>2. /\ old \in Seq(ChunkItem) /\ Alternates(old)
          /\ \A i \in DOMAIN old : old[i].operation \in Operations(side)
      BY <1>2 DEF SidesInv
    <2>3. at - 1 \in 0..Len(chunks) /\ at \in 0..Len(chunks) /\ at' - 1 = at
      BY <1>1, <1>3
    <2>4. /\ cut[at - 1] \in Nat /\ cut[at] \in Nat /\ cut[at - 1] <= cut[at] /\ cut[at] <= Len(TextOn(side))
      <3>1. cut[at - 1] \in 0..Len(TextOn(side)) /\ cut[at] \in 0..Len(TextOn(side)) /\ cut[at - 1] <= cut[at]
        BY <1>3, <2>1, <2>3 DEF IsCut
      <3>. QED
        BY <1>2, <3>1 DEF Shows
    <2>5. IF c.operation \in Operations(side)
            THEN c.text = SubSeq(TextOn(side), cut[at - 1] + 1, cut[at])
            ELSE cut[at] = cut[at - 1]
      BY <1>3, <2>1 DEF IsCut, c
    <2>6. new = IF c.operation \in Operations(side) THEN appendTextChunk(old, c.operation, c.text) ELSE old
      BY <1>1
    <2>. HIDE DEF old, new
    <2>7. CASE c.operation \in Operations(side)
      <3>1. new = appendTextChunk(old, c.operation, c.text)
        BY <2>6, <2>7
      <3>2. Cuts(side, new, cut[at])
        BY <1>2, <1>4, <2>1, <2>2, <2>4, <2>5, <2>7, <3>1, CutsAdded
      <3>3. /\ new \in Seq(ChunkItem) /\ Alternates(new)
            /\ \A i \in DOMAIN new : new[i].operation \in Operations(side)
        BY <1>4, <2>2, <2>7, <3>1, ChunkAdded, ChunkAlternates
      <3>. QED
        BY <2>1, <2>3, <3>2, <3>3 DEF new
    <2>8. CASE c.operation \notin Operations(side)
      <3>1. new = old /\ cut[at] = cut[at - 1]
        BY <2>5, <2>6, <2>8
      <3>. QED
        BY <2>1, <2>2, <2>3, <3>1 DEF new
    <2>. QED
      BY <2>7, <2>8
  <1>6. SidesInv'
    BY <1>1, <1>2, <1>5, SidesNext
  <1>7. TextInv'
    BY <1>1, <1>2, TextKept
  <1>8. AnswerTyped' /\ Waiting'
    <2>1. at' \in Nat \ {0} /\ at' <= Len(chunks) + 1
      BY <1>1, <1>3
    <2>2. projected' \in [Sides -> Seq(ChunkItem)]
      BY <1>1, <1>5
    <2>. QED
      BY <1>1, <1>2, <2>1, <2>2, Frame DEF AnswerTyped, Waiting
  <1>. QED
    BY <1>2, <1>6, <1>7, <1>8 DEF AnswerInv

\* All chunks are projected; the fallback has nothing to do.
LEMMA SidesEndStep ==
  ASSUME AnswerInv, ScriptInv, SidesEnd PROVE AnswerInv'
  <1>1. /\ Building("sides") /\ at \notin DOMAIN chunks /\ stage' = "shown" /\ at' = 1
        /\ projected' = [side \in Sides |-> Fallback(side)]
        /\ UNCHANGED <<blocks, lines, removed, added, chunks>>
    BY DEF SidesEnd, Goes
  <1>2. /\ pc = "done" /\ stage = "sides" /\ UNCHANGED vars
        /\ \A side \in Sides : Shows(side) /\ TextOn(side) \in Seq(Elements)
        /\ AnswerTyped /\ TextInv /\ SidesInv /\ chunks \in Seq(ChunkItem)
        /\ BlocksInv' /\ LinesInv'
    BY <1>1, InText
  <1>3. at - 1 = Len(chunks)
    <2>1. Len(chunks) \in Nat /\ DOMAIN chunks = 1..Len(chunks)
      BY <1>2
    <2>2. at \in Nat \ {0} /\ at <= Len(chunks) + 1
      BY <1>2 DEF AnswerTyped
    <2>. QED
      BY <1>1, <2>1, <2>2
  <1>4. \A side \in Sides : Cuts(side, projected[side], Len(TextOn(side)))
    BY <1>2, <1>3 DEF SidesInv, IsCut
  <1>5. \A side \in Sides : Fallback(side) = projected[side]
    <2>1. ASSUME NEW side \in Sides, projected[side] = <<>> PROVE TextOn(side) = <<>>
      <3>1. Len(TextOn(side)) = 0
        BY <1>4, <2>1, CutsNothing
      <3>. QED
        BY <1>2, <3>1
    <2>. QED
      BY <2>1 DEF Fallback
  <1>6. projected' = projected
    BY <1>1, <1>2, <1>5 DEF AnswerTyped
  <1>7. SidesInv'
    BY <1>1, <1>2, <1>4, <1>6, Frame DEF SidesInv
  <1>8. TextInv'
    BY <1>1, <1>2, TextKept
  <1>9. AnswerTyped' /\ Waiting'
    BY <1>1, <1>2, <1>6, Frame DEF AnswerTyped, Waiting
  <1>. QED
    BY <1>2, <1>7, <1>8, <1>9 DEF AnswerInv

\* Nothing happens.
LEMMA AnswerStutters ==
  ASSUME AnswerInv, UNCHANGED all PROVE AnswerInv'
  <1>1. UNCHANGED vars /\ UNCHANGED <<stage, at, blocks, lines, removed, added, chunks, projected>>
    BY DEF all, answer
  <1>2. AnswerTyped' /\ Waiting'
    BY <1>1, Frame DEF AnswerInv, AnswerTyped, Waiting
  <1>3. BlocksInv'
    BY <1>1, Frame DEF AnswerInv, BlocksInv
  <1>4. LinesInv'
    <2>1. \A side : Pending(side)' = Pending(side)
      BY <1>1 DEF Pending
    <2>. QED
      BY <1>1, <2>1, Frame DEF AnswerInv, LinesInv
  <1>5. TextInv'
    BY <1>1, Frame DEF AnswerInv, TextInv
  <1>6. SidesInv'
    BY <1>1, Frame DEF AnswerInv, SidesInv
  <1>. QED
    BY <1>2, <1>3, <1>4, <1>5, <1>6 DEF AnswerInv

\* Nothing has happened.
LEMMA AnswerStarts ==
  ASSUME DiffInit PROVE AnswerInv
  <1>1. /\ stage = "blocks" /\ at = 1 /\ blocks = <<>> /\ lines = <<>> /\ removed = <<>> /\ added = <<>>
        /\ chunks = <<>> /\ projected = [side \in Sides |-> <<>>] /\ edits = <<>>
    BY DEF DiffInit, Init
  <1>2. \A side : Seen(side, 1) = {}
    BY <1>1 DEF Seen
  <1>3. AnswerTyped /\ Waiting
    BY <1>1 DEF AnswerTyped, Waiting
  <1>4. BlocksInv
    BY <1>1, <1>2, ListsNothing, ColumnNothing DEF BlocksInv
  <1>5. LinesInv /\ TextInv /\ SidesInv
    BY <1>1 DEF LinesInv, TextInv, SidesInv, Alternates
  <1>. QED
    BY <1>3, <1>4, <1>5 DEF AnswerInv

\* Every step of the comparison.
LEMMA AnswerStep ==
  ASSUME AnswerInv, ScriptInv, ScriptInv', [DiffNext]_all PROVE AnswerInv'
  <1>1. CASE Search
    BY <1>1, SearchStep
  <1>2. CASE buildRevisionDiffBlocks
    BY <1>2, BlockStep
  <1>3. CASE BlocksEnd
    BY <1>3, BlocksEndStep
  <1>4. CASE Collect
    BY <1>4, CollectStep
  <1>5. CASE ShowPair
    BY <1>5, PairStep
  <1>6. CASE ShowRest
    BY <1>6, RestStep
  <1>7. CASE ShowContext
    BY <1>7, ContextStep
  <1>8. CASE LinesEnd
    BY <1>8, LinesEndStep
  <1>9. CASE diffText
    BY <1>9, TextStep
  <1>10. CASE TextEnd
    BY <1>10, TextEndStep
  <1>11. CASE projectLineChunks
    BY <1>11, ProjectStep
  <1>12. CASE SidesEnd
    BY <1>12, SidesEndStep
  <1>13. CASE UNCHANGED all
    BY <1>13, AnswerStutters
  <1>. QED
    BY <1>1, <1>2, <1>3, <1>4, <1>5, <1>6, <1>7, <1>8, <1>9, <1>10, <1>11, <1>12, <1>13 DEF DiffNext

\* Reading the answer takes no step of the search.
THEOREM SearchesAsSpecified == DiffSpec => Init /\ [][Next]_vars
  <1>1. DiffInit => Init
    BY DEF DiffInit
  <1>2. ASSUME [DiffNext]_all PROVE [Next]_vars
    <2>1. CASE Search
      BY <2>1 DEF Search
    <2>2. CASE UNCHANGED all
      BY <2>2 DEF all
    <2>3. CASE \E s \in {"blocks", "lines", "text", "sides"} : Building(s)
      BY <2>3 DEF Building
    <2>. QED
      BY <1>2, <2>1, <2>2, <2>3
         DEF DiffNext, buildRevisionDiffBlocks, BlocksEnd, Collect, ShowPair, ShowRest, ShowContext, LinesEnd,
             diffText, TextEnd, projectLineChunks, SidesEnd
  <1>. QED
    BY <1>1, <1>2, PTL DEF DiffSpec

\* The inductive invariant of the comparison.
LEMMA AnswerInductive == DiffSpec => [](ScriptInv /\ AnswerInv)
  <1>1. DiffSpec => []ScriptInv
    BY SearchesAsSpecified, ScriptInductive
  <1>2. DiffInit => AnswerInv
    BY AnswerStarts
  <1>3. AnswerInv /\ ScriptInv /\ ScriptInv' /\ [DiffNext]_all => AnswerInv'
    BY AnswerStep
  <1>. QED
    BY <1>1, <1>2, <1>3, PTL DEF DiffSpec

\* What an answer shows of either revision is all of it, in its order: its
\* blocks, the lines of a modified block, and the words of a text and of two
\* paired lines, for any sequences that are compared.
THEOREM AnswersReadBothWays == DiffSpec => []AnswerReadsBothWays
  <1>1. ASSUME ScriptInv, AnswerInv PROVE AnswerReadsBothWays
    <2>. SUFFICES ASSUME stage = "shown"
                  PROVE  BlocksReadBothWays /\ LinesReadBothWays /\ ChunksReadBothWays
      BY DEF AnswerReadsBothWays
    <2>1. AnswerTyped /\ BlocksInv /\ LinesInv /\ TextInv /\ SidesInv /\ pc = "done"
      BY <1>1 DEF AnswerInv, Waiting
    <2>2. BlocksReadBothWays
      BY <2>1 DEF BlocksInv, BlocksReadBothWays
    <2>3. LinesReadBothWays
      BY <2>1 DEF LinesInv, LinesReadBothWays
    <2>4. \A side \in Sides : TextOn(side) \in Seq(Elements)
      BY <1>1, <2>1, ScriptShows DEF Script, TextOn
    <2>5. chunks \in Seq(ChunkItem) /\ \A side \in Sides : projected[side] \in Seq(ChunkItem)
      BY <2>1 DEF AnswerTyped
    <2>6. \A side \in Sides :
            Cuts(side, chunks, Len(TextOn(side))) /\ Cuts(side, projected[side], Len(TextOn(side)))
      BY <2>1 DEF TextInv, SidesInv
    <2>7. \A side \in Sides :
            TextOf(side, chunks) = TextOn(side) /\ TextOf(side, projected[side]) = TextOn(side)
      BY <2>4, <2>5, <2>6, CutsText
    <2>8. ChunksReadBothWays
      BY <2>1, <2>7 DEF TextInv, SidesInv, ChunksReadBothWays
    <2>. QED
      BY <2>2, <2>3, <2>8
  <1>. QED
    BY <1>1, AnswerInductive, PTL

\* So what is proved of the search holds while an answer is built from it.
THEOREM ScriptsOfAnswers == DiffSpec => [](TypeOK /\ ScriptReadsBothWays /\ ScriptIsMinimal)
  <1>1. DiffSpec => [](IInv /\ MinInv)
    BY SearchesAsSpecified, MinInductive
  <1>2. ASSUME IInv, MinInv PROVE TypeOK /\ ScriptReadsBothWays /\ ScriptIsMinimal
    <2>1. IsLcs(lcs)
      BY <1>2, LcsExists DEF IInv
    <2>. QED
      BY <1>2, <2>1 DEF IInv, MinInv, DoneMin, ScriptIsMinimal
  <1>. QED
    BY <1>1, <1>2, PTL

=============================================================================
