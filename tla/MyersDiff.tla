----------------------------- MODULE MyersDiff -----------------------------
(***************************************************************************)
(* The edit script between two sequences (buildMyersEdits and              *)
(* backtrackMyersEdits in internal/application/revision_diff.go), which    *)
(* revision comparison runs on blocks, on lines and on words.              *)
(*                                                                         *)
(* Indexes are the code's, from 0; furthest and trace are its arrays v and *)
(* trace, with a diagonal for the offset index of v.  A step is one        *)
(* iteration of the loop it is in.                                         *)
(***************************************************************************)
EXTENDS Integers, Sequences, FiniteSets

CONSTANTS
  Elements,   \* blocks, lines or words, by what the comparison sees of them
  Inputs      \* the pairs of sequences that are compared

ASSUME InputsAssumption == Inputs \subseteq Seq(Elements) \X Seq(Elements)

VARIABLES
  from, to,   \* what is compared
  pc,         \* "forward", "backward", "done", or "nil": no script was found
  d,          \* the distance the loop is at
  k,          \* the diagonal it is at
  furthest,   \* furthest[i]: how far diagonal i has been followed in from
  trace,      \* trace[i + 1]: furthest as it was before distance i
  x, y,       \* the point from which the way back goes on
  edits       \* the script

vars == <<from, to, pc, d, k, furthest, trace, x, y, edits>>

N == Len(from)
M == Len(to)
maxDistance == N + M
Diagonals == (-maxDistance)..maxDistance

Edit == [typ : {"equal", "add", "remove"}, fromIx : Nat, toIx : Nat]

TypeOK ==
  /\ from \in Seq(Elements)
  /\ to \in Seq(Elements)
  /\ pc \in {"forward", "backward", "done", "nil"}
  /\ d \in 0..(maxDistance + 1)
  /\ k \in (-maxDistance - 1)..(maxDistance + 2)
  /\ furthest \in [Diagonals -> Nat]
  /\ trace \in Seq([Diagonals -> Nat])
  /\ x \in 0..N
  /\ y \in 0..M
  /\ edits \in Seq(Edit)

Init ==
  /\ \E pair \in Inputs : from = pair[1] /\ to = pair[2]
  /\ pc = IF maxDistance = 0 THEN "done" ELSE "forward"
  /\ d = 0
  /\ k = 0
  /\ furthest = [i \in Diagonals |-> 0]
  /\ trace = <<furthest>>
  /\ x = N
  /\ y = M
  /\ edits = <<>>

-----------------------------------------------------------------------------
\* Mutant: the shorter way is continued, not the longer one.
ByAdditionFromShorter(w, distance, i) ==
  \/ i = -distance
  \/ i # distance /\ w[i - 1] >= w[i + 1]

\* At this distance diagonal i is reached by an addition, from diagonal i + 1.
ByAddition(w, distance, i) ==
  \/ i = -distance
  \/ i # distance /\ w[i - 1] < w[i + 1]

Start(w, distance, i) == IF ByAddition(w, distance, i) THEN w[i + 1] ELSE w[i - 1] + 1

\* The elements after point i of this diagonal are the same.
Matches(i, diagonal) ==
  /\ i \in 0..(N - 1)
  /\ i - diagonal \in 0..(M - 1)
  /\ from[i + 1] = to[i - diagonal + 1]

\* From start, the diagonal's elements are the same up to here.
SnakeTo(start, end, diagonal) ==
  /\ start <= end
  /\ \A i \in start..(end - 1) : Matches(i, diagonal)

Found(end, diagonal) == end = N /\ end - diagonal = M

\* One diagonal of the round of distance d.
Extend ==
  LET start == Start(furthest, d, k) IN
  /\ pc = "forward"
  /\ k <= d
  /\ \E end \in start..(start + N) :
       /\ SnakeTo(start, end, k)
       /\ ~Matches(end, k)
       /\ furthest' = [furthest EXCEPT ![k] = end]
       /\ IF Found(end, k)
            THEN /\ pc' = "backward"
                 /\ UNCHANGED k
            ELSE /\ k' = k + 2
                 /\ UNCHANGED pc
  /\ UNCHANGED <<from, to, d, trace, x, y, edits>>

\* Mutant: the loop ends one distance early.
NextRoundBelow ==
  /\ pc = "forward"
  /\ k > d
  /\ d' = d + 1
  /\ k' = -(d + 1)
  /\ IF d + 1 = maxDistance
       THEN /\ pc' = "nil"
            /\ UNCHANGED trace
       ELSE /\ trace' = Append(trace, furthest)
            /\ UNCHANGED pc
  /\ UNCHANGED <<from, to, furthest, x, y, edits>>

NextRound ==
  /\ pc = "forward"
  /\ k > d
  /\ d' = d + 1
  /\ k' = -(d + 1)
  /\ IF d = maxDistance
       THEN /\ pc' = "nil"
            /\ UNCHANGED trace
       ELSE /\ trace' = Append(trace, furthest)
            /\ UNCHANGED pc
  /\ UNCHANGED <<from, to, furthest, x, y, edits>>

-----------------------------------------------------------------------------
PrevK ==
  IF d = 0 THEN 0
  ELSE IF ByAddition(trace[d + 1], d, x - y) THEN x - y + 1 ELSE x - y - 1

\* Mutant: the predecessor is looked up on the diagonal itself.
PrevXSameDiagonal == trace[d + 1][x - y]

PrevX == trace[d + 1][PrevK]
PrevY == PrevX - PrevK

\* Mutant: only the first of the loop's conditions is there.
BackEqualUnbounded ==
  /\ pc = "backward"
  /\ x > PrevX
  /\ x' = x - 1
  /\ y' = y - 1
  /\ edits' = Append(edits, [typ |-> "equal", fromIx |-> x - 1, toIx |-> y - 1])
  /\ UNCHANGED <<from, to, pc, d, k, furthest, trace>>

\* While the loop over equal elements runs, the diagonal is the one it began
\* on: both coordinates go down by one.
BackEqual ==
  /\ pc = "backward"
  /\ x > PrevX
  /\ y > PrevY
  /\ x' = x - 1
  /\ y' = y - 1
  /\ edits' = Append(edits, [typ |-> "equal", fromIx |-> x - 1, toIx |-> y - 1])
  /\ UNCHANGED <<from, to, pc, d, k, furthest, trace>>

BackEdit ==
  /\ pc = "backward"
  /\ ~(x > PrevX /\ y > PrevY)
  /\ d > 0
  /\ d' = d - 1
  /\ \/ /\ x = PrevX
        /\ y' = y - 1
        /\ edits' = Append(edits, [typ |-> "add", fromIx |-> 0, toIx |-> y - 1])
        /\ UNCHANGED x
     \/ /\ x # PrevX
        /\ x' = x - 1
        /\ edits' = Append(edits, [typ |-> "remove", fromIx |-> x - 1, toIx |-> 0])
        /\ UNCHANGED y
  /\ UNCHANGED <<from, to, pc, k, furthest, trace>>

reverseSequenceEdits == [i \in 1..Len(edits) |-> edits[Len(edits) + 1 - i]]

BackEnd ==
  /\ pc = "backward"
  /\ ~(x > PrevX /\ y > PrevY)
  /\ d = 0
  /\ pc' = "done"
  /\ edits' = reverseSequenceEdits
  /\ UNCHANGED <<from, to, d, k, furthest, trace, x, y>>

Next == Extend \/ NextRound \/ BackEqual \/ BackEdit \/ BackEnd

Spec == Init /\ [][Next]_vars /\ WF_vars(Next)

-----------------------------------------------------------------------------
Keeps(e) == e.typ # "add"       \* the edit shows an element of from
Brings(e) == e.typ # "remove"   \* the edit shows an element of to
FromIx(e) == e.fromIx
ToIx(e) == e.toIx

\* In these edits, every index below n is the side's index of exactly one
\* edit of that side, in order.
InOrder(OnSide(_), Ix(_), n) ==
  /\ \A p, q \in DOMAIN edits :
       p < q /\ OnSide(edits[p]) /\ OnSide(edits[q]) => Ix(edits[p]) < Ix(edits[q])
  /\ \A p \in DOMAIN edits : OnSide(edits[p]) => Ix(edits[p]) < n
  /\ \A i \in 0..(n - 1) : \E p \in DOMAIN edits : OnSide(edits[p]) /\ Ix(edits[p]) = i

\* A script shows all of both sequences, each in its order, and calls equal
\* only what is: the loop that goes back takes the elements of a diagonal for
\* equal without looking at them, because of what the trace says.
ScriptReadsBothWays ==
  pc = "done" =>
    /\ InOrder(Keeps, FromIx, N)
    /\ InOrder(Brings, ToIx, M)
    /\ \A p \in DOMAIN edits :
         edits[p].typ = "equal" => from[edits[p].fromIx + 1] = to[edits[p].toIx + 1]

\* lcs[<<i, j>>]: the length of the longest common subsequence of what follows
\* index i of from and j of to (buildLCSMatrix, which the tests compare with).
lcs[p \in (0..N) \X (0..M)] ==
  IF p[1] = N \/ p[2] = M THEN 0
  ELSE IF from[p[1] + 1] = to[p[2] + 1] THEN lcs[<<p[1] + 1, p[2] + 1>>] + 1
  ELSE IF lcs[<<p[1] + 1, p[2]>>] >= lcs[<<p[1], p[2] + 1>>]
    THEN lcs[<<p[1] + 1, p[2]>>] ELSE lcs[<<p[1], p[2] + 1>>]

Equals == {p \in DOMAIN edits : edits[p].typ = "equal"}

\* No script is shorter: what both sequences have in common is never shown as
\* removed and added again.
ScriptIsMinimal == pc = "done" => Cardinality(Equals) = lcs[<<0, 0>>]

\* The search ends, and always with a script: the code answers nil, an empty
\* comparison, if it runs out of distances.
FindsScript == <>(pc = "done")
=============================================================================
