---------------------------- MODULE RevisionDiff ----------------------------
(***************************************************************************)
(* What revision comparison makes of an edit script: the blocks of the     *)
(* answer, the lines of a modified block, the chunks of a text and those   *)
(* of two paired lines (internal/application/revision_diff.go).  The code  *)
(* runs the search of MyersDiff on blocks, on lines and on words; here the *)
(* script it found is read in each of these ways, one after the other, a   *)
(* step being one iteration of the loop it is in.                          *)
(***************************************************************************)
EXTENDS MyersDiff

CONSTANTS
  TypeOf   \* the type of an element that is a block

ASSUME TypeOfAssumption == DOMAIN TypeOf = Elements

VARIABLES
  stage,       \* what is built: "blocks", "lines", "text", "sides"; then "shown"
  at,          \* the edit, or in "sides" the chunk, that the loop is at
  blocks,      \* the blocks of the answer
  lines,       \* the lines of a modified block
  removed,     \* since the last equal line: the lines of from not shown yet,
  added,       \* and those of to
  chunks,      \* the chunks of a text, which is the sequence of its words
  projected    \* the chunks of either of two paired lines

answer == <<stage, at, blocks, lines, removed, added, chunks, projected>>
all == <<vars, answer>>

None == -1     \* the index of a side that is not there
Sides == {"from", "to"}

TextOn(side) == IF side = "from" THEN from ELSE to
ShownOn(side, e) == IF side = "from" THEN Keeps(e) ELSE Brings(e)
IndexOn(side, e) == IF side = "from" THEN e.fromIx ELSE e.toIx
Operations(side) == {"equal", IF side = "from" THEN "removed" ELSE "added"}

FromOf(e) == from[e.fromIx + 1]
ToOf(e) == to[e.toIx + 1]

DiffInit ==
  /\ Init
  /\ stage = "blocks"
  /\ at = 1
  /\ blocks = <<>>
  /\ lines = <<>>
  /\ removed = <<>>
  /\ added = <<>>
  /\ chunks = <<>>
  /\ projected = [side \in Sides |-> <<>>]

Search == Next /\ UNCHANGED answer

Building(s) == pc = "done" /\ stage = s /\ UNCHANGED vars
Goes(s) == stage' = s /\ at' = 1

-----------------------------------------------------------------------------
\* A removal right before an addition of the same type is a modification.
Modifies(i) ==
  /\ i + 1 \in DOMAIN edits
  /\ edits[i].typ = "remove"
  /\ edits[i + 1].typ = "add"
  /\ TypeOf[FromOf(edits[i])] = TypeOf[ToOf(edits[i + 1])]

Unchanged(e) == [status |-> "unchanged", fromIx |-> e.fromIx, toIx |-> e.toIx]
Modified(e, f) == [status |-> "modified", fromIx |-> e.fromIx, toIx |-> f.toIx]
RemovedBlock(e) == [status |-> "removed", fromIx |-> e.fromIx, toIx |-> None]
AddedBlock(e) == [status |-> "added", fromIx |-> None, toIx |-> e.toIx]

BlockAt(i) ==
  LET e == edits[i] IN
  CASE e.typ = "equal" -> Unchanged(e)
    [] e.typ = "add" -> AddedBlock(e)
    [] e.typ = "remove" -> IF Modifies(i) THEN Modified(e, edits[i + 1]) ELSE RemovedBlock(e)

buildRevisionDiffBlocks ==
  /\ Building("blocks")
  /\ at \in DOMAIN edits
  /\ blocks' = Append(blocks, BlockAt(at))
  /\ at' = IF Modifies(at) THEN at + 2 ELSE at + 1
  /\ UNCHANGED <<stage, lines, removed, added, chunks, projected>>

BlocksEnd ==
  /\ Building("blocks")
  /\ at \notin DOMAIN edits
  /\ Goes("lines")
  /\ UNCHANGED <<blocks, lines, removed, added, chunks, projected>>

-----------------------------------------------------------------------------
(* buildModifiedBlockLines.                                                *)

ContextLine(e) == [operation |-> "context", fromIx |-> e.fromIx, toIx |-> e.toIx]
RemovedLine(ix) == [operation |-> "removed", fromIx |-> ix, toIx |-> None]
AddedLine(ix) == [operation |-> "added", fromIx |-> None, toIx |-> ix]

HunkEnds == at \in DOMAIN edits => edits[at].typ = "equal"

Collect ==
  /\ Building("lines")
  /\ ~HunkEnds
  /\ at' = at + 1
  /\ IF edits[at].typ = "remove"
       THEN /\ removed' = Append(removed, edits[at].fromIx)
            /\ UNCHANGED added
       ELSE /\ added' = Append(added, edits[at].toIx)
            /\ UNCHANGED removed
  /\ UNCHANGED <<stage, blocks, lines, chunks, projected>>

\* The removed and the added lines take turns as long as there are both.
ShowPair ==
  /\ Building("lines")
  /\ HunkEnds
  /\ removed # <<>>
  /\ added # <<>>
  /\ lines' = lines \o <<RemovedLine(Head(removed)), AddedLine(Head(added))>>
  /\ removed' = Tail(removed)
  /\ added' = Tail(added)
  /\ UNCHANGED <<stage, at, blocks, chunks, projected>>

\* Mutant: what is left of the longer side is dropped.
DropRest ==
  /\ Building("lines")
  /\ HunkEnds
  /\ removed = <<>> \/ added = <<>>
  /\ removed \o added # <<>>
  /\ removed' = <<>>
  /\ added' = <<>>
  /\ UNCHANGED <<stage, at, blocks, lines, chunks, projected>>

ShowRest ==
  /\ Building("lines")
  /\ HunkEnds
  /\ \/ /\ removed # <<>>
        /\ added = <<>>
        /\ lines' = Append(lines, RemovedLine(Head(removed)))
        /\ removed' = Tail(removed)
        /\ UNCHANGED added
     \/ /\ removed = <<>>
        /\ added # <<>>
        /\ lines' = Append(lines, AddedLine(Head(added)))
        /\ added' = Tail(added)
        /\ UNCHANGED removed
  /\ UNCHANGED <<stage, at, blocks, chunks, projected>>

ShowContext ==
  /\ Building("lines")
  /\ at \in DOMAIN edits
  /\ HunkEnds
  /\ removed = <<>>
  /\ added = <<>>
  /\ lines' = Append(lines, ContextLine(edits[at]))
  /\ at' = at + 1
  /\ UNCHANGED <<stage, blocks, removed, added, chunks, projected>>

LinesEnd ==
  /\ Building("lines")
  /\ at \notin DOMAIN edits
  /\ removed = <<>>
  /\ added = <<>>
  /\ Goes("text")
  /\ UNCHANGED <<blocks, lines, removed, added, chunks, projected>>

-----------------------------------------------------------------------------
Chunk(operation, text) == [operation |-> operation, text |-> text]

appendTextChunk(cs, operation, text) ==
  IF text = <<>> THEN cs
  ELSE IF cs # <<>> /\ cs[Len(cs)].operation = operation
    THEN [cs EXCEPT ![Len(cs)] = Chunk(operation, @.text \o text)]
    ELSE Append(cs, Chunk(operation, text))

WordChunk(cs, e) ==
  CASE e.typ = "equal" -> appendTextChunk(cs, "equal", <<FromOf(e)>>)
    [] e.typ = "add" -> appendTextChunk(cs, "added", <<ToOf(e)>>)
    [] e.typ = "remove" -> appendTextChunk(cs, "removed", <<FromOf(e)>>)

diffText ==
  /\ Building("text")
  /\ at \in DOMAIN edits
  /\ chunks' = WordChunk(chunks, edits[at])
  /\ at' = at + 1
  /\ UNCHANGED <<stage, blocks, lines, removed, added, projected>>

TextEnd ==
  /\ Building("text")
  /\ at \notin DOMAIN edits
  /\ Goes("sides")
  /\ UNCHANGED <<blocks, lines, removed, added, chunks, projected>>

\* Both sides of buildPairedLineChunks.
projectLineChunks ==
  /\ Building("sides")
  /\ at \in DOMAIN chunks
  /\ projected' =
       [side \in Sides |->
          IF chunks[at].operation \in Operations(side)
            THEN appendTextChunk(projected[side], chunks[at].operation, chunks[at].text)
            ELSE projected[side]]
  /\ at' = at + 1
  /\ UNCHANGED <<stage, blocks, lines, removed, added, chunks>>

\* A line without chunks that has a text is one chunk.
Fallback(side) ==
  IF projected[side] = <<>> /\ TextOn(side) # <<>>
    THEN <<Chunk(IF side = "from" THEN "removed" ELSE "added", TextOn(side))>>
    ELSE projected[side]

SidesEnd ==
  /\ Building("sides")
  /\ at \notin DOMAIN chunks
  /\ Goes("shown")
  /\ projected' = [side \in Sides |-> Fallback(side)]
  /\ UNCHANGED <<blocks, lines, removed, added, chunks>>

DiffNext ==
  \/ Search
  \/ buildRevisionDiffBlocks \/ BlocksEnd
  \/ Collect \/ ShowPair \/ ShowRest \/ ShowContext \/ LinesEnd
  \/ diffText \/ TextEnd
  \/ projectLineChunks \/ SidesEnd

DiffSpec == DiffInit /\ [][DiffNext]_all /\ WF_all(DiffNext)

-----------------------------------------------------------------------------
\* These indexes, without those that are not there, are the ones of S in order.
Lists(indexes, S) ==
  /\ {indexes[i] : i \in DOMAIN indexes} \ {None} = S
  /\ \A i, j \in DOMAIN indexes :
       i < j /\ indexes[i] # None /\ indexes[j] # None => indexes[i] < indexes[j]

Column(side, items) == [i \in DOMAIN items |-> IndexOn(side, items[i])]

ReadsBothSides(items) ==
  \A side \in Sides : Lists(Column(side, items), 0..(Len(TextOn(side)) - 1))

BlocksReadBothWays ==
  /\ ReadsBothSides(blocks)
  /\ \A i \in DOMAIN blocks :
       /\ blocks[i].status = "unchanged" => FromOf(blocks[i]) = ToOf(blocks[i])
       /\ blocks[i].status = "modified" =>
            /\ FromOf(blocks[i]) # ToOf(blocks[i])
            /\ TypeOf[FromOf(blocks[i])] = TypeOf[ToOf(blocks[i])]

LinesReadBothWays ==
  /\ ReadsBothSides(lines)
  /\ \A i \in DOMAIN lines : lines[i].operation = "context" => FromOf(lines[i]) = ToOf(lines[i])

\* The texts of the chunks that this side has, one after the other.
TextOf(side, cs) ==
  LET text[i \in 0..Len(cs)] ==
        IF i = 0 THEN <<>>
        ELSE IF cs[i].operation \in Operations(side) THEN text[i - 1] \o cs[i].text
        ELSE text[i - 1]
  IN text[Len(cs)]

Alternates(cs) == \A i \in 2..Len(cs) : cs[i - 1].operation # cs[i].operation

ChunksReadBothWays ==
  /\ Alternates(chunks)
  /\ \A side \in Sides :
       /\ TextOf(side, chunks) = TextOn(side)
       /\ TextOf(side, projected[side]) = TextOn(side)
       /\ Alternates(projected[side])
       /\ \A i \in DOMAIN projected[side] : projected[side][i].operation \in Operations(side)

\* What an answer shows of either side is all of that side, in its order:
\* its blocks, of which a modified one differs and has kept its type; the
\* lines of a modified block by their indexes, although removed and added
\* lines take turns; and the chunks of a text and of paired lines.
AnswerReadsBothWays ==
  stage = "shown" => BlocksReadBothWays /\ LinesReadBothWays /\ ChunksReadBothWays
=============================================================================
