------------------------------ MODULE Chunker ------------------------------
(***************************************************************************)
(* How a document is cut for the language models: chunkDocument with       *)
(* breakDownBlock and splitUnits of                                        *)
(* extraction_engine/src/chunker/semantic.ts.                              *)
(*                                                                         *)
(* A text is the sequence of its characters other than white space, each   *)
(* with its place in the string and what lies between it and the one       *)
(* before: 1 a heading begins, 2 a blank line, 3 a list or table row, 4    *)
(* the end of a sentence, 5 a space, 0 nothing to cut at.  There is no     *)
(* white space at its ends.  Texts longer than maxTotalChars are left out. *)
(***************************************************************************)
EXTENDS Integers, Sequences

CONSTANTS
  Texts,          \* the texts chunkDocument may be called with
  MaxChars,       \* maxCharsPerChunk
  MaxTotalChunks  \* maxTotalChunks

Boundaries == 1..4
Space      == 5

IsText(t) ==
  /\ t \in Seq([at : Nat, cut : 0..5])
  /\ \A i, j \in 1..Len(t) : i < j => t[i].at < t[j].at

ASSUME ChunkerAssumption ==
  /\ MaxChars \in Nat \ {0}
  /\ MaxTotalChunks \in Nat
  /\ \A t \in Texts : IsText(t)

VARIABLES
  text,     \* the text, which does not change
  chunks,   \* what breakDownBlock has pushed: characters and length
  current,  \* the chunk being packed
  pos,      \* the first character that is in neither
  stack     \* the blocks being broken down: the boundary they are split at
            \* and their last character, the innermost last
cutVars == <<text, chunks, current, pos, stack>>

Empty == [chars |-> {}, length |-> 0]

CutInit == chunks = <<>> /\ current = Empty /\ pos = 1 /\ stack = <<>>

Size == Len(text)
Top  == stack[Len(stack)]

Length(first, last) == text[last].at - text[first].at + 1

-----------------------------------------------------------------------------

(* Faulty variant: the boundary a block begins with is found again.        *)
BlockFromStart(first, last) ==
  LET inside == {b \in Boundaries : \E i \in first..last : text[i].cut = b}
  IN [level |-> IF inside = {} THEN Space ELSE CHOOSE b \in inside : \A c \in inside : b <= c,
      last  |-> last]

(* splitUnits: at the most important boundary there is inside the block;   *)
(* without any it is sliced at spaces.                                     *)
Block(first, last) ==
  LET inside == {b \in Boundaries : \E i \in (first + 1)..last : text[i].cut = b}
  IN [level |-> IF inside = {} THEN Space ELSE CHOOSE b \in inside : \A c \in inside : b <= c,
      last  |-> last]

(* The next unit of the innermost block ends here.                         *)
UnitEnds(last) ==
  LET ends == {i \in pos..Top.last : i = Top.last \/ text[i + 1].cut = Top.level}
  IN last \in ends /\ \A i \in ends : last <= i

(* Units packed into one chunk are joined by a blank line.                 *)
Join(chunk, last) ==
  [chars  |-> chunk.chars \cup pos..last,
   length |-> (IF chunk = Empty THEN 0 ELSE chunk.length + 2) + Length(pos, last)]

(* Faulty variant: the blank line of the join is not counted.              *)
FitsUnjoined(last) == current.length + Length(pos, last) <= MaxChars

Fits(last) == Join(current, last).length <= MaxChars

(* Faulty variant: what was packed before a long unit is forgotten.        *)
FlushForgotten == chunks

Flushed == IF current = Empty THEN chunks ELSE Append(chunks, current)

(* The text is no longer than a chunk.                                     *)
Whole ==
  /\ stack = <<>> /\ pos <= Size
  /\ Length(pos, Size) <= MaxChars
  /\ chunks' = <<Join(Empty, Size)>>
  /\ pos' = Size + 1
  /\ UNCHANGED <<text, current, stack>>

BreakDownText ==
  /\ stack = <<>> /\ pos <= Size
  /\ Length(pos, Size) > MaxChars
  /\ stack' = <<Block(pos, Size)>>
  /\ UNCHANGED <<text, chunks, current, pos>>

(* The loop over the units of a block *)

Splitting == stack # <<>> /\ Top.level # Space /\ pos <= Top.last

Pack ==
  /\ Splitting
  /\ \E last \in pos..Top.last :
       /\ UnitEnds(last)
       /\ Fits(last)
       /\ current' = Join(current, last)
       /\ pos' = last + 1
  /\ UNCHANGED <<text, chunks, stack>>

StartChunk ==
  /\ Splitting
  /\ \E last \in pos..Top.last :
       /\ UnitEnds(last)
       /\ ~Fits(last) /\ Length(pos, last) <= MaxChars
       /\ chunks' = Flushed
       /\ current' = Join(Empty, last)
       /\ pos' = last + 1
  /\ UNCHANGED <<text, stack>>

BreakDownUnit ==
  /\ Splitting
  /\ \E last \in pos..Top.last :
       /\ UnitEnds(last)
       /\ ~Fits(last) /\ Length(pos, last) > MaxChars
       /\ chunks' = Flushed
       /\ current' = Empty
       /\ stack' = Append(stack, Block(pos, last))
  /\ UNCHANGED <<text, pos>>

(* No boundary is left: what remains if it fits, up to the last space      *)
(* within the limit, or up to the limit in the middle of a word.           *)
SliceEnds(last) ==
  LET within == {i \in pos..Top.last : Length(pos, i) <= MaxChars}
      spaces == {i \in within : i < Top.last /\ text[i + 1].cut = Space}
      ends   == CASE Top.last \in within                  -> {Top.last}
                  [] Top.last \notin within /\ spaces # {} -> spaces
                  [] OTHER                                -> within
  IN last \in ends /\ \A i \in ends : i <= last

Slice ==
  /\ stack # <<>> /\ Top.level = Space /\ pos <= Top.last
  /\ \E last \in pos..Top.last :
       /\ SliceEnds(last)
       /\ chunks' = Append(chunks, Join(Empty, last))
       /\ pos' = last + 1
  /\ UNCHANGED <<text, current, stack>>

(* breakDownBlock returns to the loop over the units around it.            *)
Return ==
  /\ stack # <<>> /\ pos > Top.last
  /\ chunks' = Flushed
  /\ current' = Empty
  /\ stack' = SubSeq(stack, 1, Len(stack) - 1)
  /\ UNCHANGED <<text, pos>>

Cut ==
  \/ Whole \/ BreakDownText \/ Pack \/ StartChunk \/ BreakDownUnit
  \/ Slice \/ Return

CutDone == stack = <<>> /\ pos > Size

(* chunkDocument: as many chunks as are allowed, and whether there were    *)
(* more.                                                                   *)
chunkDocument ==
  [chunks    |-> SubSeq(chunks, 1, IF Len(chunks) <= MaxTotalChunks THEN Len(chunks)
                                                                    ELSE MaxTotalChunks),
   truncated |-> Len(chunks) > MaxTotalChunks]

-----------------------------------------------------------------------------
(* Properties *)

Chunk == [chars : SUBSET (1..Size), length : 1..MaxChars]

(* chunkDocument: no chunk is longer than the limit and none is empty,     *)
(* although units are joined by characters the text did not have.          *)
ChunksFit == \A i \in DOMAIN chunks : chunks[i].length \in 1..MaxChars

Before(S, T) == \A p \in S, q \in T : p < q

(* chunkDocument: one after the other the chunks are the text, in order    *)
(* and in full; only a result that says so is cut off, and at its end.     *)
NothingLost ==
  CutDone =>
    LET result == chunkDocument
        kept   == UNION {result.chunks[i].chars : i \in DOMAIN result.chunks}
    IN /\ \A i, j \in DOMAIN result.chunks :
            i < j => Before(result.chunks[i].chars, result.chunks[j].chars)
       /\ Before(kept, (1..Size) \ kept)
       /\ result.truncated <=> kept # 1..Size

(* What is left to do: characters, and blocks to open or to leave.         *)
Remaining ==
  12 * (Size + 1 - pos)
    + IF stack # <<>> /\ pos > Top.last THEN 6 + Len(stack) ELSE 5 - Len(stack)

(* chunkDocument ends: whatever breakDownBlock does brings it nearer to    *)
(* the end, for no block is split into itself again and no slice is empty; *)
(* its recursion is no deeper than there are kinds of boundaries.          *)
ChunkingProgresses ==
  [][Cut => Remaining' \in 0..(Remaining - 1) /\ Len(stack') \in 0..5]_cutVars

(* And there is always a unit, or a slice, to go on with.                  *)
NeverStuck ==
  /\ Splitting => \E last \in pos..Top.last : UnitEnds(last)
  /\ stack # <<>> /\ Top.level = Space /\ pos <= Top.last =>
       \E last \in pos..Top.last : SliceEnds(last)

(* What the loops rely on: the chunks and the one being packed are the     *)
(* text up to pos, in order; the blocks lie in each other and the          *)
(* outermost is the text; nothing is packed while a block is sliced.       *)
CutTypeOK ==
  /\ IsText(text)
  /\ chunks \in Seq(Chunk)
  /\ current \in Chunk \cup {Empty}
  /\ pos \in 1..(Size + 1)
  /\ stack \in Seq([level : Boundaries \cup {Space}, last : 1..Size])

Nested ==
  /\ stack = <<>> => current = Empty /\ pos \in {1, Size + 1}
  /\ stack # <<>> => /\ stack[1].last = Size
                     /\ pos <= Top.last + 1
                     /\ Top.level = Space => current = Empty
  /\ \A i, j \in DOMAIN stack : i < j => stack[j].last <= stack[i].last

Tiled ==
  /\ \A i, j \in DOMAIN chunks : i < j => Before(chunks[i].chars, chunks[j].chars)
  /\ \A i \in DOMAIN chunks : Before(chunks[i].chars, current.chars)
  /\ \A p \in 1..Size :
       p < pos <=> p \in current.chars \/ \E i \in DOMAIN chunks : p \in chunks[i].chars
  /\ \A i \in DOMAIN chunks : chunks[i].chars # {}
  /\ current # Empty => current.chars # {}

(* What the recursion relies on: no boundary that is left in a block is    *)
(* more important than the one it is split at, and the blocks inside a     *)
(* block are split at less important ones than it.                         *)
Finer ==
  \A i \in DOMAIN stack :
    /\ i <= stack[i].level
    /\ \A q \in (pos + 1)..stack[i].last :
         text[q].cut = 0 \/ stack[i].level <= text[q].cut

ChunkerInv == CutTypeOK /\ Nested /\ Tiled
=============================================================================
