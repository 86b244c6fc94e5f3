-------------------------- MODULE AlgorithmsProofs --------------------------
(***************************************************************************)
(* What the algorithms promise for every text, every list of candidates,   *)
(* every seed and every page.                                              *)
(***************************************************************************)
EXTENDS Algorithms, EntityResolverProofs, TLAPS

-----------------------------------------------------------------------------
(* The chunker: chunks that tile the text                                  *)

(* Tiled, of any chunks, any chunk being packed and any place in the text. *)
Tiling(done, open, p) ==
  /\ \A i, j \in DOMAIN done : i < j => Before(done[i].chars, done[j].chars)
  /\ \A i \in DOMAIN done : Before(done[i].chars, open.chars)
  /\ \A q \in 1..Size :
       q < p <=> q \in open.chars \/ \E i \in DOMAIN done : q \in done[i].chars
  /\ \A i \in DOMAIN done : done[i].chars # {}
  /\ open # Empty => open.chars # {}

LEMMA TiledIsTiling == Tiled <=> Tiling(chunks, current, pos)
  BY DEF Tiled, Tiling

(* A chunk that is pushed: nothing is packed any more.                     *)
LEMMA PushTiles ==
  ASSUME NEW done \in Seq(Chunk), NEW open \in Chunk, NEW p, Tiling(done, open, p)
  PROVE  Tiling(Append(done, open), Empty, p)
  <1> DEFINE all == Append(done, open)
  <1>1. /\ Len(all) = Len(done) + 1 /\ DOMAIN all = 1..(Len(done) + 1) /\ DOMAIN done = 1..Len(done)
        /\ \A i \in DOMAIN done : all[i] = done[i]
        /\ all[Len(done) + 1] = open
        /\ Len(done) \in Nat
    OBVIOUS
  <1>2. open # Empty
    BY DEF Chunk, Empty
  <1> HIDE DEF all
  <1>3. \A i, j \in DOMAIN all : i < j => Before(all[i].chars, all[j].chars)
    BY <1>1 DEF Tiling
  <1>4. \A i \in DOMAIN all : Before(all[i].chars, Empty.chars)
    BY DEF Before, Empty
  <1>5. \A q \in 1..Size : q < p <=> q \in Empty.chars \/ \E i \in DOMAIN all : q \in all[i].chars
    <2> SUFFICES ASSUME NEW q \in 1..Size
                 PROVE  q < p <=> \E i \in DOMAIN all : q \in all[i].chars
      BY DEF Empty
    <2>1. (\E i \in DOMAIN all : q \in all[i].chars)
            <=> q \in open.chars \/ \E i \in DOMAIN done : q \in done[i].chars
      BY <1>1
    <2> QED
      BY <2>1 DEF Tiling
  <1>6. \A i \in DOMAIN all : all[i].chars # {}
    BY <1>1, <1>2 DEF Tiling
  <1> QED
    BY <1>3, <1>4, <1>5, <1>6 DEF Tiling, all

(* Characters that are packed: the next ones of the text.                  *)
LEMMA JoinTiles ==
  ASSUME NEW done \in Seq(Chunk), NEW open \in Chunk \cup {Empty}, NEW last \in pos..Size,
         pos \in Nat, Size \in Nat, Tiling(done, open, pos),
         \A i \in DOMAIN done : done[i].chars \subseteq 1..Size
  PROVE  Tiling(done, Join(open, last), last + 1)
  <1> DEFINE joined == Join(open, last)
  <1>1. joined.chars = open.chars \cup pos..last
    BY DEF Join
  <1>2. \A i \in DOMAIN done : Before(done[i].chars, joined.chars)
    <2> SUFFICES ASSUME NEW i \in DOMAIN done, NEW p \in done[i].chars, NEW q \in joined.chars
                 PROVE  p < q
      BY DEF Before
    <2>1. CASE q \in open.chars
      BY <2>1 DEF Tiling, Before
    <2>2. CASE q \in pos..last
      <3>1. p \in 1..Size /\ p < pos
        BY DEF Tiling
      <3> QED
        BY <2>2, <3>1
    <2> QED
      BY <1>1, <2>1, <2>2
  <1>3. \A q \in 1..Size :
          q < last + 1 <=> q \in joined.chars \/ \E i \in DOMAIN done : q \in done[i].chars
    <2> SUFFICES ASSUME NEW q \in 1..Size
                 PROVE  q < last + 1 <=> q \in joined.chars \/ \E i \in DOMAIN done : q \in done[i].chars
      OBVIOUS
    <2>1. q < last + 1 <=> q < pos \/ q \in pos..last
      OBVIOUS
    <2> QED
      BY <1>1, <2>1 DEF Tiling
  <1>4. joined.chars # {}
    <2>1. pos \in pos..last
      OBVIOUS
    <2> QED
      BY <1>1, <2>1
  <1> QED
    BY <1>2, <1>3, <1>4 DEF Tiling

LEMMA FlushTiles ==
  ASSUME CutTypeOK, Tiled
  PROVE  Flushed \in Seq(Chunk) /\ Tiling(Flushed, Empty, pos)
  <1>1. CASE current = Empty
    BY <1>1, TiledIsTiling DEF CutTypeOK, Flushed
  <1>2. CASE current # Empty
    <2>1. current \in Chunk /\ chunks \in Seq(Chunk)
      BY <1>2 DEF CutTypeOK
    <2>2. Tiling(Append(chunks, current), Empty, pos)
      BY <2>1, PushTiles, TiledIsTiling
    <2> QED
      BY <1>2, <2>1, <2>2 DEF Flushed
  <1> QED
    BY <1>1, <1>2

(* What is at hand when characters of the innermost block are packed.      *)
LEMMA LengthTyped ==
  ASSUME CutTypeOK, NEW last \in pos..Size
  PROVE  Length(pos, last) \in Nat \ {0} /\ Size \in Nat /\ pos \in Nat
  <1> DEFINE Character == [at : Nat, cut : 0..5]
  <1>1. text \in Seq(Character) /\ Size = Len(text) /\ pos \in 1..(Size + 1)
    BY DEF CutTypeOK, IsText, Size
  <1>2. Size \in Nat /\ pos \in 1..Size /\ last \in 1..Size
    BY <1>1
  <1>3. text[pos] \in Character /\ text[last] \in Character
    <2> HIDE DEF Character
    <2> QED
      BY <1>1, <1>2
  <1>4. text[pos].at \in Nat /\ text[last].at \in Nat
    BY <1>3
  <1>5. pos = last \/ text[pos].at < text[last].at
    BY <1>2 DEF CutTypeOK, IsText, Size
  <1> QED
    BY <1>2, <1>4, <1>5 DEF Length

LEMMA JoinTyped ==
  ASSUME CutTypeOK, NEW open \in Chunk \cup {Empty}, NEW last \in pos..Size,
         Join(open, last).length <= MaxChars
  PROVE  Join(open, last) \in Chunk
  <1>1. Length(pos, last) \in Nat \ {0} /\ Size \in Nat /\ pos \in Nat /\ 1 <= pos
    BY LengthTyped DEF CutTypeOK
  <1>2. open.chars \subseteq 1..Size /\ (open # Empty => open.length \in Nat)
    BY DEF Chunk, Empty
  <1>3. open.chars \cup pos..last \in SUBSET (1..Size)
    BY <1>1, <1>2
  <1>4. Join(open, last).length \in 1..MaxChars
    BY <1>1, <1>2, ChunkerAssumption DEF Join
  <1> QED
    BY <1>3, <1>4 DEF Join, Chunk

LEMMA TopTyped ==
  ASSUME CutTypeOK, Nested, stack # <<>>
  PROVE  /\ Len(stack) \in Nat \ {0} /\ Len(stack) \in DOMAIN stack
         /\ Top.last \in 1..Size
         /\ Size \in Nat
  <1> DEFINE Frame == [level : Boundaries \cup {Space}, last : 1..Size]
  <1>1. stack \in Seq(Frame) /\ Size \in Nat
    BY DEF CutTypeOK, IsText, Size
  <1>2. Len(stack) \in 1..Len(stack) /\ Len(stack) \in Nat \ {0}
    BY <1>1
  <1>3. Top \in Frame
    <2> HIDE DEF Frame
    <2> QED
      BY <1>1, <1>2 DEF Top
  <1> QED
    BY <1>1, <1>2, <1>3

Frames == [level : Boundaries \cup {Space}, last : 1..Size]

LEMMA BlockTyped ==
  ASSUME NEW first, NEW last \in 1..Size
  PROVE  Block(first, last) \in Frames /\ Block(first, last).last = last
  <1> DEFINE inside == {b \in Boundaries : \E i \in (first + 1)..last : text[i].cut = b}
             level  == CHOOSE b \in inside : \A c \in inside : b <= c
  <1>1. Block(first, last) = [level |-> IF inside = {} THEN Space ELSE level, last |-> last]
    BY DEF Block
  <1>2. inside # {} => level \in Boundaries
    <2>1. inside \subseteq Boundaries
      OBVIOUS
    <2> HIDE DEF inside
    <2>2. inside # {} => \E b \in inside : \A c \in inside : b <= c
      <3>1. \A b \in inside : b \in {1, 2, 3, 4}
        BY <2>1 DEF Boundaries
      <3>2. CASE 1 \in inside
        BY <3>1, <3>2
      <3>3. CASE 1 \notin inside /\ 2 \in inside
        BY <3>1, <3>3
      <3>4. CASE 1 \notin inside /\ 2 \notin inside /\ 3 \in inside
        BY <3>1, <3>4
      <3>5. CASE 1 \notin inside /\ 2 \notin inside /\ 3 \notin inside
        BY <3>1, <3>5
      <3> QED
        BY <3>2, <3>3, <3>4, <3>5
    <2>3. inside # {} => level \in inside
      BY <2>2
    <2> QED
      BY <2>1, <2>3
  <1> HIDE DEF inside, level
  <1> QED
    BY <1>1, <1>2 DEF Frames

-----------------------------------------------------------------------------
(* The chunker: the steps                                                  *)

LEMMA WholeInv ==
  ASSUME ChunkerInv, Whole
  PROVE  ChunkerInv'
  <1>1. CutTypeOK /\ Tiling(chunks, current, pos) /\ current = Empty /\ chunks = <<>>
    <2>1. CutTypeOK /\ Tiling(chunks, current, pos) /\ current = Empty /\ pos = 1
      <3>1. Size \in Nat /\ pos <= Size /\ pos \in {1, Size + 1}
        BY DEF ChunkerInv, CutTypeOK, IsText, Size, Nested, Whole
      <3> QED
        BY <3>1, TiledIsTiling DEF ChunkerInv, Nested, Whole
    <2>2. \A i \in DOMAIN chunks : chunks[i] \in Chunk
      BY <2>1 DEF CutTypeOK
    <2>3. \A i \in DOMAIN chunks : chunks[i].chars = {}
      <3> SUFFICES ASSUME NEW i \in DOMAIN chunks, NEW p \in chunks[i].chars
                   PROVE  FALSE
        OBVIOUS
      <3>1. p \in 1..Size /\ p < 1
        BY <2>1, <2>2 DEF Chunk, Tiling
      <3> QED
        BY <3>1
    <2>4. DOMAIN chunks = {}
      BY <2>1, <2>3 DEF Tiling
    <2> QED
      BY <2>1, <2>4 DEF CutTypeOK
  <1>2. Size \in pos..Size /\ Size \in Nat /\ pos \in 1..Size
    BY <1>1 DEF CutTypeOK, IsText, Size, Whole
  <1>3. Join(Empty, Size) \in Chunk
    <2>1. Join(Empty, Size).length = Length(pos, Size) /\ Length(pos, Size) <= MaxChars
      BY <1>1, <1>2, LengthTyped DEF Join, Whole
    <2> QED
      BY <1>1, <1>2, <2>1, JoinTyped
  <1>4. Tiling(<<>>, Join(Empty, Size), Size + 1)
    <2>1. /\ chunks \in Seq(Chunk) /\ current \in Chunk \cup {Empty}
          /\ Tiling(chunks, current, pos) /\ pos \in Nat
          /\ \A i \in DOMAIN chunks : chunks[i].chars \subseteq 1..Size
      BY <1>1, <1>2 DEF CutTypeOK
    <2>2. Tiling(chunks, Join(current, Size), Size + 1)
      BY <1>2, <2>1, JoinTiles
    <2> QED
      BY <1>1, <2>2
  <1>5. Tiling(<<Join(Empty, Size)>>, Empty, Size + 1)
    <2>1. Append(<<>>, Join(Empty, Size)) = <<Join(Empty, Size)>> /\ <<>> \in Seq(Chunk)
      OBVIOUS
    <2> QED
      BY <1>3, <1>4, <2>1, PushTiles
  <1>6. UNCHANGED <<text, current, stack, Size>> /\ chunks' = <<Join(Empty, Size)>> /\ pos' = Size + 1
    BY DEF Whole, Size
  <1>7. CutTypeOK'
    BY <1>1, <1>2, <1>3, <1>6 DEF CutTypeOK, IsText, Size, Chunk
  <1>8. Nested'
    BY <1>1, <1>6 DEF ChunkerInv, Nested, Whole, Size
  <1>9. Tiled'
    BY <1>1, <1>5, <1>6 DEF Tiled, Tiling, Size
  <1> QED
    BY <1>7, <1>8, <1>9 DEF ChunkerInv

LEMMA BreakDownTextInv ==
  ASSUME ChunkerInv, BreakDownText
  PROVE  ChunkerInv'
  <1>1. UNCHANGED <<text, chunks, current, pos, Size>> /\ stack' = <<Block(pos, Size)>>
    BY DEF BreakDownText, Size
  <1>2. Size \in 1..Size /\ Size \in Nat /\ pos \in 1..Size
    BY DEF ChunkerInv, CutTypeOK, IsText, Size, BreakDownText
  <1>3. Block(pos, Size) \in Frames /\ Block(pos, Size).last = Size
    BY <1>2, BlockTyped
  <1>4. CutTypeOK'
    BY <1>1, <1>3 DEF ChunkerInv, CutTypeOK, IsText, Size, Chunk, Frames
  <1>5. Nested'
    <2>1. stack'[1] = Block(pos, Size) /\ Top' = Block(pos, Size) /\ Len(stack') = 1
      BY <1>1 DEF Top
    <2>2. current = Empty
      BY DEF ChunkerInv, Nested, BreakDownText
    <2> QED
      BY <1>1, <1>2, <1>3, <2>1, <2>2 DEF Nested, Size
  <1>6. Tiled'
    BY <1>1 DEF ChunkerInv, Tiled, Size
  <1> QED
    BY <1>4, <1>5, <1>6 DEF ChunkerInv

(* Every chunk is made of characters of the text.                          *)
LEMMA ChunksInText ==
  ASSUME CutTypeOK
  PROVE  \A i \in DOMAIN chunks : chunks[i].chars \subseteq 1..Size
  <1>1. \A i \in DOMAIN chunks : chunks[i] \in Chunk
    BY DEF CutTypeOK
  <1> QED
    BY <1>1 DEF Chunk

LEMMA PackInv ==
  ASSUME ChunkerInv, Pack
  PROVE  ChunkerInv'
  <1>1. PICK last \in pos..Top.last :
          Fits(last) /\ current' = Join(current, last) /\ pos' = last + 1
    BY DEF Pack
  <1>2. UNCHANGED <<text, chunks, stack, Size, Top>> /\ stack # <<>> /\ Top.level # Space
    BY DEF Pack, Splitting, Size, Top
  <1>3. Top.last \in 1..Size /\ Size \in Nat /\ pos \in Nat /\ 1 <= pos
    BY <1>2, TopTyped DEF ChunkerInv, CutTypeOK
  <1>4. last \in pos..Size /\ last \in 1..Size /\ last <= Top.last
    BY <1>1, <1>3
  <1>5. Join(current, last) \in Chunk
    BY <1>1, <1>4, JoinTyped DEF ChunkerInv, CutTypeOK, Fits
  <1>6. CutTypeOK'
    BY <1>1, <1>2, <1>3, <1>4, <1>5 DEF ChunkerInv, CutTypeOK, IsText, Size, Chunk
  <1>7. Nested'
    BY <1>1, <1>2, <1>3, <1>4 DEF ChunkerInv, Nested
  <1>8. Tiled'
    <2>1. Tiling(chunks, Join(current, last), last + 1)
      BY <1>3, <1>4, JoinTiles, TiledIsTiling, ChunksInText DEF ChunkerInv, CutTypeOK
    <2> QED
      BY <1>1, <1>2, <2>1 DEF Tiled, Tiling
  <1> QED
    BY <1>6, <1>7, <1>8 DEF ChunkerInv

LEMMA StartChunkInv ==
  ASSUME ChunkerInv, StartChunk
  PROVE  ChunkerInv'
  <1>1. PICK last \in pos..Top.last :
          /\ Length(pos, last) <= MaxChars /\ chunks' = Flushed
          /\ current' = Join(Empty, last) /\ pos' = last + 1
    BY DEF StartChunk
  <1>2. UNCHANGED <<text, stack, Size, Top>> /\ stack # <<>> /\ Top.level # Space
    BY DEF StartChunk, Splitting, Size, Top
  <1>3. Top.last \in 1..Size /\ Size \in Nat /\ pos \in Nat /\ 1 <= pos
    BY <1>2, TopTyped DEF ChunkerInv, CutTypeOK
  <1>4. last \in pos..Size /\ last \in 1..Size /\ last <= Top.last
    BY <1>1, <1>3
  <1>5. Join(Empty, last) \in Chunk
    <2>1. Join(Empty, last).length = Length(pos, last)
      BY <1>4, LengthTyped DEF ChunkerInv, Join
    <2> QED
      BY <1>1, <1>4, <2>1, JoinTyped DEF ChunkerInv
  <1>6. Flushed \in Seq(Chunk) /\ Tiling(Flushed, Empty, pos)
    BY FlushTiles DEF ChunkerInv
  <1>7. CutTypeOK'
    BY <1>1, <1>2, <1>3, <1>4, <1>5, <1>6 DEF ChunkerInv, CutTypeOK, IsText, Size, Chunk
  <1>8. Nested'
    BY <1>1, <1>2, <1>3, <1>4 DEF ChunkerInv, Nested
  <1>9. Tiled'
    <2>1. \A i \in DOMAIN Flushed : Flushed[i].chars \subseteq 1..Size
      <3>1. \A i \in DOMAIN Flushed : Flushed[i] \in Chunk
        BY <1>6
      <3> QED
        BY <3>1 DEF Chunk
    <2>2. Tiling(Flushed, Join(Empty, last), last + 1)
      BY <1>3, <1>4, <1>6, <2>1, JoinTiles
    <2> QED
      BY <1>1, <1>2, <2>2 DEF Tiled, Tiling
  <1> QED
    BY <1>7, <1>8, <1>9 DEF ChunkerInv

LEMMA BreakDownUnitInv ==
  ASSUME ChunkerInv, BreakDownUnit
  PROVE  ChunkerInv'
  <1>1. PICK last \in pos..Top.last :
          chunks' = Flushed /\ current' = Empty /\ stack' = Append(stack, Block(pos, last))
    BY DEF BreakDownUnit
  <1>2. UNCHANGED <<text, pos, Size>> /\ stack # <<>>
    BY DEF BreakDownUnit, Splitting, Size
  <1>3. Top.last \in 1..Size /\ Size \in Nat /\ pos \in Nat /\ 1 <= pos
    BY <1>2, TopTyped DEF ChunkerInv, CutTypeOK
  <1>4. last \in 1..Size /\ pos <= last /\ last <= Top.last
    BY <1>1, <1>3
  <1>5. Block(pos, last) \in Frames /\ Block(pos, last).last = last
    BY <1>4, BlockTyped
  <1>6. Flushed \in Seq(Chunk) /\ Tiling(Flushed, Empty, pos)
    BY FlushTiles DEF ChunkerInv
  <1>7. stack \in Seq(Frames)
    BY DEF ChunkerInv, CutTypeOK, Frames
  <1>8. CutTypeOK'
    <2>1. stack' \in Seq(Frames)
      BY <1>1, <1>5, <1>7
    <2> QED
      BY <1>1, <1>2, <1>6, <2>1 DEF ChunkerInv, CutTypeOK, IsText, Size, Chunk, Frames
  <1>9. Nested'
    <2>1. /\ Len(stack') = Len(stack) + 1 /\ Len(stack) \in Nat \ {0}
          /\ DOMAIN stack = 1..Len(stack) /\ DOMAIN stack' = 1..(Len(stack) + 1)
          /\ \A i \in DOMAIN stack : stack'[i] = stack[i] /\ stack[i].last \in Int
          /\ stack'[Len(stack) + 1] = Block(pos, last)
      <3>1. \A i \in DOMAIN stack : stack[i] \in Frames
        BY <1>7
      <3>2. \A i \in DOMAIN stack : stack[i].last \in Int
        BY <3>1 DEF Frames
      <3> QED
        BY <1>1, <1>2, <1>5, <1>7, <3>2
    <2>2. Top' = Block(pos, last) /\ stack' # <<>> /\ stack'[1] = stack[1]
      BY <2>1 DEF Top
    <2>3. \A i \in DOMAIN stack : last <= stack[i].last
      <3> SUFFICES ASSUME NEW i \in DOMAIN stack PROVE last <= stack[i].last
        OBVIOUS
      <3>1. Top.last <= stack[i].last
        BY <1>3, <2>1 DEF ChunkerInv, Nested, Top
      <3> QED
        BY <1>3, <1>4, <2>1, <3>1
    <2>4. \A i, j \in DOMAIN stack' : i < j => stack'[j].last <= stack'[i].last
      BY <1>5, <2>1, <2>3 DEF ChunkerInv, Nested
    <2> QED
      BY <1>1, <1>2, <1>3, <1>4, <1>5, <2>2, <2>4 DEF ChunkerInv, Nested
  <1>10. Tiled'
    BY <1>1, <1>2, <1>6 DEF Tiled, Tiling
  <1> QED
    BY <1>8, <1>9, <1>10 DEF ChunkerInv

LEMMA SliceInv ==
  ASSUME ChunkerInv, Slice
  PROVE  ChunkerInv'
  <1>1. PICK last \in pos..Top.last :
          SliceEnds(last) /\ chunks' = Append(chunks, Join(Empty, last)) /\ pos' = last + 1
    BY DEF Slice
  <1>2. UNCHANGED <<text, current, stack, Size, Top>> /\ stack # <<>> /\ Top.level = Space
    BY DEF Slice, Size, Top
  <1>3. Top.last \in 1..Size /\ Size \in Nat /\ pos \in Nat /\ 1 <= pos
    BY <1>2, TopTyped DEF ChunkerInv, CutTypeOK
  <1>4. last \in pos..Size /\ last \in 1..Size /\ last <= Top.last
    BY <1>1, <1>3
  <1>5. current = Empty
    BY <1>2 DEF ChunkerInv, Nested
  <1>6. Length(pos, last) <= MaxChars
    BY <1>1 DEF SliceEnds
  <1>7. Join(Empty, last) \in Chunk
    <2>1. Join(Empty, last).length = Length(pos, last)
      BY <1>4, LengthTyped DEF ChunkerInv, Join
    <2> QED
      BY <1>4, <1>6, <2>1, JoinTyped DEF ChunkerInv
  <1>8. CutTypeOK'
    <2>1. chunks' \in Seq(Chunk)
      BY <1>1, <1>7 DEF ChunkerInv, CutTypeOK
    <2>2. chunks' \in Seq(Chunk')
      BY <1>2, <2>1 DEF Chunk
    <2> QED
      BY <1>1, <1>2, <1>3, <1>4, <2>2 DEF ChunkerInv, CutTypeOK, IsText, Size, Chunk
  <1>9. Nested'
    BY <1>1, <1>2, <1>3, <1>4 DEF ChunkerInv, Nested
  <1>10. Tiled'
    <2>1. Tiling(chunks, Join(Empty, last), last + 1)
      BY <1>3, <1>4, <1>5, JoinTiles, TiledIsTiling, ChunksInText DEF ChunkerInv, CutTypeOK
    <2>2. Tiling(chunks', Empty, last + 1)
      BY <1>1, <1>7, <2>1, PushTiles DEF ChunkerInv, CutTypeOK
    <2> QED
      BY <1>1, <1>2, <1>5, <2>2 DEF Tiled, Tiling
  <1> QED
    BY <1>8, <1>9, <1>10 DEF ChunkerInv

LEMMA ReturnInv ==
  ASSUME ChunkerInv, Return
  PROVE  ChunkerInv'
  <1>1. /\ chunks' = Flushed /\ current' = Empty
        /\ stack' = SubSeq(stack, 1, Len(stack) - 1)
        /\ stack # <<>> /\ pos > Top.last /\ UNCHANGED <<text, pos, Size>>
    BY DEF Return, Size
  <1>2. Top.last \in 1..Size /\ Size \in Nat /\ pos \in Nat /\ pos = Top.last + 1
    <2>1. Top.last \in 1..Size /\ Size \in Nat
      BY <1>1, TopTyped DEF ChunkerInv
    <2>2. pos \in Nat /\ pos <= Top.last + 1
      BY <1>1, <2>1 DEF ChunkerInv, CutTypeOK, Nested
    <2> QED
      BY <1>1, <2>1, <2>2
  <1>3. Flushed \in Seq(Chunk) /\ Tiling(Flushed, Empty, pos)
    BY FlushTiles DEF ChunkerInv
  <1>4. stack \in Seq(Frames)
    BY DEF ChunkerInv, CutTypeOK, Frames
  <1>5. /\ stack' \in Seq(Frames) /\ Len(stack) \in Nat \ {0}
        /\ Len(stack') = Len(stack) - 1
        /\ DOMAIN stack = 1..Len(stack) /\ DOMAIN stack' = 1..(Len(stack) - 1)
        /\ \A i \in DOMAIN stack' : stack'[i] = stack[i]
    <2>1. /\ Len(stack) \in Nat \ {0} /\ DOMAIN stack = 1..Len(stack)
          /\ \A i \in DOMAIN stack : stack[i] \in Frames
      BY <1>1, <1>4
    <2>2. stack' = [i \in 1..(Len(stack) - 1) |-> stack[i]]
      BY <1>1, <2>1
    <2>3. stack' \in Seq(Frames)
      BY <2>1, <2>2
    <2> QED
      BY <2>1, <2>2, <2>3
  <1>6. CutTypeOK'
    BY <1>1, <1>3, <1>5 DEF ChunkerInv, CutTypeOK, IsText, Size, Chunk, Frames
  <1>7. Nested'
    <2>1. CASE Len(stack) = 1
      <3>1. stack' = <<>> /\ Top = stack[1]
        BY <1>5, <2>1 DEF Top
      <3>2. pos = Size + 1
        BY <1>1, <1>2, <3>1 DEF ChunkerInv, Nested
      <3> QED
        BY <1>1, <1>5, <3>1, <3>2 DEF Nested
    <2>2. CASE Len(stack) > 1
      <3>1. stack' # <<>> /\ stack'[1] = stack[1] /\ Top' = stack[Len(stack) - 1]
        BY <1>5, <2>2 DEF Top
      <3>2. Top.last <= Top'.last /\ Top'.last \in Int
        <4>1. Len(stack) - 1 \in DOMAIN stack /\ Len(stack) \in DOMAIN stack
          BY <1>5, <2>2
        <4>2. stack[Len(stack) - 1] \in Frames
          BY <1>4, <4>1
        <4> QED
          BY <1>5, <3>1, <4>1, <4>2 DEF ChunkerInv, Nested, Top, Frames
      <3> QED
        BY <1>1, <1>2, <1>5, <3>1, <3>2 DEF ChunkerInv, Nested
    <2> QED
      BY <1>5, <2>1, <2>2
  <1>8. Tiled'
    BY <1>1, <1>3 DEF Tiled, Tiling
  <1> QED
    BY <1>6, <1>7, <1>8 DEF ChunkerInv

LEMMA CutPreserves ==
  ASSUME ChunkerInv, Cut
  PROVE  ChunkerInv'
  BY WholeInv, BreakDownTextInv, PackInv, StartChunkInv, BreakDownUnitInv, SliceInv, ReturnInv DEF Cut

LEMMA CutStarts ==
  ASSUME CutInit, text \in Texts \/ text = <<>>
  PROVE  ChunkerInv
  <1>1. IsText(text)
    <2>1. IsText(<<>>)
      BY DEF IsText
    <2> QED
      BY <2>1, ChunkerAssumption
  <1>2. Size \in Nat
    BY <1>1 DEF IsText, Size
  <1>3. CutTypeOK
    BY <1>1, <1>2 DEF CutInit, CutTypeOK
  <1>4. Nested /\ Tiled
    BY <1>2 DEF CutInit, Nested, Tiled, Empty
  <1> QED
    BY <1>3, <1>4 DEF ChunkerInv

LEMMA ChunksFitInv ==
  ASSUME ChunkerInv
  PROVE  ChunksFit
  <1>1. \A i \in DOMAIN chunks : chunks[i] \in Chunk
    BY DEF ChunkerInv, CutTypeOK
  <1> QED
    BY <1>1 DEF ChunksFit, Chunk

(* The chunks tile the text; those that are returned are the first ones,   *)
(* and each of the others holds a character none of them has.              *)
LEMMA NothingLostInv ==
  ASSUME ChunkerInv
  PROVE  NothingLost
  <1> SUFFICES ASSUME CutDone PROVE NothingLost
    BY DEF NothingLost
  <1> DEFINE n    == IF Len(chunks) <= MaxTotalChunks THEN Len(chunks) ELSE MaxTotalChunks
             some == SubSeq(chunks, 1, n)
             kept == UNION {some[i].chars : i \in DOMAIN some}
  <1>1. chunkDocument = [chunks |-> some, truncated |-> Len(chunks) > MaxTotalChunks]
    BY DEF chunkDocument
  <1>2. chunks \in Seq(Chunk) /\ Len(chunks) \in Nat /\ n \in 0..Len(chunks)
    BY ChunkerAssumption DEF ChunkerInv, CutTypeOK
  <1>3. DOMAIN some = 1..n /\ \A i \in 1..n : some[i] = chunks[i]
    <2> HIDE DEF n
    <2>1. some = [i \in 1..n |-> chunks[i]]
      BY <1>2
    <2> QED
      BY <2>1
  <1>4. DOMAIN chunks = 1..Len(chunks) /\ \A i \in 1..Len(chunks) : chunks[i].chars \subseteq 1..Size
    BY <1>2, ChunksInText DEF ChunkerInv
  <1>5. \A p \in 1..Size : \E i \in 1..Len(chunks) : p \in chunks[i].chars
    <2>1. Size \in Nat /\ pos = Size + 1 /\ current = Empty
      BY DEF ChunkerInv, CutTypeOK, IsText, Size, Nested, CutDone
    <2>2. \A p \in 1..Size : p < pos
      BY <2>1
    <2> QED
      BY <1>4, <2>1, <2>2 DEF ChunkerInv, Tiled, Empty
  <1>6. n = Len(chunks) \/ n < Len(chunks)
    BY <1>2
  <1>7. Len(chunks) > MaxTotalChunks <=> n < Len(chunks)
    BY <1>2, ChunkerAssumption
  <1> HIDE DEF n, some
  <1>8. \A p : p \in kept <=> \E i \in 1..n : p \in chunks[i].chars
    BY <1>3
  <1> HIDE DEF kept
  <1>9. \A i, j \in 1..Len(chunks) : i < j => Before(chunks[i].chars, chunks[j].chars)
    BY <1>4 DEF ChunkerInv, Tiled
  <1>10. \A i, j \in DOMAIN some : i < j => Before(some[i].chars, some[j].chars)
    BY <1>2, <1>3, <1>9
  <1>11. Before(kept, (1..Size) \ kept)
    <2> SUFFICES ASSUME NEW p \in kept, NEW q \in (1..Size) \ kept PROVE p < q
      BY DEF Before
    <2>1. PICK i \in 1..n : p \in chunks[i].chars
      BY <1>8
    <2>2. PICK j \in 1..Len(chunks) : q \in chunks[j].chars
      BY <1>5
    <2>3. j \notin 1..n
      BY <1>8, <2>2
    <2>4. i < j /\ i \in 1..Len(chunks)
      BY <1>2, <2>1, <2>2, <2>3
    <2> QED
      BY <1>9, <2>1, <2>2, <2>4 DEF Before
  <1>12. n < Len(chunks) <=> kept # 1..Size
    <2>1. CASE n = Len(chunks)
      <3>1. \A p : p \in kept <=> p \in 1..Size
        BY <1>4, <1>5, <1>8, <2>1
      <3>2. kept = 1..Size
        BY <3>1
      <3> QED
        BY <1>2, <2>1, <3>2
    <2>2. CASE n < Len(chunks)
      <3>1. n + 1 \in 1..Len(chunks)
        BY <1>2, <2>2
      <3>2. PICK q \in chunks[n + 1].chars : TRUE
        BY <1>4, <3>1 DEF ChunkerInv, Tiled
      <3>3. q \in 1..Size
        BY <1>4, <3>1, <3>2
      <3>4. ASSUME q \in kept PROVE FALSE
        <4>1. PICK i \in 1..n : q \in chunks[i].chars
          BY <1>8, <3>4
        <4>2. i < n + 1 /\ i \in 1..Len(chunks)
          BY <1>2, <4>1
        <4>3. q < q
          BY <1>9, <3>1, <3>2, <4>1, <4>2 DEF Before
        <4> QED
          BY <3>3, <4>3
      <3> QED
        BY <2>2, <3>3, <3>4
    <2> QED
      BY <1>6, <2>1, <2>2
  <1> QED
    BY <1>1, <1>7, <1>10, <1>11, <1>12 DEF NothingLost, kept

-----------------------------------------------------------------------------
(* The chunker: it ends                                                    *)

LEMMA CutsTyped ==
  ASSUME IsText(text)
  PROVE  Size \in Nat /\ \A q \in 1..Size : text[q].cut \in 0..5
  <1> DEFINE Character == [at : Nat, cut : 0..5]
  <1>1. text \in Seq(Character) /\ Size = Len(text) /\ Size \in Nat
    BY DEF IsText, Size
  <1>2. \A q \in 1..Size : text[q] \in Character
    <2> HIDE DEF Character
    <2> QED
      BY <1>1
  <1> QED
    BY <1>1, <1>2

(* A block is split at a boundary that is less important than any its      *)
(* inside lacks, and more important than any that is left in it.           *)
LEMMA BlockIsFiner ==
  ASSUME IsText(text), NEW first \in Nat \ {0}, NEW last \in 1..Size, NEW outer \in 0..4,
         \A q \in (first + 1)..last : text[q].cut = 0 \/ outer < text[q].cut
  PROVE  /\ outer + 1 <= Block(first, last).level
         /\ \A q \in (first + 1)..last :
              text[q].cut = 0 \/ Block(first, last).level <= text[q].cut
  <1> DEFINE inside == {b \in Boundaries : \E q \in (first + 1)..last : text[q].cut = b}
             level  == CHOOSE b \in inside : \A c \in inside : b <= c
  <1>1. Block(first, last).level = IF inside = {} THEN Space ELSE level
    BY DEF Block
  <1>2. \A q \in (first + 1)..last : text[q].cut \in 0..5
    <2>1. \A q \in (first + 1)..last : q \in 1..Size
      BY CutsTyped
    <2> QED
      BY <2>1, CutsTyped
  <1>3. \A q \in (first + 1)..last : text[q].cut \in {0, 5} \/ text[q].cut \in inside
    BY <1>2 DEF Boundaries
  <1>4. \A b \in inside : b \in 1..4 /\ outer < b
    BY DEF Boundaries
  <1>5. CASE inside = {}
    BY <1>1, <1>3, <1>5 DEF Space
  <1>6. CASE inside # {}
    <2> HIDE DEF inside
    <2>1. inside \in SUBSET Nat
      BY <1>4
    <2>2. \E b \in inside : \A c \in inside : b <= c
      BY <1>6, <2>1, LeastElement
    <2>3. level \in inside /\ \A c \in inside : level <= c
      BY <2>2
    <2> HIDE DEF level
    <2>4. level \in 1..4 /\ outer < level
      BY <1>4, <2>3
    <2>5. \A q \in (first + 1)..last : text[q].cut = 0 \/ level <= text[q].cut
      <3> SUFFICES ASSUME NEW q \in (first + 1)..last, text[q].cut # 0
                   PROVE  level <= text[q].cut
        OBVIOUS
      <3>1. CASE text[q].cut = 5
        BY <2>4, <3>1
      <3>2. CASE text[q].cut \in inside
        BY <2>3, <3>2
      <3> QED
        BY <1>3, <3>1, <3>2
    <2>6. outer + 1 <= level
      BY <2>4
    <2> QED
      BY <1>1, <1>6, <2>5, <2>6
  <1> QED
    BY <1>5, <1>6

LEMMA LaterInterval ==
  ASSUME NEW a \in Nat, NEW b \in Nat, a <= b, NEW n \in Int, NEW q \in (b + 1)..n
  PROVE  q \in (a + 1)..n
  OBVIOUS

LEMMA FinerForward ==
  ASSUME Finer, stack \in Seq(Frames), UNCHANGED <<text, stack>>,
         pos \in Nat, pos' \in Nat, pos <= pos'
  PROVE  Finer'
  <1> SUFFICES ASSUME NEW i \in DOMAIN stack, NEW q \in (pos' + 1)..stack[i].last
               PROVE  text[q].cut = 0 \/ stack[i].level <= text[q].cut
    BY DEF Finer
  <1>1. stack[i] \in Frames
    OBVIOUS
  <1>2. stack[i].last \in Int
    BY <1>1 DEF Frames
  <1>3. q \in (pos + 1)..stack[i].last
    BY <1>2, LaterInterval
  <1> QED
    BY <1>3 DEF Finer

LEMMA FinerBlock ==
  ASSUME Finer, stack \in Seq(Frames), UNCHANGED <<text, pos>>, NEW block, stack' = Append(stack, block),
         Len(stack) + 1 <= block.level,
         \A q \in (pos + 1)..block.last : text[q].cut = 0 \/ block.level <= text[q].cut
  PROVE  Finer'
  <1>1. /\ DOMAIN stack = 1..Len(stack) /\ DOMAIN stack' = 1..(Len(stack) + 1) /\ Len(stack) \in Nat
        /\ \A i \in DOMAIN stack : stack'[i] = stack[i]
        /\ stack'[Len(stack) + 1] = block
    BY DEF Frames
  <1>2. ASSUME NEW i \in DOMAIN stack'
        PROVE  /\ i <= stack'[i].level
               /\ \A q \in (pos + 1)..stack'[i].last : text[q].cut = 0 \/ stack'[i].level <= text[q].cut
    <2>1. CASE i = Len(stack) + 1
      BY <1>1, <2>1
    <2>2. CASE i \in DOMAIN stack
      BY <1>1, <2>2 DEF Finer
    <2> QED
      BY <1>1, <2>1, <2>2
  <1> QED
    BY <1>2 DEF Finer

LEMMA FinerPreserved ==
  ASSUME ChunkerInv, Finer, Cut
  PROVE  Finer'
  <1>1. /\ stack \in Seq(Frames) /\ pos \in Nat \ {0} /\ IsText(text) /\ pos \in 1..(Size + 1)
        /\ Size \in Nat
    BY DEF ChunkerInv, CutTypeOK, Frames, IsText, Size
  <1>2. CASE Whole
    <2>1. UNCHANGED <<text, stack>> /\ pos' = Size + 1
      BY <1>2 DEF Whole
    <2> QED
      BY <1>1, <2>1, FinerForward
  <1>3. CASE BreakDownText
    <2>1. UNCHANGED <<text, pos>> /\ stack = <<>> /\ stack' = Append(stack, Block(pos, Size))
          /\ Size \in 1..Size /\ Len(stack) = 0
      BY <1>1, <1>3 DEF BreakDownText
    <2>2. \A q \in (pos + 1)..Size : text[q].cut = 0 \/ 0 < text[q].cut
      <3>1. \A q \in (pos + 1)..Size : q \in 1..Size
        BY <1>1
      <3>2. \A q \in (pos + 1)..Size : text[q].cut \in 0..5
        BY <1>1, <3>1, CutsTyped
      <3> QED
        BY <3>2
    <2>3. /\ 0 + 1 <= Block(pos, Size).level
          /\ \A q \in (pos + 1)..Size : text[q].cut = 0 \/ Block(pos, Size).level <= text[q].cut
      BY <1>1, <2>1, <2>2, BlockIsFiner
    <2>4. Block(pos, Size).last = Size
      BY <2>1, BlockTyped
    <2> HIDE DEF Block
    <2> QED
      BY <1>1, <2>1, <2>3, <2>4, FinerBlock
  <1>4. CASE Pack \/ StartChunk \/ Slice
    <2>1. PICK last \in pos..Top.last : pos' = last + 1
      BY <1>4 DEF Pack, StartChunk, Slice
    <2>2. UNCHANGED <<text, stack>>
      BY <1>4 DEF Pack, StartChunk, Slice
    <2> QED
      BY <1>1, <2>1, <2>2, FinerForward
  <1>5. CASE BreakDownUnit
    <2>1. PICK last \in pos..Top.last : UnitEnds(last) /\ stack' = Append(stack, Block(pos, last))
      BY <1>5 DEF BreakDownUnit
    <2>2. UNCHANGED <<text, pos>> /\ stack # <<>> /\ Top.level # Space
      BY <1>5 DEF BreakDownUnit, Splitting
    <2>3. /\ Len(stack) \in Nat \ {0} /\ Len(stack) \in DOMAIN stack /\ Top.last \in 1..Size
          /\ Top \in Frames
      <3>1. Len(stack) \in Nat \ {0} /\ Len(stack) \in DOMAIN stack /\ Top.last \in 1..Size
        BY <2>2, TopTyped DEF ChunkerInv
      <3> QED
        BY <1>1, <3>1 DEF Top
    <2>4. Top.level \in 1..4
      BY <2>2, <2>3 DEF Frames, Boundaries, Space
    <2>5. last \in 1..Size /\ last <= Top.last
      BY <1>1, <2>1, <2>3
    <2>6. /\ Len(stack) <= Top.level
          /\ \A q \in (pos + 1)..Top.last : text[q].cut = 0 \/ Top.level <= text[q].cut
      BY <2>3 DEF Finer, Top
    <2>7. \A q \in (pos + 1)..last : text[q].cut # Top.level
      <3> SUFFICES ASSUME NEW q \in (pos + 1)..last, text[q].cut = Top.level PROVE FALSE
        OBVIOUS
      <3>1. q - 1 \in pos..Top.last /\ (q - 1) + 1 = q /\ ~(last <= q - 1)
        BY <1>1, <2>3, <2>5
      <3> QED
        BY <3>1, <2>1 DEF UnitEnds
    <2>8. \A q \in (pos + 1)..last : text[q].cut = 0 \/ Top.level < text[q].cut
      <3>1. \A q \in (pos + 1)..last : q \in (pos + 1)..Top.last /\ q \in 1..Size
        BY <1>1, <2>3, <2>5
      <3>2. \A q \in (pos + 1)..last : text[q].cut \in 0..5
        BY <1>1, <3>1, CutsTyped
      <3> QED
        BY <2>4, <2>6, <2>7, <3>1, <3>2
    <2>9. /\ Top.level + 1 <= Block(pos, last).level
          /\ \A q \in (pos + 1)..last : text[q].cut = 0 \/ Block(pos, last).level <= text[q].cut
      <3>1. Top.level \in 0..4 /\ pos \in Nat \ {0}
        BY <1>1, <2>4
      <3> QED
        BY <1>1, <2>5, <2>8, <3>1, BlockIsFiner
    <2>10. Block(pos, last).last = last /\ Block(pos, last) \in Frames
      BY <2>5, BlockTyped
    <2>11. Len(stack) + 1 <= Block(pos, last).level
      BY <2>3, <2>4, <2>6, <2>9, <2>10 DEF Frames, Boundaries, Space
    <2> QED
      BY <1>1, <2>1, <2>2, <2>9, <2>10, <2>11, FinerBlock
  <1>6. CASE Return
    <2>1. stack' = SubSeq(stack, 1, Len(stack) - 1) /\ stack # <<>> /\ UNCHANGED <<text, pos>>
      BY <1>6 DEF Return
    <2>2. /\ Len(stack) \in Nat \ {0} /\ DOMAIN stack = 1..Len(stack)
          /\ stack' = [i \in 1..(Len(stack) - 1) |-> stack[i]]
      BY <1>1, <2>1
    <2>3. \A i \in DOMAIN stack' : i \in DOMAIN stack /\ stack'[i] = stack[i]
      BY <2>2
    <2> QED
      BY <2>1, <2>3 DEF Finer
  <1> QED
    BY <1>2, <1>3, <1>4, <1>5, <1>6 DEF Cut

(* Blocks within each other, each split at a less important boundary.      *)
LEMMA AtMostFive ==
  ASSUME NEW n, NEW blocks \in Seq([level : Boundaries \cup {Space}, last : 1..n]),
         \A i \in DOMAIN blocks : i <= blocks[i].level
  PROVE  Len(blocks) \in 0..5
  <1> DEFINE Frame == [level : Boundaries \cup {Space}, last : 1..n]
  <1>1. Len(blocks) \in Nat /\ DOMAIN blocks = 1..Len(blocks) /\ blocks \in Seq(Frame)
    OBVIOUS
  <1>2. CASE Len(blocks) = 0
    BY <1>2
  <1>3. CASE Len(blocks) # 0
    <2>1. Len(blocks) \in DOMAIN blocks
      BY <1>1, <1>3
    <2>2. blocks[Len(blocks)] \in Frame
      <3> HIDE DEF Frame
      <3> QED
        BY <1>1, <2>1
    <2>3. blocks[Len(blocks)].level \in 1..5
      BY <2>2 DEF Boundaries, Space
    <2>4. Len(blocks) <= blocks[Len(blocks)].level
      BY <2>1
    <2> HIDE DEF Frame
    <2>5. Len(blocks) \in Nat
      BY <1>1
    <2>6. \A k \in Nat, l \in 1..5 : k <= l => k \in 0..5
      OBVIOUS
    <2> QED
      BY <2>3, <2>4, <2>5, <2>6
  <1> QED
    BY <1>2, <1>3

(* The part of Remaining that is about blocks.                             *)
BlocksToDo(blocks, p) ==
  IF blocks # <<>> /\ p > blocks[Len(blocks)].last THEN 6 + Len(blocks) ELSE 5 - Len(blocks)

(* Weighing twelve to a character, it never outweighs one.                *)
LEMMA BlocksToDoBounded ==
  ASSUME NEW blocks, NEW p, Len(blocks) \in 0..5
  PROVE  BlocksToDo(blocks, p) \in 0..11
  BY DEF BlocksToDo

(* Fewer characters left, whatever is to do with blocks.                   *)
LEMMA FewerCharacters ==
  ASSUME NEW size \in Int, NEW p \in Int, NEW q \in Int, NEW t \in 0..11, NEW u \in 0..11,
         q > p, q <= size + 1,
         NEW m, NEW n, m = 12 * (size + 1 - p) + t, n = 12 * (size + 1 - q) + u
  PROVE  n \in 0..(m - 1)
  OBVIOUS

(* As many characters left, and less to do with blocks.                    *)
LEMMA FewerBlocks ==
  ASSUME NEW size \in Int, NEW p \in Int, NEW t \in 0..11, NEW u \in 0..11, u < t,
         p <= size + 1,
         NEW m, NEW n, m = 12 * (size + 1 - p) + t, n = 12 * (size + 1 - p) + u
  PROVE  n \in 0..(m - 1)
  OBVIOUS

LEMMA CutProgresses ==
  ASSUME ChunkerInv, Finer, Cut
  PROVE  Remaining' \in 0..(Remaining - 1) /\ Len(stack') \in 0..5
  <1> DEFINE todo == BlocksToDo(stack, pos)
             next == BlocksToDo(stack', pos')
  <1>1. /\ stack \in Seq(Frames) /\ pos \in Nat /\ Size \in Nat /\ pos \in 1..(Size + 1)
        /\ Len(stack) \in 0..5
    <2>1. /\ stack \in Seq([level : Boundaries \cup {Space}, last : 1..Size])
          /\ pos \in 1..(Size + 1) /\ Size \in Nat
      BY DEF ChunkerInv, CutTypeOK, IsText, Size
    <2>2. Len(stack) \in 0..5
      BY <2>1, AtMostFive DEF Finer
    <2> QED
      BY <2>1, <2>2 DEF Frames
  <1>2. pos' \in 1..(Size + 1) /\ Size' = Size /\ Len(stack') \in 0..5
    <2>1. ChunkerInv' /\ Finer'
      BY CutPreserves, FinerPreserved
    <2>2. stack' \in Seq([level : Boundaries \cup {Space}, last : 1..Size']) /\ pos' \in 1..(Size' + 1)
      BY <2>1 DEF ChunkerInv, CutTypeOK
    <2>3. \A i \in DOMAIN stack' : i <= stack'[i].level
      BY <2>1 DEF Finer
    <2>4. Len(stack') \in 0..5
      BY <2>2, <2>3, AtMostFive
    <2>5. text' = text
      BY DEF Cut, Whole, BreakDownText, Pack, StartChunk, BreakDownUnit, Slice, Return
    <2> QED
      BY <1>1, <2>2, <2>4, <2>5 DEF Size
  <1>3. /\ Remaining = 12 * (Size + 1 - pos) + todo
        /\ Remaining' = 12 * (Size + 1 - pos') + next
    BY <1>2 DEF Remaining, BlocksToDo, Top
  <1>4. todo \in 0..11 /\ next \in 0..11
    BY <1>1, <1>2, BlocksToDoBounded
  <1> HIDE DEF todo, next
  <1>5. ASSUME pos' > pos PROVE Remaining' \in 0..(Remaining - 1)
    <2>1. pos \in Int /\ pos' \in Int /\ Size \in Int /\ pos' <= Size + 1
      BY <1>1, <1>2
    <2>2. pos' > pos
      BY <1>5
    <2> QED
      BY <1>3, <1>4, <2>1, <2>2, FewerCharacters
  <1>6. ASSUME pos' = pos, next < todo PROVE Remaining' \in 0..(Remaining - 1)
    <2>1. pos \in Int /\ Size \in Int /\ pos <= Size + 1
      BY <1>1
    <2> QED
      BY <1>3, <1>4, <1>6, <2>1, FewerBlocks
  <1>7. CASE Whole
    BY <1>1, <1>5, <1>7 DEF Whole
  <1>8. CASE BreakDownText
    <2>1. pos' = pos /\ pos <= Size /\ stack = <<>> /\ stack' = <<Block(pos, Size)>>
      BY <1>8 DEF BreakDownText
    <2>2. Len(stack) = 0 /\ Len(stack') = 1 /\ stack'[1] = Block(pos, Size) /\ stack' # <<>>
      BY <2>1
    <2>3. Block(pos, Size).last = Size
      BY <1>1, <2>1, BlockTyped
    <2> HIDE DEF Block
    <2>4. todo = 5 /\ next = 4
      BY <1>1, <2>1, <2>2, <2>3 DEF todo, next, BlocksToDo
    <2> QED
      BY <1>6, <2>1, <2>4
  <1>9. CASE Pack \/ StartChunk \/ Slice
    <2>1. PICK last \in pos..Top.last : pos' = last + 1
      BY <1>9 DEF Pack, StartChunk, Slice
    <2>2. Top.last \in 1..Size
      <3>1. stack # <<>>
        BY <1>9 DEF Pack, StartChunk, Slice, Splitting
      <3> QED
        BY <3>1, TopTyped DEF ChunkerInv
    <2>3. pos' > pos
      <3>1. pos \in Int /\ Size \in Int
        BY <1>1
      <3> QED
        BY <2>1, <2>2, <3>1
    <2> QED
      BY <1>2, <1>5, <2>3
  <1>10. CASE BreakDownUnit
    <2>1. PICK last \in pos..Top.last : stack' = Append(stack, Block(pos, last))
      BY <1>10 DEF BreakDownUnit
    <2>2. pos' = pos /\ stack # <<>> /\ pos <= Top.last
      BY <1>10 DEF BreakDownUnit, Splitting
    <2>3. Top.last \in 1..Size
      BY <2>2, TopTyped DEF ChunkerInv
    <2>4. last \in 1..Size /\ pos <= last
      BY <1>1, <2>1, <2>3
    <2>5. Len(stack') = Len(stack) + 1 /\ stack'[Len(stack) + 1] = Block(pos, last)
      BY <1>1, <2>1
    <2>6. Block(pos, last).last = last
      BY <2>4, BlockTyped
    <2> HIDE DEF Block
    <2>7. next = 5 - Len(stack')
      BY <1>1, <2>2, <2>4, <2>5, <2>6 DEF next, BlocksToDo
    <2>8. todo = 5 - Len(stack)
      BY <1>1, <2>2, <2>3 DEF todo, BlocksToDo, Top
    <2>9. Len(stack) \in 0..5
      BY <1>1
    <2>10. next < todo
      BY <2>5, <2>7, <2>8, <2>9
    <2> QED
      BY <1>2, <1>6, <2>2, <2>10
  <1>11. CASE Return
    <2>1. pos' = pos /\ stack # <<>> /\ pos > Top.last /\ stack' = SubSeq(stack, 1, Len(stack) - 1)
      BY <1>11 DEF Return
    <2>2. Len(stack) \in 1..5 /\ Len(stack') = Len(stack) - 1
      <3>1. Len(stack) \in 1..5
        BY <1>1, <2>1
      <3>2. stack' = [i \in 1..(Len(stack) - 1) |-> stack[i]]
        BY <1>1, <2>1, <3>1
      <3> QED
        BY <3>1, <3>2
    <2>3. todo = 6 + Len(stack)
      BY <2>1 DEF todo, BlocksToDo, Top
    <2>4. next = 6 + Len(stack') \/ next = 5 - Len(stack')
      BY DEF next, BlocksToDo
    <2> QED
      BY <1>6, <2>1, <2>2, <2>3, <2>4
  <1> QED
    BY <1>2, <1>7, <1>8, <1>9, <1>10, <1>11 DEF Cut

LEMMA GreatestElement ==
  ASSUME NEW n \in Nat, NEW S \in SUBSET (0..n), S # {}
  PROVE  \E m \in S : \A i \in S : i <= m
  <1> DEFINE T == {n - i : i \in S}
  <1>1. T \in SUBSET Nat /\ T # {}
    <2>1. \A i \in S : n - i \in Nat
      OBVIOUS
    <2> QED
      BY <2>1
  <1>2. PICK t \in T : \A u \in T : t <= u
    <2> HIDE DEF T
    <2> QED
      BY <1>1, LeastElement
  <1>3. PICK m \in S : t = n - m
    OBVIOUS
  <1>4. \A i \in S : n - m <= n - i
    BY <1>2, <1>3
  <1> QED
    BY <1>4

(* This is where the limit must not be zero: the first character fits.     *)
LEMMA NeverStuckInv ==
  ASSUME ChunkerInv
  PROVE  NeverStuck
  <1>1. ASSUME stack # <<>>, pos <= Top.last
        PROVE  /\ Top.last \in 1..Size /\ Size \in Nat /\ pos \in Nat
               /\ pos \in pos..Top.last /\ Top.last \in pos..Top.last
               /\ pos..Top.last \in SUBSET (0..Size) /\ pos..Top.last \in SUBSET Nat
    BY <1>1, TopTyped DEF ChunkerInv, CutTypeOK
  <1>2. ASSUME Splitting
        PROVE  \E last \in pos..Top.last : UnitEnds(last)
    <2> DEFINE ends == {i \in pos..Top.last : i = Top.last \/ text[i + 1].cut = Top.level}
    <2>1. ends \in SUBSET Nat /\ ends # {} /\ ends \subseteq pos..Top.last
      BY <1>1, <1>2 DEF Splitting
    <2>2. \A last : last \in ends /\ (\A i \in ends : last <= i) => UnitEnds(last)
      BY DEF UnitEnds
    <2> HIDE DEF ends
    <2> QED
      BY <2>1, <2>2, LeastElement
  <1>3. ASSUME stack # <<>>, Top.level = Space, pos <= Top.last
        PROVE  \E last \in pos..Top.last : SliceEnds(last)
    <2> DEFINE Character == [at : Nat, cut : 0..5]
    <2> DEFINE within == {i \in pos..Top.last : Length(pos, i) <= MaxChars}
               spaces == {i \in within : i < Top.last /\ text[i + 1].cut = Space}
               ends   == CASE Top.last \in within                   -> {Top.last}
                           [] Top.last \notin within /\ spaces # {} -> spaces
                           [] OTHER                                 -> within
    <2>1. pos \in within
      <3>1. text \in Seq(Character) /\ Size = Len(text) /\ pos \in 1..Size
        BY <1>1, <1>3 DEF ChunkerInv, CutTypeOK, IsText, Size
      <3>2. text[pos] \in Character
        <4> HIDE DEF Character
        <4> QED
          BY <3>1
      <3>3. Length(pos, pos) = 1
        BY <3>2 DEF Length
      <3> QED
        BY <1>1, <1>3, <3>3, ChunkerAssumption
    <2>2. within \subseteq pos..Top.last /\ spaces \subseteq within
      OBVIOUS
    <2>3. \A last : last \in ends /\ (\A i \in ends : i <= last) => SliceEnds(last)
      BY DEF SliceEnds
    <2> HIDE DEF within, spaces
    <2>4. ends \subseteq pos..Top.last /\ ends # {}
      BY <2>1, <2>2
    <2> HIDE DEF ends
    <2>5. PICK last \in ends : \A i \in ends : i <= last
      <3>1. ends \in SUBSET (0..Size) /\ Size \in Nat
        BY <1>1, <1>3, <2>4
      <3> QED
        BY <2>4, <3>1, GreatestElement
    <2> QED
      BY <2>3, <2>4, <2>5
  <1> QED
    BY <1>2, <1>3 DEF NeverStuck

-----------------------------------------------------------------------------
(* The consolidator                                                        *)

LEMMA ValueTyped ==
  ASSUME NEW value \in Value
  PROVE  /\ value.type \in {"none", "object", "number", "text", "list", "flag"}
         /\ value.type = "none" <=> value = None
         /\ value.type = "object" <=> value = Object
         /\ value.type = "number" => value.content \in Int
         /\ value.type = "text" => value.length \in Nat
         /\ value.type = "list" => value \in [type : {"list"}, content : SUBSET ListItems]
  BY DEF Value, None, Object

LEMMA KindTyped ==
  ASSUME NEW value \in Value
  PROVE  /\ value = None <=> Kind(value) = "none"
         /\ Kind(value) = "container" <=> value.type \in {"list", "object"}
         /\ Kind(value) # "container" => Kind(value) = value.type
  BY ValueTyped DEF Kind

(* What Richer makes of two values of one kind.                            *)
LEMMA RicherTyped ==
  ASSUME NEW existing \in Value, NEW incoming \in Value,
         Kind(existing) = Kind(incoming), incoming # None
  PROVE  /\ Richer(existing, incoming) \in Value
         /\ Kind(Richer(existing, incoming)) = Kind(incoming)
         /\ Richer(existing, incoming).type = "list" =>
              /\ existing.type = "list" /\ incoming.type = "list"
              /\ Richer(existing, incoming).content = existing.content \cup incoming.content
         /\ Richer(existing, incoming).type = "object" =>
              existing = Object \/ incoming = Object
         /\ incoming.type = "number" =>
              /\ existing.type = "number"
              /\ Richer(existing, incoming) =
                   IF incoming.content > existing.content THEN incoming ELSE existing
         /\ incoming.type = "text" =>
              /\ existing.type = "text"
              /\ Richer(existing, incoming) =
                   IF incoming.length > existing.length THEN incoming ELSE existing
         /\ incoming.type = "flag" => Richer(existing, incoming) = incoming
  <1>1. CASE existing.type = "list" /\ incoming.type = "list"
    <2>1. /\ existing \in [type : {"list"}, content : SUBSET ListItems]
          /\ incoming \in [type : {"list"}, content : SUBSET ListItems]
      BY <1>1, ValueTyped
    <2>2. Richer(existing, incoming) = [existing EXCEPT !.content = @ \cup incoming.content]
      BY <1>1 DEF Richer, Object
    <2>3. Richer(existing, incoming) \in [type : {"list"}, content : SUBSET ListItems]
      BY <2>1, <2>2
    <2> QED
      BY <1>1, <2>1, <2>2, <2>3 DEF Value, Kind
  <1>2. CASE Kind(incoming) = "container" /\ ~(existing.type = "list" /\ incoming.type = "list")
    <2>1. /\ existing.type \in {"list", "object"} /\ incoming.type \in {"list", "object"}
          /\ existing = Object \/ incoming = Object
      BY <1>2, KindTyped, ValueTyped
    <2>2. Richer(existing, incoming) = Object
      BY <1>2, <2>1 DEF Richer
    <2> QED
      BY <2>1, <2>2 DEF Value, Kind, Object
  <1>3. CASE Kind(incoming) # "container"
    <2>1. /\ incoming.type \in {"number", "text", "flag"}
          /\ existing.type = incoming.type
          /\ existing # Object /\ incoming # Object
      BY <1>3, KindTyped, ValueTyped DEF Object
    <2> QED
      BY <1>3, <2>1 DEF Richer, Kind
  <1> QED
    BY <1>1, <1>2, <1>3

(* A value that stands alone is the richest.                               *)
LEMMA Alone ==
  ASSUME NEW value \in Value, value # None,
         NEW k \in Nat, NEW given, DOMAIN given = {k}, given[k] = value
  PROVE  IsRichest(value, given)
  BY ValueTyped DEF IsRichest

(* The richest of some values, and one more of their kind.                 *)
LEMMA OneMore ==
  ASSUME NEW n \in Nat,
         NEW given, DOMAIN given \subseteq 1..n, DOMAIN given # {},
         NEW more, DOMAIN more = DOMAIN given \cup {n + 1},
         \A i \in DOMAIN given : more[i] = given[i] /\ given[i] \in Value,
         more[n + 1] \in Value, more[n + 1] # None,
         NEW value \in Value, IsRichest(value, given), Kind(value) = Kind(more[n + 1])
  PROVE  /\ Richer(value, more[n + 1]) \in Value
         /\ IsRichest(Richer(value, more[n + 1]), more)
  <1> DEFINE incoming == more[n + 1]
             merge    == Richer(value, incoming)
             kind     == Kind(incoming)
  <1>1. /\ merge \in Value /\ Kind(merge) = kind
        /\ merge.type = "list" =>
             /\ value.type = "list" /\ incoming.type = "list"
             /\ merge.content = value.content \cup incoming.content
        /\ merge.type = "object" => value = Object \/ incoming = Object
        /\ incoming.type = "number" =>
             /\ value.type = "number"
             /\ merge = IF incoming.content > value.content THEN incoming ELSE value
        /\ incoming.type = "text" =>
             /\ value.type = "text"
             /\ merge = IF incoming.length > value.length THEN incoming ELSE value
        /\ incoming.type = "flag" => merge = incoming
    BY RicherTyped
  <1>2. /\ \A i \in DOMAIN given : Kind(given[i]) = Kind(value)
        /\ DOMAIN given \subseteq DOMAIN more /\ n + 1 \in DOMAIN more
        /\ n + 1 \notin DOMAIN given /\ DOMAIN given \subseteq Nat
    BY DEF IsRichest
  <1>3. \A i \in DOMAIN more : Kind(more[i]) = Kind(merge)
    BY <1>1, <1>2
  <1>4. incoming \in Value /\ incoming # None /\ more[n + 1] = incoming
    OBVIOUS
  <1>5. incoming.type \in {"object", "number", "text", "list", "flag"}
    BY <1>4, ValueTyped
  <1> HIDE DEF incoming, merge, kind
  <1>6. ASSUME incoming.type = "number"
        PROVE  IsRichest(merge, more)
    <2>1. value.type = "number" /\ merge.type = "number"
      BY <1>1, <1>4, <1>6
    <2>2. /\ \E i \in DOMAIN given : value = given[i]
          /\ \A i \in DOMAIN given : given[i].content <= value.content
      BY <2>1 DEF IsRichest
    <2>3. /\ value.content \in Int /\ incoming.content \in Int
          /\ \A i \in DOMAIN given : given[i].type = "number" /\ given[i].content \in Int
      BY <1>2, <1>4, <1>6, <2>1, ValueTyped, KindTyped DEF Kind
    <2>4. \E i \in DOMAIN more : merge = more[i]
      BY <1>1, <1>2, <1>4, <1>6, <2>2
    <2>5. /\ merge.content \in Int
          /\ incoming.content <= merge.content /\ value.content <= merge.content
      BY <1>1, <1>6, <2>3
    <2>6. \A i \in DOMAIN given : given[i].content <= merge.content
      BY <2>2, <2>3, <2>5
    <2>7. \A i \in DOMAIN more : more[i].content <= merge.content
      BY <1>4, <2>5, <2>6
    <2> QED
      BY <1>2, <1>3, <2>1, <2>4, <2>7 DEF IsRichest
  <1>7. ASSUME incoming.type = "text"
        PROVE  IsRichest(merge, more)
    <2>1. value.type = "text" /\ merge.type = "text"
      BY <1>1, <1>4, <1>7
    <2>2. PICK i \in DOMAIN given :
            /\ value = given[i]
            /\ \A j \in DOMAIN given : /\ given[j].length <= value.length
                                       /\ j < i => given[j].length < value.length
      BY <2>1 DEF IsRichest
    <2>3. /\ value.length \in Nat /\ incoming.length \in Nat
          /\ \A j \in DOMAIN given : given[j].type = "text" /\ given[j].length \in Nat
      BY <1>2, <1>4, <1>7, <2>1, ValueTyped, KindTyped DEF Kind
    <2>4. \E k \in DOMAIN more :
            /\ merge = more[k]
            /\ \A j \in DOMAIN more : /\ more[j].length <= merge.length
                                      /\ j < k => more[j].length < merge.length
      <3>1. CASE incoming.length > value.length
        <4>1. merge = incoming
          BY <1>1, <1>7, <3>1
        <4>2. \A j \in DOMAIN more : /\ more[j].length <= incoming.length
                                     /\ j < n + 1 => more[j].length < incoming.length
          BY <1>2, <1>4, <2>2, <2>3, <3>1
        <4> QED
          BY <1>2, <1>4, <4>1, <4>2
      <3>2. CASE ~(incoming.length > value.length)
        <4>1. merge = value
          BY <1>1, <1>7, <3>2
        <4>2. \A j \in DOMAIN more : /\ more[j].length <= value.length
                                     /\ j < i => more[j].length < value.length
          BY <1>2, <1>4, <2>2, <2>3, <3>2
        <4> QED
          BY <1>2, <2>2, <4>1, <4>2
      <3> QED
        BY <3>1, <3>2
    <2> QED
      BY <1>2, <1>3, <2>1, <2>4 DEF IsRichest
  <1>8. ASSUME merge.type = "list"
        PROVE  IsRichest(merge, more)
    <2>1. value.type = "list" /\ incoming.type = "list"
          /\ merge.content = value.content \cup incoming.content
      BY <1>1, <1>8
    <2>2. /\ \A i \in DOMAIN given : given[i].type = "list"
          /\ value.content = UNION {given[i].content : i \in DOMAIN given}
      BY <2>1 DEF IsRichest
    <2>3. /\ \A i \in DOMAIN more : more[i].type = "list"
          /\ merge.content = UNION {more[i].content : i \in DOMAIN more}
      BY <1>2, <1>4, <2>1, <2>2
    <2> QED
      BY <1>2, <1>3, <1>8, <2>3 DEF IsRichest
  <1>9. ASSUME merge.type = "object"
        PROVE  IsRichest(merge, more)
    <2>1. value.type = "object" => \E i \in DOMAIN given : given[i] = Object
      BY DEF IsRichest
    <2>2. \E i \in DOMAIN more : more[i] = Object
      BY <1>1, <1>2, <1>4, <1>9, <2>1 DEF Object
    <2> QED
      BY <1>2, <1>3, <1>9, <2>2 DEF IsRichest
  <1>10. ASSUME incoming.type = "flag"
         PROVE  IsRichest(merge, more)
    <2>1. merge = more[n + 1] /\ merge.type = "flag"
      BY <1>1, <1>4, <1>10
    <2>2. \A j \in DOMAIN more : j <= n + 1
      BY <1>2
    <2> QED
      BY <1>2, <1>3, <2>1, <2>2 DEF IsRichest
  <1>11. incoming.type \in {"object", "list"} => merge.type \in {"list", "object"}
    BY <1>1, <1>4, KindTyped DEF kind
  <1>12. IsRichest(merge, more)
    BY <1>5, <1>6, <1>7, <1>8, <1>9, <1>10, <1>11
  <1> QED
    BY <1>1, <1>12 DEF merge, incoming

LEMMA MergeStarts ==
  ASSUME MergeInit, candidates \in CandidateLists \/ candidates = <<>>
  PROVE  ConsolidatorInv
  <1> DEFINE Trees == {object \in [Paths -> Value] : IsTree(object)}
  <1>1. candidates \in Seq(Trees)
    <2>1. <<>> \in Seq(Trees)
      OBVIOUS
    <2> QED
      BY <2>1, ConsolidatorAssumption
  <1>2. CASE candidates = <<>>
    <2>1. None \in Value
      BY DEF Value
    <2>2. MergeTypeOK
      BY <1>1, <1>2, <2>1 DEF MergeInit, MergeTypeOK
    <2>3. MergedIsRichest
      BY <1>2 DEF MergeInit, MergedIsRichest, IsRichest, Given, Standing
    <2> QED
      BY <2>2, <2>3 DEF ConsolidatorInv
  <1>3. CASE candidates # <<>>
    <2>1. /\ merged = candidates[1] /\ taken = 1 /\ Len(candidates) \in Nat \ {0}
          /\ candidates[1] \in [Paths -> Value]
      BY <1>1, <1>3 DEF MergeInit
    <2>2. MergeTypeOK
      BY <1>1, <2>1 DEF MergeTypeOK
    <2>3. MergedIsRichest
      <3> SUFFICES ASSUME NEW path \in Paths
                   PROVE  IsRichest(candidates[1][path], Given(path, 1))
        BY <2>1 DEF MergedIsRichest
      <3> DEFINE value == candidates[1][path]
      <3>1. value \in Value
        BY <2>1
      <3>2. Standing(path, 1) = IF value = None THEN {} ELSE {1}
        BY DEF Standing, Replaced
      <3>3. /\ DOMAIN Given(path, 1) = Standing(path, 1)
            /\ value # None => Given(path, 1)[1] = value
        BY <3>2 DEF Given
      <3> HIDE DEF value
      <3>4. CASE value = None
        <4>1. IsRichest(value, Given(path, 1))
          BY <3>2, <3>3, <3>4 DEF IsRichest
        <4> QED
          BY <4>1 DEF value
      <3>5. CASE value # None
        <4>1. DOMAIN Given(path, 1) = {1} /\ Given(path, 1)[1] = value /\ 1 \in Nat
          BY <3>2, <3>3, <3>5
        <4>2. IsRichest(value, Given(path, 1))
          BY <3>1, <3>5, <4>1, Alone
        <4> QED
          BY <4>2 DEF value
      <3> QED
        BY <3>4, <3>5 DEF value
    <2> QED
      BY <2>2, <2>3 DEF ConsolidatorInv
  <1> QED
    BY <1>2, <1>3

(* What stands at a path stands above it too: there the merged value is a  *)
(* container.                                                              *)
LEMMA StandsAbove ==
  ASSUME ConsolidatorInv, NEW path \in Paths, NEW above \in Above[path],
         Standing(path, taken) # {}
  PROVE  merged[above] # None /\ Kind(merged[above]) = "container"
  <1>1. /\ above \in Paths /\ Above[above] \subseteq Above[path]
        /\ \A i \in 1..Len(candidates) : IsTree(candidates[i])
        /\ taken \in 0..Len(candidates)
        /\ merged[above] \in Value
    BY ConsolidatorAssumption DEF ConsolidatorInv, MergeTypeOK
  <1>2. PICK i \in Standing(path, taken) : TRUE
    OBVIOUS
  <1>3. i \in 1..Len(candidates) /\ candidates[i][above] = Object
    BY <1>1, <1>2 DEF Standing, IsTree
  <1>4. Object # None
    BY DEF Object, None
  <1>5. i \in Standing(above, taken)
    BY <1>1, <1>2, <1>3, <1>4 DEF Standing
  <1>6. IsRichest(merged[above], Given(above, taken))
    BY <1>1 DEF ConsolidatorInv, MergedIsRichest
  <1>7. DOMAIN Given(above, taken) = Standing(above, taken) /\ Given(above, taken)[i] = Object
    BY <1>3, <1>5 DEF Given
  <1>8. Kind(merged[above]) = Kind(Object)
    BY <1>5, <1>6, <1>7 DEF IsRichest
  <1> QED
    BY <1>1, <1>8, KindTyped DEF Kind, Object

(* What still stands after one more candidate.                             *)
LEMMA StillStanding ==
  ASSUME ConsolidatorInv, taken \in Nat, taken + 1 \in 1..Len(candidates), NEW path \in Paths,
         NEW gone, gone = (\E above \in Above[path] :
                             Replaced(merged[above], candidates[taken + 1][above])),
         NEW source, source = candidates[taken + 1]
  PROVE  Standing(path, taken + 1) =
           (IF gone \/ Replaced(merged[path], source[path]) THEN {} ELSE Standing(path, taken))
             \cup (IF source[path] = None THEN {} ELSE {taken + 1})
  <1>1. /\ \A i \in 1..Len(candidates) : IsTree(candidates[i])
        /\ \A i \in 1..Len(candidates) : candidates[i] \in [Paths -> Value]
        /\ IsTree(source) /\ source \in [Paths -> Value]
        /\ Above[path] \subseteq Paths
        /\ merged \in [Paths -> Value]
    BY ConsolidatorAssumption DEF ConsolidatorInv, MergeTypeOK, IsTree
  <1>2. taken + 1 \in Standing(path, taken + 1) <=> source[path] # None
    <2>1. \A p \in Above[path] \cup {path} : ~Replaced(source[p], source[p])
      BY DEF Replaced
    <2> QED
      BY <2>1 DEF Standing
  <1>3. ASSUME NEW i \in 1..taken
        PROVE  i \in Standing(path, taken + 1) <=>
                 /\ i \in Standing(path, taken)
                 /\ ~gone /\ ~Replaced(merged[path], source[path])
    <2>1. i \in Standing(path, taken + 1) <=>
            /\ i \in Standing(path, taken)
            /\ \A p \in Above[path] \cup {path} : ~Replaced(candidates[i][p], source[p])
      BY <1>3 DEF Standing
    <2>2. ASSUME i \in Standing(path, taken)
          PROVE  /\ \A p \in Above[path] :
                      Replaced(candidates[i][p], source[p]) <=> Replaced(merged[p], source[p])
                 /\ Replaced(candidates[i][path], source[path]) <=>
                      Replaced(merged[path], source[path])
      <3>1. i \in 1..Len(candidates) /\ candidates[i][path] # None
        BY <1>3, <2>2 DEF Standing
      <3>2. ASSUME NEW p \in Above[path]
            PROVE  Replaced(candidates[i][p], source[p]) <=> Replaced(merged[p], source[p])
        <4>1. candidates[i][p] = Object /\ Object # None
          BY <1>1, <3>1 DEF IsTree, Object, None
        <4>2. Kind(Object) = "container"
          BY DEF Kind, Object
        <4>3. merged[p] # None /\ Kind(merged[p]) = "container"
          BY <2>2, StandsAbove
        <4> QED
          BY <4>1, <4>2, <4>3 DEF Replaced, isLowInformation
      <3>3. IsRichest(merged[path], Given(path, taken))
        BY DEF ConsolidatorInv, MergedIsRichest
      <3>4. DOMAIN Given(path, taken) = Standing(path, taken)
            /\ Given(path, taken)[i] = candidates[i][path]
        BY <2>2 DEF Given
      <3>5. Kind(merged[path]) = Kind(candidates[i][path])
        BY <2>2, <3>3, <3>4 DEF IsRichest
      <3>6. merged[path] \in Value /\ candidates[i][path] \in Value
        BY <1>1, <3>1
      <3>7. merged[path] # None
        BY <3>1, <3>5, <3>6, KindTyped
      <3> QED
        BY <3>1, <3>2, <3>5, <3>7 DEF Replaced, isLowInformation
    <2> QED
      BY <2>1, <2>2
  <1>4. Standing(path, taken) \subseteq 1..taken /\ Standing(path, taken + 1) \subseteq 1..(taken + 1)
    BY DEF Standing
  <1>5. 1..(taken + 1) = 1..taken \cup {taken + 1} /\ taken + 1 \notin 1..taken
    OBVIOUS
  <1> HIDE DEF Standing
  <1> QED
    BY <1>2, <1>3, <1>4, <1>5

LEMMA MergePreserves ==
  ASSUME ConsolidatorInv, Merge
  PROVE  ConsolidatorInv'
  <1> DEFINE source == candidates[taken + 1]
  <1>1. /\ taken \in Nat /\ taken + 1 \in 1..Len(candidates)
        /\ candidates' = candidates /\ taken' = taken + 1
        /\ merged' = mergeObjects(merged, source)
        /\ \A i \in 1..Len(candidates) : candidates[i] \in [Paths -> Value]
        /\ merged \in [Paths -> Value]
    <2>1. taken < Len(candidates) /\ taken \in 0..Len(candidates) /\ Len(candidates) \in Nat
      BY DEF ConsolidatorInv, MergeTypeOK, Merge
    <2> QED
      BY <2>1 DEF ConsolidatorInv, MergeTypeOK, Merge
  <1>2. ASSUME NEW path \in Paths
        PROVE  /\ merged'[path] \in Value
               /\ IsRichest(merged'[path], Given(path, taken + 1))
    <2> DEFINE gone     == \E above \in Above[path] : Replaced(merged[above], source[above])
               value    == merged[path]
               incoming == source[path]
               given    == Given(path, taken)
               more     == Given(path, taken + 1)
    <2>1. /\ value \in Value /\ incoming \in Value
          /\ IsRichest(value, given)
          /\ Standing(path, taken) \subseteq 1..taken
          /\ \A i \in 1..Len(candidates) : candidates[i][path] \in Value
      BY <1>1 DEF ConsolidatorInv, MergedIsRichest, Standing
    <2>2. Standing(path, taken + 1) =
            (IF gone \/ Replaced(value, incoming) THEN {} ELSE Standing(path, taken))
              \cup (IF incoming = None THEN {} ELSE {taken + 1})
      BY <1>1, StillStanding
    <2>3. merged'[path] = IF gone THEN incoming ELSE resolveValue(value, incoming)
      BY <1>1 DEF mergeObjects
    <2>4. /\ DOMAIN given = Standing(path, taken) /\ DOMAIN more = Standing(path, taken + 1)
          /\ \A i \in DOMAIN given : given[i] = candidates[i][path] /\ given[i] \in Value
          /\ \A i \in DOMAIN more : more[i] = candidates[i][path]
      BY <1>1, <2>1 DEF Given
    <2>5. DOMAIN given = {} <=> value = None
      <3>1. ASSUME DOMAIN given # {} PROVE value # None
        <4>1. PICK i \in DOMAIN given : Kind(given[i]) = Kind(value)
          BY <2>1, <3>1 DEF IsRichest
        <4>2. given[i] # None /\ given[i] \in Value
          BY <2>4 DEF Standing
        <4> QED
          BY <2>1, <4>1, <4>2, KindTyped
      <3> QED
        BY <2>1, <3>1 DEF IsRichest
    <2>6. incoming # None => taken + 1 \in DOMAIN more /\ more[taken + 1] = incoming
      BY <2>2, <2>4
    <2>7. \A i \in DOMAIN given : i \in DOMAIN more => more[i] = given[i]
      BY <2>4
    <2> HIDE DEF given, more, value, incoming, gone
    <2>8. CASE gone /\ incoming = None
      BY <2>1, <2>2, <2>3, <2>4, <2>8 DEF IsRichest, more
    <2>9. CASE incoming # None /\ (gone \/ value = None \/ Replaced(value, incoming))
      <3>1. DOMAIN more = {taken + 1}
        BY <2>2, <2>4, <2>5, <2>9
      <3>2. merged'[path] = incoming
        <4>1. CASE gone
          BY <2>3, <4>1
        <4>2. CASE ~gone /\ value = None
          BY <2>3, <2>9, <4>2 DEF resolveValue, KeepsExisting, isLowInformation
        <4>3. CASE ~gone /\ value # None /\ Replaced(value, incoming)
          <5>1. Kind(value) # Kind(incoming)
            BY <4>3 DEF Replaced
          <5>2. Richer(value, incoming) = incoming
            BY <5>1 DEF Richer, Kind
          <5> QED
            BY <2>3, <2>9, <4>3, <5>2 DEF resolveValue, KeepsExisting, isLowInformation
        <4> QED
          BY <2>9, <4>1, <4>2, <4>3
      <3>3. IsRichest(incoming, more)
        <4>1. taken + 1 \in Nat
          BY <1>1
        <4>2. incoming \in Value /\ incoming # None
          BY <2>1, <2>9
        <4>3. more[taken + 1] = incoming
          BY <2>6, <2>9
        <4> QED
          BY <3>1, <4>1, <4>2, <4>3, Alone
      <3> QED
        BY <2>1, <3>2, <3>3 DEF more
    <2>10. CASE ~gone /\ incoming = None
      <3>1. merged'[path] = value
        BY <2>3, <2>10 DEF resolveValue, KeepsExisting, isLowInformation
      <3>2. ~Replaced(value, incoming)
        BY <2>10 DEF Replaced, isLowInformation
      <3>3. DOMAIN more = DOMAIN given
        BY <2>2, <2>4, <2>10, <3>2
      <3>4. IsRichest(value, more)
        BY <2>1, <2>7, <3>3 DEF IsRichest
      <3> QED
        BY <2>1, <3>1, <3>4 DEF more
    <2>11. CASE ~gone /\ incoming # None /\ value # None /\ ~Replaced(value, incoming)
      <3>1. merged'[path] = Richer(value, incoming)
        BY <2>3, <2>11 DEF resolveValue, KeepsExisting, isLowInformation
      <3>2. Kind(value) = Kind(incoming)
        BY <2>11 DEF Replaced, isLowInformation
      <3>3. DOMAIN more = DOMAIN given \cup {taken + 1}
        BY <2>2, <2>4, <2>11
      <3>4. DOMAIN given # {} /\ DOMAIN given \subseteq 1..taken
        BY <2>1, <2>4, <2>5, <2>11
      <3>5. /\ \A i \in DOMAIN given : more[i] = given[i] /\ given[i] \in Value
            /\ more[taken + 1] = incoming
        BY <2>4, <2>6, <2>7, <2>11, <3>3
      <3>6. Richer(value, incoming) \in Value /\ IsRichest(Richer(value, incoming), more)
        BY <1>1, <2>1, <2>11, <3>2, <3>3, <3>4, <3>5, OneMore
      <3> QED
        BY <3>1, <3>6 DEF more
    <2> QED
      BY <2>8, <2>9, <2>10, <2>11
  <1>3. merged' \in [Paths -> Value]
    BY <1>1, <1>2 DEF mergeObjects
  <1>4. MergeTypeOK'
    BY <1>1, <1>3 DEF ConsolidatorInv, MergeTypeOK
  <1>5. MergedIsRichest'
    <2>1. \A path \in Paths : Given(path, taken)' = Given(path, taken + 1)
      BY <1>1 DEF Given, Standing
    <2> QED
      BY <1>2, <2>1 DEF MergedIsRichest
  <1> QED
    BY <1>4, <1>5 DEF ConsolidatorInv

-----------------------------------------------------------------------------
(* The date parser                                                         *)

LEMMA FirstIs ==
  ASSUME NEW dates, DOMAIN dates \subseteq Nat,
         NEW i \in DOMAIN dates, dates[i] # <<>>,
         \A j \in DOMAIN dates : j < i => dates[j] = <<>>
  PROVE  FirstOf(dates) = dates[i]
  <1> DEFINE found == {j \in DOMAIN dates : dates[j] # <<>>}
             first == CHOOSE j \in found : \A k \in found : j <= k
  <1>1. i \in found /\ \A j \in found : i <= j /\ j \in Nat
    OBVIOUS
  <1>2. \A j \in found : (\A k \in found : j <= k) => j = i
    BY <1>1
  <1> HIDE DEF found
  <1>3. first = i
    BY <1>1, <1>2
  <1>4. FirstOf(dates) = IF found = {} THEN <<>> ELSE dates[first]
    BY DEF FirstOf, found
  <1> QED
    BY <1>1, <1>3, <1>4

LEMMA FirstNone ==
  ASSUME NEW dates, \A i \in DOMAIN dates : dates[i] = <<>>
  PROVE  FirstOf(dates) = <<>>
  BY DEF FirstOf

(* There is a first reading wherever there is one.                         *)
LEMMA FirstSomewhere ==
  ASSUME NEW dates, DOMAIN dates \subseteq Nat, NEW i \in DOMAIN dates, dates[i] # <<>>
  PROVE  FirstOf(dates) # <<>>
  <1> DEFINE found == {j \in DOMAIN dates : dates[j] # <<>>}
  <1>1. found \in SUBSET Nat /\ found # {}
    OBVIOUS
  <1>2. PICK first \in found : \A j \in found : first <= j
    <2> HIDE DEF found
    <2> QED
      BY <1>1, LeastElement
  <1>3. /\ first \in DOMAIN dates /\ dates[first] # <<>>
        /\ \A j \in DOMAIN dates : j < first => dates[j] = <<>>
    BY <1>2
  <1> QED
    BY <1>3, FirstIs

LEMMA FirstOfTwo ==
  ASSUME NEW date, NEW other
  PROVE  FirstOf(<<date, other>>) = IF date # <<>> THEN date ELSE other
  <1> DEFINE dates == <<date, other>>
  <1>1. DOMAIN dates = {1, 2} /\ dates[1] = date /\ dates[2] = other
    OBVIOUS
  <1> HIDE DEF dates
  <1>2. CASE date # <<>>
    BY <1>1, <1>2, FirstIs
  <1>3. CASE date = <<>> /\ other # <<>>
    BY <1>1, <1>3, FirstIs
  <1>4. CASE date = <<>> /\ other = <<>>
    BY <1>1, <1>4, FirstNone
  <1> QED
    BY <1>2, <1>3, <1>4 DEF dates

(* One reading at most: the locale that asks for the other gets it, too.   *)
LEMMA OneReading ==
  ASSUME NEW shown, NEW locale, NEW other, MonthFirst(shown) = <<>> \/ DayFirst(shown) = <<>>
  PROVE  parse_ambiguous_numeric(shown, locale) = parse_ambiguous_numeric(shown, other)
  <1>1. FirstOf(<<MonthFirst(shown), DayFirst(shown)>>)
          = FirstOf(<<DayFirst(shown), MonthFirst(shown)>>)
    BY FirstOfTwo
  <1> QED
    BY <1>1 DEF parse_ambiguous_numeric

LEMMA StandardIsDate ==
  ASSUME NEW shown, shown.type = "date"
  PROVE  parse_iso_or_rfc2822(shown) # <<>>
  BY DEF parse_iso_or_rfc2822

LEMMA PageTyped ==
  ASSUME NEW page, IsPage(page)
  PROVE  DOMAIN page.nodes \subseteq Nat /\ DOMAIN page.meta \subseteq Nat
  BY DEF IsPage

(* A date in JSON-LD, the feed or a meta tag.                              *)
LEMMA StructuredFound ==
  ASSUME NEW page, IsPage(page),
         \/ \E i \in DOMAIN page.nodes :
              \/ page.nodes[i].published.type = "date"
              \/ page.allow_modified /\ page.nodes[i].modified.type = "date"
         \/ page.feed.type = "date"
         \/ \E i \in DOMAIN page.meta : page.meta[i].type = "date"
  PROVE  Structured(page) # <<>>
  <1> DEFINE published(i) == parse_iso_or_rfc2822(page.nodes[i].published)
             modified(i)  == IF page.allow_modified
                             THEN parse_iso_or_rfc2822(page.nodes[i].modified) ELSE <<>>
             nodes == [i \in DOMAIN page.nodes |-> FirstOf(<<published(i), modified(i)>>)]
             meta  == [i \in DOMAIN page.meta |-> parse_iso_or_rfc2822(page.meta[i])]
             dates == <<FirstOf(nodes), parse_iso_or_rfc2822(page.feed), FirstOf(meta)>>
  <1>1. Structured(page) = FirstOf(dates)
    BY DEF Structured, extract_from_json_ld
  <1>2. /\ DOMAIN dates = 1..3 /\ dates[1] = FirstOf(nodes)
        /\ dates[2] = parse_iso_or_rfc2822(page.feed) /\ dates[3] = FirstOf(meta)
    OBVIOUS
  <1> HIDE DEF dates
  <1>3. ASSUME NEW i \in DOMAIN page.nodes,
               \/ page.nodes[i].published.type = "date"
               \/ page.allow_modified /\ page.nodes[i].modified.type = "date"
        PROVE  FirstOf(nodes) # <<>>
    <2>1. published(i) # <<>> \/ modified(i) # <<>>
      BY <1>3, StandardIsDate
    <2>2. FirstOf(<<published(i), modified(i)>>) # <<>>
      <3> HIDE DEF published, modified
      <3> QED
        BY <2>1, FirstOfTwo
    <2>3. i \in DOMAIN nodes /\ nodes[i] # <<>> /\ DOMAIN nodes \subseteq Nat
      BY <2>2, PageTyped
    <2> HIDE DEF nodes
    <2> QED
      BY <2>3, FirstSomewhere
  <1>4. ASSUME NEW i \in DOMAIN page.meta, page.meta[i].type = "date"
        PROVE  FirstOf(meta) # <<>>
    <2>1. i \in DOMAIN meta /\ meta[i] # <<>> /\ DOMAIN meta \subseteq Nat
      BY <1>4, PageTyped, StandardIsDate
    <2> HIDE DEF meta
    <2> QED
      BY <2>1, FirstSomewhere
  <1>5. dates[1] # <<>> \/ dates[2] # <<>> \/ dates[3] # <<>>
    <2> HIDE DEF nodes, meta
    <2> QED
      BY <1>2, <1>3, <1>4, StandardIsDate
  <1>6. FirstOf(dates) # <<>>
    <2>1. 1 \in DOMAIN dates /\ 2 \in DOMAIN dates /\ 3 \in DOMAIN dates /\ DOMAIN dates \subseteq Nat
      BY <1>2
    <2> QED
      BY <1>5, <2>1, FirstSomewhere
  <1> QED
    BY <1>1, <1>6

(* The time tag reads alike at every time if its attribute is a date or    *)
(* its text does not show an age.                                          *)
LEMMA TimeTagSettled ==
  ASSUME NEW time, time.datetime.type = "date" \/ time.text.type # "ago"
  PROVE  /\ \A clock, other : TimeTag(time, clock) = TimeTag(time, other)
         /\ "date" \in {time.datetime.type, time.text.type} => \A clock : TimeTag(time, clock) # <<>>
  <1> DEFINE date == parse_iso_or_rfc2822(time.datetime)
             shown == parse_iso_or_rfc2822(time.text)
             ds(clock) == <<date, parse_relative_date(time.text, clock), shown>>
  <1>1. \A clock : TimeTag(time, clock) = FirstOf(ds(clock))
    BY DEF TimeTag
  <1>2. \A clock : /\ DOMAIN ds(clock) = 1..3 /\ ds(clock)[1] = date
                   /\ ds(clock)[2] = parse_relative_date(time.text, clock) /\ ds(clock)[3] = shown
    OBVIOUS
  <1>3. CASE time.datetime.type = "date"
    <2>1. date # <<>>
      BY <1>3, StandardIsDate
    <2>2. ASSUME NEW clock PROVE FirstOf(ds(clock)) = date
      <3>1. 1 \in DOMAIN ds(clock) /\ DOMAIN ds(clock) \subseteq Nat /\ ds(clock)[1] = date
            /\ \A j \in DOMAIN ds(clock) : ~(j < 1)
        BY <1>2
      <3> HIDE DEF ds, date
      <3> QED
        BY <2>1, <3>1, FirstIs
    <2>3. \A clock : TimeTag(time, clock) = date
      BY <1>1, <2>2
    <2> HIDE DEF date
    <2> QED
      BY <2>1, <2>3
  <1>4. CASE time.text.type # "ago"
    <2>1. \A clock : parse_relative_date(time.text, clock) = <<>>
      BY <1>4 DEF parse_relative_date
    <2>2. \A clock, other : ds(clock) = ds(other)
      BY <2>1
    <2>3. ASSUME "date" \in {time.datetime.type, time.text.type}, NEW clock
          PROVE  FirstOf(ds(clock)) # <<>>
      <3>1. date # <<>> \/ shown # <<>>
        BY <2>3, StandardIsDate
      <3>2. /\ 1 \in DOMAIN ds(clock) /\ 3 \in DOMAIN ds(clock) /\ DOMAIN ds(clock) \subseteq Nat
            /\ ds(clock)[1] = date /\ ds(clock)[3] = shown
        BY <1>2
      <3> HIDE DEF ds, date, shown
      <3> QED
        BY <3>1, <3>2, FirstSomewhere
    <2> HIDE DEF ds
    <2> QED
      BY <1>1, <2>2, <2>3
  <1> QED
    BY <1>3, <1>4

(* So does the configured element if its attribute or its text is a date.  *)
LEMMA SelectedSettled ==
  ASSUME NEW element, element.datetime.type = "date" \/ element.text.type = "date"
  PROVE  \E date : date # <<>> /\ \A clock, locale : Selected(element, clock, locale) = date
  <1> DEFINE date == parse_iso_or_rfc2822(element.datetime)
             shown == parse_iso_or_rfc2822(element.text)
             ds(clock, locale) == <<date, parse_relative_date(element.text, clock),
                                    parse_ambiguous_numeric(element.text, locale), shown>>
  <1>1. \A clock, locale : Selected(element, clock, locale) = FirstOf(ds(clock, locale))
    BY DEF Selected
  <1>2. \A clock, locale : /\ DOMAIN ds(clock, locale) = 1..4 /\ ds(clock, locale)[1] = date
                           /\ ds(clock, locale)[2] = parse_relative_date(element.text, clock)
                           /\ ds(clock, locale)[3] = parse_ambiguous_numeric(element.text, locale)
                           /\ ds(clock, locale)[4] = shown
    OBVIOUS
  <1> HIDE DEF ds
  <1>3. CASE date # <<>>
    <2>1. ASSUME NEW clock, NEW locale PROVE FirstOf(ds(clock, locale)) = date
      <3> DEFINE dates == ds(clock, locale)
      <3>1. 1 \in DOMAIN dates /\ DOMAIN dates \subseteq Nat /\ dates[1] = date
            /\ \A j \in DOMAIN dates : ~(j < 1)
        BY <1>2
      <3> HIDE DEF dates, date
      <3>2. FirstOf(dates) = dates[1]
        BY <1>3, <3>1, FirstIs
      <3> QED
        BY <3>1, <3>2 DEF dates
    <2>2. \A clock, locale : Selected(element, clock, locale) = date
      BY <1>1, <2>1
    <2> HIDE DEF date
    <2> QED
      BY <1>3, <2>2
  <1>4. CASE date = <<>>
    <2>1. element.text.type = "date" /\ shown # <<>>
      BY <1>4, StandardIsDate
    <2>2. ASSUME NEW clock, NEW locale PROVE FirstOf(ds(clock, locale)) = shown
      <3> DEFINE dates == ds(clock, locale)
      <3>1. /\ parse_relative_date(element.text, clock) = <<>>
            /\ parse_ambiguous_numeric(element.text, locale) = <<>>
        BY <2>1 DEF parse_relative_date, parse_ambiguous_numeric
      <3>2. /\ 4 \in DOMAIN dates /\ DOMAIN dates \subseteq Nat /\ dates[4] = shown
            /\ dates[1] = <<>> /\ dates[2] = <<>> /\ dates[3] = <<>>
            /\ \A j \in DOMAIN dates : j < 4 => j \in {1, 2, 3}
        BY <1>2, <1>4, <3>1
      <3> HIDE DEF dates, shown
      <3>3. FirstOf(dates) = dates[4]
        BY <2>1, <3>2, FirstIs
      <3> QED
        BY <3>2, <3>3 DEF dates
    <2>3. \A clock, locale : Selected(element, clock, locale) = shown
      BY <1>1, <2>2
    <2> HIDE DEF shown
    <2> QED
      BY <2>1, <2>3
  <1> QED
    BY <1>3, <1>4

(* A date in a standard form that is read first depends neither on the     *)
(* clock nor on the locale.                                                *)
LEMMA MarkupFirst ==
  ASSUME NEW page, IsPage(page), Settled(page)
  PROVE  \E date : /\ date # <<>>
                   /\ \A clock, locale : extract_date(page, clock, locale) = date
  <1> DEFINE dates(clock, locale) ==
               <<Structured(page), TimeTag(page.time, clock),
                 Selected(page.selected, clock, locale),
                 parse_url_date(page.url), parse_iso_or_rfc2822(page.sitemap)>>
  <1>1. \A clock, locale : extract_date(page, clock, locale) = FirstOf(dates(clock, locale))
    BY DEF extract_date
  <1>2. \A clock, locale : /\ DOMAIN dates(clock, locale) = 1..5
                           /\ dates(clock, locale)[1] = Structured(page)
                           /\ dates(clock, locale)[2] = TimeTag(page.time, clock)
                           /\ dates(clock, locale)[3] = Selected(page.selected, clock, locale)
    OBVIOUS
  <1> HIDE DEF dates
  <1>3. ASSUME NEW k \in 1..3, NEW date, date # <<>>,
               \A clock, locale :
                 /\ dates(clock, locale)[k] = date
                 /\ \A j \in 1..5 : j < k => dates(clock, locale)[j] = <<>>
        PROVE  \A clock, locale : extract_date(page, clock, locale) = date
    <2> TAKE clock, locale
    <2> DEFINE ds == dates(clock, locale)
    <2>1. /\ k \in DOMAIN ds /\ DOMAIN ds \subseteq Nat /\ ds[k] = date
          /\ \A j \in DOMAIN ds : j < k => ds[j] = <<>>
      BY <1>2, <1>3
    <2> HIDE DEF ds
    <2>2. FirstOf(ds) = ds[k]
      BY <1>3, <2>1, FirstIs
    <2> QED
      BY <1>1, <2>1, <2>2 DEF ds
  <1>4. CASE Structured(page) # <<>>
    <2>1. \A clock, locale :
            /\ dates(clock, locale)[1] = Structured(page)
            /\ \A j \in 1..5 : j < 1 => dates(clock, locale)[j] = <<>>
      BY <1>2
    <2> QED
      BY <1>3, <1>4, <2>1
  <1>5. CASE Structured(page) = <<>>
    <2>1. \/ page.time.datetime.type = "date"
          \/ /\ page.time.text.type # "ago"
             /\ "date" \in {page.time.text.type, page.selected.datetime.type, page.selected.text.type}
      BY <1>5, StructuredFound DEF Settled
    <2> DEFINE date == TimeTag(page.time, 0)
    <2>2. \A clock : TimeTag(page.time, clock) = date
      BY <2>1, TimeTagSettled
    <2>3. CASE date # <<>>
      <3>1. \A clock, locale :
              /\ dates(clock, locale)[2] = date
              /\ \A j \in 1..5 : j < 2 => dates(clock, locale)[j] = <<>>
        BY <1>2, <1>5, <2>2
      <3> HIDE DEF date
      <3> QED
        BY <1>3, <2>3, <3>1
    <2>4. CASE date = <<>>
      <3>1. "date" \notin {page.time.datetime.type, page.time.text.type}
        BY <2>1, <2>4, TimeTagSettled
      <3>2. "date" \in {page.selected.datetime.type, page.selected.text.type}
        BY <2>1, <3>1
      <3>3. PICK chosen : /\ chosen # <<>>
                          /\ \A clock, locale : Selected(page.selected, clock, locale) = chosen
        <4> DEFINE element == page.selected
        <4>1. element.datetime.type = "date" \/ element.text.type = "date"
          BY <3>2
        <4> HIDE DEF element
        <4>2. \E chosen : /\ chosen # <<>>
                          /\ \A clock, locale : Selected(element, clock, locale) = chosen
          BY <4>1, SelectedSettled
        <4> QED
          BY <4>2 DEF element
      <3>4. \A clock, locale :
              /\ dates(clock, locale)[3] = chosen
              /\ \A j \in 1..5 : j < 3 => dates(clock, locale)[j] = <<>>
        BY <1>2, <1>5, <2>2, <2>4, <3>3
      <3> QED
        BY <1>3, <3>3, <3>4
    <2> QED
      BY <2>3, <2>4
  <1> QED
    BY <1>4, <1>5

-----------------------------------------------------------------------------
(* The specification                                                       *)

LEMMA AlgorithmsInit ==
  ASSUME Init
  PROVE  ChunkerInv /\ Finer /\ ConsolidatorInv /\ CallsInv
  <1>1. ChunkerInv /\ Finer
    BY CutStarts DEF Init, CutInit, Finer
  <1>2. ConsolidatorInv
    BY MergeStarts DEF Init
  <1>3. CallsInv
    <2>1. result = <<>>
      BY DEF Init
    <2>2. "seed" \in DOMAIN call => IsSeedFile(call.seed)
      BY AlgorithmsAssumption DEF Init, NoCall
    <2>3. "page" \in DOMAIN call => IsPage(call.page)
      BY AlgorithmsAssumption DEF Init, NoCall
    <2>4. DOMAIN call \in {{"none"}, {"seed"}, {"shown"}, {"page"}}
      BY DEF Init, NoCall
    <2> QED
      BY <2>1, <2>2, <2>3, <2>4 DEF CallsInv, Returned
  <1> QED
    BY <1>1, <1>2, <1>3

LEMMA CutUnchanged ==
  ASSUME ChunkerInv, Finer, UNCHANGED cutVars
  PROVE  ChunkerInv' /\ Finer'
  BY DEF ChunkerInv, Finer, CutTypeOK, Nested, Tiled, IsText, Size, Top, Chunk, cutVars

LEMMA MergeUnchanged ==
  ASSUME ConsolidatorInv, UNCHANGED mergeVars
  PROVE  ConsolidatorInv'
  BY DEF ConsolidatorInv, MergeTypeOK, MergedIsRichest, Given, Standing, mergeVars

LEMMA CallsUnchanged ==
  ASSUME CallsInv, UNCHANGED callVars
  PROVE  CallsInv'
  BY DEF CallsInv, Returned, callVars

LEMMA CallReturns ==
  ASSUME CallsInv, Resolve \/ Read \/ Date
  PROVE  CallsInv'
  <1>1. call' = call
    BY DEF Resolve, Read, Date, Calls
  <1>2. CASE Resolve
    <2>1. /\ "seed" \in DOMAIN call
          /\ result'[1] = [query \in Queries |-> resolve(call.seed, query)]
      BY <1>2 DEF Resolve, Calls
    <2>2. "shown" \notin DOMAIN call /\ "page" \notin DOMAIN call
      BY <1>2, <2>1 DEF CallsInv
    <2> QED
      BY <1>1, <2>1, <2>2 DEF CallsInv, Returned
  <1>3. CASE Read
    <2>1. /\ "shown" \in DOMAIN call
          /\ result'[1] = [locale \in Locales |-> parse_ambiguous_numeric(call.shown, locale)]
      BY <1>3 DEF Read, Calls
    <2>2. "seed" \notin DOMAIN call /\ "page" \notin DOMAIN call
      BY <1>3, <2>1 DEF CallsInv
    <2> QED
      BY <1>1, <2>1, <2>2 DEF CallsInv, Returned
  <1>4. CASE Date
    <2>1. /\ "page" \in DOMAIN call
          /\ result'[1] = {extract_date(call.page, clock, locale) : clock \in Clocks, locale \in Locales}
      BY <1>4 DEF Date, Calls
    <2>2. "seed" \notin DOMAIN call /\ "shown" \notin DOMAIN call
      BY <1>4, <2>1 DEF CallsInv
    <2> QED
      BY <1>1, <2>1, <2>2 DEF CallsInv, Returned
  <1> QED
    BY <1>2, <1>3, <1>4

LEMMA SeedOrderInv ==
  ASSUME CallsInv
  PROVE  SeedOrderIrrelevant
  <1> SUFFICES ASSUME Returned("seed"),
                      NEW order \in Bijection(DOMAIN call.seed, DOMAIN call.seed),
                      NEW query \in Queries
               PROVE  result[1][query] = resolve([i \in DOMAIN call.seed |-> call.seed[order[i]]], query)
    BY DEF SeedOrderIrrelevant
  <1> DEFINE seed  == call.seed
             other == [i \in DOMAIN seed |-> seed[order[i]]]
  <1>1. IsSeedFile(seed) /\ result[1][query] = resolve(seed, query)
    BY DEF CallsInv, Returned
  <1>2. DOMAIN seed \subseteq Nat /\ WellFormed(seed)
    BY <1>1 DEF IsSeedFile
  <1> HIDE DEF seed
  <1>3. /\ \A i \in DOMAIN seed : order[i] \in DOMAIN seed
        /\ \A i, j \in DOMAIN seed : order[i] = order[j] => i = j
        /\ \A i \in DOMAIN seed : \E j \in DOMAIN seed : order[j] = i
    BY DEF Bijection, Injection, Surjection, IsInjective, seed
  <1>4. DOMAIN other = DOMAIN seed /\ \A i \in DOMAIN seed : other[i] = seed[order[i]]
    OBVIOUS
  <1> HIDE DEF other
  <1>5. WellFormed(other)
    <2> SUFFICES ASSUME NEW i \in DOMAIN seed, NEW j \in DOMAIN seed, i # j
                 PROVE  /\ other[i].id # other[j].id
                        /\ other[i].domains \cap other[j].domains = {}
                        /\ other[i].name.norm # other[j].name.norm
      BY <1>4 DEF WellFormed
    <2>1. order[i] \in DOMAIN seed /\ order[j] \in DOMAIN seed /\ order[i] # order[j]
      BY <1>3
    <2>2. other[i] = seed[order[i]] /\ other[j] = seed[order[j]]
      BY <1>4
    <2> QED
      BY <1>2, <2>1, <2>2 DEF WellFormed
  <1>6. Entities(other) = Entities(seed)
    <2>1. ASSUME NEW i \in DOMAIN seed
          PROVE  other[i] \in Entities(seed) /\ seed[i] \in Entities(other)
      <3>1. other[i] = seed[order[i]] /\ order[i] \in DOMAIN seed
        BY <1>3, <1>4
      <3>2. PICK j \in DOMAIN seed : order[j] = i
        BY <1>3
      <3>3. seed[i] = other[j] /\ j \in DOMAIN other
        BY <1>4, <3>2
      <3> QED
        BY <3>1, <3>3 DEF Entities
    <2> QED
      BY <1>4, <2>1 DEF Entities
  <1>7. resolve(seed, query) = resolve(other, query)
    BY <1>2, <1>4, <1>5, <1>6, OrderIrrelevant
  <1> QED
    BY <1>1, <1>7 DEF other, seed

LEMMA LanguagesInv ==
  ASSUME CallsInv
  PROVE  LanguagesAgree
  <1> SUFFICES ASSUME Returned("seed"), NEW query \in Queries, ReadAlike(call.seed, query)
               PROVE  result[1][query] = resolveTS(call.seed, query)
    BY DEF LanguagesAgree
  <1>1. IsSeedFile(call.seed) /\ result[1][query] = resolve(call.seed, query)
    BY DEF CallsInv, Returned
  <1>2. IsSeed(call.seed) /\ IsName(query.name)
    BY <1>1, AlgorithmsAssumption DEF IsSeedFile, IsSeed
  <1> QED
    BY <1>1, <1>2, TwinsAgree

LEMMA NoRedirectInv ==
  ASSUME CallsInv
  PROVE  NoRedirect
  <1> SUFFICES ASSUME Returned("seed"), NEW query \in Queries
               PROVE  NotRedirected(resolve(Front(call.seed), query), result[1][query], Last(call.seed))
    BY DEF NoRedirect
  <1> DEFINE seed  == call.seed
             front == Front(seed)
             n     == Len(seed)
  <1>1. IsSeedFile(seed) /\ result[1][query] = resolve(seed, query)
    BY DEF CallsInv, Returned
  <1>2. seed \in Seq(Range(seed)) /\ seed # <<>> /\ WellFormed(seed)
    BY <1>1 DEF IsSeedFile
  <1> HIDE DEF seed
  <1>3. n \in Nat \ {0} /\ DOMAIN seed = 1..n
    BY <1>2
  <1>4. DOMAIN front = 1..(n - 1) /\ \A i \in 1..(n - 1) : front[i] = seed[i]
    BY <1>2, <1>3 DEF Front
  <1>5. Last(seed) = seed[n]
    BY DEF Last
  <1> HIDE DEF front, n
  <1>6. NotRedirected(resolve(front, query), resolve(seed, query), seed[n])
    BY <1>2, <1>3, <1>4, NobodyRedirected
  <1> QED
    BY <1>1, <1>5, <1>6 DEF front, seed

LEMMA LocalesInv ==
  ASSUME CallsInv
  PROVE  LocalesAgree
  BY OneReading DEF CallsInv, LocalesAgree

LEMMA MarkupInv ==
  ASSUME CallsInv
  PROVE  MarkupSettles
  <1> SUFFICES ASSUME Returned("page"), Settled(call.page)
               PROVE  \E date \in result[1] : date # <<>> /\ result[1] = {date}
    BY DEF MarkupSettles
  <1>1. IsPage(call.page)
    BY DEF CallsInv, Returned
  <1>2. PICK date : /\ date # <<>>
                    /\ \A clock, locale : extract_date(call.page, clock, locale) = date
    BY <1>1, MarkupFirst
  <1>3. PICK clock \in Clocks, locale \in Locales : TRUE
    BY AlgorithmsAssumption
  <1>4. result[1] = {extract_date(call.page, c, l) : c \in Clocks, l \in Locales}
    BY DEF CallsInv
  <1>5. result[1] = {date}
    BY <1>2, <1>3, <1>4
  <1> QED
    BY <1>2, <1>5

(* Whatever is called with whatever input, every loop keeps what it relies *)
(* on: the chunker's chunks tile the text, the consolidator's values are   *)
(* the richest so far, and a result is what the function returns.          *)
THEOREM AlgorithmsInvariant == Spec => []AlgorithmsInv
  <1>1. Init => AlgorithmsInv
    BY AlgorithmsInit DEF AlgorithmsInv
  <1>2. AlgorithmsInv /\ [Next]_vars => AlgorithmsInv'
    <2> SUFFICES ASSUME AlgorithmsInv, [Next]_vars
                 PROVE  AlgorithmsInv'
      OBVIOUS
    <2>1. CASE Cut /\ UNCHANGED <<mergeVars, callVars>>
      BY <2>1, CutPreserves, FinerPreserved, MergeUnchanged, CallsUnchanged DEF AlgorithmsInv
    <2>2. CASE Merge /\ UNCHANGED <<cutVars, callVars>>
      BY <2>2, MergePreserves, CutUnchanged, CallsUnchanged DEF AlgorithmsInv
    <2>3. CASE (Resolve \/ Read \/ Date) /\ UNCHANGED <<cutVars, mergeVars>>
      BY <2>3, CallReturns, CutUnchanged, MergeUnchanged DEF AlgorithmsInv
    <2>4. CASE UNCHANGED vars
      <3>1. UNCHANGED cutVars /\ UNCHANGED mergeVars /\ UNCHANGED callVars
        BY <2>4 DEF vars
      <3> QED
        BY <3>1, CutUnchanged, MergeUnchanged, CallsUnchanged DEF AlgorithmsInv
    <2> QED
      BY <2>1, <2>2, <2>3, <2>4 DEF Next
  <1> QED
    BY <1>1, <1>2, PTL DEF Spec

(* No chunk is longer than the limit and none is empty, for every text,    *)
(* every limit but zero and every way units are joined.                    *)
THEOREM ChunksFitAlways == Spec => []ChunksFit
  <1>1. AlgorithmsInv => ChunksFit
    BY ChunksFitInv DEF AlgorithmsInv
  <1> QED
    BY <1>1, AlgorithmsInvariant, PTL

(* Cutting a text ends: every step brings it nearer to the end, at most    *)
(* five blocks are within each other, and (NeverStuckAlways) as long as    *)
(* there is a block at hand one of the branches of its loop goes on.       *)
THEOREM EveryCutProgresses == Spec => ChunkingProgresses
  <1>1. AlgorithmsInv /\ [Next]_vars => [Cut => Remaining' \in 0..(Remaining - 1) /\ Len(stack') \in 0..5]_cutVars
    BY CutProgresses DEF AlgorithmsInv
  <1> QED
    BY <1>1, AlgorithmsInvariant, PTL DEF Spec, ChunkingProgresses

(* There is always a unit to pack or break down and always a slice to      *)
(* take, because the limit is not zero.                                    *)
THEOREM NeverStuckAlways == Spec => []NeverStuck
  <1>1. AlgorithmsInv => NeverStuck
    BY NeverStuckInv DEF AlgorithmsInv
  <1> QED
    BY <1>1, AlgorithmsInvariant, PTL

(* The chunks of every text are the text, in order and in full, except for *)
(* its end where there are more chunks than are allowed and the result     *)
(* says so.                                                                *)
THEOREM NothingLostAlways == Spec => []NothingLost
  <1>1. AlgorithmsInv => NothingLost
    BY NothingLostInv DEF AlgorithmsInv
  <1> QED
    BY <1>1, AlgorithmsInvariant, PTL

(* At every moment of the merge each path holds the richest of the values  *)
(* that the candidates taken so far gave there and no later one of another *)
(* kind replaced, for any number of candidates and any mix of types.       *)
THEOREM MergedIsRichestAlways == Spec => []MergedIsRichest
  <1>1. AlgorithmsInv => MergedIsRichest
    BY DEF AlgorithmsInv, ConsolidatorInv
  <1> QED
    BY <1>1, AlgorithmsInvariant, PTL

(* The resolver gives every query the same answer for every order of every *)
(* well-formed seed.                                                       *)
THEOREM SeedOrderIrrelevantAlways == Spec => []SeedOrderIrrelevant
  <1>1. AlgorithmsInv => SeedOrderIrrelevant
    BY SeedOrderInv DEF AlgorithmsInv
  <1> QED
    BY <1>1, AlgorithmsInvariant, PTL

(* The Python and the TypeScript resolver give every query that they read  *)
(* alike the same answer by the same tier.                                 *)
THEOREM LanguagesAgreeAlways == Spec => []LanguagesAgree
  <1>1. AlgorithmsInv => LanguagesAgree
    BY LanguagesInv DEF AlgorithmsInv
  <1> QED
    BY <1>1, AlgorithmsInvariant, PTL

(* The last entity of a seed never sends a query from one of the others to *)
(* another.                                                                *)
THEOREM NoRedirectAlways == Spec => []NoRedirect
  <1>1. AlgorithmsInv => NoRedirect
    BY NoRedirectInv DEF AlgorithmsInv
  <1> QED
    BY <1>1, AlgorithmsInvariant, PTL

(* Figures that are a date in one order only are the same date in every    *)
(* locale.                                                                 *)
THEOREM LocalesAgreeAlways == Spec => []LocalesAgree
  <1>1. AlgorithmsInv => LocalesAgree
    BY LocalesInv DEF AlgorithmsInv
  <1> QED
    BY <1>1, AlgorithmsInvariant, PTL

(* A page with a date in a standard form that is read before any that      *)
(* depends on it gives the same date at every time and with every locale.  *)
THEOREM MarkupSettlesAlways == Spec => []MarkupSettles
  <1>1. AlgorithmsInv => MarkupSettles
    BY MarkupInv DEF AlgorithmsInv
  <1> QED
    BY <1>1, AlgorithmsInvariant, PTL
=============================================================================
