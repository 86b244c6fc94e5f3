----------------------- MODULE ExtractionEngineProofs -----------------------
(***************************************************************************)
(* Proofs about ExtractionEngine, for any chains, texts, ways to cut them, *)
(* error codes and budgets.                                                *)
(***************************************************************************)
EXTENDS ExtractionEngine, SequenceTheorems, TLAPS

-----------------------------------------------------------------------------
(* Cutting a queue in pieces *)

LEMMA ChunksFacts ==
  /\ Kept \in 1..Size
  /\ Chunks \in Seq(Stretches)
  /\ Tiles(Chunks, 1, Kept)
  /\ Len(Chunks) > 0
  <1>1. Chunks \in Seq(Stretches) /\ Tiles(Chunks, 1, Kept) /\ Size \in Nat
    BY ExtractionAssumption
  <1>2. Len(Chunks) > 0 /\ Len(Chunks) \in Nat
    BY <1>1 DEF Tiles
  <1>3. Chunks[Len(Chunks)] \in Stretches
    BY <1>1, <1>2
  <1> QED
    BY <1>1, <1>2, <1>3 DEF Kept, Stretches

Spliced(q, i, smaller) == SubSeq(q, 1, i - 1) \o smaller \o SubSeq(q, i + 1, Len(q))

LEMMA Joined ==
  ASSUME NEW a \in Seq(Stretches), NEW b \in Seq(Stretches)
  PROVE  /\ Len(a) \in Nat /\ Len(b) \in Nat
         /\ a \o b \in Seq(Stretches)
         /\ Len(a \o b) = Len(a) + Len(b)
         /\ \A j \in 1..(Len(a) + Len(b)) :
              (a \o b)[j] = IF j <= Len(a) THEN a[j] ELSE b[j - Len(a)]
  OBVIOUS

(* What stands where after a splice.                                       *)
LEMMA SplicedElements ==
  ASSUME NEW q \in Seq(Stretches), NEW i \in 1..Len(q), NEW m \in Seq(Stretches), Len(m) > 0
  PROVE  /\ Spliced(q, i, m) \in Seq(Stretches)
         /\ Len(Spliced(q, i, m)) = Len(q) + Len(m) - 1
         /\ \A j \in 1..(Len(q) + Len(m) - 1) :
              /\ j < i => Spliced(q, i, m)[j] = q[j]
              /\ j >= i /\ j < i + Len(m) => Spliced(q, i, m)[j] = m[j - i + 1]
              /\ j >= i + Len(m) => Spliced(q, i, m)[j] = q[j - Len(m) + 1]
  <1> DEFINE front == SubSeq(q, 1, i - 1)
             back  == SubSeq(q, i + 1, Len(q))
             left  == front \o m
  <1>0. Len(q) \in Nat /\ Len(m) \in Nat /\ i \in Nat
    OBVIOUS
  <1>1. /\ front \in Seq(Stretches) /\ Len(front) = i - 1
        /\ \A j \in 1..(i - 1) : front[j] = q[j]
    OBVIOUS
  <1>2. /\ back \in Seq(Stretches) /\ Len(back) = Len(q) - i
        /\ \A j \in 1..(Len(q) - i) : back[j] = q[i + j]
    OBVIOUS
  <1>3. Spliced(q, i, m) = left \o back
    BY DEF Spliced
  <1> HIDE DEF front, back
  <1>4. /\ left \in Seq(Stretches) /\ Len(left) = i - 1 + Len(m)
        /\ \A j \in 1..(i - 1 + Len(m)) :
             left[j] = IF j <= i - 1 THEN front[j] ELSE m[j - (i - 1)]
    <2>1. Len(front) + Len(m) = i - 1 + Len(m) /\ Len(front) = i - 1
      BY <1>1
    <2>2. /\ left \in Seq(Stretches) /\ Len(left) = Len(front) + Len(m)
          /\ \A j \in 1..(Len(front) + Len(m)) :
               left[j] = IF j <= Len(front) THEN front[j] ELSE m[j - Len(front)]
      BY <1>1, Joined
    <2> HIDE DEF left
    <2> QED
      BY <2>1, <2>2
  <1> HIDE DEF left
  <1>5. /\ left \o back \in Seq(Stretches)
        /\ Len(left \o back) = Len(left) + Len(back)
        /\ \A j \in 1..(Len(left) + Len(back)) :
             (left \o back)[j] = IF j <= Len(left) THEN left[j] ELSE back[j - Len(left)]
    BY <1>2, <1>4, Joined
  <1>6. Len(left) + Len(back) = Len(q) + Len(m) - 1
    BY <1>0, <1>2, <1>4
  <1>7. ASSUME NEW j \in 1..(Len(q) + Len(m) - 1)
        PROVE  /\ j < i => (left \o back)[j] = q[j]
               /\ j >= i /\ j < i + Len(m) => (left \o back)[j] = m[j - i + 1]
               /\ j >= i + Len(m) => (left \o back)[j] = q[j - Len(m) + 1]
    <2>1. CASE j < i
      <3>1. j \in 1..(i - 1) /\ j <= Len(left) /\ j \in 1..(i - 1 + Len(m))
        BY <2>1, <1>0, <1>4
      <3>2. (left \o back)[j] = left[j] /\ left[j] = front[j] /\ front[j] = q[j]
        BY <3>1, <1>1, <1>4, <1>5, <1>6
      <3> QED
        BY <2>1, <3>2, <1>0
    <2>2. CASE j >= i /\ j < i + Len(m)
      <3>1. j <= Len(left) /\ j \in 1..(i - 1 + Len(m)) /\ ~(j <= i - 1) /\ j - (i - 1) = j - i + 1
        BY <2>2, <1>0, <1>4
      <3>2. (left \o back)[j] = left[j] /\ left[j] = m[j - (i - 1)]
        BY <3>1, <1>4, <1>5, <1>6
      <3> QED
        BY <2>2, <3>1, <3>2, <1>0
    <2>3. CASE j >= i + Len(m)
      <3> DEFINE k == j - Len(left)
      <3>1. ~(j <= Len(left)) /\ k \in 1..(Len(q) - i) /\ i + k = j - Len(m) + 1
        BY <2>3, <1>0, <1>4
      <3>2. (left \o back)[j] = back[k]
        BY <3>1, <1>5, <1>6
      <3>3. back[k] = q[i + k]
        <4> HIDE DEF k
        <4> QED
          BY <3>1, <1>2
      <3> QED
        BY <2>3, <3>1, <3>2, <3>3, <1>0
    <2> QED
      BY <2>1, <2>2, <2>3, <1>0
  <1> QED
    BY <1>3, <1>5, <1>6, <1>7

(* A tiling, with the neighbour named.                                     *)
LEMMA Neighbours ==
  ASSUME NEW q \in Seq(Stretches), NEW first, NEW last, Tiles(q, first, last)
  PROVE  /\ Len(q) \in Nat /\ Len(q) > 0
         /\ q[1].first = first /\ q[Len(q)].last = last
         /\ \A k \in 1..Len(q) : q[k].first <= q[k].last
         /\ \A k, l \in 1..Len(q) : l = k + 1 => q[l].first = q[k].last + 1
  BY DEF Tiles

(* A chunk may give way to its pieces: the queue is the same text.         *)
LEMMA SplicedTiles ==
  ASSUME NEW q \in Seq(Stretches), NEW last, Tiles(q, 1, last), NEW i \in 1..Len(q),
         NEW m \in Seq(Stretches), Tiles(m, q[i].first, q[i].last)
  PROVE  Tiles(Spliced(q, i, m), 1, last)
  <1> DEFINE new == Spliced(q, i, m)
             behind(j) == j - Len(m) + 1
             within(j) == j - i + 1
  <1>1. /\ Len(q) \in Nat /\ i \in Nat
        /\ q[1].first = 1 /\ q[Len(q)].last = last
        /\ \A k \in 1..Len(q) : q[k].first <= q[k].last
        /\ \A k, l \in 1..Len(q) : l = k + 1 => q[l].first = q[k].last + 1
    BY Neighbours
  <1>2. /\ Len(m) \in Nat /\ Len(m) > 0
        /\ m[1].first = q[i].first /\ m[Len(m)].last = q[i].last
        /\ \A k \in 1..Len(m) : m[k].first <= m[k].last
        /\ \A k, l \in 1..Len(m) : l = k + 1 => m[l].first = m[k].last + 1
    BY Neighbours
  <1>3. /\ new \in Seq(Stretches)
        /\ Len(new) = Len(q) + Len(m) - 1
        /\ \A j \in 1..Len(new) :
             /\ j < i => new[j] = q[j]
             /\ j >= i /\ j < i + Len(m) => new[j] = m[within(j)]
             /\ j >= i + Len(m) => new[j] = q[behind(j)]
    BY <1>2, SplicedElements
  <1> HIDE DEF new
  <1>4. new[1].first = 1
    <2>0. 1 \in 1..Len(new)
      BY <1>1, <1>2, <1>3
    <2>1. CASE i = 1
      <3>1. 1 >= i /\ 1 < i + Len(m) /\ within(1) = 1
        BY <2>1, <1>2
      <3>2. new[1] = m[within(1)]
        <4> HIDE DEF within
        <4> QED
          BY <2>0, <3>1, <1>3
      <3> QED
        BY <2>1, <3>1, <3>2, <1>1, <1>2
    <2>2. CASE i > 1
      <3>1. new[1] = q[1]
        BY <2>0, <2>2, <1>3
      <3> QED
        BY <3>1, <1>1
    <2> QED
      BY <2>1, <2>2
  <1>5. new[Len(new)].last = last
    <2> DEFINE end == Len(q) + Len(m) - 1
    <2>0. end \in 1..Len(new) /\ end = Len(new)
      BY <1>1, <1>2, <1>3
    <2>1. CASE i = Len(q)
      <3>1. end >= i /\ end < i + Len(m) /\ within(end) = Len(m)
        BY <2>1, <1>1, <1>2
      <3>2. new[end] = m[within(end)]
        <4> HIDE DEF end, within
        <4> QED
          BY <2>0, <3>1, <1>3
      <3>3. new[Len(new)] = m[Len(m)]
        <4> HIDE DEF end, within
        <4> QED
          BY <2>0, <3>1, <3>2
      <3> QED
        BY <2>1, <3>3, <1>1, <1>2
    <2>2. CASE i < Len(q)
      <3>1. end >= i + Len(m) /\ behind(end) = Len(q)
        BY <2>2, <1>1, <1>2
      <3>2. new[end] = q[behind(end)]
        <4> HIDE DEF end, behind
        <4> QED
          BY <2>0, <3>1, <1>3
      <3>3. new[Len(new)] = q[Len(q)]
        <4> HIDE DEF end, behind
        <4> QED
          BY <2>0, <3>1, <3>2
      <3> QED
        BY <3>3, <1>1
    <2> QED
      BY <2>1, <2>2
  <1>6. ASSUME NEW j \in 1..Len(new)
        PROVE  new[j].first <= new[j].last
    <2>1. CASE j < i
      <3>1. j \in 1..Len(q) /\ new[j] = q[j]
        BY <2>1, <1>1, <1>3
      <3> QED
        BY <3>1, <1>1
    <2>2. CASE j >= i /\ j < i + Len(m)
      <3>1. within(j) \in 1..Len(m) /\ new[j] = m[within(j)]
        BY <2>2, <1>1, <1>2, <1>3
      <3> QED
        BY <3>1, <1>2
    <2>3. CASE j >= i + Len(m)
      <3>1. behind(j) \in 1..Len(q) /\ new[j] = q[behind(j)]
        BY <2>3, <1>1, <1>2, <1>3
      <3> QED
        BY <3>1, <1>1
    <2> QED
      BY <1>1, <1>2, <1>3, <2>1, <2>2, <2>3
  <1>7. ASSUME NEW j \in 1..(Len(new) - 1)
        PROVE  new[j + 1].first = new[j].last + 1
    <2>0. j \in 1..Len(new) /\ j + 1 \in 1..Len(new)
      BY <1>1, <1>2, <1>3
    <2>1. CASE j + 1 < i
      <3>1. /\ j \in 1..Len(q) /\ j + 1 \in 1..Len(q)
            /\ new[j] = q[j] /\ new[j + 1] = q[j + 1]
        BY <2>0, <2>1, <1>1, <1>2, <1>3
      <3> QED
        BY <3>1, <1>1
    <2>2. CASE j + 1 = i
      <3>1. j \in 1..Len(q) /\ new[j] = q[j] /\ new[j + 1] = m[1]
        BY <2>0, <2>2, <1>1, <1>2, <1>3
      <3>2. q[i].first = q[j].last + 1
        BY <2>2, <3>1, <1>1
      <3> QED
        BY <3>1, <3>2, <1>2
    <2>3. CASE j >= i /\ j + 1 < i + Len(m)
      <3>1. within(j) \in 1..Len(m) /\ within(j + 1) \in 1..Len(m) /\ within(j + 1) = within(j) + 1
        BY <2>0, <2>3, <1>1, <1>2
      <3>2. new[j] = m[within(j)] /\ new[j + 1] = m[within(j + 1)]
        BY <2>0, <2>3, <1>1, <1>2, <1>3
      <3> HIDE DEF within
      <3> QED
        BY <3>1, <3>2, <1>2
    <2>4. CASE j + 1 = i + Len(m)
      <3>0. within(j) = Len(m) /\ behind(j + 1) = i + 1 /\ i + 1 \in 1..Len(q)
        <4>1. j \in Nat /\ j + 1 <= Len(q) + Len(m) - 1
          BY <2>0, <1>3
        <4>2. Len(q) \in Nat /\ Len(m) \in Nat /\ i \in Nat
          BY <1>1, <1>2
        <4> QED
          BY <4>1, <4>2, <2>4
      <3>1. new[j] = m[within(j)] /\ new[j + 1] = q[behind(j + 1)]
        <4>1. j >= i /\ j < i + Len(m) /\ j + 1 >= i + Len(m)
          BY <2>0, <2>4, <1>1, <1>2
        <4> HIDE DEF within, behind
        <4> QED
          BY <4>1, <2>0, <1>3
      <3>2. q[i + 1].first = q[i].last + 1
        BY <3>0, <1>1
      <3> QED
        BY <3>0, <3>1, <3>2, <1>2
    <2>5. CASE j >= i + Len(m)
      <3>1. behind(j) \in 1..Len(q) /\ behind(j + 1) \in 1..Len(q) /\ behind(j + 1) = behind(j) + 1
        BY <2>0, <2>5, <1>1, <1>2, <1>3
      <3>2. new[j] = q[behind(j)] /\ new[j + 1] = q[behind(j + 1)]
        <4>1. j + 1 >= i + Len(m)
          BY <2>0, <2>5, <1>1, <1>2
        <4> HIDE DEF behind
        <4> QED
          BY <4>1, <2>0, <2>5, <1>3
      <3> HIDE DEF behind
      <3> QED
        BY <3>1, <3>2, <1>1
    <2> QED
      BY <1>1, <1>2, <1>3, <2>0, <2>1, <2>2, <2>3, <2>4, <2>5
  <1>8. Len(new) > 0
    BY <1>1, <1>2, <1>3
  <1>9. Tiles(new, 1, last)
    BY <1>4, <1>5, <1>6, <1>7, <1>8 DEF Tiles
  <1> QED
    BY <1>9 DEF new

-----------------------------------------------------------------------------
(* What is done of a queue *)

Done(q, i) == SubSeq(q, 1, i - 1)

LEMMA NothingDone ==
  ASSUME NEW q \in Seq(Stretches)
  PROVE  Done(q, 1) = <<>>
  BY DEF Done

LEMMA OneMoreDone ==
  ASSUME NEW q \in Seq(Stretches), NEW i \in 1..Len(q)
  PROVE  Append(Done(q, i), q[i]) = Done(q, i + 1)
  BY DEF Done

LEMMA AllDone ==
  ASSUME NEW q \in Seq(Stretches)
  PROVE  Done(q, Len(q) + 1) = q
  BY DEF Done

LEMMA DoneElements ==
  ASSUME NEW q \in Seq(Stretches), NEW i \in 1..(Len(q) + 1)
  PROVE  /\ Done(q, i) \in Seq(Stretches) /\ Len(Done(q, i)) = i - 1
         /\ \A j \in 1..(i - 1) : Done(q, i)[j] = q[j]
  BY DEF Done

(* A splice behind what is done leaves it alone.                           *)
LEMMA DoneAfterSplice ==
  ASSUME NEW q \in Seq(Stretches), NEW i \in 1..Len(q), NEW m \in Seq(Stretches), Len(m) > 0
  PROVE  /\ i \in 1..Len(Spliced(q, i, m))
         /\ Done(Spliced(q, i, m), i) = Done(q, i)
  <1> DEFINE new == Spliced(q, i, m)
  <1>1. /\ new \in Seq(Stretches) /\ Len(new) = Len(q) + Len(m) - 1
        /\ \A j \in 1..(Len(q) + Len(m) - 1) : j < i => new[j] = q[j]
    BY SplicedElements
  <1> HIDE DEF new
  <1>2. i \in 1..Len(new)
    BY <1>1
  <1>3. /\ Done(new, i) \in Seq(Stretches) /\ Len(Done(new, i)) = i - 1
        /\ \A j \in 1..(i - 1) : Done(new, i)[j] = new[j]
    BY <1>1, <1>2, DoneElements
  <1>4. /\ Done(q, i) \in Seq(Stretches) /\ Len(Done(q, i)) = i - 1
        /\ \A j \in 1..(i - 1) : Done(q, i)[j] = q[j]
    BY DoneElements
  <1>5. \A j \in 1..(i - 1) : new[j] = q[j]
    <2>1. Len(q) \in Nat /\ Len(m) \in Nat
      OBVIOUS
    <2>2. \A j \in 1..(i - 1) : j \in 1..(Len(q) + Len(m) - 1) /\ j < i
      BY <2>1
    <2> QED
      BY <2>2, <1>1
  <1>6. Done(new, i) = Done(q, i)
    BY <1>3, <1>4, <1>5, SeqEqual
  <1> QED
    BY <1>2, <1>6 DEF new

-----------------------------------------------------------------------------
(* The queue is always the text that was kept *)

LEMMA EngineFacts ==
  ASSUME EngineInv
  PROVE  /\ queue \in Seq(Stretches) /\ Len(queue) \in Nat /\ Len(chain) \in Nat
         /\ c \in Nat /\ p \in Nat
         /\ candidates = Done(queue, c)
  BY DEF EngineInv, TypeOK, Done

LEMMA InitEngine == Init => EngineInv
  <1> SUFFICES ASSUME Init PROVE EngineInv
    OBVIOUS
  <1>1. chain \in Seq(STRING)
    BY ExtractionAssumption DEF Init
  <1>2. {Size, MaxRetries, RepairsAllowed} \subseteq Nat
    BY ExtractionAssumption
  <1>3. queue \in Seq(Stretches) /\ Tiles(queue, 1, Kept) /\ 1 \in 1..(Len(queue) + 1)
    BY ChunksFacts DEF Init
  <1>4. TypeOK
    <2>1. 0 \in 0..MaxRetries /\ 0 \in 0..RepairsAllowed /\ 1 \in 1..(Len(chain) + 1)
      BY <1>1, <1>2
    <2>2. <<>> \in Seq(Stretches) /\ 0 \in Nat
      OBVIOUS
    <2> QED
      BY <1>1, <1>3, <2>1, <2>2 DEF Init, TypeOK
  <1>5. candidates = SubSeq(queue, 1, c - 1)
    BY <1>3, NothingDone DEF Init, Done
  <1> QED
    BY <1>3, <1>4, <1>5 DEF Init, EngineInv, Asking

(* A provider that fails leaves the queue as it was cut at first.          *)
LEMMA ProviderFailsEngine ==
  ASSUME EngineInv, pc \in Asking \cup {"merge"}, ProviderFails
  PROVE  EngineInv'
  <1>1. /\ queue' \in Seq(Stretches) /\ Tiles(queue', 1, Kept) /\ Len(queue') > 0
        /\ c' = 1 /\ candidates' = <<>> /\ c' \in 1..(Len(queue') + 1) /\ c' <= Len(queue')
    BY ChunksFacts DEF ProviderFails
  <1>2. p \in 1..Len(chain) /\ p' = p + 1 /\ chain' = chain /\ outcome = "none"
    BY DEF EngineInv, TypeOK, ProviderFails, Asking
  <1>3. p' \in 1..(Len(chain') + 1)
    BY <1>2, EngineFacts
  <1>4. \/ p' <= Len(chain') /\ pc' = "call" /\ outcome' = "none"
        \/ pc' = "end" /\ outcome' = "exhausted"
    BY <1>2, EngineFacts DEF ProviderFails, Finish
  <1>5. {Size, MaxRetries, RepairsAllowed} \subseteq Nat
    BY ExtractionAssumption
  <1>6. TypeOK'
    <2>1. 0 \in 0..MaxRetries /\ 0 \in 0..RepairsAllowed
      BY <1>5
    <2>2. <<>> \in Seq(Stretches)
      OBVIOUS
    <2>3. pc' \in Asking \cup {"start", "merge", "end"}
      BY <1>4 DEF Asking
    <2> QED
      BY <1>1, <1>2, <1>3, <2>1, <2>2, <2>3 DEF ProviderFails, EngineInv, TypeOK
  <1>7. candidates' = SubSeq(queue', 1, c' - 1)
    BY <1>1, NothingDone DEF Done
  <1> QED
    BY <1>1, <1>4, <1>6, <1>7 DEF EngineInv, Asking

(* A step that stays in the loop and changes neither queue nor results.    *)
LEMMA SameChunkEngine ==
  ASSUME EngineInv, pc \in Asking, pc' \in Asking,
         UNCHANGED <<chain, p, queue, c, candidates, outcome, aborted>>,
         attempt' \in 0..MaxRetries, recovered' \in BOOLEAN, repairs' \in 0..RepairsAllowed,
         stray' \in Nat
  PROVE  EngineInv'
  <1>1. TypeOK'
    BY DEF EngineInv, TypeOK
  <1> QED
    BY <1>1 DEF EngineInv, Asking

LEMMA StartEngine ==
  ASSUME EngineInv, Start
  PROVE  EngineInv'
  <1>1. outcome = "none" /\ p = 1 /\ c = 1 /\ UNCHANGED <<chain, p, chunkVars, aborted, stray>>
    BY DEF EngineInv, Start
  <1>2. chain # <<>> => 1 <= Len(chain)
    BY DEF EngineInv, TypeOK
  <1>3. 1 <= Len(queue)
    BY EngineFacts DEF EngineInv, Tiles
  <1>4. \/ pc' = "end" /\ outcome' # "none"
        \/ pc' = "call" /\ outcome' = "none" /\ p <= Len(chain) /\ c <= Len(queue)
    BY <1>1, <1>2, <1>3 DEF Start, Finish
  <1>5. TypeOK'
    BY <1>1, <1>4 DEF EngineInv, TypeOK, chunkVars, Asking
  <1> QED
    BY <1>1, <1>4, <1>5 DEF EngineInv, chunkVars, Asking

LEMMA CallEngine ==
  ASSUME EngineInv, Call
  PROVE  EngineInv'
  <1>1. CASE ProviderFails
    BY <1>1, ProviderFailsEngine DEF Call, Asking
  <1>2. CASE Request("answer") /\ UNCHANGED chunkVars
    BY <1>2, SameChunkEngine DEF Call, Request, chunkVars, Asking, EngineInv, TypeOK
  <1> QED
    BY <1>1, <1>2 DEF Call

LEMMA ValidEngine ==
  ASSUME EngineInv, Valid
  PROVE  EngineInv'
  <1>1. /\ pc \in Asking /\ c \in 1..Len(queue) /\ Len(queue) \in Nat
        /\ outcome = "none" /\ p <= Len(chain)
    BY EngineFacts DEF Valid, EngineInv, TypeOK, Asking
  <1>2. candidates' = Done(queue, c + 1)
    BY <1>1, EngineFacts, OneMoreDone DEF Valid
  <1>3. c + 1 \in 1..(Len(queue) + 1) /\ (c < Len(queue) <=> c + 1 <= Len(queue))
    BY <1>1
  <1>4. Done(queue, c + 1) \in Seq(Stretches)
    BY <1>3, EngineFacts, DoneElements
  <1>5. \/ pc' = "call" /\ c' <= Len(queue')
        \/ pc' = "merge" /\ c' = Len(queue') + 1
    BY <1>1, <1>3 DEF Valid
  <1>6. 0 \in 0..MaxRetries
    BY ExtractionAssumption
  <1>7. TypeOK'
    BY <1>1, <1>2, <1>3, <1>4, <1>5, <1>6 DEF Valid, EngineInv, TypeOK, Asking
  <1> QED
    BY <1>1, <1>2, <1>5, <1>7 DEF Valid, EngineInv, Asking, Done

LEMMA RepairEngine ==
  ASSUME EngineInv, Repair
  PROVE  EngineInv'
  <1>1. RepairsAllowed \in Nat /\ repairs \in 0..RepairsAllowed
    BY ExtractionAssumption DEF EngineInv, TypeOK
  <1>2. repairs' \in 0..RepairsAllowed
    BY <1>1 DEF Repair
  <1> QED
    BY <1>2, SameChunkEngine DEF Repair, Request, Asking, EngineInv, TypeOK

(* The arithmetic of the splice: the chunk at hand is replaced by its      *)
(* pieces, which cover the same stretch, and what is done is kept.         *)
LEMMA SplitEngine ==
  ASSUME EngineInv, Split
  PROVE  EngineInv'
  <1> DEFINE m == Reduced[queue[c]]
  <1>1. /\ pc \in Asking /\ c \in 1..Len(queue) /\ outcome = "none" /\ p <= Len(chain)
    BY EngineFacts DEF Split, EngineInv, TypeOK, Asking
  <1>2. queue \in Seq(Stretches) /\ Tiles(queue, 1, Kept) /\ queue[c] \in Stretches
    BY <1>1, EngineFacts DEF EngineInv
  <1>3. queue[c].first <= queue[c].last
    BY <1>1, <1>2 DEF Tiles
  <1>4. m \in Seq(Stretches) /\ Tiles(m, queue[c].first, queue[c].last)
    BY <1>2, <1>3, ExtractionAssumption
  <1>5. Len(m) > 0
    BY <1>4 DEF Tiles
  <1>6. queue' = Spliced(queue, c, m) /\ c' = c /\ candidates' = candidates
    BY DEF Split, Splice, Spliced
  <1> HIDE DEF m
  <1>7. queue' \in Seq(Stretches) /\ Tiles(queue', 1, Kept)
    BY <1>1, <1>2, <1>4, <1>5, <1>6, SplicedElements, SplicedTiles
  <1>8. c' \in 1..Len(queue') /\ candidates' = Done(queue', c')
    BY <1>1, <1>2, <1>4, <1>5, <1>6, DoneAfterSplice, EngineFacts
  <1>9. c' \in 1..(Len(queue') + 1) /\ c' <= Len(queue')
    BY <1>7, <1>8
  <1>10. 0 \in 0..MaxRetries
    BY ExtractionAssumption
  <1>11. TypeOK'
    BY <1>6, <1>7, <1>9, <1>10 DEF Split, EngineInv, TypeOK, Asking
  <1> QED
    BY <1>1, <1>7, <1>8, <1>9, <1>11 DEF Split, EngineInv, Asking, Done

LEMMA BackOffEngine ==
  ASSUME EngineInv, BackOff
  PROVE  EngineInv'
  <1>1. MaxRetries \in Nat /\ attempt \in 0..MaxRetries
    BY ExtractionAssumption DEF EngineInv, TypeOK
  <1>2. attempt' \in 0..MaxRetries
    BY <1>1 DEF BackOff
  <1>3. recovered' \in BOOLEAN
    BY DEF BackOff
  <1> QED
    BY <1>2, <1>3, SameChunkEngine DEF BackOff, Asking, EngineInv, TypeOK

LEMMA MergeEngine ==
  ASSUME EngineInv, Merge
  PROVE  EngineInv'
  <1>1. TypeOK'
    BY DEF Merge, Finish, chunkVars, EngineInv, TypeOK
  <1> QED
    BY <1>1 DEF Merge, Finish, chunkVars, EngineInv, Asking

LEMMA EngineStep ==
  ASSUME EngineInv, [Next]_vars
  PROVE  EngineInv'
  <1>1. CASE UNCHANGED vars
    BY <1>1 DEF vars, chunkVars, EngineInv, TypeOK
  <1>2. CASE Abort
    <2>1. TypeOK'
      BY <1>2 DEF Abort, chunkVars, EngineInv, TypeOK
    <2> QED
      BY <1>2, <2>1 DEF Abort, chunkVars, EngineInv
  <1>3. CASE Invalid \/ GiveUp \/ SleepAborted \/ MergeFails
    <2>1. ProviderFails /\ pc \in Asking \cup {"merge"}
      BY <1>3 DEF Invalid, GiveUp, SleepAborted, MergeFails, Asking
    <2> QED
      BY <2>1, ProviderFailsEngine
  <1>4. CASE SleepOver
    BY <1>4, SameChunkEngine DEF SleepOver, chunkVars, Asking, EngineInv, TypeOK
  <1> QED
    BY <1>1, <1>2, <1>3, <1>4, StartEngine, CallEngine, ValidEngine, RepairEngine,
       SplitEngine, BackOffEngine, MergeEngine
    DEF Next, Work

(* No chunk is skipped and none is extracted twice by one provider,        *)
(* however often a chunk is split, retried or repaired: the chunks that    *)
(* gave a candidate are the part of the text before the one at hand.       *)
THEOREM EngineInvariant == Spec => []EngineInv
  <1>1. EngineInv /\ [Next]_vars => EngineInv'
    BY EngineStep
  <1> QED
    BY <1>1, InitEngine, PTL DEF Spec

-----------------------------------------------------------------------------
(* The providers one after the other *)

LEMMA StillRunning ==
  ASSUME outcome = "none", outcome' = "none", UNCHANGED <<chain, p>>
  PROVE  UNCHANGED Fallback!vars
  BY DEF Fallback!vars

LEMMA FailureIsFailure ==
  ASSUME EngineInv, pc \in Asking \cup {"merge"}, ProviderFails
  PROVE  Fallback!Fail
  <1>1. /\ outcome = "none" /\ p \in 1..Len(chain) /\ Len(chain) \in Nat
        /\ p' = p + 1 /\ chain' = chain
    BY EngineFacts DEF EngineInv, TypeOK, Asking, ProviderFails
  <1>2. outcome' = IF p = Len(chain) THEN "exhausted" ELSE "none"
    BY <1>1 DEF ProviderFails, Finish
  <1>3. /\ p - 1 < Len(chain) /\ p' - 1 = (p - 1) + 1 /\ (p' - 1 = Len(chain) <=> p = Len(chain))
        /\ Len(chain') = Len(chain)
    BY <1>1
  <1> QED
    BY <1>1, <1>2, <1>3 DEF Fallback!Fail

LEMMA MergeIsSuccess ==
  ASSUME EngineInv, Merge
  PROVE  Fallback!Succeed
  <1>1. /\ outcome = "none" /\ p \in Nat /\ p <= Len(chain) /\ Len(chain) \in Nat
        /\ outcome' = "extracted" /\ UNCHANGED <<chain, p, candidates>>
    BY EngineFacts DEF EngineInv, Merge, Finish, chunkVars
  <1>2. candidates = queue /\ Tiles(queue, 1, Kept)
    BY EngineFacts, AllDone DEF EngineInv, Merge
  <1>3. Tiles(candidates', 1, Kept)
    BY <1>1, <1>2
  <1>4. p - 1 < Len(chain)
    BY <1>1
  <1> QED
    BY <1>1, <1>3, <1>4 DEF Fallback!Succeed

LEMMA RefusalIsRefusal ==
  ASSUME EngineInv, Start, outcome' # "none"
  PROVE  Fallback!Refuse
  <1>1. outcome = "none" /\ p = 1 /\ UNCHANGED <<chain, p>> /\ outcome' \in {"aborted", "rejected"}
    BY DEF EngineInv, Start, Finish
  <1> QED
    BY <1>1 DEF Fallback!Refuse

LEMMA FallbackStep ==
  ASSUME EngineInv, [Next]_vars
  PROVE  [Fallback!Next]_(Fallback!vars)
  <1>1. CASE UNCHANGED vars
    BY <1>1 DEF vars, chunkVars, Fallback!vars
  <1>2. ASSUME ProviderFails, pc \in Asking \cup {"merge"}
        PROVE  Fallback!Fail
    BY <1>2, FailureIsFailure
  <1>3. CASE Start
    <2>1. outcome = "none" /\ UNCHANGED <<chain, p>>
      BY <1>3 DEF EngineInv, Start
    <2> QED
      BY <1>3, <2>1, StillRunning, RefusalIsRefusal DEF Fallback!Next
  <1>4. CASE Call \/ Invalid \/ GiveUp \/ SleepAborted \/ MergeFails
    <2>1. pc \in Asking \cup {"merge"}
      BY <1>4 DEF Call, Invalid, GiveUp, SleepAborted, MergeFails, Asking
    <2>2. ProviderFails \/ (outcome = "none" /\ outcome' = "none" /\ UNCHANGED <<chain, p>>)
      BY <1>4, <2>1 DEF Call, Invalid, GiveUp, SleepAborted, MergeFails, Request, EngineInv
    <2> QED
      BY <1>2, <2>1, <2>2, StillRunning DEF Fallback!Next
  <1>5. CASE Abort \/ Valid \/ Repair \/ Split \/ BackOff \/ SleepOver
    <2>1. pc # "end"
      BY <1>5 DEF Abort, Valid, Repair, Split, BackOff, SleepOver
    <2>2. outcome = "none"
      BY <2>1 DEF EngineInv, TypeOK, Asking
    <2>3. UNCHANGED <<chain, p, outcome>>
      BY <1>5 DEF Abort, Valid, Repair, Request, Split, BackOff, SleepOver
    <2> QED
      BY <2>2, <2>3, StillRunning
  <1>6. CASE Merge
    BY <1>6, MergeIsSuccess DEF Fallback!Next
  <1> QED
    BY <1>1, <1>3, <1>4, <1>5, <1>6 DEF Next, Work

(* The result is never a partial text, and never of a provider that was    *)
(* passed over: extract tries the providers in the order of the chain,     *)
(* each until it fails, and returns what one of them made of all chunks.   *)
THEOREM EngineImplementsFallback == Spec => ImplementsFallback
  <1>1. Init => Fallback!Init
    <2> SUFFICES ASSUME Init PROVE Fallback!Init
      OBVIOUS
    <2>1. Len(chain) \in Nat
      BY ExtractionAssumption DEF Init
    <2> QED
      BY <2>1 DEF Init, Fallback!Init
  <1>2. EngineInv /\ [Next]_vars => [Fallback!Next]_(Fallback!vars)
    BY FallbackStep
  <1> QED
    BY <1>1, <1>2, EngineInvariant, PTL DEF Spec, ImplementsFallback, Fallback!Spec

-----------------------------------------------------------------------------
(* The signal of the caller *)

(* Inductive: nothing is stray before the abort, and an answer that was    *)
(* asked for before it was not stray itself.                               *)
StrayInv ==
  /\ stray \in 0..1
  /\ ~aborted => stray = 0
  /\ pc = "answer" => stray = 0

LEMMA StrayStep ==
  ASSUME StrayInv, [Next]_vars
  PROVE  StrayInv'
  <1>1. CASE UNCHANGED vars
    BY <1>1 DEF vars, StrayInv
  <1>2. CASE Call
    <2>1. CASE aborted
      BY <1>2, <2>1 DEF Call, ProviderFails, Finish, StrayInv
    <2>2. CASE ~aborted
      BY <1>2, <2>2 DEF Call, Request, StrayInv
    <2> QED
      BY <2>1, <2>2
  <1>3. CASE Repair
    BY <1>3 DEF Repair, Request, StrayInv
  <1>4. CASE Abort
    BY <1>4 DEF Abort, StrayInv
  <1>5. CASE Start \/ Valid \/ Split \/ BackOff \/ SleepOver \/ Merge
    BY <1>5 DEF Start, Valid, Split, BackOff, SleepOver, Merge, Finish, StrayInv
  <1>6. CASE Invalid \/ GiveUp \/ SleepAborted \/ MergeFails
    BY <1>6 DEF Invalid, GiveUp, SleepAborted, MergeFails, ProviderFails, Finish, StrayInv
  <1> QED
    BY <1>1, <1>2, <1>3, <1>4, <1>5, <1>6 DEF Next, Work

(* The cost of an abort: whatever the chain, the retries and the splits,   *)
(* at most one request goes out after it, the repair of an answer that was *)
(* under way.                                                              *)
THEOREM OneStray == Spec => []AtMostOneStray
  <1>1. Init => StrayInv
    BY DEF Init, StrayInv
  <1>2. StrayInv /\ [Next]_vars => StrayInv'
    BY StrayStep
  <1>3. StrayInv => AtMostOneStray
    BY DEF StrayInv, AtMostOneStray
  <1> QED
    BY <1>1, <1>2, <1>3, PTL DEF Spec
=============================================================================
