----------------------- MODULE CheckpointResumeProofs -----------------------
(***************************************************************************)
(* Proofs about CheckpointResume, for any source, batch size, limit, number *)
(* of restarts and, unless a theorem says otherwise, of workers.           *)
(***************************************************************************)
EXTENDS CheckpointResume, FiniteSetTheorems, TLAPS

LEMMA InitInv == Init => CheckpointInv
  BY CheckpointAssumption
  DEF Init, CheckpointInv, TypeOK, BatchesHandledInOrder,
      CheckpointBehindItsBatch, SeenRowExists, PC

(* What every worker's batch, position and listing are.                    *)
LEMMA WorkerTypes ==
  ASSUME CheckpointInv, NEW w \in Workers
  PROVE  /\ batch[w].offset \in Nat /\ batch[w].batch_count \in 0..BatchSize
         /\ batch[w].batch_count \in Nat
         /\ First(batch[w]) = batch[w].offset
         /\ End(batch[w]) = batch[w].offset + batch[w].batch_count
         /\ pos[w] \in Nat /\ shift[w] \in Nat /\ grown \in Nat
         /\ shift[w] <= grown
         /\ ItemAt(w) = pos[w] - shift[w]
         /\ saved[w] \in Nat
         /\ pc[w] # "idle" => batch[w].batch_count > 0
  <1>1. batch[w] \in [offset : Nat, batch_count : 0..BatchSize]
    BY DEF CheckpointInv, TypeOK
  <1> QED
    BY <1>1, CheckpointAssumption
    DEF CheckpointInv, TypeOK, BatchesHandledInOrder, First, End, ItemAt

(* Handled items stay handled, whatever a step adds to the three sets.     *)
LEMMA HandledStays ==
  ASSUME stored \subseteq stored', missed \subseteq missed'
  PROVE  \A p : Handled(p) => Handled(p)'
  BY DEF Handled

(* A step that writes no row and takes no handled item back keeps the      *)
(* checkpoint behind its batch.                                            *)
LEMMA BehindStays ==
  ASSUME CheckpointInv, stored \subseteq stored', missed \subseteq missed',
         row' = row, grown' \in Nat, grown <= grown'
  PROVE  CheckpointBehindItsBatch'
  <1>1. \A g \in 0..grown : g \in 0..grown'
    BY DEF CheckpointInv, TypeOK
  <1> QED
    BY <1>1, HandledStays DEF CheckpointInv, CheckpointBehindItsBatch

LEMMA TakeInv ==
  ASSUME CheckpointInv, NEW w \in Workers, Take(w)
  PROVE  CheckpointInv'
  <1>1. BatchCount \in 1..BatchSize /\ queued + BatchCount \in 0..Limit
    BY CheckpointAssumption DEF BatchCount, CheckpointInv, TypeOK, Take
  <1>2. TypeOK'
    BY <1>1, CheckpointAssumption DEF Take, Goto, CheckpointInv, TypeOK, PC
  <1>3. BatchesHandledInOrder'
    BY <1>1, CheckpointAssumption
    DEF Take, Goto, CheckpointInv, TypeOK, BatchesHandledInOrder, Handled,
        First, End, Items, ItemAt
  <1>4. CheckpointBehindItsBatch'
    BY BehindStays DEF Take, CheckpointInv, TypeOK
  <1>5. SeenRowExists'
    BY DEF Take, Goto, CheckpointInv, TypeOK, SeenRowExists
  <1> QED
    BY <1>2, <1>3, <1>4, <1>5 DEF CheckpointInv

LEMMA FetchInv ==
  ASSUME CheckpointInv, NEW w \in Workers, Fetch(w)
  PROVE  CheckpointInv'
  BY BehindStays, CheckpointAssumption
  DEF Fetch, Goto, CheckpointInv, TypeOK, BatchesHandledInOrder, Handled,
      SeenRowExists, PC, First, End, Items, ItemAt

LEMMA UnparsableInv ==
  ASSUME CheckpointInv, NEW w \in Workers, Unparsable(w)
  PROVE  CheckpointInv'
  <1>1. \A p : Handled(p) => Handled(p)'
    BY HandledStays DEF Unparsable
  <1>2. \A p \in Items(batch[w], grown) : Handled(p)'
    BY DEF Unparsable, Handled
  <1>3. Items(batch[w], grown) \subseteq Int
    BY WorkerTypes DEF Items
  <1>4. TypeOK'
    BY <1>3 DEF Unparsable, Goto, CheckpointInv, TypeOK, PC
  <1>5. BatchesHandledInOrder'
    <2>1. ASSUME NEW v \in Workers, v # w
          PROVE  /\ pc'[v] = pc[v] /\ shift'[v] = shift[v]
                 /\ UNCHANGED <<batch, pos, grown, ItemAt(v)>>
      BY <2>1 DEF Unparsable, Goto, CheckpointInv, TypeOK, ItemAt
    <2>2. /\ pc'[w] = "read" /\ shift'[w] = grown /\ UNCHANGED <<batch, grown>>
          /\ batch[w].batch_count > 0
      BY DEF Unparsable, Goto, CheckpointInv, TypeOK, BatchesHandledInOrder
    <2>3. grown <= grown
      BY DEF CheckpointInv, TypeOK
    <2> QED
      BY <1>1, <1>2, <2>1, <2>2, <2>3
      DEF CheckpointInv, BatchesHandledInOrder
  <1>6. CheckpointBehindItsBatch'
    BY BehindStays DEF Unparsable, CheckpointInv, TypeOK
  <1>7. SeenRowExists'
    BY DEF Unparsable, Goto, CheckpointInv, TypeOK, SeenRowExists
  <1> QED
    BY <1>4, <1>5, <1>6, <1>7 DEF CheckpointInv

LEMMA ItemInv ==
  ASSUME CheckpointInv, NEW w \in Workers, Item(w)
  PROVE  CheckpointInv'
  <1>1. \A p : Handled(p) => Handled(p)'
    BY HandledStays DEF Item
  <1>2. \A p : p = ItemAt(w) => Handled(p)'
    BY DEF Item, Handled
  <1>3. pos[w] \in Nat /\ saved[w] \in Nat /\ ItemAt(w) \in Int
    BY WorkerTypes
  <1>4. TypeOK'
    <2>1. stored' \in SUBSET Int /\ saved' \in [Workers -> Nat]
      <3>1. stored \in SUBSET Int /\ saved \in [Workers -> Nat]
        BY DEF CheckpointInv, TypeOK
      <3>2. CASE stored' = stored \cup {ItemAt(w)} /\ saved' = [saved EXCEPT ![w] = @ + 1]
        <4>1. stored' \in SUBSET Int
          BY <1>3, <3>1, <3>2
        <4>2. saved' \in [Workers -> Nat]
          BY <1>3, <3>1, <3>2
        <4> QED
          BY <4>1, <4>2
      <3> QED
        BY <3>1, <3>2 DEF Item
    <2>2. pos' \in [Workers -> Nat]
      BY <1>3 DEF Item, CheckpointInv, TypeOK
    <2> QED
      BY <2>1, <2>2 DEF Item, CheckpointInv, TypeOK
  <1>5. BatchesHandledInOrder'
    <2>1. UNCHANGED <<pc, batch, shift, grown>> /\ pc[w] = "parse"
      BY DEF Item
    <2>2. ASSUME NEW v \in Workers, v # w
          PROVE  pos'[v] = pos[v] /\ ItemAt(v)' = ItemAt(v)
      BY <2>2 DEF Item, CheckpointInv, TypeOK, ItemAt
    <2>3. /\ pos'[w] \in First(batch[w])..End(batch[w])
          /\ \A p \in (First(batch[w]) - shift[w])..(ItemAt(w)' - 1) : Handled(p)'
      <3>1. /\ pos[w] \in First(batch[w])..End(batch[w]) /\ pos[w] < End(batch[w])
            /\ \A p \in (First(batch[w]) - shift[w])..(ItemAt(w) - 1) : Handled(p)'
        BY <1>1, <2>1 DEF Item, CheckpointInv, BatchesHandledInOrder
      <3>2. pos'[w] = pos[w] + 1 /\ ItemAt(w)' = ItemAt(w) + 1
        BY <2>1, WorkerTypes DEF Item, CheckpointInv, TypeOK, ItemAt
      <3>3. pos'[w] \in First(batch[w])..End(batch[w])
        BY <3>1, <3>2, WorkerTypes
      <3>4. ASSUME NEW p \in (First(batch[w]) - shift[w])..(ItemAt(w)' - 1)
            PROVE  Handled(p)'
        <4>1. p \in (First(batch[w]) - shift[w])..(ItemAt(w) - 1) \/ p = ItemAt(w)
          BY <3>2, WorkerTypes
        <4> QED
          BY <1>2, <3>1, <4>1
      <3> QED
        BY <3>3, <3>4
    <2> QED
      BY <1>1, <2>1, <2>2, <2>3 DEF CheckpointInv, BatchesHandledInOrder
  <1>6. CheckpointBehindItsBatch'
    BY BehindStays DEF Item, CheckpointInv, TypeOK
  <1>7. SeenRowExists'
    BY DEF Item, CheckpointInv, SeenRowExists
  <1> QED
    BY <1>4, <1>5, <1>6, <1>7 DEF CheckpointInv

LEMMA ParseEndsInv ==
  ASSUME CheckpointInv, NEW w \in Workers, ParseEnds(w)
  PROVE  CheckpointInv'
  <1>1. TypeOK' /\ SeenRowExists' /\ CheckpointBehindItsBatch'
    BY BehindStays
    DEF ParseEnds, Goto, CheckpointInv, TypeOK, SeenRowExists, PC
  <1>2. Items(batch[w], shift[w]) = (First(batch[w]) - shift[w])..(ItemAt(w) - 1)
    BY WorkerTypes DEF ParseEnds, Items
  <1>3. BatchesHandledInOrder'
    BY <1>2
    DEF ParseEnds, Goto, CheckpointInv, TypeOK, BatchesHandledInOrder, Handled,
        ItemAt
  <1> QED
    BY <1>1, <1>3 DEF CheckpointInv

LEMMA ReadRowInv ==
  ASSUME CheckpointInv, NEW w \in Workers, ReadRow(w)
  PROVE  CheckpointInv'
  <1>1. TypeOK' /\ SeenRowExists' /\ CheckpointBehindItsBatch'
    BY BehindStays
    DEF ReadRow, Goto, CheckpointInv, TypeOK, SeenRowExists, PC
  <1>2. BatchesHandledInOrder'
    BY DEF ReadRow, Goto, CheckpointInv, TypeOK, BatchesHandledInOrder, Handled,
           ItemAt
  <1> QED
    BY <1>1, <1>2 DEF CheckpointInv

(* A task that ends as an error leaves its worker idle.                    *)
LEMMA FailsInv ==
  ASSUME CheckpointInv, NEW w \in Workers, FetchFails(w) \/ TaskFails(w)
  PROVE  CheckpointInv'
  <1>1. /\ stored \subseteq stored' /\ missed \subseteq missed'
        /\ Goto(w, "idle")
        /\ UNCHANGED <<grown, row, next, queued, batch, shift, pos, saved, seen, runs>>
    BY DEF FetchFails, TaskFails, MayHaveStored
  <1>2. Items(batch[w], grown) \subseteq Int /\ Unparsed(w) \subseteq Int
    BY WorkerTypes DEF Items, Unparsed
  <1>3. stored' \in SUBSET Int /\ missed' \in SUBSET Int
    <2>1. stored \in SUBSET Int /\ missed \in SUBSET Int
      BY DEF CheckpointInv, TypeOK
    <2>2. MayHaveStored(w) \subseteq Int
      BY <1>2 DEF MayHaveStored
    <2> QED
      BY <1>2, <2>1, <2>2 DEF FetchFails, TaskFails
  <1>4. TypeOK'
    BY <1>1, <1>3 DEF Goto, CheckpointInv, TypeOK, PC
  <1>5. BatchesHandledInOrder'
    <2>1. \A v \in Workers : /\ v # w => pc'[v] = pc[v]
                            /\ ItemAt(v)' = ItemAt(v)
      BY <1>1 DEF Goto, CheckpointInv, TypeOK, ItemAt
    <2>2. pc'[w] = "idle"
      BY <1>1 DEF Goto, CheckpointInv, TypeOK
    <2> QED
      BY <1>1, <2>1, <2>2, HandledStays DEF CheckpointInv, BatchesHandledInOrder
  <1>6. CheckpointBehindItsBatch'
    BY <1>1, BehindStays DEF CheckpointInv, TypeOK
  <1>7. SeenRowExists'
    BY <1>1 DEF Goto, CheckpointInv, TypeOK, SeenRowExists
  <1> QED
    BY <1>4, <1>5, <1>6, <1>7 DEF CheckpointInv

LEMMA RestartInv ==
  ASSUME CheckpointInv, Restart
  PROVE  CheckpointInv'
  <1>1. TypeOK'
    BY CheckpointAssumption
    DEF Restart, Offset, Rows, CheckpointInv, TypeOK, PC
  <1>2. BatchesHandledInOrder'
    BY DEF Restart, CheckpointInv, TypeOK, BatchesHandledInOrder
  <1>3. CheckpointBehindItsBatch'
    BY BehindStays DEF Restart, CheckpointInv, TypeOK
  <1>4. SeenRowExists'
    BY DEF Restart, SeenRowExists
  <1> QED
    BY <1>1, <1>2, <1>3, <1>4 DEF CheckpointInv

LEMMA GrowInv ==
  ASSUME CheckpointInv, Grow
  PROVE  CheckpointInv'
  <1>1. TypeOK'
    BY DEF Grow, workVars, CheckpointInv, TypeOK
  <1>2. \A w \in Workers : ItemAt(w)' = ItemAt(w) /\ shift[w] <= grown'
    BY WorkerTypes DEF Grow, workVars, ItemAt
  <1>3. BatchesHandledInOrder'
    BY <1>2 DEF Grow, workVars, CheckpointInv, BatchesHandledInOrder, Handled
  <1>4. CheckpointBehindItsBatch'
    BY <1>1, BehindStays DEF Grow, CheckpointInv, TypeOK
  <1>5. SeenRowExists'
    BY DEF Grow, workVars, CheckpointInv, SeenRowExists
  <1> QED
    BY <1>1, <1>3, <1>4, <1>5 DEF CheckpointInv

(* Every offset written is the end of a batch already dealt with; a column *)
(* left alone keeps an offset that was.                                    *)
LEMMA WriteRowInv ==
  ASSUME CheckpointInv, NEW w \in Workers, WriteRow(w)
  PROVE  CheckpointInv'
  <1> DEFINE b == batch[w]
  <1>1. /\ b.offset \in Nat
        /\ b.batch_count \in 1..BatchSize
        /\ saved[w] \in Nat
        /\ seen[w] \in Rows \cup {NoRow}
        /\ row \in Rows \cup {NoRow}
    BY CheckpointAssumption
    DEF WriteRow, CheckpointInv, TypeOK, BatchesHandledInOrder
  <1>2. \A p \in Items(b, shift[w]) : Handled(p)
    BY DEF WriteRow, CheckpointInv, BatchesHandledInOrder
  <1>3. \A p : Handled(p)' <=> Handled(p)
    BY DEF WriteRow, Handled
  <1>4. \/ row' = row
        \/ /\ row' \in Rows
           /\ row'.offset = End(b) \/ (row # NoRow /\ row'.offset = row.offset)
    <2>1. End(b) \in Nat
      BY <1>1 DEF End
    <2>2. CASE InsertRow(w)
      BY <1>1, <2>1, <2>2 DEF InsertRow, Rows
    <2>3. CASE UpdateRow(w)
      <3>1. row # NoRow
        BY <2>3 DEF UpdateRow, WriteRow, CheckpointInv, SeenRowExists
      <3>2. row \in Rows /\ seen[w] \in Rows
        BY <1>1, <2>3, <3>1 DEF UpdateRow
      <3> QED
        BY <1>1, <2>1, <2>3, <3>1, <3>2 DEF UpdateRow, Rows
    <2> QED
      BY <2>2, <2>3 DEF WriteRow
  <1>5. NoRow \notin Rows
    BY CheckpointAssumption DEF Rows
  <1>6. TypeOK'
    BY <1>4 DEF WriteRow, Goto, CheckpointInv, TypeOK, PC
  <1>7. BatchesHandledInOrder'
    BY <1>3 DEF WriteRow, Goto, CheckpointInv, TypeOK, BatchesHandledInOrder, ItemAt
  <1>8. CheckpointBehindItsBatch'
    <2>1. CASE row' = row
      BY <2>1, BehindStays DEF WriteRow, CheckpointInv, TypeOK
    <2>2. CASE row'.offset = End(b)
      <3>1. /\ b \in [offset : 0..row'.offset, batch_count : 1..BatchSize]
            /\ shift[w] \in 0..grown'
        <4>1. batch[w] \in [offset : Nat, batch_count : 0..BatchSize]
          BY DEF CheckpointInv, TypeOK
        <4>2. grown' = grown
          BY DEF WriteRow
        <4> QED
          BY <1>1, <2>2, <4>1, <4>2, WorkerTypes
      <3>2. \A p \in Items(b, shift[w]) : Handled(p)'
        BY <1>2, <1>3
      <3> QED
        BY <2>2, <3>1, <3>2 DEF CheckpointBehindItsBatch
    <2>3. CASE row # NoRow /\ row'.offset = row.offset
      BY <1>3, <2>3 DEF WriteRow, CheckpointInv, CheckpointBehindItsBatch
    <2> QED
      BY <1>4, <2>1, <2>2, <2>3
  <1>9. SeenRowExists'
    BY <1>4, <1>5
    DEF WriteRow, Goto, CheckpointInv, TypeOK, SeenRowExists, InsertRow,
        UpdateRow
  <1> QED
    BY <1>6, <1>7, <1>8, <1>9 DEF CheckpointInv

LEMMA StutterInv ==
  ASSUME CheckpointInv, UNCHANGED vars
  PROVE  CheckpointInv'
  BY DEF vars, workVars, CheckpointInv, TypeOK, BatchesHandledInOrder, Handled,
     ItemAt, CheckpointBehindItsBatch, SeenRowExists

(* The offset in the database is the end of a batch that was dealt with,   *)
(* for any number of workers, failures and restarts.                       *)
THEOREM CheckpointInvariant == Spec => []CheckpointInv
  <1>1. CheckpointInv /\ [Next]_vars => CheckpointInv'
    BY TakeInv, FetchInv, UnparsableInv, ItemInv, ParseEndsInv, ReadRowInv,
       WriteRowInv, FailsInv, RestartInv, GrowInv, StutterInv DEF Next, Step
  <1> QED
    BY <1>1, InitInv, PTL DEF Spec

-----------------------------------------------------------------------------
(* One worker, whatever fails                                              *)

(* With one worker the items are dealt with in their order: all before the *)
(* checkpoint, all before the next batch, and, while there is a batch, all *)
(* before its first item.  The listing may have grown since the batch was  *)
(* fetched, which only makes these promises smaller.                       *)
AllHandled(n) == \A p \in 0..(n - 1) : Handled(p)

InOrder(w) ==
  /\ AllHandled(Offset - grown)
  /\ pc[w] = "idle" => Offset <= next /\ AllHandled(next - grown)
  /\ pc[w] # "idle" => Offset <= First(batch[w]) /\ next = End(batch[w])
  /\ pc[w] = "fetch" => AllHandled(First(batch[w]) - grown)
  /\ pc[w] \in {"parse", "read", "write"} => AllHandled(First(batch[w]) - shift[w])
  /\ pc[w] = "write" => seen[w] = row

LEMMA OffsetType ==
  ASSUME TypeOK
  PROVE  Offset \in Nat
  BY DEF TypeOK, Offset, Rows

(* The promise of a smaller number is a smaller promise.                   *)
LEMMA AllHandledLess ==
  ASSUME NEW m \in Int, NEW n \in Int, m <= n, AllHandled(n)
  PROVE  AllHandled(m)
  BY DEF AllHandled

LEMMA AllHandledStays ==
  ASSUME stored \subseteq stored', missed \subseteq missed', NEW n, AllHandled(n)
  PROVE  AllHandled(n)'
  BY HandledStays DEF AllHandled

(* A promise and a stretch that continues it.                              *)
LEMMA AllHandledMore ==
  ASSUME NEW m \in Int, NEW n \in Int, AllHandled(m),
         \A p \in m..(n - 1) : Handled(p)
  PROVE  AllHandled(n)
  <1>1. \A p \in 0..(n - 1) : p \in 0..(m - 1) \/ p \in m..(n - 1)
    OBVIOUS
  <1> QED
    BY <1>1 DEF AllHandled

(* The checkpoint moves to the end of the batch, whichever branch of       *)
(* update_checkpoint writes it.                                            *)
LEMMA WriteMovesOffset ==
  ASSUME NEW w \in Workers, CheckpointInv, InOrder(w), WriteRow(w)
  PROVE  Offset' = End(batch[w]) /\ Offset < End(batch[w])
  <1>1. /\ batch[w].batch_count \in 1..BatchSize
        /\ seen[w] = row
        /\ Offset <= First(batch[w])
        /\ Offset \in Nat
        /\ row \in Rows \cup {NoRow}
        /\ First(batch[w]) \in Nat
        /\ End(batch[w]) \in Nat /\ First(batch[w]) < End(batch[w])
        /\ saved[w] \in Nat
    BY OffsetType, WorkerTypes, CheckpointAssumption
    DEF CheckpointInv, TypeOK, BatchesHandledInOrder, InOrder, WriteRow
  <1>2. row' # NoRow /\ row'.offset = End(batch[w])
    <2>1. CASE InsertRow(w)
      <3>1. row' = [offset |-> End(batch[w]), total |-> saved[w]]
        BY <1>1, <2>1 DEF InsertRow
      <3>2. row' \in Rows
        BY <1>1, <3>1 DEF Rows
      <3> QED
        BY <3>1, <3>2, CheckpointAssumption DEF Rows
    <2>2. CASE UpdateRow(w)
      <3>1. row \in Rows /\ Offset = row.offset
        BY <1>1, <2>2 DEF UpdateRow, Offset
      <3>2. row'.offset = End(batch[w])
        BY <1>1, <2>2, <3>1 DEF UpdateRow
      <3>3. row' \in Rows
        <4>1. row.total \in Nat /\ row.offset \in Nat
          BY <3>1 DEF Rows
        <4> QED
          BY <1>1, <2>2, <4>1 DEF UpdateRow, Rows
      <3> QED
        BY <3>2, <3>3, CheckpointAssumption DEF Rows
    <2> QED
      BY <2>1, <2>2 DEF WriteRow
  <1> QED
    BY <1>1, <1>2 DEF Offset

(* All items of the batch of the worker are handled when those behind its  *)
(* first one are and it has gone through the batch.                        *)
LEMMA BatchDone ==
  ASSUME NEW w \in Workers, CheckpointInv, InOrder(w), pc[w] \in {"read", "write"}
  PROVE  /\ AllHandled(End(batch[w]) - shift[w])
         /\ AllHandled(End(batch[w]) - grown)
  <1>1. \A p \in (First(batch[w]) - shift[w])..(End(batch[w]) - shift[w] - 1) : Handled(p)
    <2>1. (First(batch[w]) - shift[w])..(End(batch[w]) - shift[w] - 1) = Items(batch[w], shift[w])
      BY WorkerTypes DEF Items
    <2> QED
      BY <2>1 DEF CheckpointInv, BatchesHandledInOrder
  <1>2. AllHandled(First(batch[w]) - shift[w])
    BY DEF InOrder
  <1>3. AllHandled(End(batch[w]) - shift[w])
    BY <1>1, <1>2, AllHandledMore, WorkerTypes
  <1> QED
    BY <1>3, AllHandledLess, WorkerTypes

(* ... and all that lies behind the worker in its batch.                   *)
LEMMA PositionReached ==
  ASSUME NEW w \in Workers, CheckpointInv, InOrder(w), pc[w] = "parse"
  PROVE  AllHandled(ItemAt(w))
  <1>1. \A p \in (First(batch[w]) - shift[w])..(ItemAt(w) - 1) : Handled(p)
    BY DEF CheckpointInv, BatchesHandledInOrder
  <1>2. AllHandled(First(batch[w]) - shift[w])
    BY DEF InOrder
  <1> QED
    BY <1>1, <1>2, AllHandledMore, WorkerTypes

LEMMA InOrderStep ==
  ASSUME NEW w, Workers = {w}, CheckpointInv, InOrder(w), [Next]_vars
  PROVE  InOrder(w)'
  <1>1. /\ w \in Workers
        /\ pc \in [Workers -> PC]
        /\ batch \in [Workers -> [offset : Nat, batch_count : 0..BatchSize]]
        /\ shift \in [Workers -> Nat]
        /\ seen \in [Workers -> Rows \cup {NoRow}]
        /\ next \in Nat /\ Offset \in Nat /\ grown \in Nat
    BY OffsetType DEF CheckpointInv, TypeOK
  <1>2. stored \subseteq stored' /\ missed \subseteq missed'
    BY <1>1 DEF Next, Step, Take, Fetch, Unparsable, Item, ParseEnds, ReadRow,
                WriteRow, FetchFails, TaskFails, Restart, Grow, vars
  <1>3. \A n : AllHandled(n) => AllHandled(n)'
    BY <1>2, AllHandledStays
  <1>4. ASSUME Offset' = Offset, grown' = grown
        PROVE  AllHandled(Offset - grown)'
    BY <1>2, <1>4, HandledStays DEF InOrder, AllHandled
  <1>5. CASE Take(w)
    <2>1. /\ batch'[w] = [offset |-> next, batch_count |-> BatchCount]
          /\ pc'[w] = "fetch" /\ next' = next + BatchCount
          /\ UNCHANGED <<grown, row, stored, missed>>
          /\ Offset <= next /\ AllHandled(next - grown)
      BY <1>1, <1>5 DEF Take, Goto, InOrder
    <2>2. Offset' = Offset
      BY <2>1 DEF Offset
    <2> QED
      BY <1>2, <1>4, <2>1, <2>2, HandledStays DEF InOrder, AllHandled, First, End
  <1>6. CASE Fetch(w) \/ Unparsable(w)
    <2>1. /\ pc[w] = "fetch" /\ pc'[w] \in {"parse", "read"}
          /\ shift'[w] = grown
          /\ UNCHANGED <<grown, row, batch, next>>
      BY <1>1, <1>6 DEF Fetch, Unparsable, Goto
    <2>2. Offset' = Offset
      BY <2>1 DEF Offset
    <2>3. /\ Offset <= First(batch[w]) /\ next = End(batch[w])
          /\ AllHandled(First(batch[w]) - grown)
      BY <2>1 DEF InOrder
    <2> QED
      BY <1>2, <1>4, <2>1, <2>2, <2>3, HandledStays DEF InOrder, AllHandled
  <1>7. CASE Item(w) \/ ParseEnds(w) \/ ReadRow(w)
    <2>1. /\ pc[w] \in {"parse", "read"} /\ pc'[w] \in {"parse", "read", "write"}
          /\ UNCHANGED <<grown, row, batch, shift, next>>
          /\ pc'[w] = "write" => seen'[w] = row
      BY <1>1, <1>7 DEF Item, ParseEnds, ReadRow, Goto
    <2>2. Offset' = Offset
      BY <2>1 DEF Offset
    <2>3. /\ Offset <= First(batch[w]) /\ next = End(batch[w])
          /\ AllHandled(First(batch[w]) - shift[w])
      BY <2>1 DEF InOrder
    <2> QED
      BY <1>2, <1>4, <2>1, <2>2, <2>3, HandledStays DEF InOrder, AllHandled
  <1>8. CASE WriteRow(w)
    <2>1. Offset' = End(batch[w]) /\ next = End(batch[w])
      BY <1>1, <1>8, WriteMovesOffset DEF InOrder, WriteRow
    <2>2. AllHandled(End(batch[w]) - grown)
      BY <1>1, <1>8, BatchDone DEF WriteRow
    <2>3. pc'[w] = "idle" /\ UNCHANGED <<stored, missed, grown, next>>
      BY <1>1, <1>8 DEF WriteRow, Goto
    <2>4. (Offset' - grown' = End(batch[w]) - grown) /\ (next' - grown' = End(batch[w]) - grown)
      BY <2>1, <2>3
    <2>5. Offset' <= next'
      BY <1>1, <2>1, <2>3
    <2> QED
      BY <2>2, <2>3, <2>4, <2>5 DEF InOrder, AllHandled, Handled
  <1>9. CASE FetchFails(w) \/ TaskFails(w)
    <2>1. /\ pc[w] \in {"fetch", "parse", "read", "write"} /\ pc'[w] = "idle"
          /\ UNCHANGED <<grown, row, batch, next>>
      BY <1>1, <1>9 DEF FetchFails, TaskFails, Goto
    <2>2. Offset' = Offset
      BY <2>1 DEF Offset
    <2>3. Offset <= next /\ next = End(batch[w])
      BY <1>1, <2>1, WorkerTypes DEF InOrder
    <2>4. AllHandled(End(batch[w]) - grown)'
      <3>1. CASE FetchFails(w)
        <4>1. \A p \in (First(batch[w]) - grown)..(End(batch[w]) - grown - 1) : p \in missed'
          BY <1>1, <3>1, WorkerTypes DEF FetchFails, Items
        <4>2. AllHandled(First(batch[w]) - grown)
          BY <3>1 DEF FetchFails, InOrder
        <4>3. \A p \in 0..(End(batch[w]) - grown - 1) :
                \/ p \in 0..(First(batch[w]) - grown - 1)
                \/ p \in (First(batch[w]) - grown)..(End(batch[w]) - grown - 1)
          BY <1>1, WorkerTypes
        <4> QED
          BY <1>2, <2>1, <4>1, <4>2, <4>3, HandledStays DEF AllHandled, Handled
      <3>2. CASE TaskFails(w) /\ pc[w] = "parse"
        <4>1. \A p \in ItemAt(w)..(End(batch[w]) - 1 - shift[w]) : p \in missed'
          BY <1>1, <3>2, WorkerTypes DEF TaskFails, Unparsed
        <4>2. AllHandled(ItemAt(w))
          BY <1>1, <3>2, PositionReached
        <4>3. \A p \in 0..(End(batch[w]) - grown - 1) :
                \/ p \in 0..(ItemAt(w) - 1)
                \/ p \in ItemAt(w)..(End(batch[w]) - 1 - shift[w])
          BY <1>1, WorkerTypes
        <4> QED
          BY <1>2, <2>1, <4>1, <4>2, <4>3, HandledStays DEF AllHandled, Handled
      <3>3. CASE TaskFails(w) /\ pc[w] \in {"read", "write"}
        <4>1. AllHandled(End(batch[w]) - grown)
          BY <1>1, <3>3, BatchDone
        <4> QED
          BY <1>2, <2>1, <4>1, HandledStays DEF AllHandled
      <3> QED
        BY <1>9, <3>1, <3>2, <3>3 DEF TaskFails
    <2> QED
      BY <1>4, <2>1, <2>2, <2>3, <2>4 DEF InOrder, AllHandled, Handled
  <1>10. CASE Restart
    <2>1. /\ pc'[w] = "idle" /\ next' = Offset
          /\ UNCHANGED <<grown, row, stored, missed>>
      BY <1>1, <1>10 DEF Restart
    <2>2. Offset' = Offset
      BY <2>1 DEF Offset
    <2> QED
      BY <1>1, <2>1, <2>2 DEF InOrder, AllHandled, Handled
  <1>11. CASE Grow
    <2>1. /\ grown' = grown + 1
          /\ UNCHANGED <<row, next, pc, batch, shift, seen, stored, missed>>
      BY <1>11 DEF Grow, workVars
    <2>2. Offset' = Offset
      BY <2>1 DEF Offset
    <2>3. ASSUME NEW n \in Int, AllHandled(n - grown)
          PROVE  AllHandled(n - (grown + 1))
      BY <1>1, <2>3, AllHandledLess
    <2>4. First(batch[w]) \in Int /\ Offset \in Int /\ next \in Int
      BY <1>1, WorkerTypes
    <2> QED
      BY <2>1, <2>2, <2>3, <2>4 DEF InOrder, AllHandled, Handled
  <1>12. CASE UNCHANGED vars
    BY <1>12 DEF vars, workVars, InOrder, AllHandled, Handled, Offset
  <1> QED
    BY <1>5, <1>6, <1>7, <1>8, <1>9, <1>10, <1>11, <1>12 DEF Next, Step

(* The resume point of SequentialCrawl.                                    *)
LEMMA CrawlDeals ==
  ASSUME NEW p \in stored' \cup missed', AllHandled(p),
         stored' \in {stored, stored \cup {p}},
         missed' = missed \/ \E q \in missed' : missed' = missed \cup p..q,
         Offset' = Offset, grown' = grown
  PROVE  Crawl!Next
  <1>1. Crawl!AllBefore(p)
    BY DEF Crawl!AllBefore, Crawl!Handled, AllHandled, Handled
  <1>2. Offset' - grown' = Offset - grown
    OBVIOUS
  <1> QED
    BY <1>1, <1>2 DEF Crawl!Deal, Crawl!Next

LEMMA CrawlStep ==
  ASSUME NEW w, Workers = {w}, CheckpointInv, InOrder(w), [Next]_vars
  PROVE  [Crawl!Next]_<<stored, missed, Offset - grown>>
  <1>1. w \in Workers /\ Offset \in Nat /\ grown \in Nat
    BY OffsetType DEF CheckpointInv, TypeOK
  <1>2. ASSUME UNCHANGED <<stored, missed, row, grown>>
        PROVE  UNCHANGED <<stored, missed, Offset - grown>>
    BY <1>2 DEF Offset
  <1>3. ASSUME row' = row
        PROVE  Offset' = Offset
    BY <1>3 DEF Offset
  <1>4. CASE Unparsable(w) \/ FetchFails(w)
    <2> DEFINE p == First(batch[w]) - grown
               q == End(batch[w]) - 1 - grown
    <2>1. /\ missed' = missed \cup p..q /\ UNCHANGED <<stored, row, grown>>
          /\ AllHandled(p)
      BY <1>4 DEF Unparsable, FetchFails, Items, InOrder
    <2>2. p \in p..q /\ q \in p..q
      BY <1>1, <1>4, WorkerTypes DEF Unparsable, FetchFails
    <2> HIDE DEF p, q
    <2>3. p \in missed' /\ q \in missed'
      BY <2>1, <2>2
    <2> QED
      BY <1>3, <2>1, <2>3, CrawlDeals
  <1>5. CASE Item(w)
    <2>1. /\ UNCHANGED <<missed, row, grown>>
          /\ stored' = stored \/ stored' = stored \cup {ItemAt(w)}
          /\ AllHandled(ItemAt(w))
      BY <1>1, <1>5, PositionReached DEF Item
    <2>2. PICK p : p = ItemAt(w)
      OBVIOUS
    <2>3. CASE stored' = stored
      BY <1>2, <2>1, <2>3
    <2>4. CASE stored' = stored \cup {p}
      BY <1>3, <2>1, <2>2, <2>4, CrawlDeals
    <2> QED
      BY <2>1, <2>2, <2>3, <2>4
  <1>6. CASE TaskFails(w) /\ pc[w] = "parse" /\ Unparsed(w) # {}
    <2> DEFINE q == End(batch[w]) - 1 - shift[w]
    <2>1. PICK p : p = ItemAt(w)
      OBVIOUS
    <2>2. p..q # {} /\ p \in Int /\ q \in Int
      BY <1>1, <1>6, <2>1, WorkerTypes DEF Unparsed
    <2>3. p \in p..q /\ q \in p..q
      BY <2>2
    <2>4. /\ missed' = missed \cup p..q /\ UNCHANGED <<row, grown>>
          /\ AllHandled(p)
      BY <1>1, <1>6, <2>1, PositionReached DEF TaskFails, Unparsed
    <2>5. stored' \in {stored, stored \cup {p}}
      <3>1. MayHaveStored(w) = {} \/ MayHaveStored(w) = {p}
        BY <2>1 DEF MayHaveStored
      <3>2. stored' = stored \/ stored' = stored \cup MayHaveStored(w)
        BY <1>6 DEF TaskFails
      <3> QED
        BY <3>1, <3>2
    <2> HIDE DEF q
    <2>6. p \in missed' /\ q \in missed'
      BY <2>3, <2>4
    <2> QED
      BY <1>3, <2>4, <2>5, <2>6, CrawlDeals
  <1>7. CASE TaskFails(w) /\ (pc[w] # "parse" \/ Unparsed(w) = {})
    <2>1. Unparsed(w) = {} /\ MayHaveStored(w) = {}
      BY <1>7 DEF Unparsed, MayHaveStored
    <2>2. UNCHANGED <<stored, missed, row, grown>>
      BY <1>7, <2>1 DEF TaskFails
    <2> QED
      BY <1>2, <2>2
  <1>8. CASE WriteRow(w)
    <2>1. Offset' = End(batch[w]) /\ Offset < End(batch[w]) /\ End(batch[w]) \in Nat
      BY <1>1, <1>8, WriteMovesOffset, WorkerTypes
    <2>2. AllHandled(End(batch[w]) - grown)
      BY <1>1, <1>8, BatchDone DEF WriteRow
    <2>3. UNCHANGED <<stored, missed, grown>>
      BY <1>8 DEF WriteRow
    <2>4. (Offset' - grown' = End(batch[w]) - grown) /\ (Offset' - grown' > Offset - grown)
      BY <1>1, <2>1, <2>3
    <2>5. Crawl!AllBefore(Offset' - grown')
      BY <2>2, <2>4 DEF Crawl!AllBefore, Crawl!Handled, AllHandled, Handled
    <2> QED
      BY <2>3, <2>4, <2>5 DEF Crawl!Advance, Crawl!Next
  <1>9. CASE Grow
    <2>1. UNCHANGED <<stored, missed, row>> /\ grown' = grown + 1
      BY <1>9 DEF Grow
    <2>2. Offset' - grown' = (Offset - grown) - 1
      BY <1>1, <1>3, <2>1
    <2> QED
      BY <2>1, <2>2 DEF Crawl!FallBack, Crawl!Next
  <1>10. CASE Restart \/ Take(w) \/ Fetch(w) \/ ParseEnds(w) \/ ReadRow(w) \/ UNCHANGED vars
    BY <1>2, <1>10 DEF Restart, Take, Fetch, ParseEnds, ReadRow, vars
  <1> QED
    BY <1>4, <1>5, <1>6, <1>7, <1>8, <1>9, <1>10 DEF Next, Step, TaskFails

(* A single worker crawls its source in order, however often it is         *)
(* restarted and whatever fails: batches of any size, any limit per run,   *)
(* any growth of the listing.                                              *)
THEOREM SequentialRefinement ==
  ASSUME NEW w, Workers = {w}
  PROVE  Spec => ImplementsSequentialCrawl
  <1>1. Init => InOrder(w)
    BY DEF Init, InOrder, Offset, AllHandled
  <1>2. Init => Crawl!Init
    BY DEF Init, Crawl!Init, Offset
  <1>3. CheckpointInv /\ InOrder(w) /\ [Next]_vars => InOrder(w)'
    BY InOrderStep
  <1>4. CheckpointInv /\ InOrder(w) /\ [Next]_vars
          => [Crawl!Next]_<<stored, missed, Offset - grown>>
    BY CrawlStep
  <1> QED
    BY <1>1, <1>2, <1>3, <1>4, CheckpointInvariant, PTL
    DEF Spec, ImplementsSequentialCrawl, Crawl!Spec

(* ... and its checkpoint passes no item but those it has stored, those    *)
(* without a record and those of a bad response or a failed task.          *)
THEOREM SequentialSkipsNothing ==
  ASSUME NEW w, Workers = {w}
  PROVE  Spec => []NothingSkipped
  <1>1. Init => InOrder(w)
    BY DEF Init, InOrder, Offset, AllHandled
  <1>2. CheckpointInv /\ InOrder(w) /\ [Next]_vars => InOrder(w)'
    BY InOrderStep
  <1>3. InOrder(w) => NothingSkipped
    BY DEF InOrder, AllHandled, NothingSkipped
  <1> QED
    BY <1>1, <1>2, <1>3, CheckpointInvariant, PTL DEF Spec

-----------------------------------------------------------------------------
(* total_collected counts nothing twice                                    *)

Working == {w \in Workers : pc[w] # "idle"}

(* The records each worker has saved and not yet counted: own[w].          *)
Claims(own) ==
  /\ \A w \in Working : Cardinality(own[w]) = saved[w]
  /\ \A v, w \in Working : v # w => own[v] \cap own[w] = {}

(* The records that may have been counted: those no worker claims.         *)
Countable(own) == stored \ UNION {own[w] : w \in Working}

(* Neither the row nor a row that a worker has read and is about to add to *)
(* counts more than these: two workers that read the same row each add     *)
(* their own records to a number that stands for neither's.                *)
Covers(own) ==
  /\ row # NoRow => row.total <= Cardinality(Countable(own))
  /\ \A w \in Working :
       pc[w] = "write" /\ seen[w] # NoRow => seen[w].total <= Cardinality(Countable(own))

CollectedInv ==
  /\ IsFiniteSet(stored)
  /\ \E own \in [Workers -> SUBSET stored] : Claims(own) /\ Covers(own)

LEMMA CountableCounts ==
  ASSUME IsFiniteSet(stored), NEW own
  PROVE  IsFiniteSet(Countable(own)) /\ Cardinality(Countable(own)) \in Nat
  BY FS_Subset, FS_CardinalityType DEF Countable

(* A step that writes no row keeps the claims, and lets no record fall out *)
(* of what may have been counted.                                          *)
LEMMA CoversStay ==
  ASSUME CheckpointInv, IsFiniteSet(stored), IsFiniteSet(stored'), NEW own, NEW mine,
         Covers(own), Countable(own) \subseteq Countable(mine)', row' = row,
         \A w \in Workers : pc'[w] = "write" =>
            \/ pc[w] = "write" /\ seen'[w] = seen[w]
            \/ seen'[w] = row
  PROVE  Covers(mine)'
  <1> DEFINE less == Cardinality(Countable(own))
             more == Cardinality(Countable(mine))'
  <1>1. less \in Nat
    BY CountableCounts
  <1>2. IsFiniteSet(Countable(mine)')
    BY FS_Subset DEF Countable
  <1>3. more \in Nat /\ less <= more
    BY <1>2, FS_Subset, FS_CardinalityType
  <1>4. row # NoRow => row.total \in Nat /\ row.total <= less
    BY DEF Covers, CheckpointInv, TypeOK, Rows
  <1>5. ASSUME NEW w \in Workers, pc'[w] = "write", seen'[w] # NoRow
        PROVE  seen'[w].total \in Nat /\ seen'[w].total <= less
    <2>1. CASE seen'[w] = row
      BY <1>4, <1>5, <2>1
    <2>2. CASE pc[w] = "write" /\ seen'[w] = seen[w]
      BY <1>5, <2>2 DEF Covers, Working, CheckpointInv, TypeOK, Rows
    <2> QED
      BY <1>5, <2>1, <2>2
  <1> HIDE DEF less, more
  <1>6. row' # NoRow => row'.total <= more
    BY <1>1, <1>3, <1>4
  <1>7. \A w \in Workers : pc'[w] = "write" /\ seen'[w] # NoRow => seen'[w].total <= more
    BY <1>1, <1>3, <1>5
  <1> QED
    BY <1>6, <1>7 DEF Covers, Working, more

LEMMA TakeCollected ==
  ASSUME CheckpointInv, CollectedInv, NEW w \in Workers, Take(w)
  PROVE  CollectedInv'
  <1>1. PICK own \in [Workers -> SUBSET stored] : Claims(own) /\ Covers(own)
    BY DEF CollectedInv
  <1>2. PICK mine \in [Workers -> SUBSET stored] : mine = [own EXCEPT ![w] = {}]
    BY <1>1
  <1>3. Working' = Working \cup {w} /\ w \notin Working
    BY DEF Working, Take, Goto, CheckpointInv, TypeOK
  <1>4. Claims(mine)'
    <2>1. \A v \in Working : mine[v] = own[v] /\ saved'[v] = saved[v]
      BY <1>2, <1>3 DEF Take, Working, CheckpointInv, TypeOK
    <2>2. mine[w] = {} /\ saved'[w] = 0
      BY <1>2 DEF Take, CheckpointInv, TypeOK
    <2> QED
      BY <1>1, <1>3, <2>1, <2>2, FS_EmptySet DEF Claims
  <1>5. Countable(own) \subseteq Countable(mine)'
    BY <1>2, <1>3 DEF Countable, Take, Working
  <1>6. Covers(mine)'
    BY <1>1, <1>5, CoversStay DEF CollectedInv, Take, Goto, CheckpointInv, TypeOK
  <1> QED
    BY <1>2, <1>4, <1>6 DEF CollectedInv, Take

(* A worker that goes from one stage of its task to the next.              *)
LEMMA StageCollected ==
  ASSUME CheckpointInv, CollectedInv, NEW w \in Workers, UNCHANGED <<stored, row, saved>>,
         pc[w] # "idle", \/ Goto(w, "parse") /\ UNCHANGED seen
                         \/ Goto(w, "read") /\ UNCHANGED seen
                         \/ Goto(w, "write") /\ seen' = [seen EXCEPT ![w] = row]
  PROVE  CollectedInv'
  <1>1. PICK own \in [Workers -> SUBSET stored] : Claims(own) /\ Covers(own)
    BY DEF CollectedInv
  <1>2. Working' = Working
    BY DEF Working, Goto, CheckpointInv, TypeOK
  <1>3. Claims(own)' /\ Countable(own)' = Countable(own)
    BY <1>1, <1>2 DEF Claims, Countable
  <1>4. Covers(own)'
    BY <1>1, <1>3, CoversStay DEF CollectedInv, Goto, CheckpointInv, TypeOK
  <1> QED
    BY <1>3, <1>4 DEF CollectedInv

LEMMA ItemCollected ==
  ASSUME CheckpointInv, CollectedInv, NEW w \in Workers, Item(w)
  PROVE  CollectedInv'
  <1>1. PICK own \in [Workers -> SUBSET stored] : Claims(own) /\ Covers(own)
    BY DEF CollectedInv
  <1>2. Working' = Working /\ w \in Working
    BY DEF Working, Item
  <1>3. CASE UNCHANGED <<stored, saved>>
    <2>1. Claims(own)' /\ Countable(own)' = Countable(own)
      BY <1>1, <1>2, <1>3 DEF Claims, Countable
    <2>2. Covers(own)'
      BY <1>1, <1>3, <2>1, CoversStay DEF CollectedInv, Item
    <2> QED
      BY <1>3, <2>1, <2>2 DEF CollectedInv
  <1>4. CASE /\ ItemAt(w) \notin stored
             /\ stored' = stored \cup {ItemAt(w)}
             /\ saved' = [saved EXCEPT ![w] = @ + 1]
    <2>1. PICK mine \in [Workers -> SUBSET stored'] : mine = [own EXCEPT ![w] = @ \cup {ItemAt(w)}]
      BY <1>1, <1>4
    <2>2. IsFiniteSet(stored) /\ IsFiniteSet(stored')
      BY <1>4, FS_AddElement DEF CollectedInv
    <2>3. /\ mine[w] = own[w] \cup {ItemAt(w)} /\ ItemAt(w) \notin own[w]
          /\ \A v \in Workers \ {w} : mine[v] = own[v] /\ ItemAt(w) \notin own[v]
      BY <1>1, <1>4, <2>1
    <2>4. Cardinality(mine[w]) = saved'[w]
      <3>1. IsFiniteSet(own[w])
        BY <1>1, <2>2, FS_Subset
      <3>2. Cardinality(own[w]) = saved[w]
        BY <1>1, <1>2 DEF Claims
      <3>3. saved'[w] = saved[w] + 1
        BY <1>4 DEF CheckpointInv, TypeOK
      <3>4. \A x : x \notin own[w] => Cardinality(own[w] \cup {x}) = Cardinality(own[w]) + 1
        BY <3>1, FS_AddElement
      <3> QED
        BY <2>3, <3>2, <3>3, <3>4
    <2>5. Claims(mine)'
      <3>1. \A v \in Working \ {w} : Cardinality(mine[v]) = saved'[v]
        BY <1>1, <1>4, <2>3 DEF Claims, Working, CheckpointInv, TypeOK
      <3>2. \A u, v \in Working : u # v => mine[u] \cap mine[v] = {}
        BY <1>1, <2>3 DEF Claims, Working
      <3> QED
        BY <1>2, <2>4, <3>1, <3>2 DEF Claims
    <2>6. Countable(own) \subseteq Countable(mine)'
      BY <1>2, <1>4, <2>3 DEF Countable, Working
    <2>7. Covers(mine)'
      BY <1>1, <2>2, <2>6, CoversStay DEF Item
    <2> QED
      BY <2>1, <2>2, <2>5, <2>7 DEF CollectedInv
  <1> QED
    BY <1>3, <1>4 DEF Item

LEMMA TaskFailsCollected ==
  ASSUME CheckpointInv, CollectedInv, NEW w \in Workers, FetchFails(w) \/ TaskFails(w)
  PROVE  CollectedInv'
  <1>1. PICK own \in [Workers -> SUBSET stored] : Claims(own) /\ Covers(own)
    BY DEF CollectedInv
  <1>2. Working' = Working \ {w}
    BY DEF Working, FetchFails, TaskFails, Goto, CheckpointInv, TypeOK
  <1>3. IsFiniteSet(stored') /\ stored \subseteq stored'
    <2>1. MayHaveStored(w) \subseteq {ItemAt(w)}
      BY DEF MayHaveStored
    <2>2. IsFiniteSet(MayHaveStored(w))
      BY <2>1, FS_Singleton, FS_Subset
    <2>3. IsFiniteSet(stored) /\ IsFiniteSet(stored \cup MayHaveStored(w))
      BY <2>2, FS_Union DEF CollectedInv
    <2>4. stored' = stored \/ stored' = stored \cup MayHaveStored(w)
      BY DEF FetchFails, TaskFails
    <2> QED
      BY <2>3, <2>4
  <1>4. Claims(own)'
    BY <1>1, <1>2 DEF Claims, FetchFails, TaskFails
  <1>5. Countable(own) \subseteq Countable(own)'
    BY <1>2, <1>3 DEF Countable
  <1>6. Covers(own)'
    BY <1>1, <1>3, <1>5, CoversStay DEF CollectedInv, FetchFails, TaskFails, Goto, CheckpointInv, TypeOK
  <1> QED
    BY <1>1, <1>3, <1>4, <1>6 DEF CollectedInv

LEMMA RestartCollected ==
  ASSUME CheckpointInv, CollectedInv, Restart
  PROVE  CollectedInv'
  <1>1. PICK own \in [Workers -> SUBSET stored] : Claims(own) /\ Covers(own)
    BY DEF CollectedInv
  <1>2. Working' = {} /\ stored' = stored
    BY DEF Working, Restart
  <1>3. Claims(own)' /\ Countable(own) \subseteq Countable(own)'
    BY <1>2 DEF Claims, Countable
  <1>4. Covers(own)'
    BY <1>1, <1>2, <1>3, CoversStay DEF CollectedInv, Restart
  <1> QED
    BY <1>1, <1>2, <1>3, <1>4 DEF CollectedInv

(* The records of the worker that writes become countable, and those are   *)
(* the ones it adds.                                                       *)
LEMMA WriteRowCollected ==
  ASSUME CheckpointInv, CollectedInv, NEW w \in Workers, WriteRow(w)
  PROVE  CollectedInv'
  <1>1. PICK own \in [Workers -> SUBSET stored] : Claims(own) /\ Covers(own)
    BY DEF CollectedInv
  <1>2. /\ Working' = Working \ {w} /\ w \in Working
        /\ UNCHANGED <<stored, saved, seen>>
        /\ \A v \in Working' : pc'[v] = pc[v]
    BY DEF Working, WriteRow, Goto, CheckpointInv, TypeOK
  <1>3. Claims(own)'
    BY <1>1, <1>2 DEF Claims
  <1> DEFINE before == Cardinality(Countable(own))
             after  == Cardinality(Countable(own))'
  <1>4. before \in Nat /\ after \in Nat /\ after = before + saved[w]
    <2>1. Countable(own)' = Countable(own) \cup own[w] /\ Countable(own) \cap own[w] = {}
      BY <1>1, <1>2 DEF Countable, Claims, Working
    <2>2. IsFiniteSet(Countable(own)) /\ before \in Nat
      BY CountableCounts DEF CollectedInv
    <2>3. IsFiniteSet(own[w]) /\ Cardinality(own[w]) = saved[w] /\ saved[w] \in Nat
      BY <1>1, <1>2, FS_Subset DEF CollectedInv, Claims, CheckpointInv, TypeOK
    <2>4. Cardinality(Countable(own) \cup own[w]) = before + saved[w] - Cardinality({})
      BY <2>1, <2>2, <2>3, FS_Union
    <2> QED
      BY <2>1, <2>2, <2>3, <2>4, FS_EmptySet
  <1>5. saved[w] \in Nat
    BY DEF CheckpointInv, TypeOK
  <1>6. row # NoRow => row.total \in Nat /\ row.total <= before
    BY <1>1 DEF Covers, CheckpointInv, TypeOK, Rows
  <1>7. \A v \in Working : pc[v] = "write" /\ seen[v] # NoRow
                            => seen[v].total \in Nat /\ seen[v].total <= before
    BY <1>1 DEF Covers, Working, CheckpointInv, TypeOK, Rows
  <1> HIDE DEF before, after
  <1>8. row'.total <= after
    <2>1. CASE InsertRow(w)
      <3>1. CASE row = NoRow
        BY <1>4, <1>5, <2>1, <3>1 DEF InsertRow
      <3>2. CASE row # NoRow
        BY <1>4, <1>5, <1>6, <2>1, <3>2 DEF InsertRow
      <3> QED
        BY <3>1, <3>2
    <2>2. CASE UpdateRow(w)
      <3>1. seen[w] # NoRow /\ row # NoRow /\ pc[w] = "write"
        BY <2>2 DEF UpdateRow, WriteRow, CheckpointInv, SeenRowExists
      <3>2. row'.total = IF saved[w] = 0 THEN row.total ELSE seen[w].total + saved[w]
        BY <2>2 DEF UpdateRow
      <3> QED
        BY <1>2, <1>4, <1>5, <1>6, <1>7, <3>1, <3>2
    <2> QED
      BY <2>1, <2>2 DEF WriteRow
  <1>9. \A v \in Working' : pc'[v] = "write" /\ seen'[v] # NoRow => seen'[v].total <= after
    BY <1>2, <1>4, <1>5, <1>7
  <1>10. Covers(own)'
    BY <1>8, <1>9 DEF Covers, after
  <1> QED
    BY <1>1, <1>2, <1>3, <1>10 DEF CollectedInv

LEMMA CollectedStep ==
  ASSUME CheckpointInv, CollectedInv, [Next]_vars
  PROVE  CollectedInv'
  <1>1. ASSUME NEW w \in Workers, Step(w)
        PROVE  CollectedInv'
    <2>1. CASE Fetch(w) \/ Unparsable(w) \/ ParseEnds(w) \/ ReadRow(w)
      BY <2>1, StageCollected DEF Fetch, Unparsable, ParseEnds, ReadRow
    <2> QED
      BY <1>1, <2>1, TakeCollected, ItemCollected, WriteRowCollected, TaskFailsCollected DEF Step
  <1>2. CASE Restart
    BY <1>2, RestartCollected
  <1>3. CASE Grow \/ UNCHANGED vars
    BY <1>3 DEF Grow, vars, workVars, CollectedInv, Claims, Covers, Countable, Working
  <1> QED
    BY <1>1, <1>2, <1>3 DEF Next

(* Any number of workers that overtake each other, fail or die:            *)
(* total_collected never counts a record twice or one that is not stored.  *)
THEOREM NeverOvercounts == Spec => []CollectedNeverOvercounts
  <1>1. Init => CollectedInv
    <2> SUFFICES ASSUME Init
                 PROVE  CollectedInv
      OBVIOUS
    <2>1. Working = {} /\ row = NoRow /\ IsFiniteSet(stored)
      BY FS_EmptySet DEF Init, Working
    <2>2. [w \in Workers |-> {}] \in [Workers -> SUBSET stored]
      OBVIOUS
    <2>3. Claims([w \in Workers |-> {}]) /\ Covers([w \in Workers |-> {}])
      BY <2>1 DEF Claims, Covers
    <2> QED
      BY <2>1, <2>2, <2>3 DEF CollectedInv
  <1>2. CheckpointInv /\ CollectedInv /\ [Next]_vars => CollectedInv'
    BY CollectedStep
  <1>3. CheckpointInv /\ CollectedInv => CollectedNeverOvercounts
    <2> SUFFICES ASSUME CheckpointInv, CollectedInv, row # NoRow
                 PROVE  row.total <= Cardinality(stored)
      BY DEF CollectedNeverOvercounts
    <2>1. PICK own \in [Workers -> SUBSET stored] : Covers(own)
      BY DEF CollectedInv
    <2>2. row.total \in Nat /\ row.total <= Cardinality(Countable(own))
      BY <2>1 DEF Covers, CheckpointInv, TypeOK, Rows
    <2>3. Countable(own) \in SUBSET stored /\ IsFiniteSet(stored)
      BY DEF Countable, CollectedInv
    <2>4. Cardinality(Countable(own)) <= Cardinality(stored)
      BY <2>3, FS_Subset
    <2>5. Cardinality(Countable(own)) \in Nat /\ Cardinality(stored) \in Nat
      BY <2>3, CountableCounts, FS_CardinalityType
    <2> QED
      BY <2>2, <2>4, <2>5
  <1> QED
    BY <1>1, <1>2, <1>3, CheckpointInvariant, PTL DEF Spec
=============================================================================
