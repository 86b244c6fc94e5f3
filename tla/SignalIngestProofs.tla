------------------------- MODULE SignalIngestProofs -------------------------
(***************************************************************************)
(* Proofs about SignalIngest, for any calls, processes, listings and       *)
(* failures.                                                               *)
(***************************************************************************)
EXTENDS SignalIngest, TLAPS

USE DEF table

-----------------------------------------------------------------------------
(* The crawl state *)

(* What a step does to it.                                                 *)
LEMMA StateStep ==
  ASSUME [Next]_vars
  PROVE  /\ setup' = setup
         /\ \/ UNCHANGED <<state, gap>>
            \/ state' = Attempted /\ UNCHANGED <<now, rows, gap>>
            \/ \E c \in Calls : pc[c] = "write" /\ Advanced(c) /\ UNCHANGED rows
  <1>1. setup' = setup
    BY DEF Next, Run, Crash, Leave, Tick, Start, Attempt, Discover, DiscoverFails, DiscoverPartly, HandOn, Robots,
         Extract, Save, Find, FindsTwo, Update, CheckHash, Insert, SaveFails, Conclude, AdvanceWatermark,
         WriteWatermark, FatalError, Report, vars, Advanced
  <1> DEFINE Step == \/ UNCHANGED <<state, gap>>
                     \/ state' = Attempted /\ UNCHANGED <<now, rows, gap>>
                     \/ \E c \in Calls : pc[c] = "write" /\ Advanced(c) /\ UNCHANGED rows
  <1>2. ASSUME NEW c \in Calls, Run(c)
        PROVE  Step
    <2>1. CASE Attempt(c) \/ WriteWatermark(c) \/ FatalError(c)
      BY <2>1 DEF Attempt, WriteWatermark, FatalError
    <2>2. CASE ~(Attempt(c) \/ WriteWatermark(c) \/ FatalError(c))
      BY <1>2, <2>2 DEF Run, Start, Discover, DiscoverFails, DiscoverPartly, HandOn, Robots, Extract, Save, Find,
         FindsTwo, Update, CheckHash, Insert, SaveFails, Conclude, AdvanceWatermark, Report, Leave
    <2> QED
      BY <2>1, <2>2
  <1>3. CASE Tick \/ UNCHANGED vars \/ \E c \in Calls : Crash(c)
    BY <1>3 DEF Crash, Leave, Tick, vars
  <1>4. Step
    BY <1>2, <1>3 DEF Next
  <1> QED
    BY <1>1, <1>4

LEMMA ClockStep ==
  ASSUME [Next]_vars
  PROVE  \/ UNCHANGED now
         \/ now' = now + 1 /\ UNCHANGED <<state, rows, gap>>
  BY DEF Next, Run, Crash, Leave, Tick, Start, Attempt, Discover, DiscoverFails, DiscoverPartly, HandOn, Robots,
         Extract, Save, Find, FindsTwo, Update, CheckHash, Insert, SaveFails, Conclude, AdvanceWatermark,
         WriteWatermark, FatalError, Report, vars, Advanced

LEMMA AdvancedState ==
  ASSUME SignalInv, NEW c \in Calls, pc[c] = "write", Advanced(c)
  PROVE  /\ state' \in States /\ gap' \in SUBSET Items
         /\ Stored(state'.snapshot)
  <1>1. /\ state \in States /\ ref[c] \in Times
        /\ observed[c] \in SUBSET Items /\ missed[c] \in SUBSET Items /\ gap \in SUBSET Items
        /\ Stored(observed[c]) /\ Stored(state.snapshot)
    BY DEF SignalInv, TypeOK, CallInv, SnapshotIsStored, Stored
  <1>2. PICK S \in {observed[c], state.snapshot} :
          /\ state'.snapshot = S
          /\ \/ state' = [success |-> ref[c], snapshot |-> S] /\ gap' = missed[c]
             \/ state' = [success |-> state.success, snapshot |-> S] /\ gap' = gap
    BY DEF Advanced
  <1>3. S \in SUBSET Items /\ Stored(S)
    BY <1>1, <1>2 DEF States
  <1> QED
    BY <1>1, <1>2, <1>3 DEF States

(* The row of a source is never deleted.                                   *)
LEMMA RowStays ==
  ASSUME SignalInv, [Next]_vars, state # NoState
  PROVE  state' # NoState
  <1>1. CASE UNCHANGED state \/ state' = Attempted
    BY <1>1 DEF Attempted
  <1>2. CASE \E c \in Calls : pc[c] = "write" /\ Advanced(c)
    BY <1>2, AdvancedState, SignalAssumption
  <1> QED
    BY <1>1, <1>2, StateStep

-----------------------------------------------------------------------------
(* The record table only grows *)

RowsGrow ==
  /\ Len(rows') >= Len(rows)
  /\ \A k \in 1..Len(rows) : rows'[k].item = rows[k].item

LEMMA UpdatedRows ==
  ASSUME SignalInv, NEW c \in Calls, pc[c] = "update"
  PROVE  /\ Updated(c) \in Seq(Row)
         /\ Len(Updated(c)) = Len(rows)
         /\ \A k \in 1..Len(rows) : Updated(c)[k].item = rows[k].item
  <1> DEFINE key == found[c].key
  <1>1. key \in 1..Len(rows)
    BY DEF SignalInv, CallInv, Keys
  <1>2. rows \in Seq(Row)
    BY DEF SignalInv, TypeOK
  <1>3. rows[key] \in Row
    <2> HIDE DEF key
    <2> QED
      BY <1>1, <1>2
  <1>4. NewTitle(c) \in Titles
    <2>1. title[c] \in Titles /\ rows[key].title \in Titles
      BY <1>3 DEF SignalInv, TypeOK, Row
    <2> QED
      BY <2>1 DEF NewTitle
  <1>5. [rows[key] EXCEPT !.title = NewTitle(c)] \in Row
    BY <1>3, <1>4 DEF Row
  <1>6. Updated(c) = [rows EXCEPT ![key] = [rows[key] EXCEPT !.title = NewTitle(c)]]
    BY <1>1, <1>2 DEF Updated
  <1>7. [rows[key] EXCEPT !.title = NewTitle(c)].item = rows[key].item
    BY <1>3 DEF Row
  <1> HIDE DEF key
  <1> QED
    BY <1>1, <1>2, <1>5, <1>6, <1>7

LEMMA InsertedRows ==
  ASSUME SignalInv, NEW c \in Calls, pc[c] = "insert"
  PROVE  /\ Inserted(c) \in Seq(Row)
         /\ Len(Inserted(c)) = Len(rows) + 1
         /\ Inserted(c)[Len(rows) + 1] = [item |-> Item(c), title |-> title[c]]
         /\ \A k \in 1..Len(rows) : Inserted(c)[k] = rows[k]
  <1>1. rows \in Seq(Row)
    BY DEF SignalInv, TypeOK
  <1>2. Item(c) \in Items
    <2>1. todo[c] \in Seq(Items) /\ todo[c] # <<>>
      BY DEF SignalInv, TypeOK, CallInv
    <2> QED
      BY <2>1 DEF Item
  <1>3. [item |-> Item(c), title |-> title[c]] \in Row
    BY <1>2 DEF SignalInv, TypeOK, Row
  <1> QED
    BY <1>1, <1>3 DEF Inserted

(* What a step does to the record table.                                   *)
LEMMA RowsStep ==
  ASSUME SignalInv, [Next]_vars
  PROVE  \/ UNCHANGED rows
         \/ \E c \in Calls : pc[c] = "update" /\ rows' = Updated(c)
         \/ \E c \in Calls : pc[c] = "insert" /\ rows' = Inserted(c) /\ ~HasHash(Item(c), title[c])
  BY DEF Next, Run, Crash, Leave, Tick, Start, Attempt, Discover, DiscoverFails, DiscoverPartly, HandOn, Robots, Extract,
         Save, Find, FindsTwo, Update, CheckHash, Insert, SaveFails, Conclude, AdvanceWatermark,
         WriteWatermark, FatalError, Report, vars

LEMMA RowsTyped ==
  ASSUME SignalInv, [Next]_vars
  PROVE  rows' \in Seq(Row) /\ RowsGrow
  <1>1. CASE UNCHANGED rows
    <2>1. rows \in Seq(Row)
      BY DEF SignalInv, TypeOK
    <2>2. Len(rows) \in Nat
      BY <2>1
    <2> QED
      BY <1>1, <2>1, <2>2 DEF RowsGrow
  <1>2. CASE \E c \in Calls : pc[c] = "update" /\ rows' = Updated(c)
    <2>1. PICK c \in Calls : pc[c] = "update" /\ rows' = Updated(c)
      BY <1>2
    <2>2. rows \in Seq(Row)
      BY DEF SignalInv, TypeOK
    <2>3. Len(rows) \in Nat
      BY <2>2
    <2>4. /\ rows' \in Seq(Row)
          /\ Len(rows') = Len(rows)
          /\ \A k \in 1..Len(rows) : rows'[k].item = rows[k].item
      BY <2>1, UpdatedRows
    <2> QED
      BY <2>3, <2>4 DEF RowsGrow
  <1>3. CASE \E c \in Calls : pc[c] = "insert" /\ rows' = Inserted(c)
    <2>1. rows \in Seq(Row)
      BY DEF SignalInv, TypeOK
    <2>2. Len(rows) \in Nat
      BY <2>1
    <2>3. PICK c \in Calls : pc[c] = "insert" /\ rows' = Inserted(c)
      BY <1>3
    <2>4. /\ rows' \in Seq(Row)
          /\ Len(rows') = Len(rows) + 1
          /\ \A k \in 1..Len(rows) : rows'[k] = rows[k]
      BY <2>3, InsertedRows
    <2> QED
      BY <2>2, <2>4 DEF RowsGrow
  <1> QED
    BY <1>1, <1>2, <1>3, RowsStep

LEMMA KeysStay ==
  ASSUME SignalInv, [Next]_vars, NEW i
  PROVE  Keys(i) \subseteq Keys(i)'
  <1>1. Len(rows) \in Nat /\ Len(rows') \in Nat /\ RowsGrow
    BY RowsTyped DEF SignalInv, TypeOK
  <1> QED
    BY <1>1 DEF Keys, RowsGrow

-----------------------------------------------------------------------------
(* The invariant, action by action *)

LEMMA NextCandidateTyped ==
  ASSUME TypeOK, NEW c \in Calls, todo[c] # <<>>, NextCandidate(c)
  PROVE  /\ todo' \in [Calls -> Seq(Items)]
         /\ position' \in [Calls -> Nat]
         /\ title' \in [Calls -> Titles]
         /\ found' \in [Calls -> [key : Nat, title : Titles]]
         /\ pc' \in [Calls -> PC]
  <1>1. todo[c] \in Seq(Items) /\ position[c] \in Nat
    BY DEF TypeOK
  <1>2. Tail(todo[c]) \in Seq(Items)
    BY <1>1
  <1>3. todo' \in [Calls -> Seq(Items)]
    BY <1>2 DEF TypeOK, NextCandidate
  <1>4. position' \in [Calls -> Nat]
    BY <1>1 DEF TypeOK, NextCandidate
  <1>5. title' \in [Calls -> Titles] /\ found' \in [Calls -> [key : Nat, title : Titles]]
    BY DEF TypeOK, NextCandidate, Titles, NotFound
  <1>6. pc' \in [Calls -> PC]
    BY DEF TypeOK, NextCandidate, Goto, PC
  <1> QED
    BY <1>3, <1>4, <1>5, <1>6

LEMMA OthersInv ==
  ASSUME SignalInv, [Next]_vars, NEW d \in Calls,
         pc'[d] = pc[d], todo'[d] = todo[d], found'[d] = found[d], errors'[d] = errors[d],
         observed'[d] = observed[d], seen'[d] = seen[d]
  PROVE  CallInv(d)'
  BY KeysStay, RowStays DEF SignalInv, CallInv, Stored, Item

LEMMA SnapshotStays ==
  ASSUME SignalInv, [Next]_vars,
         \/ state' = state
         \/ state' = Attempted
         \/ \E c \in Calls : pc[c] = "write" /\ Advanced(c)
  PROVE  SnapshotIsStored'
  <1>1. \A i : Keys(i) # {} => Keys(i)' # {}
    BY KeysStay
  <1>2. CASE state' = state \/ state' = Attempted
    <2>1. state' = state \/ state'.snapshot = {}
      BY <1>2 DEF Attempted, NewState
    <2> QED
      BY <1>1, <2>1 DEF SignalInv, SnapshotIsStored
  <1>3. CASE \E c \in Calls : pc[c] = "write" /\ Advanced(c)
    <2>1. \A i \in state'.snapshot : Keys(i) # {}
      BY <1>3, AdvancedState DEF Stored
    <2> QED
      BY <1>1, <2>1 DEF SnapshotIsStored
  <1> QED
    BY <1>2, <1>3

LEMMA InitInv == Init => SignalInv
  <1> SUFFICES ASSUME Init
               PROVE  SignalInv
    OBVIOUS
  <1>1. TypeOK
    BY SignalAssumption DEF Init, TypeOK, Times, PC, Titles, NotFound
  <1>2. SnapshotIsStored
    BY DEF Init, SnapshotIsStored
  <1>3. \A c \in Calls : CallInv(c)
    BY DEF Init, CallInv, Stored
  <1> QED
    BY <1>1, <1>2, <1>3 DEF SignalInv

LEMMA StartInv ==
  ASSUME SignalInv, NEW c \in Calls, Start(c), [Next]_vars
  PROVE  SignalInv'
  <1>1. TypeOK'
    BY DEF SignalInv, Start, Goto, TypeOK, PC, itemVars
  <1>2. SnapshotIsStored'
    BY SnapshotStays DEF Start
  <1>3. \A d \in Calls : CallInv(d)'
    <2>1. CallInv(c)'
      BY KeysStay DEF SignalInv, Start, Goto, CallInv, Stored, TypeOK
    <2>2. \A d \in Calls \ {c} : CallInv(d)'
      BY OthersInv DEF Start, Goto, itemVars, SignalInv, TypeOK
    <2> QED
      BY <2>1, <2>2
  <1> QED
    BY <1>1, <1>2, <1>3 DEF SignalInv

LEMMA AttemptInv ==
  ASSUME SignalInv, NEW c \in Calls, Attempt(c), [Next]_vars
  PROVE  SignalInv'
  <1>1. Attempted \in States
    BY DEF SignalInv, TypeOK, Attempted, NewState, States
  <1>2. TypeOK'
    BY <1>1 DEF SignalInv, Attempt, Goto, TypeOK, PC, itemVars
  <1>3. SnapshotIsStored'
    BY SnapshotStays DEF Attempt
  <1>4. \A d \in Calls : CallInv(d)'
    <2>1. CallInv(c)'
      BY <1>1, KeysStay, SignalAssumption DEF SignalInv, Attempt, Goto, CallInv, Stored, TypeOK
    <2>2. \A d \in Calls \ {c} : CallInv(d)'
      BY OthersInv DEF Attempt, Goto, itemVars, SignalInv, TypeOK
    <2> QED
      BY <2>1, <2>2
  <1> QED
    BY <1>2, <1>3, <1>4 DEF SignalInv

LEMMA HandOnInv ==
  ASSUME SignalInv, NEW c \in Calls, NEW s \in Seq(Items), pc[c] = "discover", HandOn(c, s),
         UNCHANGED errors \/ CountError(c), [Next]_vars
  PROVE  SignalInv'
  <1>1. TypeOK'
    <2>1. errors' \in [Calls -> BOOLEAN]
      BY DEF SignalInv, TypeOK, CountError
    <2>2. missed' \in [Calls -> SUBSET Items] /\ todo' \in [Calls -> Seq(Items)]
      BY DEF SignalInv, TypeOK, HandOn
    <2> QED
      BY <2>1, <2>2 DEF SignalInv, HandOn, Goto, TypeOK, PC, itemVars
  <1>2. SnapshotIsStored'
    BY SnapshotStays DEF HandOn
  <1>3. \A d \in Calls : CallInv(d)'
    <2>1. CallInv(c)'
      <3>1. state' # NoState /\ seen'[c] # NoState
        BY RowStays DEF SignalInv, CallInv, HandOn
      <3> QED
        BY <3>1, KeysStay DEF SignalInv, HandOn, Goto, CallInv, Stored, TypeOK
    <2>2. \A d \in Calls \ {c} : CallInv(d)'
      BY OthersInv DEF HandOn, CountError, Goto, itemVars, SignalInv, TypeOK
    <2> QED
      BY <2>1, <2>2
  <1> QED
    BY <1>1, <1>2, <1>3 DEF SignalInv

LEMMA ListedTyped ==
  ASSUME SignalInv
  PROVE  Listed \in Seq(Items) /\ Reach \in 0..Len(Listed)
  <1>1. Listed \in Seq(Items)
    BY SignalAssumption DEF SignalInv, TypeOK, Listed
  <1>2. setup.limit \in Nat
    BY SignalAssumption DEF SignalInv, TypeOK
  <1> QED
    BY <1>1, <1>2 DEF Reach

LEMMA DiscoverInv ==
  ASSUME SignalInv, NEW c \in Calls, Discover(c), [Next]_vars
  PROVE  SignalInv'
  <1>1. SubSeq(Listed, 1, Reach) \in Seq(Items)
    BY ListedTyped
  <1> QED
    BY <1>1, HandOnInv DEF Discover

LEMMA DiscoverFailsInv ==
  ASSUME SignalInv, NEW c \in Calls, DiscoverFails(c), [Next]_vars
  PROVE  SignalInv'
  <1>1. PICK n \in 0..Reach : HandOn(c, SubSeq(Listed, 1, n))
    BY DEF DiscoverFails
  <1>2. SubSeq(Listed, 1, n) \in Seq(Items)
    BY ListedTyped
  <1> QED
    BY <1>1, <1>2, HandOnInv DEF DiscoverFails

LEMMA DiscoverPartlyInv ==
  ASSUME SignalInv, NEW c \in Calls, DiscoverPartly(c), [Next]_vars
  PROVE  SignalInv'
  <1>1. PICK n \in 0..Reach : \E at \in Increasing(n, Len(Listed)) :
          HandOn(c, [k \in 1..n |-> Listed[at[k]]])
    BY DEF DiscoverPartly
  <1>2. PICK at \in Increasing(n, Len(Listed)) : HandOn(c, [k \in 1..n |-> Listed[at[k]]])
    BY <1>1
  <1>3. n \in Nat
    BY ListedTyped
  <1>4. [k \in 1..n |-> Listed[at[k]]] \in Seq(Items)
    BY <1>3, ListedTyped DEF Increasing
  <1> QED
    BY <1>2, <1>4, HandOnInv DEF DiscoverPartly

LEMMA RobotsInv ==
  ASSUME SignalInv, NEW c \in Calls, Robots(c), [Next]_vars
  PROVE  SignalInv'
  <1>1. TypeOK'
    BY NextCandidateTyped DEF SignalInv, Robots, Goto, TypeOK, PC, itemVars
  <1>2. SnapshotIsStored'
    BY SnapshotStays DEF Robots
  <1>3. \A d \in Calls : CallInv(d)'
    <2>1. CallInv(c)'
      BY KeysStay DEF SignalInv, Robots, NextCandidate, Goto, CallInv, Stored, TypeOK, itemVars
    <2>2. \A d \in Calls \ {c} : CallInv(d)'
      BY OthersInv DEF Robots, NextCandidate, Goto, itemVars, SignalInv, TypeOK
    <2> QED
      BY <2>1, <2>2
  <1> QED
    BY <1>1, <1>2, <1>3 DEF SignalInv

LEMMA ExtractInv ==
  ASSUME SignalInv, NEW c \in Calls, Extract(c), [Next]_vars
  PROVE  SignalInv'
  <1>1. TypeOK'
    <2>1. PICK t \in Titles :
            \/ /\ title' = [title EXCEPT ![c] = t]
               /\ Goto(c, "find")
               /\ UNCHANGED <<todo, position, found>>
            \/ NextCandidate(c)
      BY DEF Extract, Titles
    <2>2. CASE NextCandidate(c)
      BY <2>2, NextCandidateTyped DEF SignalInv, CallInv, Extract, TypeOK
    <2>3. CASE /\ title' = [title EXCEPT ![c] = t]
               /\ Goto(c, "find")
               /\ UNCHANGED <<todo, position, found>>
      BY <2>3 DEF SignalInv, Extract, Goto, TypeOK, PC
    <2> QED
      BY <2>1, <2>2, <2>3
  <1>2. SnapshotIsStored'
    BY SnapshotStays DEF Extract
  <1>3. \A d \in Calls : CallInv(d)'
    <2>1. CallInv(c)'
      <3>1. state' # NoState /\ seen'[c] # NoState
        BY RowStays DEF SignalInv, CallInv, Extract
      <3> QED
        BY <3>1, KeysStay DEF SignalInv, Extract, NextCandidate, Goto, CallInv, Stored, TypeOK
    <2>2. \A d \in Calls \ {c} : CallInv(d)'
      BY OthersInv DEF Extract, NextCandidate, Goto, SignalInv, TypeOK
    <2> QED
      BY <2>1, <2>2
  <1> QED
    BY <1>1, <1>2, <1>3 DEF SignalInv

LEMMA FindInv ==
  ASSUME SignalInv, NEW c \in Calls, Find(c), [Next]_vars
  PROVE  SignalInv'
  <1>1. TypeOK'
    <2>1. \A k \in 1..Len(rows) : rows[k] \in Row
      BY DEF SignalInv, TypeOK
    <2>2. \A k \in Keys(Item(c)) : [key |-> k, title |-> rows[k].title] \in [key : Nat, title : Titles]
      BY <2>1 DEF Keys, Row
    <2>3. found' \in [Calls -> [key : Nat, title : Titles]]
      <3>1. CASE UNCHANGED found
        BY <3>1 DEF SignalInv, TypeOK
      <3>2. CASE \E k \in Keys(Item(c)) : found' = [found EXCEPT ![c] = [key |-> k, title |-> rows[k].title]]
        BY <2>2, <3>2 DEF SignalInv, TypeOK
      <3> QED
        BY <3>1, <3>2 DEF Find
    <2> QED
      BY <2>3 DEF SignalInv, Find, Goto, TypeOK, PC
  <1>2. SnapshotIsStored'
    BY SnapshotStays DEF Find
  <1>3. \A d \in Calls : CallInv(d)'
    <2>1. CallInv(c)'
      <3>1. state' # NoState /\ seen'[c] # NoState
        BY RowStays DEF SignalInv, CallInv, Find
      <3> QED
        BY <3>1 DEF SignalInv, Find, Goto, CallInv, Stored, TypeOK, Keys, Item
    <2>2. \A d \in Calls \ {c} : CallInv(d)'
      BY OthersInv DEF Find, Goto, SignalInv, TypeOK
    <2> QED
      BY <2>1, <2>2
  <1> QED
    BY <1>1, <1>2, <1>3 DEF SignalInv

(* Every other step of a save moves on to the next candidate.  It may have *)
(* observed the item at hand, which is then in the table.                  *)
LEMMA SaveInv ==
  ASSUME SignalInv, NEW c \in Calls, NEW i, i = Item(c), [Next]_vars, NextCandidate(c),
         UNCHANGED <<table, ref, seen, missed>>,
         pc[c] \in {"extract", "find", "update", "check", "insert"},
         \/ UNCHANGED observed
         \/ observed' = [observed EXCEPT ![c] = @ \cup {i}] /\ Keys(i)' # {},
         UNCHANGED errors \/ CountError(c)
  PROVE  SignalInv'
  <1>1. todo[c] # <<>> /\ todo[c] \in Seq(Items)
    BY DEF SignalInv, CallInv, TypeOK
  <1>2. i \in Items
    BY <1>1 DEF Item
  <1>3. observed' \in [Calls -> SUBSET Items] /\ errors' \in [Calls -> BOOLEAN]
    <2>1. observed \in [Calls -> SUBSET Items] /\ errors \in [Calls -> BOOLEAN]
      BY DEF SignalInv, TypeOK
    <2>2. observed[c] \cup {i} \in SUBSET Items
      BY <1>2, <2>1
    <2>3. observed' \in [Calls -> SUBSET Items]
      BY <2>1, <2>2
    <2>4. errors' \in [Calls -> BOOLEAN]
      BY <2>1 DEF CountError
    <2> QED
      BY <2>3, <2>4
  <1>4. TypeOK'
    BY <1>1, <1>3, NextCandidateTyped, RowsTyped DEF SignalInv, TypeOK
  <1>5. SnapshotIsStored'
    BY SnapshotStays
  <1>6. CallInv(c)'
    <2>1. \A j \in observed[c] : Keys(j)' # {}
      BY KeysStay DEF SignalInv, CallInv, Stored
    <2>2. \A j \in observed'[c] : j \in observed[c] \/ (j = i /\ Keys(i)' # {})
      BY DEF SignalInv, TypeOK
    <2>3. \A j \in observed'[c] : Keys(j)' # {}
      BY <2>1, <2>2
    <2>4. pc'[c] = "next"
      BY DEF NextCandidate, Goto, SignalInv, TypeOK
    <2>5. state' # NoState /\ seen'[c] # NoState
      BY RowStays DEF SignalInv, CallInv
    <2> QED
      BY <2>3, <2>4, <2>5 DEF CallInv, Stored
  <1>7. \A d \in Calls \ {c} : CallInv(d)'
    BY OthersInv DEF NextCandidate, Goto, SignalInv, TypeOK, CountError
  <1> QED
    BY <1>4, <1>5, <1>6, <1>7 DEF SignalInv

LEMMA UpdateInv ==
  ASSUME SignalInv, NEW c \in Calls, Update(c), [Next]_vars
  PROVE  SignalInv'
  <1>1. PICK i : i = Item(c)
    OBVIOUS
  <1>2. Keys(i) # {}
    BY <1>1 DEF SignalInv, CallInv, Update
  <1>3. Keys(i)' # {}
    BY <1>2, KeysStay
  <1> QED
    BY <1>1, <1>3, SaveInv DEF Update, Saved

LEMMA CheckHashInv ==
  ASSUME SignalInv, NEW c \in Calls, CheckHash(c), [Next]_vars
  PROVE  SignalInv'
  <1>1. CASE NextCandidate(c)
    BY <1>1, SaveInv DEF CheckHash
  <1>2. CASE Goto(c, "insert") /\ UNCHANGED <<todo, position, itemVars>>
    <2>1. TypeOK'
      BY <1>2 DEF SignalInv, CheckHash, Goto, TypeOK, PC, itemVars
    <2>2. SnapshotIsStored'
      BY SnapshotStays DEF CheckHash
    <2>3. \A d \in Calls : CallInv(d)'
      <3>1. CallInv(c)'
        <4>1. state' # NoState /\ seen'[c] # NoState
          BY RowStays DEF SignalInv, CallInv, CheckHash
        <4> QED
          BY <1>2, <4>1, KeysStay DEF SignalInv, CheckHash, Goto, CallInv, Stored, TypeOK, itemVars
      <3>2. \A d \in Calls \ {c} : CallInv(d)'
        BY <1>2, OthersInv DEF CheckHash, Goto, SignalInv, TypeOK, itemVars
      <3> QED
        BY <3>1, <3>2
    <2> QED
      BY <2>1, <2>2, <2>3 DEF SignalInv
  <1> QED
    BY <1>1, <1>2 DEF CheckHash

LEMMA InsertInv ==
  ASSUME SignalInv, NEW c \in Calls, Insert(c), [Next]_vars
  PROVE  SignalInv'
  <1>1. CASE UNCHANGED observed
    BY <1>1, SaveInv DEF Insert, Saved
  <1>2. CASE rows' = Inserted(c) /\ Saved(c)
    <2>1. Len(rows) \in Nat
      BY DEF SignalInv, TypeOK
    <2>2. pc[c] = "insert"
      BY DEF Insert
    <2>3. /\ Len(rows') = Len(rows) + 1
          /\ rows'[Len(rows) + 1] = [item |-> Item(c), title |-> title[c]]
      BY <1>2, <2>2, InsertedRows
    <2>4. PICK i : i = Item(c)
      OBVIOUS
    <2>5. \E k \in 1..Len(rows') : rows'[k].item = i
      BY <2>1, <2>3, <2>4
    <2>6. Keys(i)' # {}
      BY <2>5 DEF Keys
    <2> QED
      BY <1>2, <2>4, <2>6, SaveInv DEF Insert, Saved
  <1> QED
    BY <1>1, <1>2 DEF Insert

LEMMA SaveFailsInv ==
  ASSUME SignalInv, NEW c \in Calls, SaveFails(c), [Next]_vars
  PROVE  SignalInv'
  BY SaveInv DEF SaveFails

LEMMA FindsTwoInv ==
  ASSUME SignalInv, NEW c \in Calls, FindsTwo(c), [Next]_vars
  PROVE  SignalInv'
  BY SaveInv DEF FindsTwo

LEMMA ConcludeInv ==
  ASSUME SignalInv, NEW c \in Calls, Conclude(c), [Next]_vars
  PROVE  SignalInv'
  <1>1. TypeOK'
    BY DEF SignalInv, Conclude, Goto, TypeOK, PC, itemVars
  <1>2. SnapshotIsStored'
    BY SnapshotStays DEF Conclude
  <1>3. \A d \in Calls : CallInv(d)'
    <2>1. CallInv(c)'
      BY KeysStay DEF SignalInv, Conclude, Success, Goto, CallInv, Stored, TypeOK
    <2>2. \A d \in Calls \ {c} : CallInv(d)'
      BY OthersInv DEF Conclude, Goto, itemVars, SignalInv, TypeOK
    <2> QED
      BY <2>1, <2>2
  <1> QED
    BY <1>1, <1>2, <1>3 DEF SignalInv

LEMMA AdvanceWatermarkInv ==
  ASSUME SignalInv, NEW c \in Calls, AdvanceWatermark(c), [Next]_vars
  PROVE  SignalInv'
  <1>1. TypeOK'
    BY DEF SignalInv, AdvanceWatermark, Goto, TypeOK, PC, itemVars
  <1>2. SnapshotIsStored'
    BY SnapshotStays DEF AdvanceWatermark
  <1>3. \A d \in Calls : CallInv(d)'
    <2>1. CallInv(c)'
      BY KeysStay DEF SignalInv, AdvanceWatermark, Goto, CallInv, Stored, TypeOK
    <2>2. \A d \in Calls \ {c} : CallInv(d)'
      BY OthersInv DEF AdvanceWatermark, Goto, itemVars, SignalInv, TypeOK
    <2> QED
      BY <2>1, <2>2
  <1> QED
    BY <1>1, <1>2, <1>3 DEF SignalInv

LEMMA WriteWatermarkInv ==
  ASSUME SignalInv, NEW c \in Calls, WriteWatermark(c), [Next]_vars
  PROVE  SignalInv'
  <1>1. state' \in States /\ gap' \in SUBSET Items /\ UNCHANGED <<setup, now>>
    BY AdvancedState DEF WriteWatermark, Advanced
  <1>2. TypeOK'
    BY <1>1 DEF SignalInv, WriteWatermark, Goto, TypeOK, PC, itemVars
  <1>3. SnapshotIsStored'
    BY SnapshotStays DEF WriteWatermark
  <1>4. \A d \in Calls : CallInv(d)'
    <2>1. CallInv(c)'
      BY KeysStay DEF SignalInv, WriteWatermark, Goto, CallInv, Stored, TypeOK
    <2>2. \A d \in Calls \ {c} : CallInv(d)'
      BY OthersInv DEF WriteWatermark, Goto, itemVars, SignalInv, TypeOK
    <2> QED
      BY <2>1, <2>2
  <1> QED
    BY <1>2, <1>3, <1>4 DEF SignalInv

LEMMA FatalErrorInv ==
  ASSUME SignalInv, NEW c \in Calls, FatalError(c), [Next]_vars
  PROVE  SignalInv'
  <1>1. state' \in States \cup {NoState} /\ gap' \in SUBSET Items /\ UNCHANGED <<setup, now>>
    <2>1. Attempted \in States
      BY DEF SignalInv, TypeOK, Attempted, NewState, States
    <2>2. CASE pc[c] = "write" /\ Advanced(c)
      BY <2>2, AdvancedState DEF Advanced
    <2> QED
      BY <2>1, <2>2 DEF FatalError, SignalInv, TypeOK
  <1>2. TypeOK'
    BY <1>1 DEF SignalInv, FatalError, CountError, Goto, TypeOK, PC, itemVars
  <1>3. SnapshotIsStored'
    BY SnapshotStays DEF FatalError
  <1>4. \A d \in Calls : CallInv(d)'
    <2>1. CallInv(c)'
      BY KeysStay DEF SignalInv, FatalError, Goto, CallInv, Stored, TypeOK
    <2>2. \A d \in Calls \ {c} : CallInv(d)'
      BY OthersInv DEF FatalError, CountError, Goto, itemVars, SignalInv, TypeOK
    <2> QED
      BY <2>1, <2>2
  <1> QED
    BY <1>2, <1>3, <1>4 DEF SignalInv

LEMMA LeaveInv ==
  ASSUME SignalInv, NEW C \in SUBSET Calls, Leave(C), [Next]_vars
  PROVE  SignalInv'
  <1>1. TypeOK'
    <2>1. /\ 0 \in Times /\ NoState \in States \cup {NoState}
          /\ <<>> \in Seq(Items) /\ NotFound \in [key : Nat, title : Titles]
          /\ "idle" \in PC /\ "page" \in Titles
      BY SignalAssumption DEF Times, PC, Titles, NotFound
    <2>2. TypeOK
      BY DEF SignalInv
    <2>3. /\ pc' \in [Calls -> PC]
          /\ ref' \in [Calls -> Times]
          /\ seen' \in [Calls -> States \cup {NoState}]
      BY <2>1, <2>2 DEF Leave, TypeOK
    <2>4. /\ todo' \in [Calls -> Seq(Items)]
          /\ position' \in [Calls -> Nat]
          /\ title' \in [Calls -> Titles]
      BY <2>1, <2>2 DEF Leave, TypeOK
    <2>5. /\ found' \in [Calls -> [key : Nat, title : Titles]]
          /\ observed' \in [Calls -> SUBSET Items]
          /\ errors' \in [Calls -> BOOLEAN]
          /\ missed' \in [Calls -> SUBSET Items]
      BY <2>1, <2>2 DEF Leave, TypeOK
    <2> QED
      BY <2>2, <2>3, <2>4, <2>5 DEF Leave, TypeOK
  <1>2. SnapshotIsStored'
    BY SnapshotStays DEF Leave
  <1>3. \A d \in Calls \ C : CallInv(d)'
    BY OthersInv DEF Leave
  <1>4. \A d \in C : CallInv(d)'
    BY DEF Leave, CallInv, Stored
  <1> QED
    BY <1>1, <1>2, <1>3, <1>4 DEF SignalInv

LEMMA TickInv ==
  ASSUME SignalInv, Tick, [Next]_vars
  PROVE  SignalInv'
  <1>1. TypeOK'
    <2>1. now' \in Times
      BY SignalAssumption DEF SignalInv, Tick, TypeOK, Times
    <2> QED
      BY <2>1 DEF SignalInv, Tick, TypeOK, callVars, itemVars
  <1>2. SnapshotIsStored'
    BY SnapshotStays DEF Tick
  <1>3. \A d \in Calls : CallInv(d)'
    BY OthersInv DEF Tick, callVars, itemVars
  <1> QED
    BY <1>1, <1>2, <1>3 DEF SignalInv

LEMMA NextInv ==
  ASSUME SignalInv, [Next]_vars
  PROVE  SignalInv'
  <1>1. ASSUME NEW c \in Calls, Run(c)
        PROVE  SignalInv'
    BY <1>1, StartInv, AttemptInv, DiscoverInv, DiscoverFailsInv, DiscoverPartlyInv, RobotsInv, ExtractInv, FindInv,
       FindsTwoInv, UpdateInv, CheckHashInv, InsertInv, SaveFailsInv, ConcludeInv,
       AdvanceWatermarkInv, WriteWatermarkInv, FatalErrorInv, LeaveInv
       DEF Run, Save, Report
  <1>2. ASSUME NEW c \in Calls, Crash(c)
        PROVE  SignalInv'
    BY <1>2, LeaveInv DEF Crash
  <1>3. CASE Tick
    BY <1>3, TickInv
  <1>4. CASE UNCHANGED vars
    BY <1>4 DEF SignalInv, TypeOK, SnapshotIsStored, CallInv, Stored, Keys, Item, vars, callVars, itemVars
  <1> QED
    BY <1>1, <1>2, <1>3, <1>4 DEF Next

(* ingest_source: what a run relies on between two awaits holds whatever   *)
(* other runs, crashes and failed commits do in between.                   *)
THEOREM SignalInvariant == Spec => []SignalInv
  BY InitInv, NextInv, PTL DEF Spec

(* The snapshot only names stored items, however runs overlap.             *)
THEOREM SnapshotStored == Spec => []SnapshotIsStored
  <1>1. SignalInv => SnapshotIsStored
    BY DEF SignalInv
  <1> QED
    BY <1>1, SignalInvariant, PTL

-----------------------------------------------------------------------------
(* A watermark means a complete run *)

Waiting(c) == {todo[c][k] : k \in 1..Len(todo[c])}

(* A run without an error has stored, or has still to process, each item   *)
(* that is due and that discovery has handed on.                           *)
NothingDropped(c) ==
  /\ pc[c] # "idle" => ref[c] <= now
  /\ /\ pc[c] \in {"next", "extract", "find", "update", "check", "insert", "advance", "write"}
     /\ ~errors[c]
     => /\ \A i \in Due(c) \ missed[c] : Keys(i) # {} \/ i \in Waiting(c)
        /\ missed[c] # {} => MayMiss

CompleteInv == \A c \in Calls : NothingDropped(c)

LEMMA MayMissStays ==
  ASSUME [Next]_vars
  PROVE  MayMiss' = MayMiss
  BY StateStep DEF MayMiss, ListedInFull

LEMMA HeadOrTail ==
  ASSUME NEW S, NEW s \in Seq(S), s # <<>>, NEW k \in 1..Len(s), s[k] # Head(s)
  PROVE  \E j \in 1..Len(Tail(s)) : Tail(s)[j] = s[k]
  <1>1. k # 1 /\ Len(Tail(s)) = Len(s) - 1
    OBVIOUS
  <1>2. k - 1 \in 1..Len(Tail(s)) /\ Tail(s)[k - 1] = s[k]
    BY <1>1
  <1> QED
    BY <1>2

LEMMA HashHasKey ==
  ASSUME NEW i, NEW t, HasHash(i, t)
  PROVE  Keys(i) # {}
  BY DEF HasHash, Keys

LEMMA OthersDropNothing ==
  ASSUME SignalInv, [Next]_vars, NEW d \in Calls, NothingDropped(d), now' \in Times, now' >= now,
         pc'[d] = pc[d], ref'[d] = ref[d], todo'[d] = todo[d], errors'[d] = errors[d],
         missed'[d] = missed[d]
  PROVE  NothingDropped(d)'
  <1>1. now \in Int /\ now' \in Int /\ ref[d] \in Int
    BY SignalAssumption DEF SignalInv, TypeOK, Times
  <1>2. Due(d)' = Due(d) /\ Waiting(d)' = Waiting(d) /\ MayMiss' = MayMiss
    BY MayMissStays DEF Due, Waiting
  <1>3. \A i : Keys(i) # {} => Keys(i)' # {}
    BY KeysStay
  <1> QED
    BY <1>1, <1>2, <1>3 DEF NothingDropped

(* The candidate at hand is stored, or not due, or makes the run fail.     *)
LEMMA NextDropsNothing ==
  ASSUME SignalInv, [Next]_vars, NEW c \in Calls, NothingDropped(c), NextCandidate(c),
         todo[c] # <<>>, UNCHANGED <<now, ref, missed>>,
         pc[c] \in {"next", "extract", "find", "update", "check", "insert"},
         NEW i, i = Item(c), errors'[c] \/ Keys(i)' # {} \/ i \notin Due(c),
         ~errors'[c] => ~errors[c]
  PROVE  NothingDropped(c)'
  <1>1. ref'[c] <= now' /\ Due(c)' = Due(c) /\ MayMiss' = MayMiss
    BY MayMissStays DEF NothingDropped, Due
  <1>2. ASSUME NEW x \in Due(c) \ missed[c], ~errors'[c]
        PROVE  Keys(x)' # {} \/ x \in Waiting(c)'
    <2>1. Keys(x) # {} \/ x \in Waiting(c)
      BY <1>2 DEF NothingDropped
    <2>2. CASE Keys(x) # {}
      BY <2>2, KeysStay
    <2>3. CASE x = i
      BY <1>2, <2>3
    <2>4. CASE x \in Waiting(c) /\ x # i
      <3>1. todo[c] \in Seq(Items) /\ todo'[c] = Tail(todo[c])
        BY DEF SignalInv, TypeOK, NextCandidate
      <3>2. PICK k \in 1..Len(todo[c]) : todo[c][k] = x
        BY <2>4 DEF Waiting
      <3>3. \E j \in 1..Len(todo'[c]) : todo'[c][j] = x
        BY <2>4, <3>1, <3>2, HeadOrTail DEF Item
      <3> QED
        BY <3>3 DEF Waiting
    <2> QED
      BY <2>1, <2>2, <2>3, <2>4
  <1> QED
    BY <1>1, <1>2 DEF NothingDropped

(* What is due was published by now: it is handed on or missed.            *)
LEMMA HandOnDropsNothing ==
  ASSUME SignalInv, [Next]_vars, NEW c \in Calls, NothingDropped(c), pc[c] = "discover",
         NEW s \in Seq(Items), HandOn(c, s), errors'[c] \/ MayMiss \/ missed'[c] = {}
  PROVE  NothingDropped(c)'
  <1>1. ref[c] <= now /\ now \in Times /\ ref[c] \in Int /\ now \in Int
    BY SignalAssumption DEF NothingDropped, SignalInv, TypeOK, Times
  <1>2. /\ todo'[c] = s /\ ref' = ref /\ now' = now
        /\ missed'[c] = {i \in Items : Published[i] <= now /\ \A k \in 1..Len(s) : s[k] # i}
    BY DEF HandOn, SignalInv, TypeOK
  <1>3. ASSUME NEW i \in Due(c) \ missed'[c]
        PROVE  i \in Waiting(c)'
    <2>1. i \in Items /\ Published[i] <= now
      BY <1>1, SignalAssumption DEF Due, Ledger!DueAt
    <2>2. \E k \in 1..Len(s) : s[k] = i
      BY <1>2, <1>3, <2>1
    <2> QED
      BY <1>2, <2>2 DEF Waiting
  <1>4. Due(c)' = Due(c) /\ MayMiss' = MayMiss
    BY <1>2, MayMissStays DEF Due
  <1> QED
    BY <1>1, <1>2, <1>3, <1>4 DEF NothingDropped

LEMMA DiscoverDropsNothing ==
  ASSUME SignalInv, [Next]_vars, NEW c \in Calls, NothingDropped(c),
         Discover(c) \/ DiscoverFails(c) \/ DiscoverPartly(c)
  PROVE  NothingDropped(c)'
  <1>1. Listed \in Seq(Items) /\ Reach \in 0..Len(Listed) /\ now \in Times
    BY ListedTyped DEF SignalInv, TypeOK
  <1>2. CASE Discover(c)
    <2>1. PICK s : s = SubSeq(Listed, 1, Reach)
      OBVIOUS
    <2>2. s \in Seq(Items)
      BY <1>1, <2>1
    <2>3. MayMiss \/ missed'[c] = {}
      <3>1. SUFFICES ASSUME ListedInFull(now)
                     PROVE  missed'[c] = {}
        BY <1>1 DEF MayMiss
      <3>2. Reach = Len(Listed)
        BY <3>1 DEF ListedInFull, Reach, Listed
      <3>3. Len(s) = Len(Listed) /\ \A k \in 1..Len(Listed) : s[k] = Listed[k]
        BY <1>1, <2>1, <3>2
      <3>4. \A i \in Items : Published[i] <= now => \E k \in 1..Len(s) : s[k] = i
        BY <3>1, <3>3 DEF ListedInFull, Listed
      <3>5. missed'[c] = {i \in Items : Published[i] <= now /\ \A k \in 1..Len(s) : s[k] # i}
        BY <1>2, <2>1 DEF Discover, HandOn, SignalInv, TypeOK
      <3> QED
        BY <3>4, <3>5
    <2> QED
      BY <1>2, <2>1, <2>2, <2>3, HandOnDropsNothing DEF Discover
  <1>3. CASE DiscoverFails(c)
    <2>1. PICK n \in 0..Reach : HandOn(c, SubSeq(Listed, 1, n))
      BY <1>3 DEF DiscoverFails
    <2>2. SubSeq(Listed, 1, n) \in Seq(Items)
      BY <1>1
    <2>3. errors'[c]
      BY <1>3 DEF DiscoverFails, CountError, SignalInv, TypeOK
    <2> QED
      BY <1>3, <2>1, <2>2, <2>3, HandOnDropsNothing DEF DiscoverFails
  <1>4. CASE DiscoverPartly(c)
    <2>1. PICK n \in 0..Reach : \E at \in Increasing(n, Len(Listed)) :
            HandOn(c, [k \in 1..n |-> Listed[at[k]]])
      BY <1>4 DEF DiscoverPartly
    <2>2. PICK at \in Increasing(n, Len(Listed)) : HandOn(c, [k \in 1..n |-> Listed[at[k]]])
      BY <2>1
    <2>3. n \in Nat
      BY <1>1
    <2>4. [k \in 1..n |-> Listed[at[k]]] \in Seq(Items)
      BY <1>1, <2>3 DEF Increasing
    <2>5. MayMiss
      BY <1>4 DEF DiscoverPartly, MayMiss
    <2> QED
      BY <1>4, <2>2, <2>4, <2>5, HandOnDropsNothing DEF DiscoverPartly
  <1> QED
    BY <1>2, <1>3, <1>4

LEMMA ExtractDropsNothing ==
  ASSUME SignalInv, [Next]_vars, NEW c \in Calls, NothingDropped(c), Extract(c)
  PROVE  NothingDropped(c)'
  <1>1. PICK i : i = Item(c)
    OBVIOUS
  <1>2. todo[c] # <<>> /\ ref[c] \in Int
    BY SignalAssumption DEF SignalInv, CallInv, Extract, TypeOK, Times
  <1>3. CASE NextCandidate(c)
    <2>1. i \notin Due(c)
      <3>1. \E t \in Titles : ~Accepted(c, i, t) \/ Goto(c, "find")
        BY <1>1 DEF Extract, Titles
      <3>2. pc'[c] = "next"
        BY <1>3 DEF NextCandidate, Goto, SignalInv, TypeOK
      <3>3. PICK t \in Titles : ~Accepted(c, i, t)
        BY <3>1, <3>2 DEF Goto, SignalInv, TypeOK
      <3>4. CASE i \in Due(c)
        <4>1. HasDate(i, t)
          BY <3>4 DEF Due, Ledger!DueAt, HasDate
        <4>2. Published[i] \in Int /\ Window \in Int /\ Skew \in Nat
          BY <3>4, SignalAssumption DEF Due, Ledger!DueAt
        <4>3. Verified(c, i)
          BY <1>2, <3>4, <4>2 DEF Due, Ledger!DueAt, Verified
        <4> QED
          BY <3>3, <4>1, <4>3 DEF Accepted
      <3> QED
        BY <3>4
    <2> QED
      BY <1>1, <1>2, <1>3, <2>1, NextDropsNothing DEF Extract
  <1>4. CASE Goto(c, "find") /\ UNCHANGED todo
    <2>1. /\ pc'[c] = "find" /\ todo' = todo /\ ref' = ref /\ now' = now /\ errors' = errors
          /\ missed' = missed /\ pc[c] = "extract"
      BY <1>4 DEF Extract, Goto, SignalInv, TypeOK
    <2>2. Due(c)' = Due(c) /\ Waiting(c)' = Waiting(c) /\ MayMiss' = MayMiss
      BY <2>1, MayMissStays DEF Due, Waiting
    <2>3. \A x : Keys(x) # {} => Keys(x)' # {}
      BY KeysStay
    <2> QED
      BY <2>1, <2>2, <2>3 DEF NothingDropped
  <1> QED
    BY <1>3, <1>4 DEF Extract

LEMMA SaveDropsNothing ==
  ASSUME SignalInv, [Next]_vars, NEW c \in Calls, NothingDropped(c), Save(c)
  PROVE  NothingDropped(c)'
  <1>1. PICK i : i = Item(c)
    OBVIOUS
  <1>2. \A x : Keys(x) # {} => Keys(x)' # {}
    BY KeysStay
  <1>3. CASE NextCandidate(c)
    <2>1. /\ todo[c] # <<>> /\ UNCHANGED <<now, ref, missed>>
          /\ pc[c] \in {"extract", "find", "update", "check", "insert"}
      BY DEF SignalInv, CallInv, Save, Find, FindsTwo, Update, CheckHash, Insert, SaveFails
    <2>2. CASE FindsTwo(c) \/ SaveFails(c)
      BY <1>1, <1>3, <2>1, <2>2, NextDropsNothing
      DEF FindsTwo, SaveFails, CountError, SignalInv, TypeOK
    <2>3. CASE Update(c)
      <3>1. Keys(i)' # {}
        BY <1>1, <1>2, <2>3 DEF Update, SignalInv, CallInv
      <3>2. ~errors'[c] => ~errors[c]
        BY <2>3 DEF Update, CountError, SignalInv, TypeOK
      <3> QED
        BY <1>1, <1>3, <2>1, <3>1, <3>2, NextDropsNothing
    <2>4. CASE CheckHash(c)
      <3>1. HasHash(i, title[c]) \/ pc'[c] = "insert"
        BY <1>1, <2>4 DEF CheckHash, Goto, SignalInv, TypeOK
      <3>2. pc'[c] = "next"
        BY <1>3 DEF NextCandidate, Goto, SignalInv, TypeOK
      <3>3. Keys(i)' # {}
        BY <1>2, <3>1, <3>2, HashHasKey
      <3> QED
        BY <1>1, <1>3, <2>1, <2>4, <3>3, NextDropsNothing DEF CheckHash
    <2>5. CASE Insert(c)
      <3>1. Keys(i)' # {}
        <4>1. CASE HasHash(i, title[c])
          BY <1>2, <4>1, HashHasKey
        <4>2. CASE rows' = Inserted(c)
          <5>1. Len(rows) \in Nat /\ pc[c] = "insert"
            BY <2>5 DEF SignalInv, TypeOK, Insert
          <5>2. Len(rows') = Len(rows) + 1 /\ rows'[Len(rows) + 1] = [item |-> i, title |-> title[c]]
            BY <1>1, <4>2, <5>1, InsertedRows
          <5>3. \E k \in 1..Len(rows') : rows'[k].item = i
            BY <5>1, <5>2
          <5> QED
            BY <5>3 DEF Keys
        <4> QED
          BY <1>1, <2>5, <4>1, <4>2 DEF Insert
      <3> QED
        BY <1>1, <1>3, <2>1, <2>5, <3>1, NextDropsNothing DEF Insert
    <2>6. CASE Find(c)
      <3>1. pc'[c] # "next"
        BY <2>6 DEF Find, Goto, SignalInv, TypeOK
      <3> QED
        BY <1>3, <3>1 DEF NextCandidate, Goto, SignalInv, TypeOK
    <2> QED
      BY <2>2, <2>3, <2>4, <2>5, <2>6 DEF Save
  <1>4. CASE ~NextCandidate(c)
    <2>1. Find(c) \/ CheckHash(c)
      BY <1>4 DEF Save, FindsTwo, Update, Saved, Insert, SaveFails
    <2>2. /\ pc[c] \in {"find", "check"} /\ pc'[c] \in {"check", "update", "insert"}
          /\ UNCHANGED <<now, ref, todo, errors, missed>>
      BY <1>4, <2>1 DEF Find, CheckHash, Goto, SignalInv, TypeOK
    <2>3. Due(c)' = Due(c) /\ Waiting(c)' = Waiting(c) /\ MayMiss' = MayMiss
      BY <2>2, MayMissStays DEF Due, Waiting
    <2> QED
      BY <1>2, <2>2, <2>3 DEF NothingDropped
  <1> QED
    BY <1>3, <1>4

LEMMA RunDropsNothing ==
  ASSUME SignalInv, [Next]_vars, NEW c \in Calls, NothingDropped(c), Run(c)
  PROVE  NothingDropped(c)'
  <1>1. CASE Start(c)
    <2>1. now \in Int /\ ref'[c] <= now /\ now' = now /\ pc'[c] = "attempt"
      BY <1>1 DEF Start, Goto, SignalInv, TypeOK, Times
    <2> QED
      BY <2>1 DEF NothingDropped
  <1>2. CASE Attempt(c)
    BY <1>2 DEF Attempt, Goto, NothingDropped, SignalInv, TypeOK
  <1>3. CASE Discover(c) \/ DiscoverFails(c) \/ DiscoverPartly(c)
    BY <1>3, DiscoverDropsNothing
  <1>4. CASE Robots(c)
    <2>1. PICK i : i = Item(c)
      OBVIOUS
    <2>2. CASE MayNotFetch(c) /\ NextCandidate(c)
      <3>1. i \notin Due(c)
        BY <2>1, <2>2 DEF Due, Ledger!DueAt, MayNotFetch
      <3> QED
        BY <1>4, <2>1, <2>2, <3>1, NextDropsNothing DEF Robots
    <2>3. CASE Goto(c, "extract") /\ UNCHANGED <<todo, position, itemVars>>
      <3>1. /\ pc[c] = "next" /\ pc'[c] = "extract"
            /\ UNCHANGED <<now, ref, todo, errors, rows, missed>>
        BY <1>4, <2>1, <2>3 DEF Robots, Goto, SignalInv, TypeOK
      <3>2. Due(c)' = Due(c) /\ Waiting(c)' = Waiting(c) /\ MayMiss' = MayMiss
        BY <3>1, MayMissStays DEF Due, Waiting
      <3> QED
        BY <3>1, <3>2 DEF NothingDropped, Keys
    <2> QED
      BY <1>4, <2>2, <2>3 DEF Robots
  <1>5. CASE Extract(c)
    BY <1>5, ExtractDropsNothing
  <1>6. CASE Save(c)
    BY <1>6, SaveDropsNothing
  <1>7. CASE Conclude(c) \/ AdvanceWatermark(c)
    <2>1. /\ \/ pc[c] = "next" /\ pc'[c] \in {"advance", "report"}
             \/ pc[c] = "advance" /\ pc'[c] = "write"
          /\ UNCHANGED <<now, ref, todo, errors, rows, missed>>
      BY <1>7 DEF Conclude, AdvanceWatermark, Goto, SignalInv, TypeOK
    <2>2. Due(c)' = Due(c) /\ Waiting(c)' = Waiting(c) /\ MayMiss' = MayMiss
      BY <2>1, MayMissStays DEF Due, Waiting
    <2> QED
      BY <2>1, <2>2 DEF NothingDropped, Keys
  <1>8. CASE WriteWatermark(c) \/ FatalError(c)
    <2>1. pc'[c] = "report" /\ pc[c] # "idle" /\ UNCHANGED <<now, ref>>
      BY <1>8 DEF WriteWatermark, Advanced, FatalError, Goto, SignalInv, TypeOK
    <2> QED
      BY <2>1 DEF NothingDropped
  <1>9. CASE Report(c)
    BY <1>9 DEF Report, Leave, NothingDropped
  <1> QED
    BY <1>1, <1>2, <1>3, <1>4, <1>5, <1>6, <1>7, <1>8, <1>9 DEF Run

(* A call that takes a step leaves the locals of the others alone.         *)
LEMMA RunIsLocal ==
  ASSUME SignalInv, NEW c \in Calls, NEW d \in Calls \ {c}, Run(c)
  PROVE  UNCHANGED <<now, pc[d], ref[d], todo[d], errors[d], missed[d]>>
  <1> USE DEF CountError, Goto, itemVars
  <1>1. TypeOK
    BY DEF SignalInv
  <1>2. CASE Start(c) \/ Attempt(c) \/ Discover(c) \/ DiscoverFails(c) \/ DiscoverPartly(c) \/ Conclude(c)
             \/ AdvanceWatermark(c) \/ WriteWatermark(c) \/ FatalError(c)
    BY <1>1, <1>2 DEF TypeOK, Start, Attempt, Discover, DiscoverFails, DiscoverPartly, HandOn, Conclude,
       AdvanceWatermark, WriteWatermark, Advanced, FatalError
  <1>3. CASE Robots(c) \/ Extract(c)
    BY <1>1, <1>3 DEF TypeOK, Robots, Extract, NextCandidate
  <1>4. CASE Find(c) \/ FindsTwo(c) \/ CheckHash(c) \/ SaveFails(c)
    BY <1>1, <1>4 DEF TypeOK, Find, FindsTwo, CheckHash, SaveFails, NextCandidate
  <1>5. CASE Update(c) \/ Insert(c)
    BY <1>1, <1>5 DEF TypeOK, Update, Insert, Saved, NextCandidate
  <1>6. CASE Report(c)
    BY <1>6 DEF Report, Leave
  <1> QED
    BY <1>2, <1>3, <1>4, <1>5, <1>6 DEF Run, Save

LEMMA CompleteStep ==
  ASSUME SignalInv, CompleteInv, [Next]_vars
  PROVE  CompleteInv'
  <1>1. now \in Times /\ now' \in Times
    BY NextInv DEF SignalInv, TypeOK
  <1>2. now \in Int
    BY <1>1 DEF Times
  <1>3. ASSUME NEW c \in Calls, Run(c), NEW d \in Calls
        PROVE  NothingDropped(d)'
    <2>1. CASE d = c
      BY <1>3, <2>1, RunDropsNothing DEF CompleteInv
    <2>2. CASE d # c
      BY <1>1, <1>2, <1>3, <2>2, RunIsLocal, OthersDropNothing DEF CompleteInv
    <2> QED
      BY <2>1, <2>2
  <1>4. ASSUME NEW c \in Calls, Crash(c), NEW d \in Calls
        PROVE  NothingDropped(d)'
    <2>1. CASE SameProcess(c, d)
      BY <1>4, <2>1 DEF Crash, Leave, NothingDropped
    <2>2. CASE ~SameProcess(c, d)
      <3>1. /\ pc'[d] = pc[d] /\ ref'[d] = ref[d] /\ todo'[d] = todo[d] /\ errors'[d] = errors[d]
            /\ missed'[d] = missed[d] /\ now' = now
        BY <1>4, <2>2 DEF Crash, Leave
      <3> QED
        BY <1>1, <1>2, <3>1, OthersDropNothing DEF CompleteInv
    <2> QED
      BY <2>1, <2>2
  <1>5. CASE Tick
    BY <1>1, <1>2, <1>5, OthersDropNothing DEF Tick, callVars, CompleteInv
  <1>6. CASE UNCHANGED vars
    BY <1>1, <1>2, <1>6, OthersDropNothing DEF vars, callVars, CompleteInv
  <1> QED
    BY <1>3, <1>4, <1>5, <1>6 DEF Next, CompleteInv

(* A run that is about to advance the watermark has stored what was due.   *)
LEMMA CompleteRun ==
  ASSUME SignalInv, CompleteInv, NEW c \in Calls, pc[c] \in {"advance", "write"}
  PROVE  /\ Stored(Due(c) \ missed[c]) /\ ref[c] \in Times /\ ref[c] <= now
         /\ missed[c] # {} => MayMiss
  <1>1. todo[c] = <<>> /\ ~errors[c] /\ ref[c] \in Times
    BY DEF SignalInv, CallInv, TypeOK
  <1>2. Waiting(c) = {}
    BY <1>1 DEF Waiting
  <1> QED
    BY <1>1, <1>2 DEF CompleteInv, NothingDropped, Stored

(* As long as the watermark stands.                                        *)
WatermarkHolds ==
  /\ HasWatermark => Stored(Ledger!DueAt(state.success) \ gap)
  /\ gap # {} => MayMiss

LEMMA WatermarkHoldsStep ==
  ASSUME SignalInv, CompleteInv, WatermarkHolds, [Next]_vars
  PROVE  WatermarkHolds'
  <1>1. \A S : Stored(S) => Stored(S)'
    BY KeysStay DEF Stored
  <1>2. MayMiss' = MayMiss
    BY MayMissStays
  <1>3. CASE UNCHANGED <<state, gap>>
    BY <1>1, <1>2, <1>3 DEF WatermarkHolds, HasWatermark, Ledger!DueAt
  <1>4. CASE state' = Attempted /\ UNCHANGED gap
    BY <1>1, <1>2, <1>4 DEF WatermarkHolds, HasWatermark, Attempted, NewState, Ledger!DueAt
  <1>5. ASSUME NEW c \in Calls, pc[c] = "write", Advanced(c)
        PROVE  WatermarkHolds'
    <2>1. CASE state'.success = ref[c] /\ gap' = missed[c]
      <3>1. PICK t : t = ref[c]
        OBVIOUS
      <3>2. PICK D : D = Ledger!DueAt(t) \ missed[c]
        OBVIOUS
      <3>3. Stored(D) /\ (missed[c] # {} => MayMiss)
        BY <1>5, <3>1, <3>2, CompleteRun DEF Due
      <3>4. Stored(D)'
        BY <1>1, <3>3
      <3>5. Ledger!DueAt(state'.success) \ gap' = D
        BY <2>1, <3>1, <3>2
      <3> QED
        BY <1>2, <2>1, <3>3, <3>4, <3>5 DEF WatermarkHolds, Ledger!DueAt, Stored, Keys
    <2>2. CASE state'.success = state.success /\ gap' = gap
      <3>1. state # NoState
        BY <1>5 DEF SignalInv, CallInv
      <3> QED
        BY <1>1, <1>2, <2>2, <3>1 DEF WatermarkHolds, HasWatermark, Ledger!DueAt
    <2> QED
      BY <1>5, <2>1, <2>2 DEF Advanced
  <1> QED
    BY <1>3, <1>4, <1>5, StateStep

(* A run advances the watermark only when every item that was due and that *)
(* discovery handed on is stored, and discovery hands on all of them where *)
(* it reports its errors and the source is listed in full: any listing,    *)
(* any limit, any failures, any number of overlapping runs.                *)
THEOREM CompleteWatermark == Spec => []WatermarkMeansComplete
  <1>1. Init => CompleteInv /\ WatermarkHolds
    BY DEF Init, CompleteInv, NothingDropped, WatermarkHolds, HasWatermark
  <1>2. SignalInv /\ CompleteInv /\ [Next]_vars => CompleteInv'
    BY CompleteStep
  <1>3. SignalInv /\ CompleteInv /\ WatermarkHolds /\ [Next]_vars => WatermarkHolds'
    BY WatermarkHoldsStep
  <1>4. SignalInv /\ CompleteInv /\ WatermarkHolds => WatermarkMeansComplete
    BY CompleteRun DEF WatermarkHolds, WatermarkMeansComplete
  <1> QED
    BY <1>1, <1>2, <1>3, <1>4, SignalInvariant, PTL DEF Spec

(* "Failed or partial crawls NEVER advance the successful-run watermark."  *)
(* (src/README.md:331) holds of an adapter that raises and a source listed *)
(* in full.                                                                *)
THEOREM RaisingAdapterComplete ==
  ASSUME \A s \in Setups : ~s.swallows,
         \A s \in Setups, t \in Times : Len(Listing[t]) <= s.limit,
         \A t \in Times, i \in Items :
           Published[i] <= t => \E k \in 1..Len(Listing[t]) : Listing[t][k] = i
  PROVE  Spec => []PartialNeverAdvances
  <1>1. SignalInv => ~MayMiss
    BY DEF SignalInv, TypeOK, MayMiss, ListedInFull
  <1>2. SignalInv /\ WatermarkMeansComplete => PartialNeverAdvances
    BY <1>1 DEF WatermarkMeansComplete, PartialNeverAdvances, Stored
  <1> QED
    BY <1>2, SignalInvariant, CompleteWatermark, PTL

-----------------------------------------------------------------------------
(* Refinement *)

HaveRecord == {i \in Items : Keys(i) # {}}

(* A step adds the record of one item at most, and leaves the crawl state  *)
(* and the clock alone when it does.                                       *)
LEMMA RecordsStep ==
  ASSUME SignalInv, [Next]_vars
  PROVE  \/ HaveRecord' = HaveRecord
         \/ \E i \in Items : HaveRecord' = HaveRecord \cup {i} /\ UNCHANGED <<now, state, gap>>
  <1>1. CASE UNCHANGED rows
    BY <1>1 DEF HaveRecord, Keys
  <1>2. ASSUME NEW c \in Calls, pc[c] = "update", rows' = Updated(c)
        PROVE  HaveRecord' = HaveRecord
    BY <1>2, UpdatedRows DEF HaveRecord, Keys
  <1>3. ASSUME NEW c \in Calls, pc[c] = "insert", rows' = Inserted(c), ~HasHash(Item(c), title[c])
        PROVE  \E i \in Items : HaveRecord' = HaveRecord \cup {i} /\ UNCHANGED <<now, state, gap>>
    <2>1. PICK i : i = Item(c)
      OBVIOUS
    <2>2. i \in Items
      <3>1. todo[c] \in Seq(Items) /\ todo[c] # <<>>
        BY <1>3 DEF SignalInv, TypeOK, CallInv
      <3> QED
        BY <2>1, <3>1 DEF Item
    <2>3. /\ Len(rows) \in Nat /\ Len(rows') = Len(rows) + 1
          /\ rows'[Len(rows) + 1].item = i
          /\ \A k \in 1..Len(rows) : rows'[k] = rows[k]
      <3>1. rows \in Seq(Row)
        BY DEF SignalInv, TypeOK
      <3>2. /\ Len(rows') = Len(rows) + 1
            /\ rows'[Len(rows) + 1] = [item |-> Item(c), title |-> title[c]]
            /\ \A k \in 1..Len(rows) : rows'[k] = rows[k]
        BY <1>3, InsertedRows
      <3> QED
        BY <2>1, <3>1, <3>2
    <2>4. \A x : Keys(x)' # {} <=> Keys(x) # {} \/ x = i
      BY <2>3 DEF Keys
    <2>5. HaveRecord' = HaveRecord \cup {i}
      BY <2>2, <2>4 DEF HaveRecord
    <2>6. rows' # rows
      BY <2>3
    <2>7. UNCHANGED <<now, state, gap>>
      BY <2>6, StateStep, ClockStep
    <2> QED
      BY <2>2, <2>5, <2>7
  <1> QED
    BY <1>1, <1>2, <1>3, RowsStep

(* A step that leaves the records alone is a step of the ledger.           *)
LEMMA StateMapsToLedger ==
  ASSUME SignalInv, CompleteInv, [Next]_vars, HaveRecord' = HaveRecord
  PROVE  [Ledger!Next]_(Ledger!vars)
  <1> USE DEF Ledger!Next, Ledger!vars
  <1>1. {i \in Items : Keys(i) # {}}' = {i \in Items : Keys(i) # {}}
    BY DEF HaveRecord
  <1>2. CASE UNCHANGED <<now, state, gap>>
    BY <1>1, <1>2
  <1>3. CASE now' = now + 1 /\ UNCHANGED <<state, gap>>
    BY <1>1, <1>3 DEF Ledger!Tick
  <1>4. CASE state' = Attempted /\ UNCHANGED <<now, gap>>
    <2>1. CASE state = NoState
      BY <1>1, <1>4, <2>1 DEF Attempted, NewState, Ledger!FirstAttempt
    <2>2. CASE state # NoState
      BY <1>1, <1>4, <2>2 DEF Attempted
    <2> QED
      BY <2>1, <2>2
  <1>5. ASSUME NEW c \in Calls, pc[c] = "write", Advanced(c)
        PROVE  Ledger!Next
    <2>1. PICK S : S = state'.snapshot
      OBVIOUS
    <2>2. S \in SUBSET Items /\ S \subseteq {i \in Items : Keys(i) # {}}
      BY <1>5, <2>1, AdvancedState DEF States, Stored
    <2>3. state # NoState /\ now' = now
      BY <1>5 DEF SignalInv, CallInv, Advanced
    <2>4. CASE state' = [success |-> ref[c], snapshot |-> S] /\ gap' = missed[c]
      <3>1. PICK t : t = ref[c]
        OBVIOUS
      <3>2. PICK G : G = missed[c]
        OBVIOUS
      <3>3. t \in 0..now
        <4>1. t \in Times /\ t <= now /\ now \in Times
          BY <1>5, <3>1, CompleteRun DEF SignalInv, TypeOK
        <4> QED
          BY <4>1, SignalAssumption DEF Times
      <3>4. G \in SUBSET Items
        BY <3>2 DEF SignalInv, TypeOK
      <3>5. Ledger!DueAt(t) \ G \subseteq {i \in Items : Keys(i) # {}}
        BY <1>5, <3>1, <3>2, CompleteRun DEF Due, Stored, Ledger!DueAt
      <3>6. Ledger!Advance(t, S, G)
        BY <1>1, <2>2, <2>3, <2>4, <3>1, <3>2, <3>5 DEF Ledger!Advance
      <3> QED
        BY <2>2, <3>3, <3>4, <3>6
    <2>5. CASE state' = [success |-> state.success, snapshot |-> S] /\ gap' = gap
      <3>1. Ledger!Observe(S)
        BY <1>1, <2>2, <2>3, <2>5 DEF Ledger!Observe
      <3> QED
        BY <2>2, <3>1
    <2>6. \/ state' = [success |-> ref[c], snapshot |-> S] /\ gap' = missed[c]
          \/ state' = [success |-> state.success, snapshot |-> S] /\ gap' = gap
      BY <1>5, <2>1 DEF Advanced
    <2> QED
      BY <2>4, <2>5, <2>6
  <1> QED
    BY <1>2, <1>3, <1>4, <1>5, StateStep, ClockStep

LEMMA StepMapsToLedger ==
  ASSUME SignalInv, CompleteInv, [Next]_vars
  PROVE  [Ledger!Next]_(Ledger!vars)
  <1>1. ASSUME NEW i \in Items, HaveRecord' = HaveRecord \cup {i}, UNCHANGED <<now, state, gap>>
        PROVE  Ledger!Next
    BY <1>1 DEF HaveRecord, Ledger!Next, Ledger!Store
  <1> QED
    BY <1>1, RecordsStep, StateMapsToLedger

(* A reader of the database sees a ledger that records are only added to,  *)
(* and a watermark that is set only to moments whose due items all have    *)
(* one, but for the gap: any calls and processes, any adapter, limit and   *)
(* listing, any failures and crashes.                                      *)
THEOREM Refinement == Spec => ImplementsSignalLedger
  <1>1. Init => CompleteInv
    BY DEF Init, CompleteInv, NothingDropped
  <1>2. Init => Ledger!Init
    BY DEF Init, Ledger!Init, Keys
  <1>3. SignalInv /\ CompleteInv /\ [Next]_vars => CompleteInv'
    BY CompleteStep
  <1>4. SignalInv /\ CompleteInv /\ [Next]_vars => [Ledger!Next]_(Ledger!vars)
    BY StepMapsToLedger
  <1> QED
    BY <1>1, <1>2, <1>3, <1>4, SignalInvariant, PTL DEF Spec, ImplementsSignalLedger, Ledger!Spec

-----------------------------------------------------------------------------
(* In one process the lock keeps the runs apart *)

OneAtATime == \A c, d \in Calls : pc[c] # "idle" /\ pc[d] # "idle" => c = d

RowPerUrl == \A j, k \in 1..Len(rows) : rows[j].item = rows[k].item => j = k

(* A call is about to insert a row only for an item that has none.         *)
NewRowForNewItem ==
  /\ RowPerUrl
  /\ \A c \in Calls : pc[c] \in {"check", "insert"} => Keys(Item(c)) = {}

LockInv == OneAtATime /\ NewRowForNewItem

LEMMA OneAtATimeStep ==
  ASSUME OneProcess, SignalInv, OneAtATime, [Next]_vars
  PROVE  OneAtATime'
  <1>1. ASSUME NEW c \in Calls, Run(c)
        PROVE  OneAtATime'
    <2>1. \A d \in Calls \ {c} : pc[d] = "idle"
      <3>1. CASE Start(c)
        BY <3>1 DEF Start, Locked, OneProcess
      <3>2. CASE pc[c] # "idle"
        BY <3>2 DEF OneAtATime
      <3> QED
        BY <1>1, <3>1, <3>2 DEF Run, Attempt, Discover, DiscoverFails, DiscoverPartly, HandOn, Robots, Extract, Save, Find,
           FindsTwo, Update, CheckHash, Insert, SaveFails, Conclude, AdvanceWatermark, WriteWatermark, FatalError, Report
    <2>2. \A d \in Calls \ {c} : pc'[d] = "idle"
      BY <1>1, <2>1, RunIsLocal
    <2> QED
      BY <2>2 DEF OneAtATime
  <1>2. ASSUME NEW c \in Calls, Crash(c)
        PROVE  OneAtATime'
    BY <1>2 DEF Crash, Leave, OneAtATime
  <1>3. CASE Tick \/ UNCHANGED vars
    BY <1>3 DEF Tick, vars, callVars, OneAtATime
  <1> QED
    BY <1>1, <1>2, <1>3 DEF Next

LEMMA OneRowStep ==
  ASSUME SignalInv, LockInv, [Next]_vars
  PROVE  RowPerUrl'
  <1>1. Len(rows) \in Nat
    BY DEF SignalInv, TypeOK
  <1>2. CASE UNCHANGED rows
    BY <1>2 DEF LockInv, NewRowForNewItem, RowPerUrl
  <1>3. ASSUME NEW c \in Calls, pc[c] = "update", rows' = Updated(c)
        PROVE  RowPerUrl'
    <2>1. Len(rows') = Len(rows) /\ \A k \in 1..Len(rows) : rows'[k].item = rows[k].item
      BY <1>3, UpdatedRows
    <2> QED
      BY <2>1 DEF LockInv, NewRowForNewItem, RowPerUrl
  <1>4. ASSUME NEW c \in Calls, pc[c] = "insert", rows' = Inserted(c)
        PROVE  RowPerUrl'
    <2>1. /\ Len(rows') = Len(rows) + 1
          /\ rows'[Len(rows) + 1] = [item |-> Item(c), title |-> title[c]]
          /\ \A k \in 1..Len(rows) : rows'[k] = rows[k]
      BY <1>4, InsertedRows
    <2>2. \A k \in 1..Len(rows) : rows[k].item # Item(c)
      BY <1>4 DEF LockInv, NewRowForNewItem, Keys
    <2> QED
      BY <1>1, <2>1, <2>2 DEF LockInv, NewRowForNewItem, RowPerUrl
  <1> QED
    BY <1>2, <1>3, <1>4, RowsStep

LEMMA NewItemStep ==
  ASSUME SignalInv, LockInv, [Next]_vars, OneAtATime', NEW c \in Calls, pc'[c] \in {"check", "insert"}
  PROVE  Keys(Item(c))' = {}
  <1>1. ASSUME NEW d \in Calls, Run(d)
        PROVE  Keys(Item(c))' = {}
    <2>1. CASE d = c
      <3>1. Find(c) \/ CheckHash(c)
        BY <1>1, <2>1 DEF Run, Start, Attempt, Discover, DiscoverFails, DiscoverPartly, HandOn, Robots, Extract, Save,
           FindsTwo, Update, Insert, SaveFails, Saved, NextCandidate, Conclude, AdvanceWatermark,
           WriteWatermark, FatalError, Report, Leave, Goto, SignalInv, TypeOK
      <3>2. UNCHANGED <<rows, todo>>
        BY <3>1 DEF Find, CheckHash, NextCandidate, Goto, SignalInv, TypeOK
      <3>3. Keys(Item(c)) = {}
        BY <3>1 DEF Find, CheckHash, Goto, SignalInv, TypeOK, LockInv, NewRowForNewItem
      <3> QED
        BY <3>2, <3>3 DEF Keys, Item
    <2>2. CASE d # c
      <3>1. pc[c] # "idle"
        BY <1>1, <2>2, RunIsLocal
      <3>2. pc[d] = "idle" /\ pc'[d] = "idle"
        BY <2>2, <3>1 DEF LockInv, OneAtATime
      <3>3. Start(d)
        BY <1>1, <3>2 DEF Run, Attempt, Discover, DiscoverFails, DiscoverPartly, HandOn, Robots, Extract, Save, Find,
           FindsTwo, Update, CheckHash, Insert, SaveFails, Conclude, AdvanceWatermark, WriteWatermark, FatalError, Report
      <3> QED
        BY <3>2, <3>3 DEF Start, Goto, SignalInv, TypeOK
    <2> QED
      BY <2>1, <2>2
  <1>2. ASSUME NEW d \in Calls, Crash(d)
        PROVE  Keys(Item(c))' = {}
    BY <1>2 DEF Crash, Leave, Keys, Item, LockInv, NewRowForNewItem
  <1>3. CASE Tick \/ UNCHANGED vars
    BY <1>3 DEF Tick, vars, callVars, Keys, Item, LockInv, NewRowForNewItem
  <1> QED
    BY <1>1, <1>2, <1>3 DEF Next

(* Runs of one process: a URL has one row, whatever titles its pages have  *)
(* and however saves fail.                                                 *)
THEOREM OneRow == Spec => []OneRowPerUrl
  <1>1. Init => LockInv
    BY DEF Init, LockInv, OneAtATime, NewRowForNewItem, RowPerUrl
  <1>2. SignalInv /\ (OneProcess => LockInv) /\ [Next]_vars => (OneProcess => LockInv)'
    <2>1. ASSUME [Next]_vars
          PROVE  OneProcess' = OneProcess
      BY <2>1, StateStep DEF OneProcess, SameProcess
    <2> QED
      BY <2>1, OneAtATimeStep, OneRowStep, NewItemStep DEF LockInv, NewRowForNewItem
  <1>3. (OneProcess => LockInv) => OneRowPerUrl
    BY DEF LockInv, NewRowForNewItem, RowPerUrl, OneRowPerUrl
  <1> QED
    BY <1>1, <1>2, <1>3, SignalInvariant, PTL DEF Spec
=============================================================================
