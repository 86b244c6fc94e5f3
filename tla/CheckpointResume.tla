-------------------------- MODULE CheckpointResume --------------------------
(***************************************************************************)
(* Checkpoint and resume of one paginated adapter: CheckpointManager       *)
(* (crawler/checkpoint.py), the part of worker() that saves the records of *)
(* a batch and then writes the checkpoint (crawler/pipeline.py), and the   *)
(* discover() of the adapter, which starts at the checkpoint               *)
(* (crawler/adapters/arxiv_papers.py, wikidata_startups.py).               *)
(*                                                                         *)
(* An item is numbered by its place in the listing when the first run      *)
(* began.  arXiv lists the newest papers first: when grown items have been *)
(* put in front, item p is at position p + grown, and the new ones have    *)
(* the numbers below 0.                                                    *)
(*                                                                         *)
(* The queue between producer and workers is first in, first out, so       *)
(* batches are taken in the order discover() yields them; its bound and    *)
(* the shutdown are CrawlPipeline's.  A save is one atomic step of         *)
(* UniqueStore.  A process may end at any moment, by a crash, a signal or  *)
(* because it is done, and be started again.                               *)
(***************************************************************************)
EXTENDS Integers, FiniteSets

CONSTANTS
  Workers,       \* worker coroutines of the process
  BatchSize,     \* batch_size of the adapter
  Limit,         \* target_limit: items discovered per run
  Dropped,       \* items for which parse() yields no record
  NoRow,         \* the adapter has no checkpoint row yet
  Failures,      \* may the processing of a task raise?
  BadResponses,  \* may a response be one that parse() cannot read?
  MaxGrowth,     \* bound: how many items are put in front of the listing
  MaxRuns        \* bound: how often the process is started

ASSUME CheckpointAssumption ==
  /\ BatchSize \in Nat \ {0}
  /\ Limit \in Nat
  /\ Dropped \subseteq Int
  /\ NoRow \notin [offset : Nat, total : Nat]
  /\ Failures \in BOOLEAN
  /\ BadResponses \in BOOLEAN
  /\ MaxGrowth \in Nat
  /\ MaxRuns \in Nat

VARIABLES
  grown,     \* how many items were put in front of the listing so far
  stored,    \* items whose record is in the database
  row,       \* the checkpoint row: offset_val and total_collected
  next,      \* offset of the next batch of this run
  queued,    \* total_queued of this run
  pc,        \* where each worker is in its task
  batch,     \* the task of each worker: its offset and batch_count
  shift,     \* the value of grown when each worker fetched its batch
  pos,       \* the position each worker parses next
  saved,     \* items_saved of each worker
  seen,      \* the row each worker read before it writes it
  missed,    \* items in responses that could not be parsed and in what was
             \* left of a batch when its task raised (history)
  runs       \* how often the process was started

workVars == <<pc, batch, shift, pos, saved, seen>>
vars     == <<grown, stored, row, next, queued, workVars, missed, runs>>

PC == {"idle", "fetch", "parse", "read", "write"}

First(b) == b.offset
End(b)   == b.offset + b.batch_count

(* The items of a batch in a listing that has grown by g.                  *)
Items(b, g) == (First(b) - g)..(End(b) - 1 - g)

Offset == IF row = NoRow THEN 0 ELSE row.offset

Init ==
  /\ grown = 0
  /\ stored = {}
  /\ row = NoRow
  /\ next = 0
  /\ queued = 0
  /\ pc = [w \in Workers |-> "idle"]
  /\ batch = [w \in Workers |-> [offset |-> 0, batch_count |-> 0]]
  /\ shift = [w \in Workers |-> 0]
  /\ pos = [w \in Workers |-> 0]
  /\ saved = [w \in Workers |-> 0]
  /\ seen = [w \in Workers |-> NoRow]
  /\ missed = {}
  /\ runs = 1

Goto(w, label) == pc' = [pc EXCEPT ![w] = label]

-----------------------------------------------------------------------------
(* A task *)

(* discover() yields batches until it has queued Limit items; the last one *)
(* may be short.                                                           *)
BatchCount == IF Limit - queued < BatchSize THEN Limit - queued ELSE BatchSize

Take(w) ==
  /\ pc[w] = "idle"
  /\ queued < Limit
  /\ batch' = [batch EXCEPT ![w] = [offset |-> next, batch_count |-> BatchCount]]
  /\ pos' = [pos EXCEPT ![w] = next]
  /\ saved' = [saved EXCEPT ![w] = 0]
  /\ next' = next + BatchCount
  /\ queued' = queued + BatchCount
  /\ Goto(w, "fetch")
  /\ UNCHANGED <<grown, stored, row, shift, seen, missed, runs>>

(* The response lists what is at the positions of the batch now.           *)
Fetch(w) ==
  /\ pc[w] = "fetch"
  /\ shift' = [shift EXCEPT ![w] = grown]
  /\ Goto(w, "parse")
  /\ UNCHANGED <<grown, stored, row, next, queued, batch, pos, saved, seen,
                 missed, runs>>

(* parse() logs a malformed response and yields nothing: the worker goes   *)
(* on as if the batch were empty.                                          *)
Unparsable(w) ==
  /\ BadResponses
  /\ pc[w] = "fetch"
  /\ shift' = [shift EXCEPT ![w] = grown]
  /\ missed' = missed \cup Items(batch[w], grown)
  /\ Goto(w, "read")
  /\ UNCHANGED <<grown, stored, row, next, queued, batch, pos, saved, seen, runs>>

ItemAt(w) == pos[w] - shift[w]

(* Faulty variant: a duplicate counts as saved.                            *)
ItemCountsDuplicates(w) ==
  /\ pc[w] = "parse"
  /\ pos[w] < End(batch[w])
  /\ stored' = stored \cup ({ItemAt(w)} \ Dropped)
  /\ saved' = [saved EXCEPT ![w] = @ + 1]
  /\ pos' = [pos EXCEPT ![w] = @ + 1]
  /\ UNCHANGED <<grown, row, next, queued, pc, batch, shift, seen, missed, runs>>

(* The next record is saved, found to be a duplicate, or never yielded.    *)
Item(w) ==
  /\ pc[w] = "parse"
  /\ pos[w] < End(batch[w])
  /\ \/ /\ ItemAt(w) \notin stored \cup Dropped
        /\ stored' = stored \cup {ItemAt(w)}
        /\ saved' = [saved EXCEPT ![w] = @ + 1]
     \/ /\ ItemAt(w) \in stored \cup Dropped
        /\ UNCHANGED <<stored, saved>>
  /\ pos' = [pos EXCEPT ![w] = @ + 1]
  /\ UNCHANGED <<grown, row, next, queued, pc, batch, shift, seen, missed, runs>>

(* Faulty variant: the checkpoint is written while records are saved.      *)
ParseEndsEarly(w) ==
  /\ pc[w] = "parse"
  /\ Goto(w, "read")
  /\ UNCHANGED <<grown, stored, row, next, queued, batch, shift, pos, saved, seen,
                 missed, runs>>

ParseEnds(w) ==
  /\ pc[w] = "parse"
  /\ pos[w] = End(batch[w])
  /\ Goto(w, "read")
  /\ UNCHANGED <<grown, stored, row, next, queued, batch, shift, pos, saved, seen,
                 missed, runs>>

(* update_checkpoint: the SELECT, an await before the write.               *)
ReadRow(w) ==
  /\ pc[w] = "read"
  /\ seen' = [seen EXCEPT ![w] = row]
  /\ Goto(w, "write")
  /\ UNCHANGED <<grown, stored, row, next, queued, batch, shift, pos, saved,
                 missed, runs>>

(* A new row, unless another worker has inserted it since: the primary key *)
(* makes the INSERT raise, and the task ends as an error.                  *)
InsertRow(w) ==
  /\ seen[w] = NoRow
  /\ row' = IF row = NoRow
              THEN [offset |-> End(batch[w]), total |-> saved[w]]
              ELSE row

(* Faulty variant: the offset grows by a full batch, even after a short one. *)
UpdateRowByBatch(w) ==
  /\ seen[w] # NoRow
  /\ row' = [offset |-> seen[w].offset + BatchSize,
             total  |-> seen[w].total + saved[w]]

(* The UPDATE sets the columns whose value differs from the row read, to   *)
(* values computed from the row read.                                      *)
UpdateRow(w) ==
  /\ seen[w] # NoRow
  /\ row' = [offset |-> IF End(batch[w]) = seen[w].offset
                          THEN row.offset ELSE End(batch[w]),
             total  |-> IF saved[w] = 0
                          THEN row.total ELSE seen[w].total + saved[w]]

WriteRow(w) ==
  /\ pc[w] = "write"
  /\ InsertRow(w) \/ UpdateRow(w)
  /\ Goto(w, "idle")
  /\ UNCHANGED <<grown, stored, next, queued, batch, shift, pos, saved, seen,
                 missed, runs>>

(* The fetch, a save or a checkpoint query raises: the task is counted as  *)
(* an error and not tried again.  A save that raises may have stored.      *)
FetchFails(w) ==
  /\ Failures
  /\ pc[w] = "fetch"
  /\ missed' = missed \cup Items(batch[w], grown)
  /\ Goto(w, "idle")
  /\ UNCHANGED <<grown, stored, row, next, queued, batch, shift, pos, saved, seen,
                 runs>>

Unparsed(w) ==
  IF pc[w] = "parse" THEN ItemAt(w)..(End(batch[w]) - 1 - shift[w]) ELSE {}

MayHaveStored(w) == {ItemAt(w)} \cap (Unparsed(w) \ Dropped)

TaskFails(w) ==
  /\ Failures
  /\ pc[w] \in {"parse", "read", "write"}
  /\ stored' \in {stored, stored \cup MayHaveStored(w)}
  /\ missed' = missed \cup Unparsed(w)
  /\ Goto(w, "idle")
  /\ UNCHANGED <<grown, row, next, queued, batch, shift, pos, saved, seen, runs>>

(* Faulty variant: the restarted producer keeps its count of queued items. *)
RestartKeepsCount ==
  /\ runs < MaxRuns
  /\ runs' = runs + 1
  /\ next' = Offset
  /\ pc' = [w \in Workers |-> "idle"]
  /\ UNCHANGED <<grown, stored, row, queued, batch, shift, pos, saved, seen, missed>>

(* The process ends, whatever it was doing, and is started again: the      *)
(* producer reads the checkpoint before it yields anything.                *)
Restart ==
  /\ runs < MaxRuns
  /\ runs' = runs + 1
  /\ next' = Offset
  /\ queued' = 0
  /\ pc' = [w \in Workers |-> "idle"]
  /\ UNCHANGED <<grown, stored, row, batch, shift, pos, saved, seen, missed>>

(* A new item appears at the front of the listing.                         *)
Grow ==
  /\ grown < MaxGrowth
  /\ grown' = grown + 1
  /\ UNCHANGED <<stored, row, next, queued, workVars, missed, runs>>

Step(w) ==
  \/ Take(w) \/ Fetch(w) \/ Unparsable(w) \/ Item(w) \/ ParseEnds(w)
  \/ ReadRow(w) \/ WriteRow(w) \/ FetchFails(w) \/ TaskFails(w)

Next == (\E w \in Workers : Step(w)) \/ Restart \/ Grow

(* A worker goes on as long as its process lives.                          *)
Fairness == \A w \in Workers : WF_vars(Step(w))

Spec == Init /\ [][Next]_vars /\ Fairness

-----------------------------------------------------------------------------
(* Properties *)

Rows == [offset : Nat, total : Nat]

TypeOK ==
  /\ grown \in Nat
  /\ stored \in SUBSET Int
  /\ row \in Rows \cup {NoRow}
  /\ next \in Nat
  /\ queued \in 0..Limit
  /\ pc \in [Workers -> PC]
  /\ batch \in [Workers -> [offset : Nat, batch_count : 0..BatchSize]]
  /\ shift \in [Workers -> Nat]
  /\ pos \in [Workers -> Nat]
  /\ saved \in [Workers -> Nat]
  /\ seen \in [Workers -> Rows \cup {NoRow}]
  /\ missed \in SUBSET Int
  /\ runs \in Nat

Handled(p) == p \in stored \cup Dropped \cup missed

(* The position of a worker is inside its batch, and what lies behind it   *)
(* is dealt with; from the checkpoint query on, the whole batch is.        *)
BatchesHandledInOrder ==
  \A w \in Workers :
    /\ shift[w] <= grown
    /\ pc[w] = "fetch" => pos[w] = First(batch[w])
    /\ pc[w] = "parse" =>
         /\ pos[w] \in First(batch[w])..End(batch[w])
         /\ \A p \in (First(batch[w]) - shift[w])..(ItemAt(w) - 1) : Handled(p)
    /\ pc[w] \in {"read", "write"} =>
         \A p \in Items(batch[w], shift[w]) : Handled(p)
    /\ pc[w] # "idle" => batch[w].batch_count > 0

(* However many workers finish in whatever order, fail or die, the offset  *)
(* in the database is the end of a batch, in the listing as it was when    *)
(* the batch was fetched, whose items were all dealt with first.           *)
CheckpointBehindItsBatch ==
  row # NoRow =>
    \E b \in [offset : 0..row.offset, batch_count : 1..BatchSize], g \in 0..grown :
      End(b) = row.offset /\ \A p \in Items(b, g) : Handled(p)

(* A worker updates a row only if there is one: nobody deletes it.         *)
SeenRowExists == \A w \in Workers : pc[w] = "write" /\ seen[w] # NoRow => row # NoRow

CheckpointInv ==
  /\ TypeOK /\ BatchesHandledInOrder /\ CheckpointBehindItsBatch /\ SeenRowExists

(* total_collected may fall behind, when two workers overlap or a process  *)
(* dies, but never counts a record that is not in the database, or twice.  *)
CollectedNeverOvercounts ==
  row # NoRow => row.total <= Cardinality(stored)

(* One worker: whatever fails, wherever the process dies and whatever is   *)
(* put in front of the listing, the checkpoint passes no item of the first *)
(* run's listing that was neither stored nor without a record nor in what  *)
(* a malformed response or a failed task left unread.                      *)
NothingSkipped == \A p \in 0..(Offset - grown - 1) : Handled(p)

(* One worker, the same failures: the adapter crawls its source in order   *)
(* across restarts: it implements SequentialCrawl.                         *)
Crawl == INSTANCE SequentialCrawl WITH resume <- Offset - grown

ImplementsSequentialCrawl == Crawl!Spec

(* ... and every item within the first Limit positions is dealt with in    *)
(* the end, however often the process was restarted.                       *)
EverythingCollected ==
  <>[](\A p \in 0..(Limit - grown - 1) : Handled(p))
=============================================================================
