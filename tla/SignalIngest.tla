---------------------------- MODULE SignalIngest ----------------------------
(***************************************************************************)
(* Ingestion of one signal source: SignalOrchestrator.ingest_source with   *)
(* the SignalStorage and FreshnessGate calls it makes (crawler/signals/).  *)
(* Calls run in processes (cron starts a new one every hour) that share    *)
(* the database; the lock of the source lives in the memory of a process.  *)
(*                                                                         *)
(* An item is a canonical URL.  Its content hash is made of the URL and    *)
(* the title, which is the title of the detail page or, when that page     *)
(* cannot be fetched, the one in the listing.                              *)
(***************************************************************************)
EXTENDS Integers, Sequences

CONSTANTS
  Calls,          \* calls of ingest_source
  Setups,         \* how the calls may be set up (see setup)
  Items,          \* the items of the source
  Published,      \* when each item was published
  Listing,        \* what the source lists at each time, top first
  DateOf,         \* where its date can be read: "listing", "page" or "none"
  Disallowed,     \* items robots.txt forbids
  StartDelay,     \* how long before its start a run may read the clock
  Window,         \* freshness_window_hours
  Skew,           \* clock_skew_tolerance_minutes
  Tolerance,      \* the five minutes of the first-seen check
  TopRecency,     \* the last listing position of the recency check
  NoState,        \* the source has no crawl state row yet
  Never,          \* no crawl of the source was successful yet
  DetailFails,    \* may the fetch of a detail page fail?
  Failures,       \* may discovery and database operations fail, processes die?
  MaxTime         \* bound: the clock stops here

Times  == 0..MaxTime
Titles == {"page", "listing"}
States == [success : Times \cup {Never}, snapshot : SUBSET Items]

ASSUME SignalAssumption ==
  /\ \A s \in Setups : s.swallows \in BOOLEAN /\ s.limit \in Nat
  /\ Listing \in [Times -> Seq(Items)]
  /\ Published \in [Items -> Nat]
  /\ DateOf \in [Items -> {"listing", "page", "none"}]
  /\ StartDelay \in Nat
  /\ {Window, Skew, Tolerance} \subseteq Nat
  /\ TopRecency \in Nat
  /\ MaxTime \in Nat
  /\ Never \notin Nat /\ NoState \notin States
  /\ {DetailFails, Failures} \subseteq BOOLEAN

VARIABLES
  setup,     \* the process of each call, the limit of a run, and whether the
             \* adapter swallows the errors of discover_candidates
  now,       \* the clock
  state,     \* the crawl state row: watermark and snapshot of observed items
  rows,      \* the record table, in order of insertion
  pc,        \* where each call is
  ref,       \* reference_time of each call
  seen,      \* the crawl state each call has read
  todo,      \* the candidates it has still to process
  position,  \* listing_position of the first of them
  title,     \* title of the record at hand
  found,     \* the existing row the save has found: its key and title
  observed,  \* observed_hashes
  errors,    \* is error_count positive?
  missed,    \* what was published and discovery did not hand on
  gap        \* history: missed of the run that set the watermark

itemVars == <<title, found>>
callVars == <<pc, ref, seen, todo, position, itemVars, observed, errors, missed>>
table    == <<setup, now, state, gap>>
vars     == <<table, rows, callVars>>

PC == {"idle", "attempt", "discover", "next", "extract", "find", "update",
       "check", "insert", "advance", "write", "report"}

NotFound == [key |-> 0, title |-> "page"]

Init ==
  /\ setup \in Setups
  /\ now = 0
  /\ state = NoState
  /\ rows = <<>>
  /\ pc = [c \in Calls |-> "idle"]
  /\ ref = [c \in Calls |-> 0]
  /\ seen = [c \in Calls |-> NoState]
  /\ todo = [c \in Calls |-> <<>>]
  /\ position = [c \in Calls |-> 0]
  /\ title = [c \in Calls |-> "page"]
  /\ found = [c \in Calls |-> NotFound]
  /\ observed = [c \in Calls |-> {}]
  /\ errors = [c \in Calls |-> FALSE]
  /\ missed = [c \in Calls |-> {}]
  /\ gap = {}

Goto(c, label) == pc' = [pc EXCEPT ![c] = label]

(* error_count += 1 *)
CountError(c) == errors' = [errors EXCEPT ![c] = TRUE]

Item(c) == Head(todo[c])

-----------------------------------------------------------------------------
(* Faulty variant: nobody looks at the lock of the source.                 *)
NeverLocked(c) == FALSE

SameProcess(c, d) == setup.processOf[c] = setup.processOf[d]

Locked(c) == \E d \in Calls : SameProcess(c, d) /\ pc[d] # "idle"

(* A call that finds the lock taken returns SKIPPED_LOCKED at once.  The    *)
(* command line reads the clock first and prepares the database next.      *)
Start(c) ==
  /\ pc[c] = "idle"
  /\ ~Locked(c)
  /\ \E t \in Times : /\ now - StartDelay <= t /\ t <= now
                      /\ ref' = [ref EXCEPT ![c] = t]
  /\ Goto(c, "attempt")
  /\ UNCHANGED <<table, rows, seen, todo, position, itemVars, observed, errors, missed>>

NewState == [success |-> Never, snapshot |-> {}]

(* The row is created if there is none; its watermark stays as it is.      *)
Attempted == IF state = NoState THEN NewState ELSE state

(* record_attempt and get_crawl_state in one session.  When another        *)
(* process creates the row first the INSERT raises, as in FatalError.      *)
Attempt(c) ==
  /\ pc[c] = "attempt"
  /\ state' = Attempted
  /\ seen' = [seen EXCEPT ![c] = Attempted]
  /\ Goto(c, "discover")
  /\ UNCHANGED <<setup, now, gap, rows, ref, todo, position, itemVars, observed, errors, missed>>

Listed == Listing[now]

(* "if position >= limit: return".                                         *)
Reach == IF Len(Listed) <= setup.limit THEN Len(Listed) ELSE setup.limit

(* The candidates of a run are s.                                          *)
HandOn(c, s) ==
  /\ todo' = [todo EXCEPT ![c] = s]
  /\ missed' = [missed EXCEPT ![c] =
       {i \in Items : Published[i] <= now /\ \A k \in 1..Len(s) : s[k] # i}]
  /\ Goto(c, "next")
  /\ UNCHANGED <<table, rows, ref, seen, position, itemVars, observed>>

Discover(c) ==
  /\ pc[c] = "discover"
  /\ HandOn(c, SubSeq(Listed, 1, Reach))
  /\ UNCHANGED errors

(* Faulty variant: the RSS adapter swallows its errors too.                *)
DiscoverFailsQuietly(c) ==
  /\ Failures /\ ~setup.swallows
  /\ pc[c] = "discover"
  /\ \E n \in 0..Reach : HandOn(c, SubSeq(Listed, 1, n))
  /\ UNCHANGED errors

(* The RSS adapter raises: discovery breaks off after some candidates, and *)
(* they are processed all the same.                                        *)
DiscoverFails(c) ==
  /\ Failures /\ ~setup.swallows
  /\ pc[c] = "discover"
  /\ \E n \in 0..Reach : HandOn(c, SubSeq(Listed, 1, n))
  /\ CountError(c)

(* Ways to choose n of m places, in order.                                 *)
Increasing(n, m) ==
  {f \in [1..n -> 1..m] : \A j, k \in 1..n : j < k => f[j] < f[k]}

(* The HTML and the API adapter log the error and go on with the next URL  *)
(* of the listing: items may be missing anywhere.                          *)
DiscoverPartly(c) ==
  /\ Failures /\ setup.swallows
  /\ pc[c] = "discover"
  /\ \E n \in 0..Reach : \E at \in Increasing(n, Len(Listed)) :
       HandOn(c, [k \in 1..n |-> Listed[at[k]]])
  /\ UNCHANGED errors

(* The candidate at hand is done with.                                     *)
NextCandidate(c) ==
  /\ todo' = [todo EXCEPT ![c] = Tail(@)]
  /\ position' = [position EXCEPT ![c] = @ + 1]
  /\ title' = [title EXCEPT ![c] = "page"]
  /\ found' = [found EXCEPT ![c] = NotFound]
  /\ Goto(c, "next")

(* can_fetch: a robots.txt that could not be fetched allows everything.    *)
(* (The process keeps it; here each item may find another.)                *)
MayFetch(c)    == Failures \/ Item(c) \notin Disallowed
MayNotFetch(c) == Item(c) \in Disallowed

Robots(c) ==
  /\ pc[c] = "next"
  /\ todo[c] # <<>>
  /\ \/ /\ MayNotFetch(c)
        /\ NextCandidate(c)
     \/ /\ MayFetch(c)
        /\ Goto(c, "extract")
        /\ UNCHANGED <<todo, position, itemVars>>
  /\ UNCHANGED <<table, rows, ref, seen, observed, errors, missed>>

-----------------------------------------------------------------------------
(* FreshnessGate.evaluate *)

HasDate(i, t) == DateOf[i] = "listing" \/ (DateOf[i] = "page" /\ t = "page")

Verified(c, i) == Published[i] >= ref[c] - Window /\ Published[i] <= ref[c] + Skew

(* An item without a date: there was a successful crawl, its snapshot does *)
(* not hold the item, this crawl (which counts as when the item was first  *)
(* seen) is hardly older, and the item stands high in the listing.             *)
Inferred(c, i) ==
  /\ seen[c].success # Never
  /\ i \notin seen[c].snapshot
  /\ ref[c] >= seen[c].success - Tolerance
  /\ position[c] <= TopRecency

Accepted(c, i, t) == IF HasDate(i, t) THEN Verified(c, i) ELSE Inferred(c, i)

(* extract_record: the failed fetch of a detail page is not an error.      *)
Extract(c) ==
  /\ pc[c] = "extract"
  /\ \E t \in IF DetailFails THEN Titles ELSE {"page"} :
       \/ /\ Accepted(c, Item(c), t)
          /\ title' = [title EXCEPT ![c] = t]
          /\ Goto(c, "find")
          /\ UNCHANGED <<todo, position, found>>
       \/ /\ ~Accepted(c, Item(c), t)
          /\ NextCandidate(c)
  /\ UNCHANGED <<table, rows, ref, seen, observed, errors, missed>>

-----------------------------------------------------------------------------
(* save_news_record and save_job_record, an await after each step          *)

Keys(i)       == {k \in 1..Len(rows) : rows[k].item = i}
HasHash(i, t) == \E k \in 1..Len(rows) : rows[k] = [item |-> i, title |-> t]

Find(c) ==
  /\ pc[c] = "find"
  /\ \/ /\ Keys(Item(c)) = {}
        /\ Goto(c, "check")
        /\ UNCHANGED found
     \/ \E k \in Keys(Item(c)) :
        /\ Keys(Item(c)) = {k}
        /\ found' = [found EXCEPT ![c] = [key |-> k, title |-> rows[k].title]]
        /\ Goto(c, "update")
  /\ UNCHANGED <<table, rows, ref, seen, todo, position, title, observed, errors, missed>>

(* scalar_one_or_none() raises when the URL has two rows.                  *)
FindsTwo(c) ==
  /\ pc[c] = "find"
  /\ \E j, k \in Keys(Item(c)) : j # k
  /\ CountError(c)
  /\ NextCandidate(c)
  /\ UNCHANGED <<table, rows, ref, seen, observed, missed>>

Saved(c) ==
  /\ observed' = [observed EXCEPT ![c] = @ \cup {Item(c)}]
  /\ NextCandidate(c)

(* The UPDATE sets the title, and with it the content hash, if it differs  *)
(* from the one read; the unique constraint on the hash may refuse it.     *)
NewTitle(c) ==
  IF title[c] = found[c].title THEN rows[found[c].key].title ELSE title[c]

Refused(c) ==
  /\ NewTitle(c) # rows[found[c].key].title
  /\ HasHash(Item(c), NewTitle(c))

Updated(c) == [rows EXCEPT ![found[c].key].title = NewTitle(c)]

Update(c) ==
  /\ pc[c] = "update"
  /\ \/ /\ ~Refused(c)
        /\ rows' = Updated(c)
        /\ Saved(c)
        /\ UNCHANGED errors
     \/ /\ Refused(c)
        /\ CountError(c)
        /\ NextCandidate(c)
        /\ UNCHANGED <<rows, observed>>
  /\ UNCHANGED <<table, ref, seen, missed>>

(* A record with the same content hash: not saved, and not an error.       *)
CheckHash(c) ==
  /\ pc[c] = "check"
  /\ \/ HasHash(Item(c), title[c]) /\ NextCandidate(c)
     \/ /\ ~HasHash(Item(c), title[c])
        /\ Goto(c, "insert")
        /\ UNCHANGED <<todo, position, itemVars>>
  /\ UNCHANGED <<table, rows, ref, seen, observed, errors, missed>>

Inserted(c) == Append(rows, [item |-> Item(c), title |-> title[c]])

(* Faulty variant: the row is added to the session and never committed.    *)
InsertUncommitted(c) ==
  /\ pc[c] = "insert"
  /\ Saved(c)
  /\ UNCHANGED <<table, rows, ref, seen, errors, missed>>

(* The content hash is unique, the URL of a source is not.                 *)
Insert(c) ==
  /\ pc[c] = "insert"
  /\ \/ /\ ~HasHash(Item(c), title[c])
        /\ rows' = Inserted(c)
        /\ Saved(c)
     \/ /\ HasHash(Item(c), title[c])
        /\ NextCandidate(c)
        /\ UNCHANGED <<rows, observed>>
  /\ UNCHANGED <<table, ref, seen, errors, missed>>

(* Faulty variant: a save that raises is tried again, for ever.            *)
SaveFailsRetried(c) ==
  /\ Failures
  /\ pc[c] \in {"extract", "find", "update", "check", "insert"}
  /\ CountError(c)
  /\ Goto(c, "extract")
  /\ UNCHANGED <<table, rows, ref, seen, todo, position, itemVars, observed, missed>>

(* A query of the save raises, or the commit, perhaps after its effect.    *)
SaveFails(c) ==
  /\ Failures
  /\ pc[c] \in {"extract", "find", "update", "check", "insert"}
  /\ \/ UNCHANGED rows
     \/ pc[c] = "update" /\ ~Refused(c) /\ rows' = Updated(c)
     \/ pc[c] = "insert" /\ ~HasHash(Item(c), title[c]) /\ rows' = Inserted(c)
  /\ CountError(c)
  /\ NextCandidate(c)
  /\ UNCHANGED <<table, ref, seen, observed, missed>>

-----------------------------------------------------------------------------
(* The end of a run *)

(* Faulty variant: a run with errors is a success too.                     *)
AnySuccess(c) == TRUE

Success(c) == ~errors[c]

Conclude(c) ==
  /\ pc[c] = "next"
  /\ todo[c] = <<>>
  /\ Goto(c, IF Success(c) THEN "advance" ELSE "report")
  /\ UNCHANGED <<table, rows, ref, seen, todo, position, itemVars, observed, errors, missed>>

(* advance_successful_watermark reads the row ...                          *)
AdvanceWatermark(c) ==
  /\ pc[c] = "advance"
  /\ seen' = [seen EXCEPT ![c] = state]
  /\ Goto(c, "write")
  /\ UNCHANGED <<table, rows, ref, todo, position, itemVars, observed, errors, missed>>

(* ... and writes the columns that differ from what it has read.  The      *)
(* snapshot is a list made of a set: that of the same set may differ.      *)
Advanced(c) ==
  /\ \E S \in {observed[c], state.snapshot} :
       /\ observed[c] # seen[c].snapshot => S = observed[c]
       /\ \/ /\ ref[c] # seen[c].success
             /\ state' = [success |-> ref[c], snapshot |-> S]
             /\ gap' = missed[c]
          \/ /\ ref[c] = seen[c].success
             /\ state' = [success |-> state.success, snapshot |-> S]
             /\ UNCHANGED gap
  /\ UNCHANGED <<setup, now>>

WriteWatermark(c) ==
  /\ pc[c] = "write"
  /\ Advanced(c)
  /\ Goto(c, "report")
  /\ UNCHANGED <<rows, ref, seen, todo, position, itemVars, observed, errors, missed>>

(* An exception outside the loop over candidates: the run is FAILED.  A    *)
(* commit that raises may have taken effect.                               *)
FatalError(c) ==
  /\ Failures
  /\ \/ pc[c] \in {"attempt", "next", "advance", "write"} /\ UNCHANGED table
     \/ pc[c] = "attempt" /\ state' = Attempted /\ UNCHANGED <<setup, now, gap>>
     \/ pc[c] = "write" /\ Advanced(c)
  /\ CountError(c)
  /\ Goto(c, "report")
  /\ UNCHANGED <<rows, ref, seen, todo, position, itemVars, observed, missed>>

(* The calls in C are over and their locals gone.                          *)
Leave(C) ==
  LET Reset(f, v) == [c \in Calls |-> IF c \in C THEN v ELSE f[c]]
  IN /\ pc' = Reset(pc, "idle")
     /\ ref' = Reset(ref, 0)
     /\ seen' = Reset(seen, NoState)
     /\ todo' = Reset(todo, <<>>)
     /\ position' = Reset(position, 0)
     /\ title' = Reset(title, "page")
     /\ found' = Reset(found, NotFound)
     /\ observed' = Reset(observed, {})
     /\ errors' = Reset(errors, FALSE)
     /\ missed' = Reset(missed, {})
     /\ UNCHANGED <<table, rows>>

(* The run history is written, or not: the call returns and the lock with  *)
(* it.                                                                     *)
Report(c) == pc[c] = "report" /\ Leave({c})

(* A process dies; cron starts another one in its place.                   *)
Crash(c) ==
  /\ Failures
  /\ pc[c] # "idle"
  /\ Leave({d \in Calls : SameProcess(c, d)})

Tick ==
  /\ now < MaxTime
  /\ now' = now + 1
  /\ UNCHANGED <<setup, state, gap, rows, callVars>>

Save(c) ==
  \/ Find(c) \/ FindsTwo(c) \/ Update(c) \/ CheckHash(c) \/ Insert(c)
  \/ SaveFails(c)

Run(c) ==
  \/ Start(c) \/ Attempt(c) \/ Discover(c) \/ DiscoverFails(c)
  \/ DiscoverPartly(c) \/ Robots(c)
  \/ Extract(c) \/ Save(c) \/ Conclude(c)
  \/ AdvanceWatermark(c) \/ WriteWatermark(c) \/ FatalError(c) \/ Report(c)

Next == \/ \E c \in Calls : Run(c) \/ Crash(c)
        \/ Tick

(* A run that was started goes on: requests and queries have timeouts.     *)
(* Nothing is assumed of cron and of the clock, of crashes and of errors.  *)
Fairness == \A c \in Calls : WF_vars(pc[c] # "idle" /\ Run(c))

Spec == Init /\ [][Next]_vars /\ Fairness

-----------------------------------------------------------------------------
(* Properties *)

Row == [item : Items, title : Titles]

TypeOK ==
  /\ setup \in Setups
  /\ now \in Times
  /\ state \in States \cup {NoState}
  /\ rows \in Seq(Row)
  /\ pc \in [Calls -> PC]
  /\ ref \in [Calls -> Times]
  /\ seen \in [Calls -> States \cup {NoState}]
  /\ todo \in [Calls -> Seq(Items)]
  /\ position \in [Calls -> Nat]
  /\ title \in [Calls -> Titles]
  /\ found \in [Calls -> [key : Nat, title : Titles]]
  /\ observed \in [Calls -> SUBSET Items]
  /\ errors \in [Calls -> BOOLEAN]
  /\ missed \in [Calls -> SUBSET Items]
  /\ gap \in SUBSET Items

(* Every item in the snapshot is in the record table: what the gate turns  *)
(* away as already observed has been saved, through failed saves, crashes  *)
(* and overlapping runs.                                                   *)
SnapshotIsStored ==
  state # NoState => \A i \in state.snapshot : Keys(i) # {}

(* What the calls rely on between their steps: what a run has observed is  *)
(* in the record table, a call in the middle of a candidate still has it   *)
(* at hand, the row a save is about to update belongs to that item, the    *)
(* crawl state has a row from the attempt on, and only a run that has gone *)
(* through its candidates without an error advances the watermark.         *)
Stored(S) == \A i \in S : Keys(i) # {}

CallInv(c) ==
  /\ Stored(observed[c])
  /\ pc[c] \notin {"idle", "attempt", "report"} => state # NoState /\ seen[c] # NoState
  /\ pc[c] \in {"extract", "find", "update", "check", "insert"} => todo[c] # <<>>
  /\ pc[c] = "update" => found[c].key \in Keys(Item(c))
  /\ pc[c] \in {"advance", "write"} => todo[c] = <<>> /\ ~errors[c]

SignalInv ==
  /\ TypeOK
  /\ SnapshotIsStored
  /\ \A c \in Calls : CallInv(c)

(* What a reader of the database sees of the runs of any number of         *)
(* processes, of their failures and crashes is SignalLedger.               *)
Ledger == INSTANCE SignalLedger WITH stored <- {i \in Items : Keys(i) # {}}

ImplementsSignalLedger == Ledger!Spec

(* What a complete run has to store: the items it may fetch that were      *)
(* published at the reference time and have a date in the listing that is  *)
(* fresh.                                                                  *)
Due(c) == Ledger!DueAt(ref[c])

HasWatermark == state # NoState /\ state.success # Never

(* May discovery pass over an item without an error?  An adapter that      *)
(* swallows errors may, and every adapter does where the source no longer  *)
(* lists what was published, or lists more than the limit.                 *)
ListedInFull(t) ==
  /\ Len(Listing[t]) <= setup.limit
  /\ \A i \in Items : Published[i] <= t => \E k \in 1..Len(Listing[t]) : Listing[t][k] = i

MayMiss == setup.swallows \/ \E t \in Times : ~ListedInFull(t)

(* A run that is about to advance the watermark has dealt with all that    *)
(* discovery has handed on: what is due is in the record table, and as     *)
(* long as the watermark stands, but for what discovery passed over.  Of   *)
(* an adapter that raises and a source listed in full nothing is.          *)
WatermarkMeansComplete ==
  /\ \A c \in Calls : pc[c] \in {"advance", "write"} => Stored(Due(c) \ missed[c])
  /\ HasWatermark => Stored(Ledger!DueAt(state.success) \ gap)
  /\ gap # {} => MayMiss

(* "Failed or partial crawls NEVER advance the successful-run watermark."  *)
(* (src/README.md:331): where the watermark stands everything that was due *)
(* then has a record.                                                      *)
PartialNeverAdvances == HasWatermark => Stored(Ledger!DueAt(state.success))

(* A URL of the source has one row, however its title changes, as long as  *)
(* all calls are made in one process, where the lock keeps the runs apart. *)
OneProcess == \A c, d \in Calls : SameProcess(c, d)

OneRowPerUrl ==
  OneProcess => \A j, k \in 1..Len(rows) : rows[j].item = rows[k].item => j = k

(* A run gives the lock of its source back, whatever fails on its way      *)
(* through the candidates; a run that did not would make every later call  *)
(* of the process return SKIPPED_LOCKED.                                   *)
EveryRunEnds == \A c \in Calls : pc[c] # "idle" ~> pc[c] = "idle"

(* An item accepted by inference was not listed at the last successful     *)
(* crawl.                                                                  *)
InferredIsNew ==
  \A c \in Calls :
    pc[c] = "find" /\ ~HasDate(Item(c), title[c])
      => Published[Item(c)] > seen[c].success
=============================================================================
