----------------------------- MODULE DedupStore -----------------------------
(***************************************************************************)
(* DeduplicationEngine.check_and_save_record (crawler/deduplication.py),   *)
(* called by many worker coroutines of several crawler processes that      *)
(* share one database.  Each process has its own bounded memory sets; the  *)
(* database has a unique constraint on content_hash.  A coroutine may be   *)
(* suspended at every await: the SELECT, the commit and the rollback.      *)
(*                                                                         *)
(* A record stands for its content hash; UrlOf gives its URL hash.         *)
(***************************************************************************)
EXTENDS Naturals, FiniteSets

CONSTANTS
  Processes,   \* crawler processes
  Workers,     \* worker coroutines, of all processes
  ProcessOf,   \* the process of each worker
  Records,     \* content hashes
  UrlOf,       \* the URL hash of each record
  MaxMemory    \* _max_memory_entries

ASSUME DedupAssumption ==
  /\ ProcessOf \in [Workers -> Processes]
  /\ MaxMemory \in Nat \ {0}

VARIABLES
  db,          \* content hashes of the committed rows
  contentMem,  \* _seen_content_hashes of each process
  urlMem,      \* _seen_url_hashes of each process
  pc,          \* where each worker is in its call
  rec,         \* the record each worker was last called with
  answer,      \* what the call is about to return or has returned
  credited     \* how many calls returned True for each record (history)

vars == <<db, contentMem, urlMem, pc, rec, answer, credited>>

PC      == {"idle", "check", "select", "insert", "committed", "conflict",
            "broken", "return"}
Answers == {"none", "saved", "duplicate", "error"}
Urls    == {UrlOf[r] : r \in Records}

Init ==
  /\ db = {}
  /\ contentMem = [p \in Processes |-> {}]
  /\ urlMem = [p \in Processes |-> {}]
  /\ pc = [w \in Workers |-> "idle"]
  /\ rec \in [Workers -> Records]
  /\ answer = [w \in Workers |-> "none"]
  /\ credited = [r \in Records |-> 0]

-----------------------------------------------------------------------------
(* Faulty variant of the memory tier: it is emptied too late.              *)
MemoryFullLate(S) == Cardinality(S) > MaxMemory

MemoryFull(S) == Cardinality(S) >= MaxMemory

(* A full memory set is emptied before the hash is added.                  *)
Remember(S, h) == (IF MemoryFull(S) THEN {} ELSE S) \cup {h}

MarkContent(w) ==
  contentMem' = [contentMem EXCEPT ![ProcessOf[w]] = Remember(@, rec[w])]

MarkUrl(w) ==
  urlMem' = [urlMem EXCEPT ![ProcessOf[w]] = Remember(@, UrlOf[rec[w]])]

Goto(w, label) == pc' = [pc EXCEPT ![w] = label]

Answer(w, a) ==
  /\ answer' = [answer EXCEPT ![w] = a]
  /\ Goto(w, "return")

-----------------------------------------------------------------------------
(* The call.  Between two awaits a coroutine is not interrupted: the model *)
(* lets other coroutines run between the start of a call and its look at   *)
(* the memory set too, which only adds interleavings.                      *)

Call(w, r) ==
  /\ pc[w] = "idle"
  /\ rec' = [rec EXCEPT ![w] = r]
  /\ answer' = [answer EXCEPT ![w] = "none"]
  /\ Goto(w, "check")
  /\ UNCHANGED <<db, contentMem, urlMem, credited>>

CheckMemory(w) ==
  /\ pc[w] = "check"
  /\ \/ /\ rec[w] \in contentMem[ProcessOf[w]]
        /\ Answer(w, "duplicate")
     \/ /\ rec[w] \notin contentMem[ProcessOf[w]]
        /\ Goto(w, "select")
        /\ UNCHANGED answer
  /\ UNCHANGED <<db, contentMem, urlMem, rec, credited>>

(* The SELECT sees the committed rows.                                     *)
SelectExisting(w) ==
  /\ pc[w] = "select"
  /\ \/ /\ rec[w] \in db
        /\ MarkContent(w)
        /\ Answer(w, "duplicate")
     \/ /\ rec[w] \notin db
        /\ Goto(w, "insert")
        /\ UNCHANGED <<contentMem, answer>>
  /\ UNCHANGED <<db, urlMem, rec, credited>>

(* An error of the SELECT is not caught.                                   *)
SelectFails(w) ==
  /\ pc[w] = "select"
  /\ Answer(w, "error")
  /\ UNCHANGED <<db, contentMem, urlMem, rec, credited>>

ConstraintHolds(r) == r \notin db

(* The database commits the row, or refuses it because another worker, of  *)
(* this or another process, has committed the same hash since the SELECT.  *)
Commit(w) ==
  /\ pc[w] = "insert"
  /\ \/ /\ ConstraintHolds(rec[w])
        /\ db' = db \cup {rec[w]}
        /\ Goto(w, "committed")
     \/ /\ ~ConstraintHolds(rec[w])
        /\ Goto(w, "conflict")
        /\ UNCHANGED db
  /\ UNCHANGED <<contentMem, urlMem, rec, answer, credited>>

(* The commit raises anything else (a locked database, a lost connection): *)
(* the row may have reached the database all the same.                     *)
CommitFails(w) ==
  /\ pc[w] = "insert"
  /\ db' \in {db, db \cup {rec[w]}}
  /\ Goto(w, "broken")
  /\ UNCHANGED <<contentMem, urlMem, rec, answer, credited>>

(* The coroutine resumes after its commit.                                 *)
AfterCommit(w) ==
  /\ pc[w] = "committed"
  /\ MarkContent(w)
  /\ MarkUrl(w)
  /\ Answer(w, "saved")
  /\ UNCHANGED <<db, rec, credited>>

(* Faulty variant: a lost race is reported as a success.                   *)
AfterConflictClaims(w) ==
  /\ pc[w] = "conflict"
  /\ MarkContent(w)
  /\ Answer(w, "saved")
  /\ UNCHANGED <<db, urlMem, rec, credited>>

(* IntegrityError: rollback, remember the hash, answer False.              *)
AfterConflict(w) ==
  /\ pc[w] = "conflict"
  /\ MarkContent(w)
  /\ Answer(w, "duplicate")
  /\ UNCHANGED <<db, urlMem, rec, credited>>

(* Faulty variant: the hash of a failed insert is remembered.              *)
AfterFailureMarks(w) ==
  /\ pc[w] = "broken"
  /\ MarkContent(w)
  /\ Answer(w, "error")
  /\ UNCHANGED <<db, urlMem, rec, credited>>

(* Any other exception: rollback and raise.                                *)
AfterFailure(w) ==
  /\ pc[w] = "broken"
  /\ Answer(w, "error")
  /\ UNCHANGED <<db, contentMem, urlMem, rec, credited>>

(* The caller gets the answer.                                             *)
Return(w) ==
  /\ pc[w] = "return"
  /\ Goto(w, "idle")
  /\ credited' = [credited EXCEPT ![rec[w]] =
                    IF answer[w] = "saved" THEN @ + 1 ELSE @]
  /\ UNCHANGED <<db, contentMem, urlMem, rec, answer>>

(* A process dies and is started again: the memory sets are gone, calls    *)
(* under way never return, a commit that has reached the database stays.   *)
Crash(p) ==
  /\ contentMem' = [contentMem EXCEPT ![p] = {}]
  /\ urlMem' = [urlMem EXCEPT ![p] = {}]
  /\ pc' = [w \in Workers |-> IF ProcessOf[w] = p THEN "idle" ELSE pc[w]]
  /\ UNCHANGED <<db, rec, answer, credited>>

Step(w) ==
  \/ CheckMemory(w) \/ SelectExisting(w) \/ SelectFails(w) \/ Commit(w)
  \/ CommitFails(w) \/ AfterCommit(w) \/ AfterConflict(w) \/ AfterFailure(w)
  \/ Return(w)

Next ==
  \/ \E w \in Workers : Step(w) \/ \E r \in Records : Call(w, r)
  \/ \E p \in Processes : Crash(p)

Spec == Init /\ [][Next]_vars

-----------------------------------------------------------------------------
(* Properties *)

TypeOK ==
  /\ db \in SUBSET Records
  /\ contentMem \in [Processes -> SUBSET Records]
  /\ urlMem \in [Processes -> SUBSET Urls]
  /\ pc \in [Workers -> PC]
  /\ rec \in [Workers -> Records]
  /\ answer \in [Workers -> Answers]
  /\ credited \in [Records -> Nat]

(* The memory tier never turns away a record that is not stored: every     *)
(* remembered hash is committed, through failed commits, lost races,       *)
(* evictions and crashes.                                                  *)
MemoryBackedByDb == \A p \in Processes : contentMem[p] \subseteq db

(* Whichever workers of whichever processes race for it, a record is       *)
(* reported as newly saved at most once.                                   *)
SavedOnce == \A r \in Records : credited[r] <= 1

(* "saved" and "duplicate" are only answered for a record that is stored.  *)
AnswerMeansStored ==
  \A w \in Workers :
    pc[w] = "return" /\ answer[w] \in {"saved", "duplicate"} => rec[w] \in db

(* The calls that will or did report a record saved: at most one of them,  *)
(* and only of a stored record.                                            *)
Claims(w, r) ==
  /\ rec[w] = r
  /\ pc[w] = "committed" \/ (pc[w] = "return" /\ answer[w] = "saved")

OneClaim ==
  /\ \A r \in Records : credited[r] > 0 => r \in db
  /\ \A w \in Workers : Claims(w, rec[w]) => rec[w] \in db /\ credited[rec[w]] = 0
  /\ \A v, w \in Workers : Claims(v, rec[v]) /\ Claims(w, rec[w]) /\ rec[v] = rec[w]
       => v = w

LostRaceIsStored ==
  \A w \in Workers : pc[w] = "conflict" => rec[w] \in db

DedupInv ==
  /\ TypeOK /\ MemoryBackedByDb /\ SavedOnce /\ AnswerMeansStored
  /\ OneClaim /\ LostRaceIsStored

(* Both memory sets of every process stay within their bound.              *)
MemoryBounded ==
  \A p \in Processes : /\ Cardinality(contentMem[p]) <= MaxMemory
                       /\ Cardinality(urlMem[p]) <= MaxMemory

(* check_and_save_record, in any number of calls, processes and crashes:   *)
(* a record is reported saved once and is stored when it is, what is       *)
(* remembered is stored, and the memory sets, which are emptied whenever   *)
(* they are full, never outgrow their bound.                               *)
StoreInv == DedupInv /\ MemoryBounded

(* "Atomically saves record to DB if unique": a call is one atomic step of *)
(* UniqueStore, although it awaits the database up to three times.         *)
CallOf(w) ==
  CASE pc[w] = "idle" -> [phase |-> "idle"]
    [] pc[w] \in {"check", "select", "insert", "conflict"} ->
         [phase |-> "pending", record |-> rec[w]]
    [] pc[w] = "committed" -> [phase |-> "decided", record |-> rec[w], answer |-> "saved"]
    [] pc[w] = "broken" -> [phase |-> "decided", record |-> rec[w], answer |-> "error"]
    [] pc[w] = "return" -> [phase |-> "decided", record |-> rec[w], answer |-> answer[w]]

AbstractCall == [w \in Workers |-> CallOf(w)]

Store == INSTANCE UniqueStore WITH stored <- db, call <- AbstractCall

ImplementsUniqueStore == Store!Spec
=============================================================================
