-------------------------- MODULE DedupStoreProofs --------------------------
(***************************************************************************)
(* Proofs about DedupStore, for any number of processes, workers and       *)
(* records: DedupInv is inductive, and the store implements UniqueStore.   *)
(***************************************************************************)
EXTENDS DedupStore, FiniteSetTheorems, TLAPS

(* Adding to a memory set never brings in more than the hash added.        *)
LEMMA RememberFact ==
  ASSUME NEW S, NEW h
  PROVE  Remember(S, h) \subseteq S \cup {h}
  BY DEF Remember

LEMMA InitInv == Init => DedupInv
  BY DedupAssumption
  DEF Init, DedupInv, TypeOK, MemoryBackedByDb, SavedOnce, AnswerMeansStored,
      OneClaim, LostRaceIsStored, Claims, PC, Answers, Urls

(* Marking a stored record keeps every memory set typed and stored.        *)
LEMMA MarkContentKeeps ==
  ASSUME TypeOK, MemoryBackedByDb, NEW w \in Workers, MarkContent(w),
         rec[w] \in db, db' = db
  PROVE  /\ contentMem' \in [Processes -> SUBSET Records]
         /\ \A p \in Processes : contentMem'[p] \subseteq db
  <1>1. /\ ProcessOf[w] \in Processes
        /\ rec[w] \in Records
    BY DedupAssumption DEF TypeOK
  <1>2. Remember(contentMem[ProcessOf[w]], rec[w])
          \subseteq contentMem[ProcessOf[w]] \cup {rec[w]}
    BY RememberFact
  <1> QED
    BY <1>1, <1>2 DEF MarkContent, TypeOK, MemoryBackedByDb

LEMMA MarkUrlKeeps ==
  ASSUME TypeOK, NEW w \in Workers, MarkUrl(w)
  PROVE  urlMem' \in [Processes -> SUBSET Urls]
  <1>1. /\ ProcessOf[w] \in Processes
        /\ UrlOf[rec[w]] \in Urls
    BY DedupAssumption DEF TypeOK, Urls
  <1>2. Remember(urlMem[ProcessOf[w]], UrlOf[rec[w]])
          \subseteq urlMem[ProcessOf[w]] \cup {UrlOf[rec[w]]}
    BY RememberFact
  <1> QED
    BY <1>1, <1>2 DEF MarkUrl, TypeOK

-----------------------------------------------------------------------------
(* One lemma per action: each preserves DedupInv. *)

(* A call takes no claim. *)
LEMMA CallInv ==
  ASSUME DedupInv, NEW w \in Workers, NEW r \in Records, Call(w, r)
  PROVE  DedupInv'
  BY DEF Call, DedupInv, TypeOK, MemoryBackedByDb, SavedOnce, AnswerMeansStored, OneClaim,
      LostRaceIsStored, Claims, Goto, Answer, PC, Answers

(* A remembered hash is stored. *)
LEMMA CheckMemoryInv ==
  ASSUME DedupInv, NEW w \in Workers, CheckMemory(w)
  PROVE  DedupInv'
  BY DedupAssumption DEF CheckMemory, DedupInv, TypeOK, MemoryBackedByDb, SavedOnce, AnswerMeansStored, OneClaim,
      LostRaceIsStored, Claims, Goto, Answer, PC, Answers

(* A row found by the SELECT is stored, and may be remembered. *)
LEMMA SelectExistingInv ==
  ASSUME DedupInv, NEW w \in Workers, SelectExisting(w)
  PROVE  DedupInv'
  <1>1. CASE rec[w] \in db /\ MarkContent(w) /\ Answer(w, "duplicate")
    <2>1. /\ contentMem' \in [Processes -> SUBSET Records]
          /\ \A p \in Processes : contentMem'[p] \subseteq db
      BY <1>1, MarkContentKeeps DEF SelectExisting, DedupInv
    <2> QED
      BY <1>1, <2>1
      DEF SelectExisting, DedupInv, TypeOK, MemoryBackedByDb, SavedOnce, AnswerMeansStored, OneClaim,
          LostRaceIsStored, Claims, Goto, Answer, PC, Answers
  <1>2. CASE rec[w] \notin db /\ Goto(w, "insert") /\ UNCHANGED <<contentMem, answer>>
    BY <1>2
    DEF SelectExisting, DedupInv, TypeOK, MemoryBackedByDb, SavedOnce, AnswerMeansStored, OneClaim,
          LostRaceIsStored, Claims, Goto, Answer, PC, Answers
  <1> QED
    BY <1>1, <1>2 DEF SelectExisting

(* A failed SELECT claims nothing. *)
LEMMA SelectFailsInv ==
  ASSUME DedupInv, NEW w \in Workers, SelectFails(w)
  PROVE  DedupInv'
  BY DEF SelectFails, DedupInv, TypeOK, MemoryBackedByDb, SavedOnce, AnswerMeansStored, OneClaim,
      LostRaceIsStored, Claims, Goto, Answer, PC, Answers

(* The constraint lets a row in that nobody claims. *)
LEMMA CommitInv ==
  ASSUME DedupInv, NEW w \in Workers, Commit(w)
  PROVE  DedupInv'
  BY DEF Commit, ConstraintHolds, DedupInv, TypeOK, MemoryBackedByDb, SavedOnce, AnswerMeansStored, OneClaim,
      LostRaceIsStored, Claims, Goto, Answer, PC, Answers

(* A row of unknown fate is claimed by nobody. *)
LEMMA CommitFailsInv ==
  ASSUME DedupInv, NEW w \in Workers, CommitFails(w)
  PROVE  DedupInv'
  BY DEF CommitFails, DedupInv, TypeOK, MemoryBackedByDb, SavedOnce, AnswerMeansStored, OneClaim,
      LostRaceIsStored, Claims, Goto, Answer, PC, Answers

(* The hash of a committed row may be remembered. *)
LEMMA AfterCommitInv ==
  ASSUME DedupInv, NEW w \in Workers, AfterCommit(w)
  PROVE  DedupInv'
  <1>1. rec[w] \in db
    BY DEF AfterCommit, DedupInv, OneClaim, Claims
  <1>2. /\ contentMem' \in [Processes -> SUBSET Records]
        /\ \A p \in Processes : contentMem'[p] \subseteq db
    BY <1>1, MarkContentKeeps DEF AfterCommit, DedupInv
  <1>3. urlMem' \in [Processes -> SUBSET Urls]
    BY MarkUrlKeeps DEF AfterCommit, DedupInv
  <1> QED
    BY <1>1, <1>2, <1>3
    DEF AfterCommit, DedupInv, TypeOK, MemoryBackedByDb, SavedOnce, AnswerMeansStored, OneClaim,
        LostRaceIsStored, Claims, Goto, Answer, PC, Answers

(* So may the hash that lost the race: its winner stored it. *)
LEMMA AfterConflictInv ==
  ASSUME DedupInv, NEW w \in Workers, AfterConflict(w)
  PROVE  DedupInv'
  <1>1. rec[w] \in db
    BY DEF AfterConflict, DedupInv, LostRaceIsStored
  <1>2. /\ contentMem' \in [Processes -> SUBSET Records]
        /\ \A p \in Processes : contentMem'[p] \subseteq db
    BY <1>1, MarkContentKeeps DEF AfterConflict, DedupInv
  <1> QED
    BY <1>1, <1>2
    DEF AfterConflict, DedupInv, TypeOK, MemoryBackedByDb, SavedOnce, AnswerMeansStored, OneClaim,
        LostRaceIsStored, Claims, Goto, Answer, PC, Answers

(* A failed insert claims and remembers nothing. *)
LEMMA AfterFailureInv ==
  ASSUME DedupInv, NEW w \in Workers, AfterFailure(w)
  PROVE  DedupInv'
  BY DEF AfterFailure, DedupInv, TypeOK, MemoryBackedByDb, SavedOnce, AnswerMeansStored, OneClaim,
      LostRaceIsStored, Claims, Goto, Answer, PC, Answers

(* A claim is cashed in once. *)
LEMMA ReturnInv ==
  ASSUME DedupInv, NEW w \in Workers, Return(w)
  PROVE  DedupInv'
  BY DEF Return, DedupInv, TypeOK, MemoryBackedByDb, SavedOnce, AnswerMeansStored, OneClaim,
      LostRaceIsStored, Claims, Goto, Answer, PC, Answers

(* A crash forgets hashes and drops claims. *)
LEMMA CrashInv ==
  ASSUME DedupInv, NEW p \in Processes, Crash(p)
  PROVE  DedupInv'
  BY DEF Crash, DedupInv, TypeOK, MemoryBackedByDb, SavedOnce, AnswerMeansStored, OneClaim,
        LostRaceIsStored, Claims, Goto, Answer, PC, Answers

LEMMA StutterInv ==
  ASSUME DedupInv, UNCHANGED vars
  PROVE  DedupInv'
  BY DEF vars, DedupInv, TypeOK, MemoryBackedByDb, SavedOnce, AnswerMeansStored, OneClaim,
        LostRaceIsStored, Claims, Goto, Answer, PC, Answers

(* DedupInv, whatever the number of processes, workers and records and     *)
(* however their calls, failures and crashes interleave.                   *)
THEOREM DedupInvariant == Spec => []DedupInv
  <1>1. DedupInv /\ [Next]_vars => DedupInv'
    <2> SUFFICES ASSUME DedupInv, [Next]_vars
                 PROVE  DedupInv'
      OBVIOUS
    <2>1. ASSUME NEW w \in Workers, Step(w)
          PROVE  DedupInv'
      BY <2>1, CheckMemoryInv, SelectExistingInv, SelectFailsInv, CommitInv,
         CommitFailsInv, AfterCommitInv, AfterConflictInv, AfterFailureInv,
         ReturnInv DEF Step
    <2>2. ASSUME NEW w \in Workers, NEW r \in Records, Call(w, r)
          PROVE  DedupInv'
      BY <2>2, CallInv
    <2>3. ASSUME NEW p \in Processes, Crash(p)
          PROVE  DedupInv'
      BY <2>3, CrashInv
    <2>4. CASE UNCHANGED vars
      BY <2>4, StutterInv
    <2> QED
      BY <2>1, <2>2, <2>3, <2>4 DEF Next
  <1> QED
    BY <1>1, InitInv, PTL DEF Spec

(* The memory tier turns away no record that is not stored.                *)
COROLLARY MemoryBacked == Spec => []MemoryBackedByDb
  BY DedupInvariant, PTL DEF DedupInv

(* A record is reported as newly saved at most once by all processes.      *)
COROLLARY ClaimedOnce == Spec => []SavedOnce
  BY DedupInvariant, PTL DEF DedupInv

-----------------------------------------------------------------------------
(* The bound of the memory sets *)

Small(S) == IsFiniteSet(S) /\ Cardinality(S) <= MaxMemory

BoundedInv ==
  \A p \in Processes : Small(contentMem[p]) /\ Small(urlMem[p])

LEMMA RememberSmall ==
  ASSUME NEW S, NEW h, Small(S)
  PROVE  Small(Remember(S, h))
  <1>1. Cardinality(S) \in Nat /\ MaxMemory \in Nat \ {0}
    BY FS_CardinalityType, DedupAssumption DEF Small
  <1>2. CASE MemoryFull(S)
    <2>1. Remember(S, h) = {h}
      BY <1>2 DEF Remember
    <2>2. IsFiniteSet({h}) /\ Cardinality({h}) = 1
      BY FS_Singleton
    <2> QED
      BY <1>1, <2>1, <2>2 DEF Small
  <1>3. CASE ~MemoryFull(S)
    <2>1. Remember(S, h) = S \cup {h}
      BY <1>3 DEF Remember
    <2>2. /\ IsFiniteSet(S \cup {h})
          /\ Cardinality(S \cup {h}) = Cardinality(S)
               \/ Cardinality(S \cup {h}) = Cardinality(S) + 1
      BY FS_AddElement DEF Small
    <2> QED
      BY <1>1, <1>3, <2>1, <2>2 DEF Small, MemoryFull
  <1> QED
    BY <1>2, <1>3

LEMMA MarkContentSmall ==
  ASSUME TypeOK, BoundedInv, NEW w \in Workers, MarkContent(w)
  PROVE  \A p \in Processes : Small(contentMem'[p])
  BY RememberSmall, DedupAssumption DEF TypeOK, BoundedInv, MarkContent

LEMMA MarkUrlSmall ==
  ASSUME TypeOK, BoundedInv, NEW w \in Workers, MarkUrl(w)
  PROVE  \A p \in Processes : Small(urlMem'[p])
  BY RememberSmall, DedupAssumption DEF TypeOK, BoundedInv, MarkUrl

(* A step marks memory sets, empties them, or leaves them alone.           *)
LEMMA BoundedStep ==
  ASSUME TypeOK, BoundedInv, [Next]_vars
  PROVE  BoundedInv'
  <1>1. ASSUME UNCHANGED contentMem PROVE \A p \in Processes : Small(contentMem'[p])
    BY <1>1 DEF BoundedInv
  <1>2. ASSUME UNCHANGED urlMem PROVE \A p \in Processes : Small(urlMem'[p])
    BY <1>2 DEF BoundedInv
  <1>3. ASSUME NEW w \in Workers, Step(w)
        PROVE  /\ UNCHANGED contentMem \/ MarkContent(w)
               /\ UNCHANGED urlMem \/ MarkUrl(w)
    BY <1>3 DEF Step, CheckMemory, SelectExisting, SelectFails, Commit,
       CommitFails, AfterCommit, AfterConflict, AfterFailure, Return
  <1>4. ASSUME NEW p \in Processes, Crash(p)
        PROVE  BoundedInv'
    <2>1. Small({})
      BY FS_EmptySet, DedupAssumption DEF Small
    <2> QED
      BY <1>4, <2>1 DEF BoundedInv, Crash, TypeOK
  <1>5. ASSUME NEW w \in Workers, NEW r \in Records, Call(w, r)
        PROVE  UNCHANGED <<contentMem, urlMem>>
    BY <1>5 DEF Call
  <1>6. CASE UNCHANGED vars
    BY <1>6 DEF vars, BoundedInv
  <1> QED
    BY <1>1, <1>2, <1>3, <1>4, <1>5, <1>6, MarkContentSmall, MarkUrlSmall
    DEF Next, BoundedInv

(* Neither memory set of any process ever exceeds its bound.               *)
THEOREM BoundedMemory == Spec => []MemoryBounded
  <1>1. Init => BoundedInv
    BY FS_EmptySet, DedupAssumption DEF Init, BoundedInv, Small
  <1>2. BoundedInv => MemoryBounded
    BY DEF BoundedInv, MemoryBounded, Small
  <1>3. DedupInv => TypeOK
    BY DEF DedupInv
  <1> QED
    BY <1>1, <1>2, <1>3, BoundedStep, DedupInvariant, PTL DEF Spec

(* The store, whatever its size and the number of its processes: one claim *)
(* for a record, nothing remembered that is not stored, within its bounds. *)
THEOREM StoreInvariant == Spec => []StoreInv
  BY DedupInvariant, BoundedMemory, PTL DEF StoreInv

-----------------------------------------------------------------------------
(* Refinement *)

LEMMA OneCallChanges ==
  ASSUME TypeOK, NEW w \in Workers, NEW X, CallOf(w)' = X,
         \A v \in Workers \ {w} : /\ pc'[v] = pc[v]
                                  /\ rec'[v] = rec[v]
                                  /\ answer'[v] = answer[v]
  PROVE  AbstractCall' = [AbstractCall EXCEPT ![w] = X]
  <1>1. ASSUME NEW v \in Workers \ {w} PROVE CallOf(v)' = CallOf(v)
    BY <1>1 DEF CallOf
  <1> QED
    BY <1>1 DEF AbstractCall

LEMMA NoCallChanges ==
  ASSUME NEW w \in Workers, CallOf(w)' = CallOf(w),
         \A v \in Workers \ {w} : /\ pc'[v] = pc[v]
                                  /\ rec'[v] = rec[v]
                                  /\ answer'[v] = answer[v]
  PROVE  UNCHANGED AbstractCall
  <1>1. ASSUME NEW v \in Workers \ {w} PROVE CallOf(v)' = CallOf(v)
    BY <1>1 DEF CallOf
  <1> QED
    BY <1>1 DEF AbstractCall

LEMMA CallRefines ==
  ASSUME DedupInv, NEW w \in Workers, NEW r \in Records, Call(w, r)
  PROVE  Store!Invoke(w, r)
  <1>0. TypeOK
    BY DEF DedupInv
  <1>1. CallOf(w)' = Store!Pending(r)
    BY <1>0 DEF Call, Goto, CallOf, TypeOK, Store!Pending
  <1>2. AbstractCall' = [AbstractCall EXCEPT ![w] = Store!Pending(r)]
    BY <1>0, <1>1, OneCallChanges DEF Call, Goto, TypeOK
  <1>3. AbstractCall[w] = Store!Idle
    BY DEF AbstractCall, CallOf, Call, Store!Idle
  <1> QED
    BY <1>2, <1>3 DEF Store!Invoke, Call

(* A pending call is decided: the abstract step that decides it.           *)
LEMMA Deciding ==
  ASSUME TypeOK, NEW w \in Workers, NEW ans,
         pc[w] \in {"check", "select", "insert", "conflict"},
         CallOf(w)' = Store!Decided(rec[w], ans),
         \A v \in Workers \ {w} : /\ pc'[v] = pc[v]
                                  /\ rec'[v] = rec[v]
                                  /\ answer'[v] = answer[v]
  PROVE  /\ AbstractCall[w] = Store!Pending(rec[w])
         /\ AbstractCall' = [AbstractCall EXCEPT ![w] = Store!Decided(rec[w], ans)]
  <1>1. AbstractCall[w] = Store!Pending(rec[w])
    BY DEF AbstractCall, CallOf, Store!Pending
  <1> QED
    BY <1>1, OneCallChanges

(* Every step of a worker is an abstract step of its call, or invisible.   *)
LEMMA StepRefines ==
  ASSUME DedupInv, NEW w \in Workers, Step(w)
  PROVE  \/ Store!Return(w)
         \/ \E r \in Records : Store!Save(w, r) \/ Store!Refuse(w, r) \/ Store!Fail(w, r)
         \/ UNCHANGED <<db, AbstractCall>>
  <1>0. TypeOK /\ rec[w] \in Records
    BY DEF DedupInv, TypeOK
  <1>1. CASE CheckMemory(w)
    <2>1. CASE rec[w] \in contentMem[ProcessOf[w]] /\ Answer(w, "duplicate")
      <3>1. rec[w] \in db
        BY <2>1, DedupAssumption DEF DedupInv, MemoryBackedByDb
      <3>2. CallOf(w)' = Store!Decided(rec[w], "duplicate")
        BY <1>0, <1>1, <2>1
        DEF CheckMemory, Answer, Goto, CallOf, TypeOK, Store!Decided
      <3>3. Store!Refuse(w, rec[w])
        BY <1>0, <1>1, <2>1, <3>1, <3>2, Deciding
        DEF CheckMemory, Answer, Goto, TypeOK, Store!Refuse
      <3> QED
        BY <1>0, <3>3
    <2>2. CASE Goto(w, "select") /\ UNCHANGED answer
      <3>1. CallOf(w)' = CallOf(w)
        BY <1>0, <1>1, <2>2 DEF CheckMemory, Goto, CallOf, TypeOK
      <3> QED
        BY <1>0, <1>1, <2>2, <3>1, NoCallChanges DEF CheckMemory, Goto, TypeOK
    <2> QED
      BY <1>1, <2>1, <2>2 DEF CheckMemory
  <1>2. CASE SelectExisting(w)
    <2>1. CASE rec[w] \in db /\ MarkContent(w) /\ Answer(w, "duplicate")
      <3>1. CallOf(w)' = Store!Decided(rec[w], "duplicate")
        BY <1>0, <1>2, <2>1
        DEF SelectExisting, Answer, Goto, CallOf, TypeOK, Store!Decided
      <3>2. Store!Refuse(w, rec[w])
        BY <1>0, <1>2, <2>1, <3>1, Deciding
        DEF SelectExisting, Answer, Goto, TypeOK, Store!Refuse
      <3> QED
        BY <1>0, <3>2
    <2>2. CASE Goto(w, "insert") /\ UNCHANGED <<contentMem, answer>>
      <3>1. CallOf(w)' = CallOf(w)
        BY <1>0, <1>2, <2>2 DEF SelectExisting, Goto, CallOf, TypeOK
      <3> QED
        BY <1>0, <1>2, <2>2, <3>1, NoCallChanges DEF SelectExisting, Goto, TypeOK
    <2> QED
      BY <1>2, <2>1, <2>2 DEF SelectExisting
  <1>3. CASE SelectFails(w)
    <2>1. CallOf(w)' = Store!Decided(rec[w], "error")
      BY <1>0, <1>3
      DEF SelectFails, Answer, Goto, CallOf, TypeOK, Store!Decided
    <2>2. Store!Fail(w, rec[w])
      BY <1>0, <1>3, <2>1, Deciding
      DEF SelectFails, Answer, Goto, TypeOK, Store!Fail
    <2> QED
      BY <1>0, <2>2
  <1>4. CASE Commit(w)
    <2>1. CASE /\ ConstraintHolds(rec[w])
               /\ db' = db \cup {rec[w]}
               /\ Goto(w, "committed")
      <3>1. CallOf(w)' = Store!Decided(rec[w], "saved")
        BY <1>0, <1>4, <2>1 DEF Commit, Goto, CallOf, TypeOK, Store!Decided
      <3>2. Store!Save(w, rec[w])
        BY <1>0, <1>4, <2>1, <3>1, Deciding
        DEF Commit, Goto, TypeOK, ConstraintHolds, Store!Save
      <3> QED
        BY <1>0, <3>2
    <2>2. CASE Goto(w, "conflict") /\ UNCHANGED db
      <3>1. CallOf(w)' = CallOf(w)
        BY <1>0, <1>4, <2>2 DEF Commit, Goto, CallOf, TypeOK
      <3> QED
        BY <1>0, <1>4, <2>2, <3>1, NoCallChanges DEF Commit, Goto, TypeOK
    <2> QED
      BY <1>4, <2>1, <2>2 DEF Commit
  <1>5. CASE CommitFails(w)
    <2>1. CallOf(w)' = Store!Decided(rec[w], "error")
      BY <1>0, <1>5 DEF CommitFails, Goto, CallOf, TypeOK, Store!Decided
    <2>2. Store!Fail(w, rec[w])
      BY <1>0, <1>5, <2>1, Deciding DEF CommitFails, Goto, TypeOK, Store!Fail
    <2> QED
      BY <1>0, <2>2
  <1>6. CASE AfterCommit(w)
    <2>1. CallOf(w)' = CallOf(w)
      BY <1>0, <1>6 DEF AfterCommit, Answer, Goto, CallOf, TypeOK
    <2> QED
      BY <1>0, <1>6, <2>1, NoCallChanges DEF AfterCommit, Answer, Goto, TypeOK
  <1>7. CASE AfterConflict(w)
    <2>1. CallOf(w)' = Store!Decided(rec[w], "duplicate")
      BY <1>0, <1>7
      DEF AfterConflict, Answer, Goto, CallOf, TypeOK, Store!Decided
    <2>2. rec[w] \in db
      BY <1>7 DEF AfterConflict, DedupInv, LostRaceIsStored
    <2>3. Store!Refuse(w, rec[w])
      BY <1>0, <1>7, <2>1, <2>2, Deciding
      DEF AfterConflict, Answer, Goto, TypeOK, Store!Refuse
    <2> QED
      BY <1>0, <2>3
  <1>8. CASE AfterFailure(w)
    <2>1. CallOf(w)' = CallOf(w)
      BY <1>0, <1>8 DEF AfterFailure, Answer, Goto, CallOf, TypeOK
    <2> QED
      BY <1>0, <1>8, <2>1, NoCallChanges DEF AfterFailure, Answer, Goto, TypeOK
  <1>9. CASE Return(w)
    <2>1. CallOf(w)' = Store!Idle
      BY <1>0, <1>9 DEF Return, Goto, CallOf, TypeOK, Store!Idle
    <2>2. AbstractCall' = [AbstractCall EXCEPT ![w] = Store!Idle]
      BY <1>0, <1>9, <2>1, OneCallChanges DEF Return, Goto, TypeOK
    <2>3. AbstractCall[w].phase = "decided"
      BY <1>9 DEF Return, AbstractCall, CallOf
    <2> QED
      BY <1>9, <2>2, <2>3 DEF Return, Store!Return
  <1> QED
    BY <1>1, <1>2, <1>3, <1>4, <1>5, <1>6, <1>7, <1>8, <1>9 DEF Step

LEMMA CrashRefines ==
  ASSUME DedupInv, NEW p \in Processes, Crash(p)
  PROVE  \E S \in SUBSET Workers : Store!Crash(S)
  <1> DEFINE S == {w \in Workers : ProcessOf[w] = p}
  <1>1. ASSUME NEW w \in Workers
        PROVE  AbstractCall'[w] = IF w \in S THEN Store!Idle ELSE AbstractCall[w]
    <2>1. CASE w \in S
      <3>1. pc'[w] = "idle"
        BY <2>1 DEF Crash
      <3> QED
        BY <2>1, <3>1 DEF AbstractCall, CallOf, Store!Idle
    <2>2. CASE w \notin S
      <3>1. pc'[w] = pc[w] /\ rec'[w] = rec[w] /\ answer'[w] = answer[w]
        BY <2>2 DEF Crash
      <3>2. CallOf(w)' = CallOf(w)
        BY <3>1 DEF CallOf
      <3> QED
        BY <2>2, <3>2 DEF AbstractCall
    <2> QED
      BY <2>1, <2>2
  <1>2. AbstractCall' =
          [w \in Workers |-> IF w \in S THEN Store!Idle ELSE AbstractCall[w]]
    BY <1>1 DEF AbstractCall
  <1>3. Store!Crash(S)
    BY <1>2 DEF Crash, Store!Crash
  <1> QED
    BY <1>3

(* check_and_save_record behaves as one atomic step of UniqueStore, for    *)
(* any number of processes, workers and records.                           *)
THEOREM Refinement == Spec => ImplementsUniqueStore
  <1>1. Init => Store!Init
    BY DEF Init, Store!Init, AbstractCall, CallOf, Store!Idle
  <1>2. DedupInv /\ [Next]_vars => [Store!Next]_<<db, AbstractCall>>
    <2> SUFFICES ASSUME DedupInv, [Next]_vars
                 PROVE  [Store!Next]_<<db, AbstractCall>>
      OBVIOUS
    <2>1. ASSUME NEW w \in Workers, Step(w)
          PROVE  [Store!Next]_<<db, AbstractCall>>
      BY <2>1, StepRefines DEF Store!Next
    <2>2. ASSUME NEW w \in Workers, NEW r \in Records, Call(w, r)
          PROVE  Store!Next
      BY <2>2, CallRefines DEF Store!Next
    <2>3. ASSUME NEW p \in Processes, Crash(p)
          PROVE  Store!Next
      BY <2>3, CrashRefines DEF Store!Next
    <2>4. CASE UNCHANGED vars
      BY <2>4 DEF vars, AbstractCall, CallOf
    <2> QED
      BY <2>1, <2>2, <2>3, <2>4 DEF Next
  <1> QED
    BY <1>1, <1>2, DedupInvariant, PTL DEF Spec, ImplementsUniqueStore, Store!Spec

=============================================================================
