------------------------- MODULE PoliteFetchProofs -------------------------
(***************************************************************************)
(* Proofs about PoliteFetch, for any requests, domains, numbers of slots,  *)
(* delays and answers of the servers.                                      *)
(***************************************************************************)
EXTENDS PoliteFetch, FiniteSetTheorems, TLAPS

-----------------------------------------------------------------------------
(* Counting the requests that hold a slot *)

Of(d) == {r \in Requests : DomainOf[r] = d}

LEMMA CountsAreNumbers ==
  ASSUME NEW A \in SUBSET Requests
  PROVE  IsFiniteSet(A) /\ Cardinality(A) \in Nat
  BY PoliteAssumption, FS_Subset, FS_CardinalityType

LEMMA OneMore ==
  ASSUME NEW A \in SUBSET Requests, NEW r \in Requests, r \notin A
  PROVE  Cardinality(A \cup {r}) = Cardinality(A) + 1
  BY CountsAreNumbers, FS_AddElement

LEMMA OneLess ==
  ASSUME NEW A \in SUBSET Requests, NEW r \in A
  PROVE  Cardinality(A \ {r}) = Cardinality(A) - 1
  BY CountsAreNumbers, FS_RemoveElement

(* A step that moves no request in or out leaves the slots as they are.    *)
LEMMA SameSlots ==
  ASSUME SlotsConserved, UNCHANGED slotVars,
         \A r \in Requests : pc'[r] \in Holding <=> pc[r] \in Holding,
         \A r \in Requests : pc'[r] \in Queued <=> pc[r] \in Queued
  PROVE  SlotsConserved'
  <1>1. Having(Holding)' = Having(Holding) /\ Having(Queued)' = Having(Queued)
    BY DEF Having, Holding, Queued
  <1> QED
    BY <1>1 DEF SlotsConserved, slotVars

(* A request that has an answer gives back both of its slots.              *)
LEMMA BothReleased ==
  ASSUME TypeOK, SlotsConserved, NEW r \in Requests, pc[r] = "sent",
         NEW label \in PC \ Holding, Goto(r, label), Release(r)
  PROVE  SlotsConserved'
  <1> DEFINE d == DomainOf[r]
             held(e) == {q \in Having(Queued) : DomainOf[q] = e}
  <1>1. d \in Domains
    BY PoliteAssumption
  <1>2. r \in Having(Holding) /\ r \in held(d)
    BY DEF Having, Holding, Queued
  <1>3. Having(Holding)' = Having(Holding) \ {r} /\ Having(Queued)' = Having(Queued) \ {r}
    BY DEF Having, Holding, Queued, Goto, TypeOK
  <1>4. held(d)' = held(d) \ {r}
    BY <1>3
  <1>5. \A e \in Domains \ {d} : held(e)' = held(e)
    BY <1>3
  <1>6. Having(Holding) \in SUBSET Requests /\ \A e : held(e) \in SUBSET Requests
    BY DEF Having
  <1>7. /\ Cardinality(Having(Holding)') = Cardinality(Having(Holding)) - 1
        /\ Cardinality(Having(Holding)) \in Nat
    BY <1>2, <1>3, <1>6, OneLess, CountsAreNumbers
  <1>8. /\ Cardinality(held(d)') = Cardinality(held(d)) - 1
        /\ \A e : Cardinality(held(e)) \in Nat
    BY <1>2, <1>4, <1>6, OneLess, CountsAreNumbers
  <1>9. free' + Cardinality(Having(Holding)') = GlobalSlots
    BY <1>7, PoliteAssumption DEF SlotsConserved, Release, TypeOK
  <1>10. ASSUME NEW e \in Domains
         PROVE  domainFree'[e] + Cardinality(held(e)') = DomainSlots
    <2>1. domainFree[e] + Cardinality(held(e)) = DomainSlots /\ domainFree[e] \in Nat
      BY DEF SlotsConserved, TypeOK
    <2>2. CASE e = d
      <3>1. domainFree'[e] = domainFree[e] + 1
        BY <2>2 DEF Release, TypeOK
      <3> HIDE DEF held
      <3> QED
        BY <2>1, <2>2, <3>1, <1>8
    <2>3. CASE e # d
      <3>1. domainFree'[e] = domainFree[e]
        BY <2>3 DEF Release, TypeOK
      <3> QED
        BY <2>1, <2>3, <3>1, <1>5
    <2> QED
      BY <2>2, <2>3
  <1> QED
    BY <1>9, <1>10 DEF SlotsConserved

-----------------------------------------------------------------------------
(* The invariant, action by action *)

LEMMA InitInv == Init => FetchInv
  <1> SUFFICES ASSUME Init
               PROVE  FetchInv
    OBVIOUS
  <1>1. TypeOK
    BY PoliteAssumption DEF Init, TypeOK, PC
  <1>2. Having(Holding) = {} /\ Having(Queued) = {}
    BY DEF Init, Having, Holding, Queued
  <1>3. SlotsConserved
    <2>1. Cardinality({}) = 0
      BY FS_EmptySet
    <2>2. \A d \in Domains : {r \in Having(Queued) : DomainOf[r] = d} = {}
      BY <1>2
    <2> QED
      BY <1>2, <2>1, <2>2, PoliteAssumption DEF SlotsConserved, Init
  <1>4. LockHeldAsleep
    BY PoliteAssumption DEF Init, LockHeldAsleep, Locking
  <1>5. DelayIsLongEnough
    BY DEF Init, DelayIsLongEnough
  <1>6. BudgetKept
    BY PoliteAssumption DEF Init, BudgetKept
  <1> QED
    BY <1>1, <1>3, <1>4, <1>5, <1>6 DEF FetchInv

LEMMA LaunchInv ==
  ASSUME FetchInv, NEW r \in Requests, Launch(r)
  PROVE  FetchInv'
  <1> USE DEF FetchInv, Launch, Goto, slotVars, rateVars
  <1>1. TypeOK'
    BY DEF TypeOK, PC
  <1>2. SlotsConserved'
    BY SameSlots DEF TypeOK, Holding, Queued
  <1>3. LockHeldAsleep'
    BY DEF TypeOK, LockHeldAsleep, Locking
  <1>4. DelayIsLongEnough' /\ BudgetKept'
    BY DEF TypeOK, DelayIsLongEnough, BudgetKept, Ended
  <1> QED
    BY <1>1, <1>2, <1>3, <1>4

LEMMA EnterInv ==
  ASSUME FetchInv, NEW r \in Requests, Enter(r)
  PROVE  FetchInv'
  <1> USE DEF FetchInv, Enter, Goto, rateVars
  <1>1. TypeOK'
    BY DEF TypeOK, PC
  <1>2. SlotsConserved'
    <2>1. Having(Holding)' = Having(Holding) \cup {r} /\ r \notin Having(Holding)
      BY DEF Having, Holding, Queued, TypeOK
    <2>2. Having(Queued)' = Having(Queued)
      BY DEF Having, Queued, TypeOK
    <2>3. /\ Cardinality(Having(Holding)') = Cardinality(Having(Holding)) + 1
          /\ Cardinality(Having(Holding)) \in Nat
      BY <2>1, OneMore, CountsAreNumbers DEF Having
    <2>4. free + Cardinality(Having(Holding)) = GlobalSlots /\ free \in Nat
      BY DEF SlotsConserved, TypeOK
    <2>5. free' + Cardinality(Having(Holding)') = GlobalSlots
      BY <2>3, <2>4
    <2> QED
      BY <2>2, <2>5 DEF SlotsConserved
  <1>3. LockHeldAsleep'
    BY DEF TypeOK, LockHeldAsleep, Locking
  <1>4. DelayIsLongEnough' /\ BudgetKept'
    BY DEF TypeOK, DelayIsLongEnough, BudgetKept, Ended
  <1> QED
    BY <1>1, <1>2, <1>3, <1>4

LEMMA TakeSlotInv ==
  ASSUME FetchInv, NEW r \in Requests, TakeSlot(r)
  PROVE  FetchInv'
  <1> USE DEF FetchInv, TakeSlot, Goto, rateVars
  <1> DEFINE d == DomainOf[r]
             held(e) == {q \in Having(Queued) : DomainOf[q] = e}
  <1>0. d \in Domains
    BY PoliteAssumption
  <1>1. TypeOK'
    BY <1>0 DEF TypeOK, PC
  <1>2. SlotsConserved'
    <2>1. Having(Queued)' = Having(Queued) \cup {r} /\ r \notin Having(Queued)
      BY DEF Having, Queued, TypeOK
    <2>2. Having(Holding)' = Having(Holding)
      BY DEF Having, Holding, Queued, TypeOK
    <2>3. held(d)' = held(d) \cup {r} /\ r \notin held(d)
      BY <2>1
    <2>4. \A e \in Domains \ {d} : held(e)' = held(e)
      BY <2>1
    <2>5. /\ Cardinality(held(d)') = Cardinality(held(d)) + 1
          /\ Cardinality(held(d)) \in Nat
      <3>1. held(d) \in SUBSET Requests
        BY DEF Having
      <3> QED
        BY <2>3, <3>1, OneMore, CountsAreNumbers
    <2>6. ASSUME NEW e \in Domains
          PROVE  domainFree'[e] + Cardinality(held(e)') = DomainSlots
      <3>1. domainFree[e] + Cardinality(held(e)) = DomainSlots /\ domainFree[e] \in Nat
        BY DEF SlotsConserved, TypeOK
      <3>2. CASE e = d
        <4>1. domainFree'[e] = domainFree[e] - 1
          BY <3>2 DEF TypeOK
        <4> HIDE DEF held
        <4> QED
          BY <3>1, <3>2, <4>1, <2>5
      <3>3. CASE e # d
        <4>1. domainFree'[e] = domainFree[e]
          BY <3>3 DEF TypeOK
        <4> QED
          BY <3>1, <3>3, <4>1, <2>4
      <3> QED
        BY <3>2, <3>3
    <2> QED
      BY <2>2, <2>6 DEF SlotsConserved
  <1>3. LockHeldAsleep'
    BY DEF TypeOK, LockHeldAsleep, Locking
  <1>4. DelayIsLongEnough' /\ BudgetKept'
    BY DEF TypeOK, DelayIsLongEnough, BudgetKept, Ended
  <1> QED
    BY <1>1, <1>2, <1>3, <1>4

(* Whoever may go on holds the lock of its domain, or nobody does.         *)
GoesOn(r) ==
  \/ pc[r] = "lock" /\ lock[DomainOf[r]] = Nobody
  \/ pc[r] \in Locking

LEMMA LockIsMine ==
  ASSUME TypeOK, LockHeldAsleep, NEW r \in Requests, GoesOn(r)
  PROVE  /\ lock[DomainOf[r]] \in {r, Nobody}
         /\ \A q \in Requests \ {r} : DomainOf[q] = DomainOf[r] => pc[q] \notin Locking
  <1>1. lock[DomainOf[r]] \in {r, Nobody}
    BY DEF GoesOn, LockHeldAsleep
  <1>2. \A q \in Requests : q # Nobody
    BY PoliteAssumption
  <1> QED
    BY <1>1, <1>2 DEF LockHeldAsleep

(* The lock is passed on: taken by r, or given up.                         *)
LEMMA LockPassed ==
  ASSUME TypeOK, LockHeldAsleep, NEW r \in Requests, GoesOn(r),
         NEW label \in PC, Goto(r, label),
         lock' = [lock EXCEPT ![DomainOf[r]] = IF label \in Locking THEN r ELSE Nobody]
  PROVE  LockHeldAsleep'
  <1> DEFINE d == DomainOf[r]
  <1>1. d \in Domains /\ r # Nobody /\ DomainOf \in [Requests -> Domains]
    BY PoliteAssumption
  <1>2. lock[d] \in {r, Nobody} /\ \A q \in Requests \ {r} : DomainOf[q] = d => pc[q] \notin Locking
    BY LockIsMine
  <1>3. lock'[d] = (IF label \in Locking THEN r ELSE Nobody) /\ pc'[r] = label
    BY <1>1 DEF TypeOK, Goto
  <1>4. \A e \in Domains \ {d} : lock'[e] = lock[e]
    BY DEF TypeOK
  <1>5. \A q \in Requests \ {r} : pc'[q] = pc[q]
    BY DEF TypeOK, Goto
  <1>6. ASSUME NEW q \in Requests
        PROVE  pc'[q] \in Locking <=> lock'[DomainOf[q]] = q
    <2>1. CASE q = r
      BY <2>1, <1>1, <1>3
    <2>2. CASE q # r /\ DomainOf[q] = d
      BY <2>2, <1>1, <1>2, <1>3, <1>5, PoliteAssumption
    <2>3. CASE DomainOf[q] # d
      <3>1. DomainOf[q] \in Domains \ {d} /\ q # r
        BY <2>3, <1>1
      <3> QED
        BY <3>1, <1>4, <1>5 DEF LockHeldAsleep
    <2> QED
      BY <2>1, <2>2, <2>3
  <1>7. ASSUME NEW e \in Domains, lock'[e] # Nobody
        PROVE  DomainOf[lock'[e]] = e
    BY <1>3, <1>4, <1>7 DEF LockHeldAsleep
  <1> QED
    BY <1>6, <1>7 DEF LockHeldAsleep, Locking

LEMMA SendInv ==
  ASSUME FetchInv, NEW r \in Requests, GoesOn(r), Send(r),
         UNCHANGED <<attempt, slotVars, pause, browser>>
  PROVE  FetchInv'
  <1> DEFINE d == DomainOf[r]
  <1> USE DEF FetchInv, Send, slotVars
  <1>0. d \in Domains /\ DomainOf \in [Requests -> Domains]
    BY PoliteAssumption
  <1>1. TypeOK'
    <2>1. /\ lock' \in [Domains -> Requests \cup {Nobody}]
          /\ since' \in [Domains -> 0..Delay]
          /\ pc' \in [Requests -> PC]
      BY <1>0, PoliteAssumption DEF TypeOK, PC, Goto
    <2>2. late' \in [Domains -> Nat]
      BY <1>0 DEF TypeOK
    <2> QED
      BY <2>1, <2>2 DEF TypeOK
  <1>2. SlotsConserved'
    BY SameSlots DEF TypeOK, Holding, Queued, GoesOn, Locking, Goto
  <1>3. LockHeldAsleep'
    BY LockPassed DEF PC, Locking
  <1>4. DelayIsLongEnough'
    <2>1. ASSUME NEW q \in Requests, pc'[q] = "spaced"
          PROVE  wait'[q] + since'[DomainOf[q]] >= Delay
      <3>1. pc[q] = "spaced" /\ q # r
        BY <2>1 DEF TypeOK, Goto
      <3>2. DomainOf[q] # d
        BY <3>1, LockIsMine DEF Locking
      <3>3. since'[DomainOf[q]] = since[DomainOf[q]]
        BY <3>2, <1>0 DEF TypeOK
      <3> QED
        BY <3>1, <3>3 DEF DelayIsLongEnough
    <2> QED
      BY <2>1 DEF DelayIsLongEnough
  <1>5. BudgetKept'
    BY DEF TypeOK, BudgetKept, Ended, GoesOn, Locking, Goto
  <1> QED
    BY <1>1, <1>2, <1>3, <1>4, <1>5

(* A request takes the lock, or keeps it, and falls asleep.                *)
LEMMA SleepInv ==
  ASSUME FetchInv, NEW r \in Requests, GoesOn(r),
         NEW time \in Nat, NEW label \in Locking, Goto(r, label), Sleep(r, time),
         label = "spaced" => time + since[DomainOf[r]] >= Delay,
         lock' = [lock EXCEPT ![DomainOf[r]] = r],
         UNCHANGED <<since, late, attempt, slotVars, pause, browser>>
  PROVE  FetchInv'
  <1> DEFINE d == DomainOf[r]
  <1> USE DEF FetchInv, slotVars
  <1>0. d \in Domains /\ DomainOf \in [Requests -> Domains] /\ label \in PC
    BY PoliteAssumption DEF Locking, PC
  <1>1. TypeOK'
    <2>1. /\ lock' \in [Domains -> Requests \cup {Nobody}]
          /\ wait' \in [Requests -> Nat]
          /\ pc' \in [Requests -> PC]
      BY <1>0 DEF TypeOK, Goto, Sleep
    <2> QED
      BY <2>1 DEF TypeOK
  <1>2. SlotsConserved'
    BY SameSlots DEF TypeOK, Holding, Queued, GoesOn, Locking, Goto
  <1>3. LockHeldAsleep'
    BY <1>0, LockPassed
  <1>4. DelayIsLongEnough'
    BY DEF TypeOK, DelayIsLongEnough, Goto, Sleep
  <1>5. BudgetKept'
    BY DEF TypeOK, BudgetKept, Ended, GoesOn, Locking, Goto
  <1> QED
    BY <1>1, <1>2, <1>3, <1>4, <1>5

LEMMA SpaceInv ==
  ASSUME FetchInv, NEW r \in Requests, GoesOn(r), Space(r),
         UNCHANGED <<attempt, slotVars, pause, browser>>
  PROVE  FetchInv'
  <1> DEFINE d == DomainOf[r]
  <1>0. since[d] \in Nat /\ Delay \in Nat
    BY PoliteAssumption DEF FetchInv, TypeOK
  <1>1. CASE since[d] < Delay
    <2>1. Delay - since[d] \in Nat /\ Delay - since[d] + since[d] >= Delay
      BY <1>0, <1>1
    <2>2. "spaced" \in Locking
      BY DEF Locking
    <2> HIDE DEF d
    <2>3. /\ lock' = [lock EXCEPT ![d] = r]
          /\ Sleep(r, Delay - since[d])
          /\ Goto(r, "spaced")
          /\ UNCHANGED <<since, late>>
      BY <1>1 DEF Space, d
    <2> QED
      BY <2>1, <2>2, <2>3, SleepInv DEF d
  <1>2. CASE Send(r)
    BY <1>2, SendInv
  <1> QED
    BY <1>1, <1>2 DEF Space

LEMMA TakeLockInv ==
  ASSUME FetchInv, NEW r \in Requests, TakeLock(r)
  PROVE  FetchInv'
  <1> DEFINE d == DomainOf[r]
  <1>1. GoesOn(r)
    BY DEF TakeLock, GoesOn
  <1>2. CASE pause[d] > 0
    <2>1. pause[d] \in Nat /\ "paused" \in Locking /\ "paused" # "spaced"
      BY PoliteAssumption DEF FetchInv, TypeOK, Locking
    <2>2. /\ lock' = [lock EXCEPT ![d] = r]
          /\ Sleep(r, pause[d])
          /\ Goto(r, "paused")
          /\ UNCHANGED <<since, late, attempt, slotVars, pause, browser>>
      BY <1>2 DEF TakeLock
    <2> QED
      BY <1>1, <2>1, <2>2, SleepInv
  <1>3. CASE ~(pause[d] > 0)
    BY <1>1, <1>3, SpaceInv DEF TakeLock
  <1> QED
    BY <1>2, <1>3

LEMMA PauseOverInv ==
  ASSUME FetchInv, NEW r \in Requests, PauseOver(r)
  PROVE  FetchInv'
  BY SpaceInv DEF PauseOver, GoesOn, Locking

LEMMA DelayOverInv ==
  ASSUME FetchInv, NEW r \in Requests, DelayOver(r)
  PROVE  FetchInv'
  BY SendInv DEF DelayOver, GoesOn, Locking

(* An answer has come: whatever it is, the request leaves the client for   *)
(* now, and its pause or its sleep are those of nobody else.               *)
LEMMA AnswerInv ==
  ASSUME FetchInv, NEW r \in Requests, pc[r] = "sent", Release(r),
         NEW label \in {"ok", "failed", "backoff"}, Goto(r, label),
         NEW time \in Nat, wait' = [wait EXCEPT ![r] = time],
         NEW n \in 0..(MaxRetries + 1), attempt' = [attempt EXCEPT ![r] = n],
         label = "backoff" => n <= MaxRetries,
         pause' \in [Domains -> Nat], late' \in [Domains -> Nat],
         UNCHANGED <<lock, since, browser>>
  PROVE  FetchInv'
  <1> USE DEF FetchInv
  <1>0. label \in PC \ Holding /\ label \notin Locking /\ label # "spaced"
    BY DEF PC, Holding, Queued, Locking
  <1>1. TypeOK'
    <2>1. free' \in Nat /\ domainFree' \in [Domains -> Nat]
      <3>1. \A k \in Nat : k + 1 \in Nat
        OBVIOUS
      <3> QED
        BY <3>1, PoliteAssumption DEF TypeOK, Release
    <2>2. pc' \in [Requests -> PC] /\ wait' \in [Requests -> Nat]
      BY <1>0 DEF TypeOK, Goto
    <2>3. attempt' \in [Requests -> 0..(MaxRetries + 1)]
      BY DEF TypeOK
    <2> QED
      BY <2>1, <2>2, <2>3 DEF TypeOK
  <1>2. SlotsConserved'
    BY <1>0, BothReleased
  <1>3. LockHeldAsleep'
    BY <1>0 DEF TypeOK, LockHeldAsleep, Locking, Goto
  <1>4. DelayIsLongEnough'
    BY <1>0 DEF TypeOK, DelayIsLongEnough, Goto
  <1>5. BudgetKept'
    <2>1. label # "backoff" => label \in Ended
      BY DEF Ended
    <2> QED
      BY <2>1 DEF TypeOK, BudgetKept, Goto
  <1> QED
    BY <1>1, <1>2, <1>3, <1>4, <1>5

LEMMA SucceedInv ==
  ASSUME FetchInv, NEW r \in Requests, Succeed(r)
  PROVE  FetchInv'
  <1>1. wait' = [wait EXCEPT ![r] = wait[r]] /\ attempt' = [attempt EXCEPT ![r] = attempt[r]]
    BY DEF Succeed, FetchInv, TypeOK
  <1>2. /\ wait[r] \in Nat /\ attempt[r] \in 0..(MaxRetries + 1)
        /\ pause' \in [Domains -> Nat] /\ late' \in [Domains -> Nat]
        /\ UNCHANGED <<lock, since, browser>>
    BY DEF Succeed, rateVars, FetchInv, TypeOK
  <1> QED
    BY <1>1, <1>2, AnswerInv DEF Succeed

LEMMA FailInv ==
  ASSUME FetchInv, NEW r \in Requests, Fail(r)
  PROVE  FetchInv'
  <1>1. wait' = [wait EXCEPT ![r] = wait[r]] /\ attempt' = [attempt EXCEPT ![r] = attempt[r]]
    BY DEF Fail, FetchInv, TypeOK
  <1>2. /\ wait[r] \in Nat /\ attempt[r] \in 0..(MaxRetries + 1)
        /\ pause' \in [Domains -> Nat] /\ late' \in [Domains -> Nat]
        /\ UNCHANGED <<lock, since, browser>>
    BY DEF Fail, rateVars, FetchInv, TypeOK
  <1> QED
    BY <1>1, <1>2, AnswerInv DEF Fail

(* The next attempt or the last error, for any Retry-After.                *)
LEMMA RetryInv ==
  ASSUME FetchInv, NEW r \in Requests, pc[r] = "sent", Release(r),
         NEW retryAfter \in Nat, Retry(r, retryAfter),
         pause' \in [Domains -> Nat], late' \in [Domains -> Nat],
         UNCHANGED <<lock, since, browser>>
  PROVE  FetchInv'
  <1>1. /\ attempt[r] \in Nat /\ attempt[r] <= MaxRetries /\ MaxRetries \in Nat
        /\ wait[r] \in Nat
    <2>1. MaxRetries \in Nat
      BY PoliteAssumption
    <2>2. attempt[r] \in 0..(MaxRetries + 1) /\ wait[r] \in Nat
      BY DEF FetchInv, TypeOK
    <2>3. attempt[r] <= MaxRetries
      BY DEF FetchInv, BudgetKept, Ended
    <2> QED
      BY <2>1, <2>2, <2>3
  <1>2. attempt' = [attempt EXCEPT ![r] = attempt[r] + 1] /\ attempt[r] + 1 \in 0..(MaxRetries + 1)
    <2>1. attempt[r] + 1 \in 0..(MaxRetries + 1)
      BY <1>1
    <2> QED
      BY <2>1 DEF Retry
  <1>3. CASE Goto(r, "failed") /\ UNCHANGED wait
    <2>1. wait' = [wait EXCEPT ![r] = wait[r]]
      BY <1>3 DEF FetchInv, TypeOK
    <2> QED
      BY <1>1, <1>2, <1>3, <2>1, AnswerInv
  <1>4. CASE /\ attempt[r] < MaxRetries
             /\ \E time \in Jitter(Larger(Backoff[attempt[r] + 1], retryAfter)) : Sleep(r, time)
             /\ Goto(r, "backoff")
    <2>1. PICK time \in Nat : Sleep(r, time)
      BY <1>4 DEF Jitter
    <2>2. attempt[r] + 1 <= MaxRetries
      BY <1>1, <1>4
    <2> QED
      BY <1>2, <1>4, <2>1, <2>2, AnswerInv DEF Sleep
  <1> QED
    BY <1>3, <1>4 DEF Retry

LEMMA TransientInv ==
  ASSUME FetchInv, NEW r \in Requests, Transient(r)
  PROVE  FetchInv'
  BY RetryInv DEF Transient, rateVars, FetchInv, TypeOK

LEMMA RateLimitedInv ==
  ASSUME FetchInv, NEW r \in Requests, RateLimited(r)
  PROVE  FetchInv'
  <1>1. PICK t \in RetryAfters : RecordPause(DomainOf[r], t) /\ Retry(r, t)
    BY DEF RateLimited
  <1>2. t \in Nat /\ MinPause \in Nat
    BY PoliteAssumption
  <1>3. pause' \in [Domains -> Nat] /\ late' \in [Domains -> Nat]
    BY <1>1, <1>2 DEF RecordPause, Larger, FetchInv, TypeOK
  <1> QED
    BY <1>1, <1>2, <1>3, RetryInv DEF RateLimited, RecordPause

LEMMA BackoffOverInv ==
  ASSUME FetchInv, NEW r \in Requests, BackoffOver(r)
  PROVE  FetchInv'
  <1> USE DEF FetchInv, BackoffOver, Goto, slotVars, rateVars
  <1>1. TypeOK'
    BY DEF TypeOK, PC
  <1>2. SlotsConserved'
    BY SameSlots DEF TypeOK, Holding, Queued
  <1>3. LockHeldAsleep'
    BY DEF TypeOK, LockHeldAsleep, Locking
  <1>4. DelayIsLongEnough' /\ BudgetKept'
    BY DEF TypeOK, DelayIsLongEnough, BudgetKept, Ended
  <1> QED
    BY <1>1, <1>2, <1>3, <1>4

LEMMA TickInv ==
  ASSUME FetchInv, Tick
  PROVE  FetchInv'
  <1> USE DEF FetchInv, Tick
  <1>0. Delay \in Nat /\ DomainOf \in [Requests -> Domains]
    BY PoliteAssumption
  <1>1. TypeOK'
    <2>1. \A n \in Nat : Less(n) \in Nat
      BY DEF Less
    <2>2. wait' \in [Requests -> Nat] /\ pause' \in [Domains -> Nat]
      BY <2>1 DEF TypeOK
    <2>3. since' \in [Domains -> 0..Delay]
      BY <1>0 DEF TypeOK
    <2> QED
      BY <2>2, <2>3 DEF TypeOK, slotVars
  <1>2. SlotsConserved'
    BY SameSlots
  <1>3. LockHeldAsleep' /\ BudgetKept'
    BY DEF LockHeldAsleep, BudgetKept
  <1>4. DelayIsLongEnough'
    <2>1. ASSUME NEW q \in Requests, pc'[q] = "spaced"
          PROVE  wait'[q] + since'[DomainOf[q]] >= Delay
      <3>1. /\ wait[q] + since[DomainOf[q]] >= Delay
            /\ wait[q] \in Nat /\ since[DomainOf[q]] \in 0..Delay
        BY <2>1, <1>0 DEF DelayIsLongEnough, TypeOK
      <3>2. /\ wait'[q] = Less(wait[q])
            /\ since'[DomainOf[q]] = IF since[DomainOf[q]] < Delay THEN since[DomainOf[q]] + 1 ELSE Delay
        BY <1>0
      <3> QED
        BY <3>1, <3>2, <1>0 DEF Less
    <2> QED
      BY <2>1 DEF DelayIsLongEnough
  <1> QED
    BY <1>1, <1>2, <1>3, <1>4

LEMMA CloseInv ==
  ASSUME FetchInv, Close
  PROVE  FetchInv'
  <1>1. SlotsConserved'
    BY SameSlots DEF FetchInv, Close
  <1> QED
    BY <1>1
    DEF FetchInv, Close, TypeOK, slotVars, rateVars, LockHeldAsleep,
        DelayIsLongEnough, BudgetKept

LEMMA NextInv == FetchInv /\ [Next]_vars => FetchInv'
  <1> SUFFICES ASSUME FetchInv, [Next]_vars
               PROVE  FetchInv'
    OBVIOUS
  <1>1. CASE UNCHANGED vars
    <2>1. SlotsConserved'
      BY <1>1, SameSlots DEF FetchInv, vars
    <2> QED
      BY <1>1, <2>1
      DEF FetchInv, vars, TypeOK, slotVars, rateVars, LockHeldAsleep,
          DelayIsLongEnough, BudgetKept
  <1>2. ASSUME NEW r \in Requests, Step(r)
        PROVE  FetchInv'
    BY <1>2, LaunchInv, EnterInv, TakeSlotInv, TakeLockInv, PauseOverInv, DelayOverInv,
       SucceedInv, FailInv, TransientInv, RateLimitedInv, BackoffOverInv
    DEF Step
  <1> QED
    BY <1>1, <1>2, TickInv, CloseInv DEF Next

(* Slots and locks: what a request takes it gives back, on every way       *)
(* through fetch and fetch_rendered, whatever the server answers.          *)
THEOREM FetchInvariant == Spec => []FetchInv
  BY InitInv, NextInv, PTL DEF Spec

-----------------------------------------------------------------------------
(* A request goes out the polite delay after the one before                *)

LEMMA SpacedStep ==
  ASSUME FetchInv, [Next]_vars, NEW r \in Requests, pc[r] # "sent", pc'[r] = "sent"
  PROVE  since[DomainOf[r]] >= Delay
  <1> DEFINE d == DomainOf[r]
  <1>0. since[d] \in Nat /\ Delay \in Nat /\ wait[r] \in Nat
    BY PoliteAssumption DEF FetchInv, TypeOK
  <1>1. ASSUME NEW q \in Requests, Step(q)
        PROVE  q = r /\ (TakeLock(r) \/ PauseOver(r) \/ DelayOver(r))
    <2>1. \A label : Goto(q, label) => pc'[r] = IF q = r THEN label ELSE pc[r]
      BY DEF Goto, FetchInv, TypeOK
    <2> QED
      BY <1>1, <2>1
      DEF Step, Launch, Enter, TakeSlot, TakeLock, PauseOver, DelayOver, Space, Send,
          Succeed, Fail, Transient, RateLimited, Retry, BackoffOver
  <1>2. \/ TakeLock(r) \/ PauseOver(r) \/ DelayOver(r)
    BY <1>1 DEF Next, Tick, Close, vars
  <1>3. CASE DelayOver(r)
    BY <1>0, <1>3 DEF DelayOver, FetchInv, DelayIsLongEnough
  <1>4. CASE Space(r)
    <2>1. ~Goto(r, "spaced")
      BY DEF Goto, FetchInv, TypeOK
    <2> QED
      BY <1>0, <1>4, <2>1 DEF Space
  <1>5. ~Goto(r, "paused")
    BY DEF Goto, FetchInv, TypeOK
  <1> QED
    BY <1>2, <1>3, <1>4, <1>5 DEF TakeLock, PauseOver

(* Politeness: two requests to one domain are at least the polite delay    *)
(* apart, whatever the number of slots and the pauses between them.        *)
THEOREM Spacing == Spec => PoliteSpacing
  <1>1. FetchInv /\ [Next]_vars =>
          [\A r \in Requests : pc[r] # "sent" /\ pc'[r] = "sent" => since[DomainOf[r]] >= Delay]_vars
    BY SpacedStep
  <1> QED
    BY <1>1, FetchInvariant, PTL DEF Spec, PoliteSpacing

-----------------------------------------------------------------------------
(* At most one request goes out in a pause it did not know of              *)

LEMMA LateFacts ==
  ASSUME FetchInv, LateInv
  PROVE  /\ DomainOf \in [Requests -> Domains]
         /\ \A d \in Domains : late[d] \in 0..1 /\ pause[d] \in Nat
         /\ \A d \in Domains : lock[d] # Nobody =>
              lock[d] \in Requests /\ DomainOf[lock[d]] = d /\ pc[lock[d]] \in Locking
  BY PoliteAssumption DEF FetchInv, TypeOK, LateInv, AtMostOneLate, LockHeldAsleep

(* A step of requests that hold no lock, when no pause changes.            *)
LEMMA LateElsewhere ==
  ASSUME FetchInv, LateInv, UNCHANGED <<lock, pause, late>>,
         \A q \in Requests : pc[q] \in Locking => pc'[q] = pc[q] /\ wait'[q] = wait[q]
  PROVE  LateInv'
  BY LateFacts DEF LateInv, AtMostOneLate

(* Whoever is about to go out is late only if nobody was.                  *)
LEMMA FirstToBeLate ==
  ASSUME FetchInv, LateInv, NEW r \in Requests,
         \/ TakeLock(r) /\ ~(pause[DomainOf[r]] > 0)
         \/ PauseOver(r)
         \/ DelayOver(r)
  PROVE  late[DomainOf[r]] = 0 \/ pause[DomainOf[r]] = 0
  <1> DEFINE d == DomainOf[r]
  <1>1. d \in Domains /\ late[d] \in 0..1 /\ pause[d] \in Nat
    BY LateFacts
  <1>2. CASE ~(pause[d] > 0)
    BY <1>1, <1>2
  <1>3. CASE PauseOver(r) \/ DelayOver(r)
    <2>1. r # Nobody /\ lock[d] = r /\ (pc[r] = "paused" => wait[r] = 0)
      BY <1>3, PoliteAssumption DEF PauseOver, DelayOver, FetchInv, LockHeldAsleep, Locking
    <2>2. late[d] > 0 /\ pause[d] > 0 => pc[r] = "paused" /\ wait[r] >= pause[d]
      BY <1>1, <2>1 DEF LateInv
    <2> QED
      BY <1>1, <2>1, <2>2
  <1> QED
    BY <1>2, <1>3

LEMMA GoingLate ==
  ASSUME FetchInv, LateInv, NEW r \in Requests, UNCHANGED pause,
         Space(r) \/ Send(r),
         late[DomainOf[r]] = 0 \/ pause[DomainOf[r]] = 0
  PROVE  LateInv'
  <1> DEFINE d == DomainOf[r]
  <1>1. d \in Domains /\ late[d] \in 0..1 /\ pause[d] \in Nat
    BY LateFacts
  <1>2. \A e \in Domains \ {d} : lock'[e] = lock[e] /\ late'[e] = late[e]
    BY DEF Space, Send, FetchInv, TypeOK
  <1>3. \A q \in Requests \ {r} : pc'[q] = pc[q] /\ wait'[q] = wait[q]
    BY DEF Space, Send, Goto, Sleep, FetchInv, TypeOK
  <1>4. late'[d] = (IF lock'[d] = Nobody /\ pause[d] > 0 THEN 1 ELSE late[d])
    <2>1. late \in [Domains -> Nat] /\ lock \in [Domains -> Requests \cup {Nobody}] /\ r # Nobody
      BY PoliteAssumption DEF FetchInv, TypeOK
    <2>2. CASE Send(r)
      <3>1. lock'[d] = Nobody
        BY <2>1, <2>2, <1>1 DEF Send
      <3>2. late'[d] = IF pause[d] > 0 THEN late[d] + 1 ELSE late[d]
        BY <2>1, <2>2, <1>1 DEF Send
      <3> QED
        BY <3>1, <3>2, <1>1
    <2>3. CASE lock' = [lock EXCEPT ![d] = r] /\ UNCHANGED late
      BY <2>1, <2>3, <1>1
    <2> QED
      BY <2>2, <2>3 DEF Space
  <1>5. AtMostOneLate'
    BY <1>1, <1>2, <1>4, LateFacts DEF AtMostOneLate
  <1>6. ASSUME NEW e \in Domains, late'[e] > 0, pause'[e] > 0, lock'[e] # Nobody
        PROVE  pc'[lock'[e]] = "paused" /\ wait'[lock'[e]] >= pause'[e]
    <2>1. e # d
      BY <1>1, <1>4, <1>6
    <2>2. lock[e] \in Requests \ {r}
      BY <2>1, <1>2, <1>6, LateFacts
    <2> QED
      BY <2>1, <2>2, <1>2, <1>3, <1>6 DEF LateInv
  <1> QED
    BY <1>5, <1>6 DEF LateInv

(* Whoever takes the lock in a pause sleeps until it is over.              *)
LEMMA PausedLate ==
  ASSUME FetchInv, LateInv, NEW r \in Requests,
         lock' = [lock EXCEPT ![DomainOf[r]] = r],
         Goto(r, "paused"), Sleep(r, pause[DomainOf[r]]), UNCHANGED <<pause, late>>
  PROVE  LateInv'
  <1> DEFINE d == DomainOf[r]
  <1>1. d \in Domains /\ \A e \in Domains : pause[e] \in Nat
    BY LateFacts
  <1>2. lock'[d] = r /\ pc'[r] = "paused" /\ wait'[r] = pause[d]
    BY <1>1 DEF Goto, Sleep, FetchInv, TypeOK
  <1>3. /\ \A e \in Domains \ {d} : lock'[e] = lock[e]
        /\ \A q \in Requests \ {r} : pc'[q] = pc[q] /\ wait'[q] = wait[q]
    BY DEF Goto, Sleep, FetchInv, TypeOK
  <1>4. ASSUME NEW e \in Domains, late'[e] > 0, pause'[e] > 0, lock'[e] # Nobody
        PROVE  pc'[lock'[e]] = "paused" /\ wait'[lock'[e]] >= pause'[e]
    <2>1. CASE e = d
      BY <2>1, <1>1, <1>2
    <2>2. CASE e # d
      <3>1. lock[e] \in Requests \ {r}
        BY <2>2, <1>3, <1>4, LateFacts
      <3> QED
        BY <2>2, <3>1, <1>3, <1>4 DEF LateInv
    <2> QED
      BY <2>1, <2>2
  <1> QED
    BY <1>4 DEF LateInv, AtMostOneLate

LEMMA TickLate ==
  ASSUME FetchInv, LateInv, Tick
  PROVE  LateInv'
  <1>1. ASSUME NEW e \in Domains, late'[e] > 0, pause'[e] > 0, lock'[e] # Nobody
        PROVE  pc'[lock'[e]] = "paused" /\ wait'[lock'[e]] >= pause'[e]
    <2> DEFINE q == lock[e]
    <2>1. pause'[e] = Less(pause[e]) /\ pause[e] \in Nat
      BY LateFacts DEF Tick
    <2>2. q \in Requests /\ lock'[e] = q /\ pc'[q] = pc[q] /\ wait'[q] = Less(wait[q])
      BY <1>1, LateFacts DEF Tick
    <2>3. wait[q] \in Nat
      BY <2>2 DEF FetchInv, TypeOK
    <2>4. pc[q] = "paused" /\ wait[q] >= pause[e]
      BY <1>1, <2>1, <2>2 DEF LateInv, Tick, Less
    <2> QED
      BY <2>1, <2>2, <2>3, <2>4 DEF Less
  <1> QED
    BY <1>1 DEF LateInv, AtMostOneLate, Tick

(* A longer pause counts from zero; the rest stays as it was.              *)
LEMMA RecordLate ==
  ASSUME FetchInv, LateInv, NEW r \in Requests, RateLimited(r)
  PROVE  LateInv'
  <1> DEFINE d == DomainOf[r]
  <1>1. PICK t \in RetryAfters : RecordPause(d, t) /\ Retry(r, t)
    BY DEF RateLimited
  <1>2. /\ d \in Domains /\ t \in Nat /\ MinPause \in Nat
        /\ pause \in [Domains -> Nat] /\ late \in [Domains -> Nat]
    BY PoliteAssumption DEF FetchInv, TypeOK
  <1>3. \A e \in Domains :
          late'[e] = 0 \/ (late'[e] = late[e] /\ pause'[e] = pause[e])
    <2>1. \A e \in Domains \ {d} : late'[e] = late[e] /\ pause'[e] = pause[e]
      BY <1>1, <1>2 DEF RecordPause
    <2>2. pause'[d] = Larger(pause[d], Larger(MinPause, t))
      BY <1>1, <1>2 DEF RecordPause
    <2>3. pause'[d] \in Nat /\ pause'[d] >= pause[d]
      BY <1>2, <2>2 DEF Larger
    <2>4. late'[d] = IF pause'[d] > pause[d] THEN 0 ELSE late[d]
      BY <1>1, <1>2 DEF RecordPause
    <2>5. pause[d] \in Nat
      BY <1>2
    <2> QED
      BY <2>1, <2>3, <2>4, <2>5
  <1>4. /\ UNCHANGED lock
        /\ \A q \in Requests : pc[q] \in Locking => pc'[q] = pc[q] /\ wait'[q] = wait[q]
    <2>1. pc[r] \notin Locking
      BY DEF RateLimited, Locking
    <2>2. \A q \in Requests \ {r} : pc'[q] = pc[q] /\ wait'[q] = wait[q]
      BY <1>1 DEF Retry, Goto, Sleep, FetchInv, TypeOK
    <2> QED
      BY <1>1, <2>1, <2>2 DEF RecordPause
  <1>5. AtMostOneLate'
    BY <1>3, LateFacts DEF AtMostOneLate
  <1>6. ASSUME NEW e \in Domains, late'[e] > 0, pause'[e] > 0, lock'[e] # Nobody
        PROVE  pc'[lock'[e]] = "paused" /\ wait'[lock'[e]] >= pause'[e]
    BY <1>3, <1>4, <1>6, LateFacts DEF LateInv
  <1> QED
    BY <1>5, <1>6 DEF LateInv

LEMMA LateStep ==
  ASSUME FetchInv, LateInv, [Next]_vars
  PROVE  LateInv'
  <1>1. CASE UNCHANGED vars
    BY <1>1, LateElsewhere DEF vars, rateVars
  <1>2. ASSUME NEW r \in Requests,
               \/ Launch(r) \/ Enter(r) \/ TakeSlot(r) \/ Succeed(r) \/ Fail(r)
               \/ Transient(r) \/ BackoffOver(r)
        PROVE  LateInv'
    <2>1. UNCHANGED <<lock, pause, late>>
      BY <1>2 DEF Launch, Enter, TakeSlot, Succeed, Fail, Transient, BackoffOver, rateVars
    <2>2. pc[r] \notin Locking
      BY <1>2
      DEF Launch, Enter, TakeSlot, Succeed, Fail, Transient, BackoffOver, Locking
    <2>3. \A q \in Requests \ {r} : pc'[q] = pc[q] /\ wait'[q] = wait[q]
      BY <1>2
      DEF Launch, Enter, TakeSlot, Succeed, Fail, Transient, BackoffOver, Retry, Goto,
          Sleep, FetchInv, TypeOK
    <2> QED
      BY <2>1, <2>2, <2>3, LateElsewhere
  <1>3. ASSUME NEW r \in Requests, TakeLock(r)
        PROVE  LateInv'
    <2>1. CASE pause[DomainOf[r]] > 0
      BY <1>3, <2>1, PausedLate DEF TakeLock
    <2>2. CASE ~(pause[DomainOf[r]] > 0)
      BY <1>3, <2>2, FirstToBeLate, GoingLate DEF TakeLock
    <2> QED
      BY <2>1, <2>2
  <1>4. ASSUME NEW r \in Requests, PauseOver(r)
        PROVE  LateInv'
    BY <1>4, FirstToBeLate, GoingLate DEF PauseOver
  <1>5. ASSUME NEW r \in Requests, DelayOver(r)
        PROVE  LateInv'
    <2>1. late[DomainOf[r]] = 0 \/ pause[DomainOf[r]] = 0
      BY <1>5, FirstToBeLate
    <2> QED
      BY <1>5, <2>1, GoingLate DEF DelayOver
  <1>6. CASE Close
    BY <1>6, LateElsewhere DEF Close, rateVars
  <1> QED
    BY <1>1, <1>2, <1>3, <1>4, <1>5, <1>6, RecordLate, TickLate DEF Next, Step

(* Slots and locks, and who may still be late: what the run checks.        *)
THEOREM PoliteInvariant == Spec => []PoliteInv
  <1>1. Init => LateInv
    BY DEF Init, LateInv, AtMostOneLate
  <1>2. FetchInv /\ LateInv /\ [Next]_vars => LateInv'
    BY LateStep
  <1> QED
    BY <1>1, <1>2, FetchInvariant, PTL DEF Spec, PoliteInv

(* Retry-After: in each pause of a domain at most one request goes out     *)
(* that had looked for a pause before it was recorded.                     *)
THEOREM LateOnce == Spec => []AtMostOneLate
  BY PoliteInvariant, PTL DEF PoliteInv, LateInv

-----------------------------------------------------------------------------
(* Refinement *)

Shown(label) == IF label \in Ended \cup {"sent"} THEN label ELSE "waiting"

(* A request that goes on is seen to do so, or not at all.                 *)
LEMMA PhaseMoves ==
  ASSUME TypeOK, NEW r \in Requests, NEW label \in PC, Goto(r, label)
  PROVE  Phase' = [Phase EXCEPT ![r] = Shown(label)]
  BY DEF Phase, Shown, Goto, TypeOK

LEMMA PhaseStays ==
  ASSUME TypeOK, NEW r \in Requests, NEW label \in PC \ (Ended \cup {"sent"}),
         pc[r] \notin Ended \cup {"sent"}, Goto(r, label)
  PROVE  Phase' = Phase
  BY DEF Phase, Goto, TypeOK

(* The abstract specification counts in the same way.                      *)
LEMMA SameCardinality == \A S : Client!Cardinality(S) = Cardinality(S)
  BY DEF Client!Cardinality, Cardinality

(* A request that has its slots and was not sent leaves room on the wire.  *)
LEMMA RoomOnTheWire ==
  ASSUME FetchInv, NEW r \in Requests, pc[r] \in Queued, pc[r] # "sent"
  PROVE  /\ Cardinality(Client!Out) < GlobalSlots
         /\ Cardinality(Client!OutTo(DomainOf[r])) < DomainSlots
  <1> DEFINE d == DomainOf[r]
             queued == {q \in Having(Queued) : DomainOf[q] = d}
  <1>1. d \in Domains
    BY PoliteAssumption
  <1>2. \A q \in Requests : Phase[q] = "sent" <=> pc[q] = "sent"
    BY DEF Phase, Ended
  <1>3. /\ Client!Out \cup {r} \in SUBSET Having(Holding) /\ r \notin Client!Out
        /\ Client!OutTo(d) \cup {r} \in SUBSET queued /\ r \notin Client!OutTo(d)
    BY <1>2 DEF Client!Out, Client!OutTo, Having, Holding, Queued
  <1>4. /\ Having(Holding) \in SUBSET Requests /\ queued \in SUBSET Requests
        /\ Client!Out \in SUBSET Requests /\ Client!OutTo(d) \in SUBSET Requests
    BY DEF Having, Client!Out, Client!OutTo
  <1>5. /\ free + Cardinality(Having(Holding)) = GlobalSlots /\ free \in Nat
        /\ domainFree[d] + Cardinality(queued) = DomainSlots /\ domainFree[d] \in Nat
    BY <1>1 DEF FetchInv, SlotsConserved, TypeOK
  <1>6. ASSUME NEW A \in SUBSET Requests, NEW B \in SUBSET Requests,
               A \cup {r} \in SUBSET B, r \notin A, NEW k \in Nat, NEW n,
               k + Cardinality(B) = n
        PROVE  Cardinality(A) < n
    <2>1. Cardinality(A \cup {r}) = Cardinality(A) + 1
      BY <1>6, OneMore
    <2>2. Cardinality(A \cup {r}) <= Cardinality(B)
      BY <1>6, CountsAreNumbers, FS_Subset
    <2>3. Cardinality(A) \in Nat /\ Cardinality(B) \in Nat
      BY CountsAreNumbers
    <2> QED
      BY <1>6, <2>1, <2>2, <2>3
  <1> HIDE DEF queued
  <1>7. Cardinality(Client!Out) < GlobalSlots
    BY <1>3, <1>4, <1>5, <1>6
  <1>8. Cardinality(Client!OutTo(d)) < DomainSlots
    BY <1>3, <1>4, <1>5, <1>6
  <1> QED
    BY <1>7, <1>8

(* Going out, after the delay and not late a second time, is Client!Send.  *)
LEMMA SendIsSend ==
  ASSUME FetchInv, LateInv, NEW r \in Requests, GoesOn(r), Send(r),
         since[DomainOf[r]] >= Delay,
         late[DomainOf[r]] = 0 \/ pause[DomainOf[r]] = 0,
         UNCHANGED <<attempt, pause>>
  PROVE  Client!Send(r)
  <1> DEFINE d == DomainOf[r]
  <1>1. pc[r] \in Queued /\ pc[r] \notin Ended \cup {"sent"}
    BY DEF GoesOn, Locking, Queued, Ended
  <1>2. d \in Domains /\ since[d] \in 0..Delay /\ Delay \in Nat /\ pause[d] \in Nat
    BY PoliteAssumption DEF FetchInv, TypeOK
  <1>3. Phase[r] = "waiting"
    BY <1>1 DEF Phase
  <1>4. Phase' = [Phase EXCEPT ![r] = "sent"]
    BY PhaseMoves DEF FetchInv, Send, PC, Shown
  <1>5. since[d] = Delay
    BY <1>2
  <1>6. late' = IF pause[d] > 0 THEN [late EXCEPT ![d] = 1] ELSE late
    <2>1. CASE pause[d] > 0
      <3>1. late[d] = 0
        BY <1>2, <2>1
      <3>2. late' = [late EXCEPT ![d] = late[d] + 1]
        BY <2>1 DEF Send
      <3>3. late[d] + 1 = 1
        BY <3>1
      <3> QED
        BY <2>1, <3>2, <3>3
    <2>2. CASE ~(pause[d] > 0)
      BY <2>2 DEF Send
    <2> QED
      BY <2>1, <2>2
  <1>7. since' = [since EXCEPT ![d] = 0]
    BY DEF Send
  <1>8. pause[d] > 0 => late[d] = 0
    BY <1>2
  <1>9. Cardinality(Client!Out) < GlobalSlots /\ Cardinality(Client!OutTo(d)) < DomainSlots
    BY <1>1, RoomOnTheWire
  <1> QED
    BY <1>3, <1>4, <1>5, <1>6, <1>7, <1>8, <1>9, SameCardinality DEF Client!Send

LEMMA LaunchedFirstStep ==
  ASSUME TypeOK, LaunchedFirst, [Next]_vars
  PROVE  LaunchedFirst'
  <1>1. CASE UNCHANGED vars \/ Tick \/ Close
    BY <1>1 DEF vars, Tick, Close, LaunchedFirst
  <1>2. ASSUME NEW r \in Requests, Step(r)
        PROVE  /\ \A q \in Requests : pc'[q] = "launch" => pc[q] = "launch"
               /\ \A q \in Requests : pc[q] # "sent" => attempt'[q] = attempt[q]
    <2>1. \A label \in PC \ {"launch"} :
            Goto(r, label) => \A q \in Requests : pc'[q] = "launch" => pc[q] = "launch"
      BY DEF Goto, TypeOK
    <2>2. \E label \in PC \ {"launch"} : Goto(r, label)
      BY <1>2
      DEF Step, Launch, Enter, TakeSlot, TakeLock, PauseOver, DelayOver, Space, Send,
          Succeed, Fail, Transient, RateLimited, Retry, BackoffOver, PC
    <2>3. attempt' = attempt \/ (pc[r] = "sent" /\ attempt' = [attempt EXCEPT ![r] = @ + 1])
      BY <1>2
      DEF Step, Launch, Enter, TakeSlot, TakeLock, PauseOver, DelayOver,
          Succeed, Fail, Transient, RateLimited, Retry, BackoffOver
    <2>4. \A q \in Requests : pc[q] # "sent" => attempt'[q] = attempt[q]
      BY <2>3 DEF TypeOK
    <2> QED
      BY <2>1, <2>2, <2>4
  <1> QED
    BY <1>1, <1>2 DEF Next, LaunchedFirst

LEMMA InitIsInit ==
  ASSUME Init
  PROVE  Client!Init
  <1>1. Phase = [r \in Requests |-> "waiting"]
    BY DEF Init, Phase, Ended
  <1> QED
    BY <1>1 DEF Init, Client!Init

(* The polite delay: either it is over and the request goes out, or it is  *)
(* slept and nothing is to be seen.                                        *)
LEMMA SpaceIsSend ==
  ASSUME FetchInv, LateInv, NEW r \in Requests, GoesOn(r), Space(r),
         late[DomainOf[r]] = 0 \/ pause[DomainOf[r]] = 0,
         UNCHANGED <<attempt, pause>>
  PROVE  Client!Send(r) \/ UNCHANGED Client!vars
  <1> DEFINE d == DomainOf[r]
  <1>1. CASE since[d] < Delay
    <2>1. Goto(r, "spaced") /\ UNCHANGED <<since, late>>
      BY <1>1 DEF Space
    <2>2. Phase' = Phase
      BY <2>1, PhaseStays DEF FetchInv, PC, Ended, GoesOn, Locking
    <2> QED
      BY <2>1, <2>2 DEF Client!vars
  <1>2. CASE ~(since[d] < Delay)
    <2>1. since[d] >= Delay
      BY <1>2, PoliteAssumption DEF FetchInv, TypeOK
    <2>2. Send(r)
      BY <1>2 DEF Space
    <2> QED
      BY <2>1, <2>2, SendIsSend
  <1> QED
    BY <1>1, <1>2

LEMMA TakeLockIsSend ==
  ASSUME FetchInv, LateInv, NEW r \in Requests, TakeLock(r)
  PROVE  Client!Send(r) \/ UNCHANGED Client!vars
  <1>1. CASE pause[DomainOf[r]] > 0
    <2>1. Phase' = Phase
      BY <1>1, PhaseStays DEF TakeLock, FetchInv, PC, Ended
    <2> QED
      BY <1>1, <2>1 DEF TakeLock, Client!vars
  <1>2. CASE ~(pause[DomainOf[r]] > 0)
    BY <1>2, FirstToBeLate, SpaceIsSend DEF TakeLock, GoesOn
  <1> QED
    BY <1>1, <1>2

LEMMA WakingIsSend ==
  ASSUME FetchInv, LateInv, NEW r \in Requests, PauseOver(r) \/ DelayOver(r)
  PROVE  Client!Send(r) \/ UNCHANGED Client!vars
  <1>1. late[DomainOf[r]] = 0 \/ pause[DomainOf[r]] = 0
    BY FirstToBeLate
  <1>2. CASE PauseOver(r)
    BY <1>1, <1>2, SpaceIsSend DEF PauseOver, GoesOn, Locking
  <1>3. CASE DelayOver(r)
    <2>1. since[DomainOf[r]] >= Delay
      BY <1>3, PoliteAssumption DEF DelayOver, FetchInv, TypeOK, DelayIsLongEnough
    <2> QED
      BY <1>1, <1>3, <2>1, SendIsSend DEF DelayOver, GoesOn, Locking
  <1> QED
    BY <1>2, <1>3

(* An attempt that failed: tried again or given up, by its number.         *)
LEMMA RetryIsTryAgain ==
  ASSUME TypeOK, NEW r \in Requests, pc[r] = "sent", NEW t, Retry(r, t), UNCHANGED since
  PROVE  Client!TryAgain(r)
  <1>1. Phase[r] = "sent"
    BY DEF Phase
  <1>2. attempt' = [attempt EXCEPT ![r] = @ + 1]
    BY DEF Retry
  <1>3. Phase' = [Phase EXCEPT ![r] = IF attempt[r] < MaxRetries THEN "waiting" ELSE "failed"]
    <2>1. attempt[r] \in Nat /\ MaxRetries \in Nat
      BY PoliteAssumption DEF TypeOK
    <2>2. CASE attempt[r] >= MaxRetries
      <3>1. Goto(r, "failed") /\ ~(attempt[r] < MaxRetries)
        BY <2>1, <2>2 DEF Retry
      <3>2. Phase' = [Phase EXCEPT ![r] = "failed"]
        BY <3>1, PhaseMoves DEF PC, Shown, Ended
      <3> QED
        BY <3>1, <3>2
    <2>3. CASE attempt[r] < MaxRetries
      <3>1. Goto(r, "backoff")
        BY <2>1, <2>3 DEF Retry
      <3>2. Phase' = [Phase EXCEPT ![r] = "waiting"]
        BY <3>1, PhaseMoves DEF PC, Shown, Ended
      <3> QED
        BY <2>3, <3>2
    <2> QED
      BY <2>1, <2>2, <2>3
  <1> QED
    BY <1>1, <1>2, <1>3 DEF Client!TryAgain

LEMMA RateLimitedIsRateLimited ==
  ASSUME FetchInv, NEW r \in Requests, RateLimited(r)
  PROVE  Client!RateLimited(r)
  <1> DEFINE d == DomainOf[r]
  <1>1. PICK t \in RetryAfters : RecordPause(d, t) /\ Retry(r, t)
    BY DEF RateLimited
  <1>2. Client!TryAgain(r)
    BY <1>1, RetryIsTryAgain DEF RateLimited, FetchInv, RecordPause
  <1>3. /\ d \in Domains /\ t \in Nat /\ MinPause \in Nat
        /\ pause \in [Domains -> Nat] /\ late \in [Domains -> Nat]
    BY PoliteAssumption DEF FetchInv, TypeOK
  <1> DEFINE time == IF t >= MinPause THEN t ELSE MinPause
  <1>4. time \in Nat /\ Larger(MinPause, t) = time
    BY <1>3 DEF Larger
  <1>5. pause' = [pause EXCEPT ![d] = Larger(pause[d], time)]
    BY <1>1, <1>4 DEF RecordPause
  <1> HIDE DEF time
  <1>6. CASE time > pause[d]
    <2>1. Larger(pause[d], time) = time
      BY <1>3, <1>4, <1>6 DEF Larger
    <2>2. pause' = [pause EXCEPT ![d] = time] /\ pause'[d] > pause[d]
      BY <1>3, <1>5, <1>6, <2>1
    <2>3. late' = [late EXCEPT ![d] = 0]
      BY <1>1, <2>2 DEF RecordPause
    <2> QED
      BY <1>2, <1>6, <2>2, <2>3 DEF Client!RateLimited, time
  <1>7. CASE ~(time > pause[d])
    <2>1. Larger(pause[d], time) = pause[d]
      BY <1>3, <1>4, <1>7 DEF Larger
    <2>2. pause' = pause
      BY <1>3, <1>5, <2>1
    <2>3. late' = late
      BY <1>1, <1>3, <2>2 DEF RecordPause
    <2> QED
      BY <1>2, <1>7, <2>2, <2>3 DEF Client!RateLimited, time
  <1> QED
    BY <1>6, <1>7

LEMMA TickIsWait ==
  ASSUME Tick
  PROVE  Client!Wait
  <1>1. Phase' = Phase
    BY DEF Tick, Phase
  <1> QED
    BY <1>1 DEF Tick, Less, Client!Wait

LEMMA LaunchIsGiveUp ==
  ASSUME TypeOK, LaunchedFirst, NEW r \in Requests, Launch(r)
  PROVE  Client!GiveUp(r) \/ UNCHANGED Client!vars
  <1>1. pc[r] \notin Ended \cup {"sent"} /\ attempt[r] = 0 /\ Phase[r] = "waiting"
    BY DEF Launch, LaunchedFirst, Ended, Phase
  <1>2. CASE Goto(r, "ready")
    <2>1. Phase' = Phase
      BY <1>1, <1>2, PhaseStays DEF PC, Ended
    <2> QED
      BY <2>1 DEF Launch, rateVars, Client!vars
  <1>3. CASE Goto(r, "failed")
    <2>1. Phase' = [Phase EXCEPT ![r] = "failed"]
      BY <1>3, PhaseMoves DEF PC, Shown, Ended
    <2> QED
      BY <1>1, <2>1 DEF Launch, rateVars, Client!GiveUp
  <1> QED
    BY <1>2, <1>3 DEF Launch

LEMMA AnswerIsEnd ==
  ASSUME TypeOK, NEW r \in Requests, Succeed(r) \/ Fail(r)
  PROVE  Client!End(r)
  <1>1. Phase[r] = "sent"
    BY DEF Succeed, Fail, Phase
  <1>2. PICK label \in {"ok", "failed"} : Goto(r, label)
    BY DEF Succeed, Fail
  <1>3. Phase' = [Phase EXCEPT ![r] = label]
    BY <1>2, PhaseMoves DEF PC, Shown, Ended
  <1> QED
    BY <1>1, <1>3 DEF Succeed, Fail, rateVars, Client!End

LEMMA TransientIsTransient ==
  ASSUME TypeOK, NEW r \in Requests, Transient(r)
  PROVE  Client!Transient(r)
  BY RetryIsTryAgain DEF Transient, rateVars, Client!Transient

(* Queueing for a slot and the end of a sleep are not to be seen.          *)
LEMMA QueueingIsUnseen ==
  ASSUME TypeOK, NEW r \in Requests, Enter(r) \/ TakeSlot(r) \/ BackoffOver(r)
  PROVE  UNCHANGED Client!vars
  <1>1. PICK label \in {"slot", "lock", "ready"} : Goto(r, label)
    BY DEF Enter, TakeSlot, BackoffOver
  <1>2. Phase' = Phase
    BY <1>1, PhaseStays DEF Enter, TakeSlot, BackoffOver, PC, Ended
  <1> QED
    BY <1>2 DEF Enter, TakeSlot, BackoffOver, rateVars, Client!vars

LEMMA StepIsStep ==
  ASSUME FetchInv, LateInv, LaunchedFirst, [Next]_vars
  PROVE  [Client!Next]_(Client!vars)
  <1>1. CASE UNCHANGED vars \/ Close
    BY <1>1 DEF vars, rateVars, Close, Phase, Client!vars
  <1>2. CASE Tick
    BY <1>2, TickIsWait DEF Client!Next
  <1>3. ASSUME NEW r \in Requests, Step(r)
        PROVE  [Client!Next]_(Client!vars)
    <2>1. \/ Client!Send(r) \/ Client!End(r) \/ Client!GiveUp(r)
          \/ Client!Transient(r) \/ Client!RateLimited(r) \/ UNCHANGED Client!vars
      BY <1>3, LaunchIsGiveUp, QueueingIsUnseen, TakeLockIsSend, WakingIsSend, AnswerIsEnd,
         TransientIsTransient, RateLimitedIsRateLimited
      DEF Step, FetchInv
    <2> QED
      BY <2>1 DEF Client!Next
  <1> QED
    BY <1>1, <1>2, <1>3 DEF Next

(* What sites and callers see of slots, queues, locks and sleeps is        *)
(* PoliteClient: no more requests on the wire than slots, the delay        *)
(* between two of them, one late request at most, and a retry budget.      *)
THEOREM Refinement == Spec => ImplementsPoliteClient
  <1>1. Init => LaunchedFirst
    BY DEF Init, LaunchedFirst
  <1>2. PoliteInv => FetchInv /\ LateInv /\ TypeOK
    BY DEF PoliteInv, FetchInv
  <1>3. TypeOK /\ LaunchedFirst /\ [Next]_vars => LaunchedFirst'
    BY LaunchedFirstStep
  <1>4. Init => Client!Init
    BY InitIsInit
  <1>5. FetchInv /\ LateInv /\ LaunchedFirst /\ [Next]_vars => [Client!Next]_(Client!vars)
    BY StepIsStep
  <1> QED
    BY <1>1, <1>2, <1>3, <1>4, <1>5, PoliteInvariant, PTL
    DEF Spec, ImplementsPoliteClient, Client!Spec
=============================================================================
