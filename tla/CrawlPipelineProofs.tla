------------------------ MODULE CrawlPipelineProofs ------------------------
(* Proofs about CrawlPipeline, for any number of adapters, workers, tasks  *)
(* and any queue size.                                                     *)
EXTENDS CrawlPipeline, SequenceTheorems, FiniteSetTheorems, TLAPS

(* What a put does to the queue: one item more, at the end.                *)
LEMMA AppendFacts ==
  ASSUME NEW S, NEW q \in Seq(S), NEW x \in S
  PROVE  /\ Append(q, x) \in Seq(S)
         /\ Len(Append(q, x)) = Len(q) + 1
         /\ \A i \in 1..Len(q) : Append(q, x)[i] = q[i]
         /\ Append(q, x)[Len(q) + 1] = x
OBVIOUS

(* What a get does to the queue: the rest moves up by one place.           *)
LEMMA TailFacts ==
  ASSUME NEW S, NEW q \in Seq(S), q # <<>>
  PROVE  /\ Tail(q) \in Seq(S)
         /\ Len(q) \in Nat \ {0}
         /\ Len(Tail(q)) = Len(q) - 1
         /\ \A i \in 1..Len(Tail(q)) : Tail(q)[i] = q[i + 1]
         /\ Head(q) = q[1]
OBVIOUS

(* A task is an adapter and a number that its discover() reaches.          *)
LEMMA TaskFacts ==
  /\ \A t \in Tasks : /\ t = <<t[1], t[2]>>
                      /\ t[1] \in Producers
                      /\ t[2] \in 1..Limit[t[1]]
  /\ \A p \in Producers : \A i \in 1..Limit[p] : <<p, i>> \in Tasks
BY DEF Tasks

-----------------------------------------------------------------------------
(* The invariant is inductive: one lemma for each step of a coroutine.     *)

LEMMA InitInv == Init => PipelineInv
<1> SUFFICES ASSUME Init PROVE PipelineInv
  OBVIOUS
<1> USE PipelineAssumption DEF Init
<1>1. TypeOK
  <2>1. Cardinality(Workers) \in Nat
    BY FS_CardinalityType
  <2>2. \A p \in Producers : 0 <= Limit[p]
    OBVIOUS
  <2>3. <<>> \in Seq(Tasks \cup {None}) /\ Len(<<>>) = 0
    OBVIOUS
  <2>4. \A p \in Producers : discovered[p] <= Limit[p] /\ prodPC[p] # "put"
    BY <2>2
  <2>5. pills \in 0..Cardinality(Workers)
    BY <2>1
  <2>6. Len(queue) <= MaxSize
    BY <2>3
  <2>7. queue \in Seq(Tasks \cup {None}) /\ unfinished \in Int
    BY <2>3
  <2>10. stop \in BOOLEAN /\ interrupted \in BOOLEAN
    BY Zenon
  <2>8. /\ prodPC \in [Producers -> ProducerPC]
        /\ discovered \in [Producers -> Nat]
        /\ workerPC \in [Workers -> WorkerPC]
        /\ held \in [Workers -> Tasks \cup {None}]
    BY DEF ProducerPC, WorkerPC
  <2>9. /\ processed \in SUBSET Tasks /\ failed \in SUBSET Tasks
        /\ unknown \in SUBSET Tasks /\ mainPC \in MainPC
    BY DEF MainPC
  <2> QED
    BY <2>4, <2>5, <2>6, <2>7, <2>8, <2>9, <2>10 DEF TypeOK
<1>2. TaskInOnePlace
  BY TaskFacts DEF TaskInOnePlace, Enqueued, Queued, Running, Consumed
<1>3. NoTaskBehindPill /\ RunPhases
  BY DEF NoTaskBehindPill, RunPhases, Stopping
<1> QED
  BY <1>1, <1>2, <1>3 DEF PipelineInv

(* Steps that leave the queue, the tasks in hand and the outcomes alone    *)
(* keep every task where it is.                                            *)
LEMMA PlacesUnchanged ==
  ASSUME TaskInOnePlace, NoTaskBehindPill,
         UNCHANGED <<queue, held, processed, failed, unknown, discovered>>
  PROVE  TaskInOnePlace' /\ NoTaskBehindPill'
BY DEF TaskInOnePlace, NoTaskBehindPill, Enqueued, Queued, Running, Consumed

LEMMA DiscoverInv ==
  ASSUME PipelineInv, NEW p \in Producers, Discover(p)
  PROVE  PipelineInv'
<1> USE DEF PipelineInv, Discover, workVars, poolVars, mainVars
<1>1. TypeOK'
  BY DEF TypeOK, ProducerPC
<1>2. TaskInOnePlace' /\ NoTaskBehindPill'
  BY PlacesUnchanged
<1>3. RunPhases'
  BY DEF RunPhases, Stopping, AllProducersDone, AllWorkersExited, TypeOK
<1> QED
  BY <1>1, <1>2, <1>3

LEMMA ProducerEndsInv ==
  ASSUME PipelineInv, NEW p \in Producers, ProducerEnds(p)
  PROVE  PipelineInv'
<1> USE DEF PipelineInv, ProducerEnds, workVars, poolVars, mainVars
<1>1. TypeOK'
  BY DEF TypeOK, ProducerPC
<1>2. TaskInOnePlace' /\ NoTaskBehindPill'
  BY PlacesUnchanged
<1>3. RunPhases'
  BY DEF RunPhases, Stopping, AllProducersDone, AllWorkersExited, TypeOK
<1> QED
  BY <1>1, <1>2, <1>3

LEMMA PutInv ==
  ASSUME PipelineInv, NEW p \in Producers, Put(p)
  PROVE  PipelineInv'
<1> DEFINE t == <<p, discovered[p] + 1>>
<1> USE PipelineAssumption DEF PipelineInv, Put, Enqueue, workVars, poolVars, mainVars
<1>1. t \in Tasks /\ t # None /\ ~Enqueued(t)
  <2>1. discovered[p] \in Nat /\ Limit[p] \in Nat /\ discovered[p] < Limit[p]
    BY DEF TypeOK
  <2>2. discovered[p] + 1 \in 1..Limit[p] /\ ~(discovered[p] + 1 <= discovered[p])
    BY <2>1
  <2>3. t \in Tasks /\ t[1] = p /\ t[2] = discovered[p] + 1
    BY <2>2, TaskFacts
  <2> QED
    BY <2>2, <2>3 DEF Enqueued
<1>2. /\ queue' \in Seq(Tasks \cup {None})
      /\ Len(queue') = Len(queue) + 1
      /\ \A i \in 1..Len(queue) : queue'[i] = queue[i]
      /\ queue'[Len(queue) + 1] = t
      /\ Len(queue) \in Nat
  BY <1>1, AppendFacts DEF TypeOK
<1>3. TypeOK'
  <2>1. /\ queue' \in Seq(Tasks \cup {None})
        /\ Len(queue') <= MaxSize
        /\ unfinished' \in Int
    BY <1>2 DEF TypeOK
  <2>2. /\ prodPC' \in [Producers -> ProducerPC]
        /\ discovered' \in [Producers -> Nat]
    BY DEF TypeOK, ProducerPC
  <2>3. ASSUME NEW r \in Producers
        PROVE  /\ discovered'[r] <= Limit[r]
               /\ prodPC'[r] = "put" => discovered'[r] < Limit[r]
    <3>1. /\ discovered \in [Producers -> Nat]
          /\ prodPC \in [Producers -> ProducerPC]
          /\ discovered[r] \in Nat /\ Limit[r] \in Nat
          /\ discovered[r] <= Limit[r]
          /\ prodPC[r] = "put" => discovered[r] < Limit[r]
      BY DEF TypeOK
    <3>2. CASE r = p
      BY <3>1, <3>2
    <3>3. CASE r # p
      BY <3>1, <3>3
    <3> QED
      BY <3>2, <3>3
  <2> QED
    BY <2>1, <2>2, <2>3 DEF TypeOK
<1>4. \A u \in Tasks : Enqueued(u)' <=> Enqueued(u) \/ u = t
  BY TaskFacts, <1>1 DEF Enqueued, TypeOK
<1>5. \A u : Queued(u)' <=> Queued(u) \/ u = t
  BY <1>2 DEF Queued
<1>6. \A u : (Running(u)' <=> Running(u)) /\ (Consumed(u)' <=> Consumed(u))
  BY DEF Running, Consumed
<1>7. TaskInOnePlace'
  <2>1. \A i, j \in 1..Len(queue') :
          queue'[i] = queue'[j] /\ queue'[i] # None => i = j
    BY <1>1, <1>2 DEF TaskInOnePlace, Queued
  <2>2. \A u \in Tasks :
          /\ Enqueued(u)' <=> Queued(u)' \/ Running(u)' \/ Consumed(u)'
          /\ ~(Queued(u)' /\ Running(u)')
          /\ ~(Consumed(u)' /\ (Queued(u)' \/ Running(u)'))
    BY <1>1, <1>4, <1>5, <1>6 DEF TaskInOnePlace
  <2> QED
    BY <2>1, <2>2 DEF TaskInOnePlace
<1>8. mainPC = "gather"
  BY DEF RunPhases, AllProducersDone
<1>9. NoTaskBehindPill'
  BY <1>1, <1>2, <1>8 DEF NoTaskBehindPill, RunPhases, Stopping
<1>10. RunPhases'
  BY <1>1, <1>2, <1>8 DEF RunPhases, Stopping, AllProducersDone, AllWorkersExited, TypeOK
<1> QED
  BY <1>3, <1>7, <1>9, <1>10

(* What a worker that takes the head of the queue does to the queue.       *)
LEMMA TakeHeadQueue ==
  ASSUME PipelineInv, NEW w \in Workers, TakeHead(w)
  PROVE  /\ queue' \in Seq(Tasks \cup {None})
         /\ Len(queue) \in Nat \ {0}
         /\ Len(queue') = Len(queue) - 1
         /\ \A i \in 1..Len(queue') : queue'[i] = queue[i + 1] /\ i + 1 \in 1..Len(queue)
         /\ Head(queue) = queue[1] /\ 1 \in 1..Len(queue)
         /\ Head(queue) \in Tasks \cup {None}
         /\ \A t : t # None => (Queued(t)' <=> Queued(t) /\ t # Head(queue))
<1> DEFINE item == Head(queue)
<1>2. /\ queue # <<>> /\ queue \in Seq(Tasks \cup {None})
      /\ queue' = Tail(queue)
      /\ UNCHANGED <<stop, interrupted, prodPC, discovered, processed, failed,
                     mainPC, pills>>
  BY DEF PipelineInv, TypeOK, TakeHead, Dequeue, prodVars, mainVars
<1>3. /\ queue' \in Seq(Tasks \cup {None})
      /\ Len(queue) \in Nat \ {0}
      /\ Len(queue') = Len(queue) - 1
      /\ \A i \in 1..Len(queue') : queue'[i] = queue[i + 1] /\ i + 1 \in 1..Len(queue)
      /\ item = queue[1] /\ 1 \in 1..Len(queue)
      /\ item \in Tasks \cup {None}
  BY <1>2, TailFacts
<1>4. ASSUME NEW t, t # None
      PROVE  Queued(t)' <=> Queued(t) /\ t # item
  <2>1. ASSUME Queued(t), t # item
        PROVE  Queued(t)'
    <3>1. PICK i \in 1..Len(queue) : queue[i] = t
      BY <2>1 DEF Queued
    <3>2. i # 1 /\ i - 1 \in 1..Len(queue') /\ (i - 1) + 1 = i
      BY <1>3, <2>1, <3>1
    <3> QED
      BY <1>3, <3>1, <3>2 DEF Queued
  <2>2. ASSUME Queued(t)'
        PROVE  Queued(t) /\ t # item
    <3>1. PICK i \in 1..Len(queue') : queue'[i] = t
      BY <2>2 DEF Queued
    <3>2. queue[i + 1] = t /\ i + 1 \in 1..Len(queue) /\ i + 1 # 1
      BY <1>3, <3>1
    <3>3. Queued(t)
      BY <3>2 DEF Queued
    <3>4. t # item
      BY <1>3, <1>4, <3>2 DEF PipelineInv, TaskInOnePlace
    <3> QED
      BY <3>3, <3>4
  <2> QED
    BY <2>1, <2>2
<1> QED
  BY <1>3, <1>4

(* Taking the head of the queue moves it to one place: into the hands of   *)
(* the worker, among the unknown tasks or, for a pill, out of the system.  *)
LEMMA TakeHeadInv ==
  ASSUME PipelineInv, NEW w \in Workers, workerPC[w] = "waiting", TakeHead(w)
  PROVE  PipelineInv'
<1> DEFINE item == Head(queue)
<1>1. /\ held[w] = None
      /\ ~(mainPC \in {"closed", "done"})
  BY DEF PipelineInv, RunPhases, AllWorkersExited
<1>2. UNCHANGED <<stop, interrupted, prodPC, discovered, processed, failed,
                  mainPC, pills>>
  BY DEF TakeHead, Dequeue, prodVars, mainVars
<1>3. /\ queue' \in Seq(Tasks \cup {None})
      /\ Len(queue) \in Nat \ {0}
      /\ Len(queue') = Len(queue) - 1
      /\ \A i \in 1..Len(queue') : queue'[i] = queue[i + 1] /\ i + 1 \in 1..Len(queue)
      /\ item = queue[1] /\ 1 \in 1..Len(queue)
      /\ item \in Tasks \cup {None}
      /\ \A t : t # None => (Queued(t)' <=> Queued(t) /\ t # item)
  BY TakeHeadQueue
<1>5. \A i, j \in 1..Len(queue') :
        queue'[i] = queue'[j] /\ queue'[i] # None => i = j
  BY <1>3 DEF PipelineInv, TaskInOnePlace
<1>6. NoTaskBehindPill'
  BY <1>3 DEF PipelineInv, NoTaskBehindPill
<1>7. /\ \A i \in 1..Len(queue') : queue'[i] = None => Stopping
      /\ Stopping /\ ~interrupted => /\ \A i \in 1..Len(queue') : queue'[i] = None
                                     /\ Len(queue') <= pills
  <2>1. pills \in Nat /\ Len(queue') < Len(queue)
    BY <1>3, FS_CardinalityType, PipelineAssumption DEF PipelineInv, TypeOK
  <2>2. Stopping /\ ~interrupted => Len(queue') <= pills
    BY <1>3, <2>1 DEF PipelineInv, RunPhases
  <2> QED
    BY <1>3, <2>2 DEF PipelineInv, RunPhases
<1>8. \A u \in Tasks : Enqueued(u)' <=> Enqueued(u)
  BY <1>2 DEF Enqueued
<1>9. Len(queue') <= MaxSize
  BY <1>3, PipelineAssumption DEF PipelineInv, TypeOK
<1>10. CASE item = None
  <2>1. /\ unfinished' = unfinished - 1
        /\ workerPC' = [workerPC EXCEPT ![w] = "exited"]
        /\ UNCHANGED <<held, unknown>>
    BY <1>10 DEF TakeHead, Dequeue, TaskDone
  <2>2. TypeOK'
    BY <1>2, <1>3, <1>9, <2>1 DEF PipelineInv, TypeOK, WorkerPC
  <2>3. \A u \in Tasks : Queued(u)' <=> Queued(u)
    BY <1>3, <1>10, PipelineAssumption
  <2>4. TaskInOnePlace'
    BY <1>2, <1>5, <1>8, <2>1, <2>3
       DEF PipelineInv, TaskInOnePlace, Running, Consumed
  <2>5. RunPhases'
    BY <1>1, <1>2, <1>7, <2>1
       DEF PipelineInv, RunPhases, Stopping, AllProducersDone, AllWorkersExited, TypeOK
  <2> QED
    BY <1>6, <2>2, <2>4, <2>5 DEF PipelineInv
<1>11. ASSUME item # None
       PROVE  /\ item \in Tasks
              /\ Queued(item) /\ Enqueued(item)
              /\ ~Running(item) /\ ~Consumed(item)
  BY <1>3, <1>11 DEF PipelineInv, TaskInOnePlace, Queued
<1>12. CASE item # None /\ item[1] \notin Registered
  <2>1. /\ unfinished' = unfinished - 1
        /\ unknown' = unknown \cup {item}
        /\ workerPC' = [workerPC EXCEPT ![w] = "loop"]
        /\ UNCHANGED held
    BY <1>12 DEF TakeHead, Dequeue, TaskDone
  <2>2. TypeOK'
    BY <1>2, <1>3, <1>9, <1>11, <1>12, <2>1 DEF PipelineInv, TypeOK, WorkerPC
  <2>3. \A u \in Tasks : /\ Queued(u)' <=> Queued(u) /\ u # item
                         /\ Running(u)' <=> Running(u)
                         /\ Consumed(u)' <=> Consumed(u) \/ u = item
    BY <1>2, <1>3, <2>1, PipelineAssumption DEF Running, Consumed
  <2>4. TaskInOnePlace'
    BY <1>2, <1>5, <1>8, <1>11, <1>12, <2>1, <2>3
       DEF PipelineInv, TaskInOnePlace, Consumed
  <2>5. RunPhases'
    BY <1>1, <1>2, <1>7, <2>1
       DEF PipelineInv, RunPhases, Stopping, AllProducersDone, AllWorkersExited, TypeOK
  <2> QED
    BY <1>6, <2>2, <2>4, <2>5 DEF PipelineInv
<1>13. CASE item # None /\ item[1] \in Registered
  <2>1. /\ held' = [held EXCEPT ![w] = item]
        /\ workerPC' = [workerPC EXCEPT ![w] = "busy"]
        /\ UNCHANGED <<unfinished, unknown>>
    BY <1>13 DEF TakeHead, Dequeue
  <2>2. TypeOK'
    BY <1>2, <1>3, <1>9, <1>11, <1>13, <2>1 DEF PipelineInv, TypeOK, WorkerPC
  <2>3. held \in [Workers -> Tasks \cup {None}]
    BY DEF PipelineInv, TypeOK
  <2>4. \A u \in Tasks : /\ Queued(u)' <=> Queued(u) /\ u # item
                         /\ Running(u)' <=> Running(u) \/ u = item
                         /\ Consumed(u)' <=> Consumed(u)
    BY <1>1, <1>2, <1>3, <2>1, <2>3, PipelineAssumption DEF Running, Consumed
  <2>5. \A v, x \in Workers : held'[v] = held'[x] /\ held'[v] # None => v = x
    BY <1>11, <1>13, <2>1, <2>3 DEF PipelineInv, TaskInOnePlace, Running
  <2>6. TaskInOnePlace'
    BY <1>2, <1>5, <1>8, <1>11, <1>13, <2>1, <2>4, <2>5
       DEF PipelineInv, TaskInOnePlace
  <2>7. RunPhases'
    BY <1>1, <1>2, <1>7, <1>13, <2>1, <2>3
       DEF PipelineInv, RunPhases, Stopping, AllProducersDone, AllWorkersExited, TypeOK
  <2> QED
    BY <1>6, <2>2, <2>6, <2>7 DEF PipelineInv
<1> QED
  BY <1>10, <1>12, <1>13

(* A worker that only changes its place in its loop.                       *)
LEMMA WorkerMovesInv ==
  ASSUME PipelineInv, NEW w \in Workers, workerPC[w] \in {"loop", "waiting"},
         NEW pc \in {"loop", "waiting", "exited"},
         workerPC' = [workerPC EXCEPT ![w] = pc],
         UNCHANGED <<queue, unfinished, stop, interrupted, prodVars, held,
                     poolVars, mainVars>>
  PROVE  PipelineInv'
<1> USE DEF prodVars, poolVars, mainVars
<1>1. held[w] = None /\ ~(mainPC \in {"closed", "done"})
  BY DEF PipelineInv, RunPhases, AllWorkersExited
<1>2. TypeOK'
  BY DEF PipelineInv, TypeOK, WorkerPC
<1>3. TaskInOnePlace' /\ NoTaskBehindPill'
  BY PlacesUnchanged DEF PipelineInv
<1>4. RunPhases'
  BY <1>1 DEF PipelineInv, RunPhases, Stopping, AllProducersDone, AllWorkersExited, TypeOK
<1> QED
  BY <1>2, <1>3, <1>4 DEF PipelineInv

LEMMA FinishInv ==
  ASSUME PipelineInv, NEW w \in Workers, Finish(w)
  PROVE  PipelineInv'
<1> DEFINE t == held[w]
<1>1. /\ t # None /\ t \in Tasks /\ held \in [Workers -> Tasks \cup {None}]
      /\ ~(mainPC \in {"closed", "done"})
  BY DEF PipelineInv, TypeOK, RunPhases, AllWorkersExited, Finish
<1>2. /\ held' = [held EXCEPT ![w] = None]
      /\ workerPC' = [workerPC EXCEPT ![w] = "loop"]
      /\ unfinished' = unfinished - 1
      /\ UNCHANGED <<queue, stop, interrupted, prodPC, discovered, unknown,
                     mainPC, pills>>
      /\ \/ processed' = processed \cup {t} /\ failed' = failed
         \/ failed' = failed \cup {t} /\ processed' = processed
  BY DEF Finish, Outcome, TaskDone, prodVars, mainVars
<1>3. Running(t) /\ ~Queued(t) /\ ~Consumed(t) /\ Enqueued(t)
  BY <1>1 DEF PipelineInv, TaskInOnePlace, Running
<1>4. TypeOK'
  BY <1>1, <1>2 DEF PipelineInv, TypeOK, WorkerPC
<1>5. \A u \in Tasks : /\ Running(u)' <=> Running(u) /\ u # t
                       /\ Queued(u)' <=> Queued(u)
                       /\ Consumed(u)' <=> Consumed(u) \/ u = t
                       /\ Enqueued(u)' <=> Enqueued(u)
  <2>1. \A u \in Tasks : Running(u)' <=> Running(u) /\ u # t
    BY <1>1, <1>2, PipelineAssumption DEF PipelineInv, TaskInOnePlace, Running
  <2>2. \A u \in Tasks : /\ Queued(u)' <=> Queued(u)
                         /\ Consumed(u)' <=> Consumed(u) \/ u = t
                         /\ Enqueued(u)' <=> Enqueued(u)
    BY <1>2 DEF Queued, Consumed, Enqueued
  <2> QED
    BY <2>1, <2>2
<1>6. processed' \cap failed' = {} /\ unknown' \cap (processed' \cup failed') = {}
  BY <1>2, <1>3 DEF PipelineInv, TaskInOnePlace, Consumed
<1>7. \A v, x \in Workers : held'[v] = held'[x] /\ held'[v] # None => v = x
  BY <1>1, <1>2 DEF PipelineInv, TaskInOnePlace
<1>8. TaskInOnePlace'
  BY <1>2, <1>3, <1>5, <1>6, <1>7 DEF PipelineInv, TaskInOnePlace
<1>9. NoTaskBehindPill'
  BY <1>2 DEF PipelineInv, NoTaskBehindPill
<1>10. RunPhases'
  BY <1>1, <1>2
     DEF PipelineInv, RunPhases, Stopping, AllProducersDone, AllWorkersExited, TypeOK
<1> QED
  BY <1>4, <1>8, <1>9, <1>10 DEF PipelineInv

LEMMA WorkerStepInv ==
  ASSUME PipelineInv, NEW w \in Workers, WorkerStep(w)
  PROVE  PipelineInv'
<1>1. CASE Loop(w)
  BY <1>1, WorkerMovesInv DEF Loop, Exit, Wait
<1>2. CASE Get(w)
  BY <1>2, TakeHeadInv DEF Get
<1>3. CASE IdleTimeout(w)
  BY <1>3, WorkerMovesInv DEF IdleTimeout, Exit
<1>4. CASE Finish(w)
  BY <1>4, FinishInv
<1> QED
  BY <1>1, <1>2, <1>3, <1>4 DEF WorkerStep

(* The pill goes to the end of the queue, behind nothing but earlier pills *)
(* unless a signal has interrupted the run.                                *)
LEMMA PutPillInv ==
  ASSUME PipelineInv, PutPill
  PROVE  PipelineInv'
<1>1. /\ mainPC = "pills" /\ Stopping /\ stop
      /\ queue \in Seq(Tasks \cup {None})
      /\ Len(queue) < MaxSize
      /\ queue' = Append(queue, None)
      /\ unfinished' = unfinished + 1
      /\ UNCHANGED <<stop, interrupted, prodPC, discovered, workerPC, held,
                     processed, failed, unknown, mainPC>>
  BY DEF PipelineInv, TypeOK, RunPhases, PutPill, Enqueue, Stopping, prodVars,
         workVars, poolVars
<1>2. /\ queue' \in Seq(Tasks \cup {None})
      /\ Len(queue) \in Nat
      /\ Len(queue') = Len(queue) + 1
      /\ \A i \in 1..Len(queue) : queue'[i] = queue[i]
      /\ queue'[Len(queue) + 1] = None
  BY <1>1, AppendFacts
<1>3. TypeOK'
  <2>1. /\ Len(queue') <= MaxSize
        /\ unfinished' \in Int
        /\ pills' \in 0..Cardinality(Workers)
    BY <1>1, <1>2, FS_CardinalityType, PipelineAssumption
       DEF PipelineInv, TypeOK, PutPill
  <2> QED
    BY <1>1, <1>2, <2>1 DEF PipelineInv, TypeOK
<1>4. \A u \in Tasks : /\ Queued(u)' <=> Queued(u)
                       /\ Running(u)' <=> Running(u)
                       /\ Consumed(u)' <=> Consumed(u)
                       /\ Enqueued(u)' <=> Enqueued(u)
  BY <1>1, <1>2, PipelineAssumption DEF Queued, Running, Consumed, Enqueued
<1>5. TaskInOnePlace'
  BY <1>1, <1>2, <1>4 DEF PipelineInv, TaskInOnePlace
<1>6. NoTaskBehindPill'
  BY <1>2 DEF PipelineInv, NoTaskBehindPill
<1>7. ~interrupted => Len(queue') <= pills'
  <2>1. pills' = pills + 1 /\ pills \in Nat
    BY FS_CardinalityType, PipelineAssumption DEF PipelineInv, TypeOK, PutPill
  <2> QED
    BY <1>1, <1>2, <2>1 DEF PipelineInv, RunPhases
<1>8. RunPhases'
  BY <1>1, <1>2, <1>7
     DEF PipelineInv, RunPhases, Stopping, AllProducersDone, AllWorkersExited
<1> QED
  BY <1>3, <1>5, <1>6, <1>8 DEF PipelineInv

LEMMA RunStepInv ==
  ASSUME PipelineInv, RunStep
  PROVE  PipelineInv'
<1> USE DEF prodVars, workVars, poolVars
<1>1. CASE PutPill
  BY <1>1, PutPillInv
<1>2. CASE ProducersGathered \/ Drained \/ PillsPut \/ CloseClient \/ Export
  <2>1. UNCHANGED <<queue, unfinished, interrupted, prodPC, discovered, workerPC,
                    held, processed, failed, unknown, pills>>
    BY <1>2 DEF ProducersGathered, Drained, PillsPut, CloseClient, Export
  <2>2. TaskInOnePlace' /\ NoTaskBehindPill'
    BY <2>1, PlacesUnchanged DEF PipelineInv
  <2>3. mainPC' \in MainPC /\ stop' \in BOOLEAN
    BY <1>2 DEF PipelineInv, TypeOK, MainPC, ProducersGathered, Drained,
                PillsPut, CloseClient, Export
  <2>4. TypeOK'
    BY <2>1, <2>3 DEF PipelineInv, TypeOK
  <2>5. RunPhases'
    <3>1. CASE Drained
      BY <2>1, <3>1 DEF PipelineInv, TypeOK, RunPhases, Stopping, Drained, DrainOver,
                        AllProducersDone, AllWorkersExited
    <3>2. CASE ProducersGathered \/ PillsPut \/ CloseClient \/ Export
      BY <2>1, <3>2 DEF PipelineInv, RunPhases, Stopping, ProducersGathered,
                        PillsPut, CloseClient, Export, AllProducersDone,
                        AllWorkersExited
    <3> QED
      BY <1>2, <3>1, <3>2
  <2> QED
    BY <2>2, <2>4, <2>5 DEF PipelineInv
<1> QED
  BY <1>1, <1>2 DEF RunStep

LEMMA ShutdownInv ==
  ASSUME PipelineInv, Shutdown
  PROVE  PipelineInv'
<1>1. /\ stop' = TRUE /\ interrupted' = TRUE
      /\ UNCHANGED <<queue, unfinished, prodPC, discovered, workerPC, held,
                     processed, failed, unknown, mainPC, pills>>
  BY DEF Shutdown, prodVars, workVars, poolVars, mainVars
<1>2. TypeOK'
  BY <1>1 DEF PipelineInv, TypeOK
<1>3. TaskInOnePlace' /\ NoTaskBehindPill'
  BY <1>1, PlacesUnchanged DEF PipelineInv
<1>4. RunPhases'
  BY <1>1 DEF PipelineInv, RunPhases, Stopping, AllProducersDone, AllWorkersExited
<1> QED
  BY <1>2, <1>3, <1>4 DEF PipelineInv

LEMMA StutterInv ==
  ASSUME PipelineInv, UNCHANGED vars
  PROVE  PipelineInv'
BY DEF PipelineInv, TypeOK, TaskInOnePlace, NoTaskBehindPill, RunPhases, Stopping,
       Queued, Running, Consumed, Enqueued, AllProducersDone, AllWorkersExited,
       vars, prodVars, workVars, poolVars, mainVars

(* The invariant holds in every reachable state of every run.              *)
THEOREM PipelineInvariant == Spec => []PipelineInv
<1>1. Init => PipelineInv
  BY InitInv
<1>2. PipelineInv /\ [Next]_vars => PipelineInv'
  <2> SUFFICES ASSUME PipelineInv, [Next]_vars PROVE PipelineInv'
    OBVIOUS
  <2>1. ASSUME NEW p \in Producers, ProducerStep(p) PROVE PipelineInv'
    BY <2>1, DiscoverInv, PutInv, ProducerEndsInv DEF ProducerStep
  <2>2. ASSUME NEW w \in Workers, WorkerStep(w) PROVE PipelineInv'
    BY <2>2, WorkerStepInv
  <2>3. CASE RunStep
    BY <2>3, RunStepInv
  <2>4. CASE Shutdown
    BY <2>4, ShutdownInv
  <2>5. CASE Returned \/ UNCHANGED vars
    BY <2>5, StutterInv DEF Returned
  <2> QED
    BY <2>1, <2>2, <2>3, <2>4, <2>5 DEF Next
<1> QED
  BY <1>1, <1>2, PTL DEF Spec

-----------------------------------------------------------------------------
(* Consequences of the invariant.                                          *)

(* The queue never exceeds its bound and every variable keeps its type.    *)
THEOREM TypeCorrect == Spec => []TypeOK
<1>1. PipelineInv => TypeOK
  BY DEF PipelineInv
<1> QED
  BY <1>1, PipelineInvariant, PTL

(* No task is lost, duplicated or processed twice.                         *)
THEOREM OnePlace == Spec => []TaskInOnePlace
<1>1. PipelineInv => TaskInOnePlace
  BY DEF PipelineInv
<1> QED
  BY <1>1, PipelineInvariant, PTL

(* No task stands behind a poison pill.                                    *)
THEOREM PillsComeLast == Spec => []NoTaskBehindPill
<1>1. PipelineInv => NoTaskBehindPill
  BY DEF PipelineInv
<1> QED
  BY <1>1, PipelineInvariant, PTL

(* A run that returns without a signal has consumed all that was enqueued. *)
THEOREM UninterruptedRunComplete == Spec => []UninterruptedRunConsumesAll
<1>1. PipelineInv => UninterruptedRunConsumesAll
  <2> SUFFICES ASSUME PipelineInv, mainPC = "done", ~interrupted,
                      NEW t \in Tasks, Enqueued(t)
               PROVE  Consumed(t)
    BY DEF UninterruptedRunConsumesAll
  <2>1. t # None
    BY PipelineAssumption
  <2>2. ~Queued(t)
    BY <2>1 DEF PipelineInv, RunPhases, Stopping, Queued
  <2>3. ~Running(t)
    BY <2>1 DEF PipelineInv, RunPhases, AllWorkersExited, Running
  <2> QED
    BY <2>2, <2>3 DEF PipelineInv, TaskInOnePlace
<1> QED
  BY <1>1, PipelineInvariant, PTL

(* A put blocks for ever only over a signal, workers that left early or a  *)
(* queue that the pills alone fill.                                        *)
LEMMA StuckCauses == PipelineInv => StuckInThreeWays
<1> SUFFICES ASSUME PipelineInv, Stuck, ~interrupted
             PROVE  LeftEarly \/ pills >= MaxSize
  BY DEF StuckInThreeWays
<1>1. CASE \E p \in Producers : prodPC[p] = "put"
  <2>1. ~AllProducersDone /\ ~stop
    BY <1>1 DEF PipelineInv, RunPhases, AllProducersDone, Stopping
  <2> QED
    BY <2>1, PipelineAssumption DEF Stuck, AllWorkersExited, LeftEarly
<1>2. CASE mainPC = "pills"
  <2>1. Len(queue) <= pills
    BY <1>2 DEF PipelineInv, RunPhases, Stopping
  <2> QED
    BY <2>1 DEF Stuck
<1> QED
  BY <1>1, <1>2 DEF Stuck

(* In every run a put that can never complete has one of these causes.     *)
THEOREM StuckExplained == Spec => []StuckInThreeWays
BY StuckCauses, PipelineInvariant, PTL

(* In particular a queue with room for one pill for each worker, as the    *)
(* program's is by default, blocks run() for ever only over a signal or    *)
(* workers that left early.                                                *)
THEOREM RoomForPills ==
  Cardinality(Workers) <= MaxSize => (Spec => [](Stuck => Disturbed))
<1> SUFFICES ASSUME Cardinality(Workers) <= MaxSize
             PROVE  Spec => [](Stuck => Disturbed)
  OBVIOUS
<1>1. PipelineInv => (Stuck => Disturbed)
  <2> SUFFICES ASSUME PipelineInv, Stuck, ~interrupted
               PROVE  LeftEarly
    BY DEF Disturbed
  <2>1. CASE \E p \in Producers : prodPC[p] = "put"
    <3>1. ~AllProducersDone /\ ~stop
      BY <2>1 DEF PipelineInv, RunPhases, AllProducersDone, Stopping
    <3> QED
      BY <3>1, PipelineAssumption DEF Stuck, AllWorkersExited, LeftEarly
  <2>2. CASE mainPC = "pills" /\ pills < Cardinality(Workers)
    <3>1. Len(queue) <= pills /\ Len(queue) = MaxSize
      BY <2>2 DEF PipelineInv, RunPhases, Stopping, Stuck
    <3>2. pills \in Nat /\ Cardinality(Workers) \in Nat /\ MaxSize \in Nat
      BY FS_CardinalityType, PipelineAssumption DEF PipelineInv, TypeOK
    <3> QED
      BY <2>2, <3>1, <3>2
  <2> QED
    BY <2>1, <2>2 DEF Stuck
<1> QED
  BY <1>1, PipelineInvariant, PTL

-----------------------------------------------------------------------------
(* The count of unfinished items.  Its proof counts the workers that hold  *)
(* a task: TakeHead adds one, Finish removes one.                          *)

Holders == {w \in Workers : held[w] # None}

LEMMA HoldersFinite == IsFiniteSet(Holders) /\ Cardinality(Holders) \in Nat
<1>1. Holders \in SUBSET Workers
  BY DEF Holders
<1> QED
  BY <1>1, FS_Subset, FS_CardinalityType, PipelineAssumption

LEMMA BalanceStep ==
  ASSUME PipelineInv, TaskDoneBalance, [Next]_vars
  PROVE  TaskDoneBalance'
<1> USE DEF TaskDoneBalance, Holders
<1> USE HoldersFinite
<1>1. /\ held \in [Workers -> Tasks \cup {None}]
      /\ queue \in Seq(Tasks \cup {None})
      /\ unfinished \in Int
      /\ Len(queue) \in Nat
  BY DEF PipelineInv, TypeOK
<1>2. CASE UNCHANGED <<queue, unfinished, held>>
  BY <1>2
<1>3. ASSUME NEW x \in Tasks \cup {None}, Enqueue(x), held' = held
      PROVE  TaskDoneBalance'
  BY <1>1, <1>3, AppendFacts DEF Enqueue
<1>4. ASSUME NEW w \in Workers, TakeHead(w), workerPC[w] = "waiting"
      PROVE  TaskDoneBalance'
  <2>1. Len(queue') = Len(queue) - 1
    BY <1>1, <1>4, TailFacts DEF TakeHead, Dequeue
  <2>2. CASE unfinished' = unfinished - 1 /\ held' = held
    BY <1>1, <2>1, <2>2
  <2>3. CASE /\ Head(queue) # None
             /\ held' = [held EXCEPT ![w] = Head(queue)]
             /\ unfinished' = unfinished
    <3>1. held[w] = None
      BY <1>4 DEF PipelineInv, RunPhases
    <3>2. Holders' = Holders \cup {w} /\ w \notin Holders
      BY <1>1, <2>3, <3>1
    <3>3. Cardinality(Holders') = Cardinality(Holders) + 1
      BY <3>2, FS_AddElement
    <3> QED
      BY <1>1, <2>1, <2>3, <3>3
  <2> QED
    BY <1>4, <2>2, <2>3 DEF TakeHead, Dequeue, TaskDone
<1>5. ASSUME NEW w \in Workers, Finish(w)
      PROVE  TaskDoneBalance'
  <2>1. /\ held[w] # None
        /\ held' = [held EXCEPT ![w] = None]
        /\ unfinished' = unfinished - 1
        /\ queue' = queue
    BY <1>5 DEF PipelineInv, RunPhases, Finish, TaskDone
  <2>2. Holders' = Holders \ {w} /\ w \in Holders
    BY <1>1, <2>1
  <2>3. Cardinality(Holders') = Cardinality(Holders) - 1
    BY <2>2, FS_RemoveElement
  <2> QED
    BY <1>1, <2>1, <2>3
<1>6. ASSUME NEW p \in Producers, ProducerStep(p)
      PROVE  TaskDoneBalance'
  <2>1. CASE Put(p)
    <3>1. <<p, discovered[p] + 1>> \in Tasks
      <4>1. discovered[p] \in Nat /\ discovered[p] < Limit[p] /\ Limit[p] \in Nat
        BY <2>1, PipelineAssumption DEF PipelineInv, TypeOK, Put
      <4> QED
        BY <4>1, TaskFacts
    <3> QED
      BY <1>3, <2>1, <3>1 DEF Put, workVars
  <2>2. CASE Discover(p) \/ ProducerEnds(p)
    BY <1>2, <2>2 DEF Discover, ProducerEnds, workVars
  <2> QED
    BY <1>6, <2>1, <2>2 DEF ProducerStep
<1>7. ASSUME NEW w \in Workers, WorkerStep(w)
      PROVE  TaskDoneBalance'
  BY <1>2, <1>4, <1>5, <1>7
     DEF WorkerStep, Loop, Get, IdleTimeout, Exit, Wait
<1>8. CASE RunStep
  BY <1>2, <1>3, <1>8
     DEF RunStep, ProducersGathered, Drained, PutPill, PillsPut, CloseClient,
         Export, workVars
<1>9. CASE Shutdown \/ Returned \/ UNCHANGED vars
  BY <1>2, <1>9 DEF Shutdown, Returned, vars, workVars
<1> QED
  BY <1>6, <1>7, <1>8, <1>9 DEF Next

(* task_done() is called once for each item taken, never once too often.   *)
THEOREM Balanced == Spec => []TaskDoneBalance
<1>1. Init => TaskDoneBalance
  <2> SUFFICES ASSUME Init PROVE TaskDoneBalance
    OBVIOUS
  <2>1. {w \in Workers : held[w] # None} = {}
    BY DEF Init
  <2>2. Len(queue) = 0 /\ unfinished = 0
    BY DEF Init
  <2> QED
    BY <2>1, <2>2, FS_EmptySet DEF TaskDoneBalance
<1>2. PipelineInv /\ TaskDoneBalance /\ [Next]_vars => TaskDoneBalance'
  BY BalanceStep
<1> QED
  BY <1>1, <1>2, PipelineInvariant, PTL DEF Spec

-----------------------------------------------------------------------------
(* Refinement: every step of the pipeline is a step of WorkPool or leaves  *)
(* the status of every task alone.                                         *)

LEMMA SameStatus ==
  ASSUME \A u \in Tasks : /\ Queued(u)' <=> Queued(u)
                          /\ Running(u)' <=> Running(u)
                          /\ Consumed(u)' <=> Consumed(u)
  PROVE  TaskStatus' = TaskStatus
BY DEF TaskStatus

LEMMA MovedStatus ==
  ASSUME NEW t \in Tasks,
         NEW from, NEW to,
         TaskStatus[t] = from, TaskStatus'[t] = to,
         \A u \in Tasks : u # t => /\ Queued(u)' <=> Queued(u)
                                   /\ Running(u)' <=> Running(u)
                                   /\ Consumed(u)' <=> Consumed(u)
  PROVE  TaskStatus' = [TaskStatus EXCEPT ![t] = to]
BY DEF TaskStatus

LEMMA PutRefines ==
  ASSUME PipelineInv, NEW p \in Producers, Put(p)
  PROVE  [Pool!Next]_TaskStatus
<1> DEFINE t == <<p, discovered[p] + 1>>
<1>1. t \in Tasks /\ ~Enqueued(t)
  <2>1. discovered[p] \in Nat /\ Limit[p] \in Nat /\ discovered[p] < Limit[p]
    BY PipelineAssumption DEF PipelineInv, TypeOK, Put
  <2>2. discovered[p] + 1 \in 1..Limit[p] /\ ~(discovered[p] + 1 <= discovered[p])
    BY <2>1
  <2> QED
    BY <2>2, TaskFacts DEF Enqueued
<1>2. \A u \in Tasks : /\ Queued(u)' <=> Queued(u) \/ u = t
                       /\ Running(u)' <=> Running(u)
                       /\ Consumed(u)' <=> Consumed(u)
  <2>1. /\ queue' = Append(queue, t)
        /\ queue \in Seq(Tasks \cup {None})
        /\ UNCHANGED <<held, processed, failed, unknown>>
    BY DEF PipelineInv, TypeOK, Put, Enqueue, workVars, poolVars
  <2>2. /\ Len(queue') = Len(queue) + 1
        /\ \A i \in 1..Len(queue) : queue'[i] = queue[i]
        /\ queue'[Len(queue) + 1] = t
        /\ Len(queue) \in Nat
    BY <1>1, <2>1, AppendFacts
  <2>3. \A u \in Tasks : Queued(u)' <=> Queued(u) \/ u = t
    <3>1. /\ \A i \in 1..Len(queue') : i \in 1..Len(queue) \/ i = Len(queue) + 1
          /\ \A i \in 1..Len(queue) : i \in 1..Len(queue')
          /\ Len(queue) + 1 \in 1..Len(queue')
      BY <2>2
    <3>2. ASSUME NEW u \in Tasks, Queued(u)
          PROVE  Queued(u)'
      BY <2>2, <3>1, <3>2 DEF Queued
    <3>3. ASSUME NEW u \in Tasks, u = t
          PROVE  Queued(u)'
      BY <2>2, <3>1, <3>3 DEF Queued
    <3>4. ASSUME NEW u \in Tasks, Queued(u)', u # t
          PROVE  Queued(u)
      BY <2>2, <3>1, <3>4 DEF Queued
    <3> QED
      BY <3>2, <3>3, <3>4
  <2> QED
    BY <2>1, <2>3 DEF Running, Consumed
<1>3. TaskStatus[t] = "new" /\ TaskStatus'[t] = "queued"
  BY <1>1, <1>2 DEF PipelineInv, TaskInOnePlace, TaskStatus
<1>4. TaskStatus' = [TaskStatus EXCEPT ![t] = "queued"]
  BY <1>1, <1>2, <1>3, MovedStatus
<1> QED
  BY <1>1, <1>3, <1>4 DEF Pool!Next, Pool!Enqueue, Pool!Move

LEMMA TakeHeadRefines ==
  ASSUME PipelineInv, NEW w \in Workers, workerPC[w] = "waiting", TakeHead(w)
  PROVE  [Pool!Next]_TaskStatus
<1> DEFINE t == Head(queue)
<1>1. /\ t \in Tasks \cup {None}
      /\ \A u \in Tasks : Queued(u)' <=> Queued(u) /\ u # t
      /\ t # None => Queued(t)
  BY TakeHeadQueue, PipelineAssumption DEF Queued
<1>2. /\ held[w] = None /\ held \in [Workers -> Tasks \cup {None}]
      /\ UNCHANGED <<processed, failed>>
  BY DEF PipelineInv, TypeOK, RunPhases, TakeHead, Dequeue
<1>3. CASE t = None
  <2>1. UNCHANGED <<held, unknown>>
    BY <1>3 DEF TakeHead, Dequeue
  <2>2. TaskStatus' = TaskStatus
    BY <1>1, <1>2, <1>3, <2>1, SameStatus, PipelineAssumption DEF Running, Consumed
  <2> QED
    BY <2>2
<1>4. CASE t # None /\ t[1] \notin Registered
  <2>1. unknown' = unknown \cup {t} /\ held' = held
    BY <1>4 DEF TakeHead, Dequeue
  <2>2. \A u \in Tasks : /\ Running(u)' <=> Running(u)
                         /\ Consumed(u)' <=> Consumed(u) \/ u = t
    BY <1>2, <2>1 DEF Running, Consumed
  <2>3. TaskStatus[t] = "queued" /\ TaskStatus'[t] = "finished" /\ t \in Tasks
    BY <1>1, <1>4, <2>2 DEF PipelineInv, TaskInOnePlace, TaskStatus
  <2>4. TaskStatus' = [TaskStatus EXCEPT ![t] = "finished"]
    BY <1>1, <2>2, <2>3, MovedStatus
  <2> QED
    BY <2>3, <2>4 DEF Pool!Next, Pool!Skip, Pool!Move
<1>5. CASE t # None /\ t[1] \in Registered
  <2>1. held' = [held EXCEPT ![w] = t] /\ unknown' = unknown
    BY <1>5 DEF TakeHead, Dequeue
  <2>2. \A u \in Tasks : /\ Running(u)' <=> Running(u) \/ u = t
                         /\ Consumed(u)' <=> Consumed(u)
    BY <1>2, <2>1, PipelineAssumption DEF Running, Consumed
  <2>3. TaskStatus[t] = "queued" /\ TaskStatus'[t] = "running" /\ t \in Tasks
    BY <1>1, <1>5, <2>2 DEF PipelineInv, TaskInOnePlace, TaskStatus
  <2>4. TaskStatus' = [TaskStatus EXCEPT ![t] = "running"]
    BY <1>1, <2>2, <2>3, MovedStatus
  <2> QED
    BY <2>3, <2>4 DEF Pool!Next, Pool!Start, Pool!Move
<1> QED
  BY <1>3, <1>4, <1>5

LEMMA FinishRefines ==
  ASSUME PipelineInv, NEW w \in Workers, Finish(w)
  PROVE  [Pool!Next]_TaskStatus
<1> DEFINE t == held[w]
<1>1. /\ t # None /\ t \in Tasks /\ held \in [Workers -> Tasks \cup {None}]
      /\ Running(t)
  BY DEF PipelineInv, TypeOK, RunPhases, Finish, Running
<1>2. /\ held' = [held EXCEPT ![w] = None]
      /\ UNCHANGED <<queue, unknown>>
      /\ \/ processed' = processed \cup {t} /\ failed' = failed
         \/ failed' = failed \cup {t} /\ processed' = processed
  BY DEF Finish, Outcome
<1>3. \A u \in Tasks : /\ Running(u)' <=> Running(u) /\ u # t
                       /\ Queued(u)' <=> Queued(u)
                       /\ Consumed(u)' <=> Consumed(u) \/ u = t
  <2>1. \A u \in Tasks : Running(u)' <=> Running(u) /\ u # t
    BY <1>1, <1>2, PipelineAssumption DEF PipelineInv, TaskInOnePlace, Running
  <2> QED
    BY <1>2, <2>1 DEF Queued, Consumed
<1>4. TaskStatus[t] = "running" /\ TaskStatus'[t] = "finished"
  BY <1>1, <1>3 DEF PipelineInv, TaskInOnePlace, TaskStatus
<1>5. TaskStatus' = [TaskStatus EXCEPT ![t] = "finished"]
  BY <1>1, <1>3, <1>4, MovedStatus
<1> QED
  BY <1>1, <1>4, <1>5 DEF Pool!Next, Pool!Finish, Pool!Move

(* The pipeline implements the abstract pool.                              *)
THEOREM Refinement == Spec => ImplementsWorkPool
<1>1. Init => Pool!Init
  <2> SUFFICES ASSUME Init PROVE Pool!Init
    OBVIOUS
  <2>1. \A t \in Tasks : ~Queued(t) /\ ~Running(t) /\ ~Consumed(t)
    BY PipelineAssumption DEF Init, Queued, Running, Consumed
  <2> QED
    BY <2>1 DEF Pool!Init, TaskStatus
<1>2. PipelineInv /\ [Next]_vars => [Pool!Next]_TaskStatus
  <2> SUFFICES ASSUME PipelineInv, [Next]_vars
               PROVE  [Pool!Next]_TaskStatus
    OBVIOUS
  <2>1. CASE UNCHANGED <<queue, held, processed, failed, unknown>>
    <3>1. TaskStatus' = TaskStatus
      BY <2>1, SameStatus DEF Queued, Running, Consumed
    <3> QED
      BY <3>1
  <2>2. CASE PutPill
    <3>1. /\ queue' = Append(queue, None)
          /\ queue \in Seq(Tasks \cup {None})
          /\ UNCHANGED <<held, processed, failed, unknown>>
      BY <2>2 DEF PipelineInv, TypeOK, PutPill, Enqueue, workVars, poolVars
    <3>2. \A u \in Tasks : Queued(u)' <=> Queued(u)
      BY <3>1, AppendFacts, PipelineAssumption DEF Queued
    <3>3. TaskStatus' = TaskStatus
      BY <3>1, <3>2, SameStatus DEF Running, Consumed
    <3> QED
      BY <3>3
  <2>3. ASSUME NEW p \in Producers, ProducerStep(p)
        PROVE  [Pool!Next]_TaskStatus
    BY <2>1, <2>3, PutRefines
       DEF ProducerStep, Discover, ProducerEnds, workVars, poolVars
  <2>4. ASSUME NEW w \in Workers, WorkerStep(w)
        PROVE  [Pool!Next]_TaskStatus
    BY <2>1, <2>4, TakeHeadRefines, FinishRefines
       DEF WorkerStep, Loop, Get, IdleTimeout, Exit, Wait, poolVars
  <2>5. CASE RunStep
    BY <2>1, <2>2, <2>5
       DEF RunStep, ProducersGathered, Drained, PillsPut, CloseClient, Export,
           workVars, poolVars
  <2>6. CASE Shutdown \/ Returned \/ UNCHANGED vars
    BY <2>1, <2>6 DEF Shutdown, Returned, vars, workVars, poolVars
  <2> QED
    BY <2>3, <2>4, <2>5, <2>6 DEF Next
<1> QED
  BY <1>1, <1>2, PipelineInvariant, PTL DEF Spec, ImplementsWorkPool, Pool!Spec

=============================================================================
