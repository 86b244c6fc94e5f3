--------------------------- MODULE CrawlPipeline ---------------------------
(***************************************************************************)
(* Life cycle of one run of the Phase I crawler (crawler/pipeline.py):     *)
(* one producer coroutine per adapter fills a bounded asyncio queue, a     *)
(* fixed pool of worker coroutines empties it, and run() waits for the     *)
(* producers, lets the queue drain, stops the workers with poison pills    *)
(* and closes the network client.  A signal handler may set the stop event *)
(* at any time.                                                            *)
(*                                                                         *)
(* A task is a pair <<adapter, index>>.  What a worker does with a task    *)
(* (fetch, parse, save, checkpoint) is one busy period that succeeds or    *)
(* raises; the modules DedupStore and CheckpointResume open it up.         *)
(***************************************************************************)
EXTENDS Integers, Sequences, FiniteSets

CONSTANTS
  Producers,      \* the active adapters, one producer coroutine for each
  Registered,     \* the adapters a worker finds in the registry
  Workers,        \* the worker coroutines (concurrency of them)
  Limit,          \* Limit[p]: how many tasks the discover() of p yields
  MaxSize,        \* maxsize of the bounded queue
  None,           \* the poison pill
  SlowDiscovery,  \* may discover() take longer than a worker's idle timeout?
  Signals         \* may SIGINT or SIGTERM arrive during the run?

Tasks == UNION {{p} \X (1..Limit[p]) : p \in Producers}

ASSUME PipelineAssumption ==
  /\ Registered \subseteq Producers
  /\ IsFiniteSet(Workers)
  /\ Workers # {}
  /\ Limit \in [Producers -> Nat]
  /\ MaxSize \in Nat \ {0}
  /\ None \notin Tasks
  /\ SlowDiscovery \in BOOLEAN
  /\ Signals \in BOOLEAN

VARIABLES
  queue,       \* what asyncio.Queue holds, oldest first
  unfinished,  \* its count of items put and not yet marked task_done
  stop,        \* the stop event
  interrupted, \* was it a signal that set the stop event? (history)
  prodPC,      \* where each producer is
  discovered,  \* how many tasks each producer has enqueued
  workerPC,    \* where each worker is
  held,        \* the task each worker is processing, None if it has none
  processed,   \* tasks that went through to the end (total_processed)
  failed,      \* tasks whose processing raised (total_errors)
  unknown,     \* tasks no registered adapter takes
  mainPC,      \* where run() is
  pills        \* how many poison pills run() has enqueued

poolVars == <<processed, failed, unknown>>
prodVars == <<prodPC, discovered>>
workVars == <<workerPC, held>>
mainVars == <<mainPC, pills>>
vars == <<queue, unfinished, stop, interrupted, prodVars, workVars, poolVars,
          mainVars>>

ProducerPC == {"discover", "put", "done"}
WorkerPC   == {"loop", "waiting", "busy", "exited"}
MainPC     == {"gather", "drain", "pills", "join", "closed", "done"}

Init ==
  /\ queue = <<>>
  /\ unfinished = 0
  /\ stop = FALSE
  /\ interrupted = FALSE
  /\ prodPC = [p \in Producers |-> "discover"]
  /\ discovered = [p \in Producers |-> 0]
  /\ workerPC = [w \in Workers |-> "loop"]
  /\ held = [w \in Workers |-> None]
  /\ processed = {}
  /\ failed = {}
  /\ unknown = {}
  /\ mainPC = "gather"
  /\ pills = 0

-----------------------------------------------------------------------------
(* The queue.  A put completes only when there is room: until then the     *)
(* coroutine that called it waits.                                         *)

(* Faulty variant: a queue without its bound.                              *)
EnqueueUnbounded(item) ==
  /\ queue' = Append(queue, item)
  /\ unfinished' = unfinished + 1

Enqueue(item) ==
  /\ Len(queue) < MaxSize
  /\ queue' = Append(queue, item)
  /\ unfinished' = unfinished + 1

(* Faulty variant: an item is read but stays in the queue.                 *)
Peek == queue # <<>> /\ queue' = queue

Dequeue == queue # <<>> /\ queue' = Tail(queue)

(* Faulty variant: the call is forgotten.                                  *)
TaskNotDone == unfinished' = unfinished

TaskDone == unfinished' = unfinished - 1

-----------------------------------------------------------------------------
(* Producers *)

(* discover() yields one more task; the producer gives up if stop is set.  *)
Discover(p) ==
  /\ prodPC[p] = "discover"
  /\ discovered[p] < Limit[p]
  /\ prodPC' = [prodPC EXCEPT ![p] = IF stop THEN "done" ELSE "put"]
  /\ UNCHANGED <<queue, unfinished, stop, interrupted, discovered, workVars,
                 poolVars, mainVars>>

Put(p) ==
  /\ prodPC[p] = "put"
  /\ Enqueue(<<p, discovered[p] + 1>>)
  /\ discovered' = [discovered EXCEPT ![p] = @ + 1]
  /\ prodPC' = [prodPC EXCEPT ![p] = "discover"]
  /\ UNCHANGED <<stop, interrupted, workVars, poolVars, mainVars>>

(* discover() is exhausted, or raises: the producer logs and returns.      *)
ProducerEnds(p) ==
  /\ prodPC[p] = "discover"
  /\ prodPC' = [prodPC EXCEPT ![p] = "done"]
  /\ UNCHANGED <<queue, unfinished, stop, interrupted, discovered, workVars,
                 poolVars, mainVars>>

(* Faulty variant: run() does not wait for the producers.                  *)
SomeProducerDone == \E p \in Producers : prodPC[p] = "done"

AllProducersDone == \A p \in Producers : prodPC[p] = "done"

-----------------------------------------------------------------------------
(* Workers *)

(* Take the head of the queue: a pill ends the worker, a task of an        *)
(* unknown adapter is marked done and skipped, any other task is processed.*)
TakeHead(w) ==
  LET item == Head(queue) IN
  /\ Dequeue
  /\ \/ /\ item = None
        /\ TaskDone
        /\ workerPC' = [workerPC EXCEPT ![w] = "exited"]
        /\ UNCHANGED <<held, unknown>>
     \/ /\ item # None
        /\ item[1] \notin Registered
        /\ TaskDone
        /\ unknown' = unknown \cup {item}
        /\ workerPC' = [workerPC EXCEPT ![w] = "loop"]
        /\ UNCHANGED held
     \/ /\ item # None
        /\ item[1] \in Registered
        /\ held' = [held EXCEPT ![w] = item]
        /\ workerPC' = [workerPC EXCEPT ![w] = "busy"]
        /\ UNCHANGED <<unfinished, unknown>>
  /\ UNCHANGED <<stop, interrupted, prodVars, processed, failed, mainVars>>

(* The worker waits in queue.get(), with a timeout of one second.          *)
Wait(w) ==
  /\ workerPC' = [workerPC EXCEPT ![w] = "waiting"]
  /\ UNCHANGED <<queue, unfinished, stop, interrupted, prodVars, held,
                 poolVars, mainVars>>

Exit(w) ==
  /\ workerPC' = [workerPC EXCEPT ![w] = "exited"]
  /\ UNCHANGED <<queue, unfinished, stop, interrupted, prodVars, held,
                 poolVars, mainVars>>

(* Head of the worker's loop.  wait_for() runs get() as a task of its own: *)
(* whatever the queue holds, the worker is suspended between its test of   *)
(* stop and the item, and others may take a step there.                    *)
Loop(w) ==
  /\ workerPC[w] = "loop"
  /\ \/ stop /\ Exit(w)
     \/ ~stop /\ Wait(w)

Get(w) ==
  /\ workerPC[w] = "waiting"
  /\ TakeHead(w)

(* Faulty variant: whoever waited a second leaves, whatever has come since.*)
IdleTimeoutLeaves(w) ==
  /\ workerPC[w] = "waiting"
  /\ SlowDiscovery \/ AllProducersDone
  /\ Exit(w)

(* One idle second passed.  The worker leaves the pool if stop is set or   *)
(* the queue is empty, whether or not the producers have finished; when an *)
(* item arrived together with the timeout it goes round its loop again.    *)
IdleTimeout(w) ==
  /\ workerPC[w] = "waiting"
  /\ SlowDiscovery \/ AllProducersDone
  /\ \/ (stop \/ queue = <<>>) /\ Exit(w)
     \/ /\ ~(stop \/ queue = <<>>)
        /\ workerPC' = [workerPC EXCEPT ![w] = "loop"]
        /\ UNCHANGED <<queue, unfinished, stop, interrupted, prodVars, held,
                       poolVars, mainVars>>

(* Faulty variant: an exception leaves no trace.                           *)
OutcomeSwallowed(t) ==
  \/ processed' = processed \cup {t} /\ UNCHANGED failed
  \/ UNCHANGED <<processed, failed>>

(* The task was fetched, parsed, saved and checkpointed, or something on   *)
(* the way raised.                                                         *)
Outcome(t) ==
  \/ processed' = processed \cup {t} /\ UNCHANGED failed
  \/ failed' = failed \cup {t} /\ UNCHANGED processed

(* Either way the task is marked done and not enqueued again.              *)
Finish(w) ==
  /\ workerPC[w] = "busy"
  /\ Outcome(held[w])
  /\ TaskDone
  /\ held' = [held EXCEPT ![w] = None]
  /\ workerPC' = [workerPC EXCEPT ![w] = "loop"]
  /\ UNCHANGED <<queue, stop, interrupted, prodVars, unknown, mainVars>>

AllWorkersExited == \A w \in Workers : workerPC[w] = "exited"

-----------------------------------------------------------------------------
(* run() and the signal handler *)

Shutdown ==
  /\ Signals
  /\ ~stop
  /\ stop' = TRUE
  /\ interrupted' = TRUE
  /\ UNCHANGED <<queue, unfinished, prodVars, workVars, poolVars, mainVars>>

ProducersGathered ==
  /\ mainPC = "gather"
  /\ AllProducersDone
  /\ mainPC' = "drain"
  /\ UNCHANGED <<queue, unfinished, stop, interrupted, prodVars, workVars,
                 poolVars, pills>>

(* Faulty variant: there is no drain loop.                                 *)
DrainAtOnce == TRUE

DrainOver == queue = <<>> \/ stop

(* run() polls until the queue is empty or stop is set, then sets stop.    *)
Drained ==
  /\ mainPC = "drain"
  /\ DrainOver
  /\ stop' = TRUE
  /\ mainPC' = "pills"
  /\ UNCHANGED <<queue, unfinished, interrupted, prodVars, workVars, poolVars,
                 pills>>

PutPill ==
  /\ mainPC = "pills"
  /\ pills < Cardinality(Workers)
  /\ Enqueue(None)
  /\ pills' = pills + 1
  /\ UNCHANGED <<stop, interrupted, prodVars, workVars, poolVars, mainPC>>

PillsPut ==
  /\ mainPC = "pills"
  /\ pills = Cardinality(Workers)
  /\ mainPC' = "join"
  /\ UNCHANGED <<queue, unfinished, stop, interrupted, prodVars, workVars,
                 poolVars, pills>>

(* All workers are gathered and the network client is closed.              *)
CloseClient ==
  /\ mainPC = "join"
  /\ AllWorkersExited
  /\ mainPC' = "closed"
  /\ UNCHANGED <<queue, unfinished, stop, interrupted, prodVars, workVars,
                 poolVars, pills>>

Export ==
  /\ mainPC = "closed"
  /\ mainPC' = "done"
  /\ UNCHANGED <<queue, unfinished, stop, interrupted, prodVars, workVars,
                 poolVars, pills>>

(* The process has returned: nothing more happens.                         *)
Returned == mainPC = "done" /\ UNCHANGED vars

-----------------------------------------------------------------------------

ProducerStep(p) == Discover(p) \/ Put(p) \/ ProducerEnds(p)
WorkerStep(w)   == Loop(w) \/ Get(w) \/ IdleTimeout(w) \/ Finish(w)
RunStep         == \/ ProducersGathered \/ Drained \/ PutPill \/ PillsPut
                   \/ CloseClient \/ Export

Next ==
  \/ \E p \in Producers : ProducerStep(p)
  \/ \E w \in Workers : WorkerStep(w)
  \/ RunStep
  \/ Shutdown
  \/ Returned

(* The event loop resumes every coroutine that can go on, and a fetch ends *)
(* within its timeout; a queue that keeps holding something serves a get() *)
(* long before its second is over, and waiting getters in their order.     *)
(* Nothing obliges a signal to arrive.                                     *)
Fairness ==
  /\ \A p \in Producers : WF_vars(ProducerStep(p))
  /\ \A w \in Workers : WF_vars(WorkerStep(w)) /\ SF_vars(Get(w))
  /\ WF_vars(RunStep)

Spec == Init /\ [][Next]_vars /\ Fairness

-----------------------------------------------------------------------------
(* Properties *)

TypeOK ==
  /\ queue \in Seq(Tasks \cup {None})
  /\ Len(queue) <= MaxSize
  /\ unfinished \in Int
  /\ stop \in BOOLEAN
  /\ interrupted \in BOOLEAN
  /\ prodPC \in [Producers -> ProducerPC]
  /\ discovered \in [Producers -> Nat]
  /\ \A p \in Producers : /\ discovered[p] <= Limit[p]
                          /\ prodPC[p] = "put" => discovered[p] < Limit[p]
  /\ workerPC \in [Workers -> WorkerPC]
  /\ held \in [Workers -> Tasks \cup {None}]
  /\ processed \in SUBSET Tasks
  /\ failed \in SUBSET Tasks
  /\ unknown \in SUBSET Tasks
  /\ mainPC \in MainPC
  /\ pills \in 0..Cardinality(Workers)

Queued(t)   == \E i \in 1..Len(queue) : queue[i] = t
Running(t)  == \E w \in Workers : held[w] = t
Consumed(t) == t \in processed \/ t \in failed \/ t \in unknown
Enqueued(t) == t[2] <= discovered[t[1]]

(* Every task a producer has enqueued is in exactly one place - one        *)
(* position of the queue, the hands of one worker, or one of the final     *)
(* outcomes - and a task not enqueued yet is in none: worker() never       *)
(* processes a task twice and never loses one that it took.                *)
TaskInOnePlace ==
  /\ \A i, j \in 1..Len(queue) : queue[i] = queue[j] /\ queue[i] # None => i = j
  /\ \A v, w \in Workers : held[v] = held[w] /\ held[v] # None => v = w
  /\ processed \cap failed = {}
  /\ unknown \cap (processed \cup failed) = {}
  /\ \A t \in Tasks :
       /\ Enqueued(t) <=> Queued(t) \/ Running(t) \/ Consumed(t)
       /\ ~(Queued(t) /\ Running(t))
       /\ ~(Consumed(t) /\ (Queued(t) \/ Running(t)))

(* task_done() is called exactly once for each item taken, on every path   *)
(* of worker(): the queue's unfinished count is what is queued plus what   *)
(* workers hold (one more call would raise ValueError inside the finally). *)
TaskDoneBalance ==
  unfinished = Len(queue) + Cardinality({w \in Workers : held[w] # None})

(* run() enqueues its pills only after every producer has returned, so no  *)
(* task ever stands behind a pill, where no worker would reach it.         *)
NoTaskBehindPill ==
  \A i, j \in 1..Len(queue) : i < j /\ queue[i] = None => queue[j] = None

(* The phases of run() as the other coroutines see them: a worker is busy  *)
(* exactly when it holds a task; producers are done once run() is past its *)
(* first gather; stop is set by a signal or by run() in its last phases;   *)
(* only then are pills in the queue and, without a signal, no task is.     *)
Stopping == mainPC \in {"pills", "join", "closed", "done"}

RunPhases ==
  /\ \A w \in Workers : held[w] # None <=> workerPC[w] = "busy"
  /\ mainPC # "gather" => AllProducersDone
  /\ Stopping => stop
  /\ stop => interrupted \/ Stopping
  /\ \A i \in 1..Len(queue) : queue[i] = None => Stopping
  /\ Stopping /\ ~interrupted => /\ \A i \in 1..Len(queue) : queue[i] = None
                                 /\ Len(queue) <= pills
  /\ mainPC \in {"closed", "done"} => AllWorkersExited

(* The inductive invariant behind the safety properties of the run.        *)
PipelineInv == TypeOK /\ TaskInOnePlace /\ NoTaskBehindPill /\ RunPhases

(* A run that ends without a signal has consumed every task any producer   *)
(* enqueued: the two gathers of run() and the drain loop between them      *)
(* leave none behind.                                                      *)
UninterruptedRunConsumesAll ==
  mainPC = "done" /\ ~interrupted =>
    \A t \in Tasks : Enqueued(t) => Consumed(t)

(* The pool implements WorkPool: each task moves forward through enqueued, *)
(* taken and finished, one step of one coroutine at a time, never back.    *)
TaskStatus ==
  [t \in Tasks |-> IF Consumed(t) THEN "finished"
                   ELSE IF Running(t) THEN "running"
                   ELSE IF Queued(t) THEN "queued" ELSE "new"]

Pool == INSTANCE WorkPool WITH status <- TaskStatus

ImplementsWorkPool == Pool!Spec

(* A worker has left the pool, no signal asking it to, while a producer    *)
(* still had tasks to come.                                                *)
LeftEarly == ~stop /\ ~AllProducersDone /\ \E w \in Workers : workerPC[w] = "exited"

(* A put that can never complete: the queue is full, every worker that     *)
(* could empty it has left, and a producer or run() itself waits for room. *)
Stuck ==
  /\ AllWorkersExited
  /\ Len(queue) = MaxSize
  /\ \/ \E p \in Producers : prodPC[p] = "put"
     \/ mainPC = "pills" /\ pills < Cardinality(Workers)

(* Tasks and pills share one bounded queue whose consumers leave one by    *)
(* one, and still a put can block for ever in three ways only: a signal    *)
(* stopped the workers over a full queue, workers left early, or pills     *)
(* alone fill the queue, which takes more workers than it has room for.    *)
StuckInThreeWays == Stuck => interrupted \/ LeftEarly \/ pills >= MaxSize

(* Every run returns: run() gets past its two gathers, its drain loop and  *)
(* its pills.                                                              *)
RunTerminates == <>(mainPC = "done")

(* With signals, slow producers and queues of any size, nothing but a put  *)
(* that can never complete or a worker that left early keeps run() from    *)
(* returning.                                                              *)
ReturnsUnlessStuck == <>(mainPC = "done" \/ LeftEarly \/ Stuck)

(* Without a signal and with no worker that left early every enqueued task *)
(* is consumed in the end.                                                 *)
Disturbed == interrupted \/ LeftEarly

EveryTaskConsumed ==
  <>Disturbed \/ \A t \in Tasks : Enqueued(t) ~> Consumed(t)
=============================================================================
