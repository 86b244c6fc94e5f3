---------------------------- MODULE PoliteFetch ----------------------------
(***************************************************************************)
(* The way of a request through the HTTP client: HttpClient.fetch and      *)
(* fetch_rendered (crawler/http_client.py), DomainRateLimiter              *)
(* (crawler/rate_limiter.py) and retry_with_backoff (crawler/retry.py).    *)
(*                                                                         *)
(* The coroutines run on one event loop: an action is what happens between *)
(* two suspensions.  Time is counted in ticks and kept as durations, so    *)
(* that it is bounded: what is left of a sleep or a pause and, up to the   *)
(* polite delay, how long ago a domain was last asked.  The loop may be    *)
(* late: a sleep that is over need not end at once.                        *)
(***************************************************************************)
EXTENDS Integers, FiniteSets

CONSTANTS
  Requests,      \* the calls of fetch and fetch_rendered
  Rendered,      \* those of fetch_rendered
  Domains,
  DomainOf,      \* the domain of each request
  GlobalSlots,   \* concurrency_limit
  DomainSlots,   \* per_domain_concurrency
  Delay,         \* default_delay_seconds
  MinPause,      \* the one second a pause lasts at least
  RetryAfters,   \* what a 429 may ask for, the default of 5 s included
  MaxRetries,
  Backoff,       \* factor ** attempt
  Nobody         \* the lock of a domain is free

ASSUME PoliteAssumption ==
  /\ IsFiniteSet(Requests)
  /\ Rendered \subseteq Requests
  /\ DomainOf \in [Requests -> Domains]
  /\ {GlobalSlots, DomainSlots, Delay, MinPause, MaxRetries} \subseteq Nat
  /\ MinPause > 0
  /\ RetryAfters \subseteq Nat
  /\ Backoff \in [1..MaxRetries -> Nat]
  /\ Nobody \notin Requests

VARIABLES
  pc,         \* where each request is
  wait,       \* what is left of its sleep
  attempt,    \* its failed attempts
  free,       \* value of the global semaphore
  domainFree, \* value of the semaphore of each domain
  lock,       \* the request that holds the lock of each domain
  since,      \* time since _last_request_times, Delay standing for more
  pause,      \* what is left until _retry_after_until
  late,       \* requests sent into the running pause (history)
  browser     \* "none", "started" (Playwright only) or "open"

slotVars == <<free, domainFree>>
rateVars == <<lock, since, pause, late>>
vars     == <<pc, wait, attempt, slotVars, rateVars, browser>>

PC == {"launch", "ready", "slot", "lock", "paused", "spaced", "sent",
       "backoff", "ok", "failed"}

Queued  == {"lock", "paused", "spaced", "sent"}  \* has a slot of its domain
Holding == Queued \cup {"slot"}                  \* has a global slot
Locking == {"paused", "spaced"}                  \* has the lock of its domain
Ended   == {"ok", "failed"}

Larger(m, n) == IF m >= n THEN m ELSE n
Less(n) == IF n > 0 THEN n - 1 ELSE 0

Init ==
  /\ pc = [r \in Requests |-> IF r \in Rendered THEN "launch" ELSE "ready"]
  /\ wait = [r \in Requests |-> 0]
  /\ attempt = [r \in Requests |-> 0]
  /\ free = GlobalSlots
  /\ domainFree = [d \in Domains |-> DomainSlots]
  /\ lock = [d \in Domains |-> Nobody]
  /\ since = [d \in Domains |-> Delay]
  /\ pause = [d \in Domains |-> 0]
  /\ late = [d \in Domains |-> 0]
  /\ browser = "none"

Goto(r, label) == pc' = [pc EXCEPT ![r] = label]
Sleep(r, time) == wait' = [wait EXCEPT ![r] = time]

-----------------------------------------------------------------------------
(* Slots, lock, pause and delay *)

(* The browser is launched once, by the first rendering.  When the launch  *)
(* fails after Playwright has started, later renderings find it started.   *)
Launch(r) ==
  /\ pc[r] = "launch"
  /\ \/ /\ browser = "none"
        /\ \/ browser' = "open" /\ Goto(r, "ready")
           \/ browser' \in {"none", "started"} /\ Goto(r, "failed")
     \/ browser # "none" /\ Goto(r, "ready") /\ UNCHANGED browser
  /\ UNCHANGED <<wait, attempt, slotVars, rateVars>>

Enter(r) ==
  /\ pc[r] = "ready"
  /\ free > 0
  /\ free' = free - 1
  /\ Goto(r, "slot")
  /\ UNCHANGED <<wait, attempt, domainFree, rateVars, browser>>

TakeSlot(r) ==
  LET d == DomainOf[r] IN
  /\ pc[r] = "slot"
  /\ domainFree[d] > 0
  /\ domainFree' = [domainFree EXCEPT ![d] = @ - 1]
  /\ Goto(r, "lock")
  /\ UNCHANGED <<wait, attempt, free, rateVars, browser>>

(* The lock is released and the request goes out, in one go.               *)
Send(r) ==
  LET d == DomainOf[r] IN
  /\ lock' = [lock EXCEPT ![d] = Nobody]
  /\ since' = [since EXCEPT ![d] = 0]
  /\ late' = IF pause[d] > 0 THEN [late EXCEPT ![d] = @ + 1] ELSE late
  /\ Goto(r, "sent")
  /\ UNCHANGED wait

(* Faulty variant: the polite delay is waited without the lock.            *)
SpaceUnlocked(r) ==
  LET d == DomainOf[r] IN
  IF since[d] < Delay
  THEN /\ lock' = [lock EXCEPT ![d] = Nobody]
       /\ Sleep(r, Delay - since[d])
       /\ Goto(r, "spaced")
       /\ UNCHANGED <<since, late>>
  ELSE Send(r)

(* The polite delay, as far as it is not over.                             *)
Space(r) ==
  LET d == DomainOf[r] IN
  IF since[d] < Delay
  THEN /\ lock' = [lock EXCEPT ![d] = r]
       /\ Sleep(r, Delay - since[d])
       /\ Goto(r, "spaced")
       /\ UNCHANGED <<since, late>>
  ELSE Send(r)

(* Faulty variant: the pause is waited without the lock.                   *)
TakeLockPausingOutside(r) ==
  LET d == DomainOf[r] IN
  /\ pc[r] = "lock"
  /\ lock[d] = Nobody
  /\ IF pause[d] > 0
     THEN Sleep(r, pause[d]) /\ Goto(r, "paused") /\ UNCHANGED <<lock, since, late>>
     ELSE Space(r)
  /\ UNCHANGED <<attempt, slotVars, pause, browser>>

(* The lock is taken; _retry_after_until is read here and not again.       *)
TakeLock(r) ==
  LET d == DomainOf[r] IN
  /\ pc[r] = "lock"
  /\ lock[d] = Nobody
  /\ IF pause[d] > 0
     THEN /\ lock' = [lock EXCEPT ![d] = r]
          /\ Sleep(r, pause[d])
          /\ Goto(r, "paused")
          /\ UNCHANGED <<since, late>>
     ELSE Space(r)
  /\ UNCHANGED <<attempt, slotVars, pause, browser>>

PauseOver(r) ==
  /\ pc[r] = "paused"
  /\ wait[r] = 0
  /\ Space(r)
  /\ UNCHANGED <<attempt, slotVars, pause, browser>>

DelayOver(r) ==
  /\ pc[r] = "spaced"
  /\ wait[r] = 0
  /\ Send(r)
  /\ UNCHANGED <<attempt, slotVars, pause, browser>>

-----------------------------------------------------------------------------
(* The answer *)

(* Faulty variant: the slot of the domain is not given back.               *)
ReleaseGlobalOnly(r) ==
  /\ free' = free + 1
  /\ UNCHANGED domainFree

(* Both slots are given back, whatever the answer was.                     *)
Release(r) ==
  /\ free' = free + 1
  /\ domainFree' = [domainFree EXCEPT ![DomainOf[r]] = @ + 1]

(* An answer is returned; a page is rendered only in an open browser.      *)
Succeed(r) ==
  /\ pc[r] = "sent"
  /\ r \in Rendered => browser = "open"
  /\ Release(r)
  /\ Goto(r, "ok")
  /\ UNCHANGED <<wait, attempt, rateVars, browser>>

(* A client error, or an exception that is not retried: any failure of a   *)
(* rendering is one.                                                       *)
Fail(r) ==
  /\ pc[r] = "sent"
  /\ Release(r)
  /\ Goto(r, "failed")
  /\ UNCHANGED <<wait, attempt, rateVars, browser>>

(* Full jitter: between half and one and a half of the delay.              *)
Jitter(delay) == {s \in 0..(2 * delay) : 2 * s >= delay /\ 2 * s <= 3 * delay}

(* The next attempt, after a sleep of at least what the server asked for   *)
(* (before the jitter), or the error when there were enough.               *)
Retry(r, retryAfter) ==
  /\ attempt' = [attempt EXCEPT ![r] = @ + 1]
  /\ \/ /\ attempt[r] >= MaxRetries
        /\ Goto(r, "failed")
        /\ UNCHANGED wait
     \/ /\ attempt[r] < MaxRetries
        /\ \E time \in Jitter(Larger(Backoff[attempt[r] + 1], retryAfter)) : Sleep(r, time)
        /\ Goto(r, "backoff")

(* A server error, a timeout or a broken connection.                       *)
Transient(r) ==
  /\ pc[r] = "sent"
  /\ r \notin Rendered
  /\ Release(r)
  /\ Retry(r, 0)
  /\ UNCHANGED <<rateVars, browser>>

(* record_retry_after: a pause is never cut short by a later one.          *)
RecordPause(d, retryAfter) ==
  /\ pause' = [pause EXCEPT ![d] = Larger(@, Larger(MinPause, retryAfter))]
  /\ late' = IF pause'[d] > pause[d] THEN [late EXCEPT ![d] = 0] ELSE late
  /\ UNCHANGED <<lock, since>>

(* 429: the whole domain pauses.                                           *)
RateLimited(r) ==
  /\ pc[r] = "sent"
  /\ r \notin Rendered
  /\ Release(r)
  /\ \E t \in RetryAfters : RecordPause(DomainOf[r], t) /\ Retry(r, t)
  /\ UNCHANGED browser

BackoffOver(r) ==
  /\ pc[r] = "backoff"
  /\ wait[r] = 0
  /\ Goto(r, "ready")
  /\ UNCHANGED <<wait, attempt, slotVars, rateVars, browser>>

-----------------------------------------------------------------------------

(* A unit of time passes, unless nothing waits for it.                     *)
Tick ==
  /\ \/ \E r \in Requests : wait[r] > 0
     \/ \E d \in Domains : pause[d] > 0 \/ since[d] < Delay
  /\ wait' = [r \in Requests |-> Less(wait[r])]
  /\ pause' = [d \in Domains |-> Less(pause[d])]
  /\ since' = [d \in Domains |-> IF since[d] < Delay THEN since[d] + 1 ELSE Delay]
  /\ UNCHANGED <<pc, attempt, slotVars, lock, late, browser>>

Step(r) ==
  \/ Launch(r) \/ Enter(r) \/ TakeSlot(r) \/ TakeLock(r) \/ PauseOver(r)
  \/ DelayOver(r) \/ Succeed(r) \/ Fail(r) \/ Transient(r) \/ RateLimited(r)
  \/ BackoffOver(r)

(* close: the pipeline calls it when its workers have left.                *)
Close ==
  /\ \A r \in Requests : pc[r] \in {"ok", "failed"}
  /\ browser # "none"
  /\ browser' = "none"
  /\ UNCHANGED <<pc, wait, attempt, slotVars, rateVars>>

Next == Tick \/ Close \/ \E r \in Requests : Step(r)

(* The event loop runs what is ready, the clock goes on and aiohttp ends   *)
(* every request by its total timeout.                                     *)
Spec == Init /\ [][Next]_vars /\ WF_vars(Next)

-----------------------------------------------------------------------------
(* Properties *)

Having(labels) == {r \in Requests : pc[r] \in labels}

TypeOK ==
  /\ pc \in [Requests -> PC]
  /\ wait \in [Requests -> Nat]
  /\ attempt \in [Requests -> 0..(MaxRetries + 1)]
  /\ free \in Nat
  /\ domainFree \in [Domains -> Nat]
  /\ lock \in [Domains -> Requests \cup {Nobody}]
  /\ since \in [Domains -> 0..Delay]
  /\ pause \in [Domains -> Nat]
  /\ late \in [Domains -> Nat]
  /\ browser \in {"none", "started", "open"}

(* Every slot is free or held by exactly one request that is under way.    *)
SlotsConserved ==
  /\ free + Cardinality(Having(Holding)) = GlobalSlots
  /\ \A d \in Domains :
       domainFree[d] + Cardinality({r \in Having(Queued) : DomainOf[r] = d}) = DomainSlots

(* The lock of a domain is held by the one of its requests that sleeps     *)
(* before it goes out, and by nobody else.                                 *)
LockHeldAsleep ==
  /\ \A r \in Requests : pc[r] \in Locking <=> lock[DomainOf[r]] = r
  /\ \A d \in Domains : lock[d] # Nobody => DomainOf[lock[d]] = d

(* A request in its polite delay will not wake up too early.               *)
DelayIsLongEnough ==
  \A r \in Requests : pc[r] = "spaced" => wait[r] + since[DomainOf[r]] >= Delay

BudgetKept == \A r \in Requests : pc[r] \notin Ended => attempt[r] <= MaxRetries

(* Slots and locks are where the requests are, and a failed attempt is     *)
(* repeated only while the retry budget lasts: the finally and async with  *)
(* blocks of fetch, acquire and release give back what was taken, once.    *)
FetchInv ==
  /\ TypeOK
  /\ SlotsConserved
  /\ LockHeldAsleep
  /\ DelayIsLongEnough
  /\ BudgetKept

(* Two requests of a domain go out at least the polite delay apart, however *)
(* many slots the domain has and whatever pauses come between.             *)
PoliteSpacing ==
  [][\A r \in Requests : pc[r] # "sent" /\ pc'[r] = "sent" => since[DomainOf[r]] >= Delay]_vars

(* A pause is honoured by every request that looks for one after it was    *)
(* recorded; at most the one that holds the lock of the domain has looked  *)
(* before and still goes out.                                              *)
AtMostOneLate == \A d \in Domains : late[d] <= 1

(* Why: once a request was late, whoever takes the lock of the domain      *)
(* sleeps until the pause is over.                                         *)
LateInv ==
  /\ AtMostOneLate
  /\ \A d \in Domains :
       late[d] > 0 /\ pause[d] > 0 /\ lock[d] # Nobody =>
         pc[lock[d]] = "paused" /\ wait[lock[d]] >= pause[d]

PoliteInv == FetchInv /\ LateInv

(* A rendering that waits for the browser was not tried before.            *)
LaunchedFirst == \A r \in Requests : pc[r] = "launch" => attempt[r] = 0

(* What sites and callers see is PoliteClient: as many requests on the     *)
(* wire as there are slots, a delay between them, one more at most in a    *)
(* pause, retries within their budget.                                     *)
Phase == [r \in Requests |-> IF pc[r] \in Ended \cup {"sent"} THEN pc[r] ELSE "waiting"]

Client == INSTANCE PoliteClient WITH phase <- Phase

ImplementsPoliteClient == Client!Spec

(* Every request ends, with an answer or an error: no domain starves       *)
(* another for ever, although requests that wait for a paused domain keep  *)
(* the global slots that others need.                                      *)
EveryFetchEnds == <>(\A r \in Requests : pc[r] \in Ended)
=============================================================================
