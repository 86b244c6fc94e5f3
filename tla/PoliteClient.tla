---------------------------- MODULE PoliteClient ----------------------------
(***************************************************************************)
(* What HttpClient promises the sites it asks and the callers of fetch:    *)
(* no more requests on the wire than there are slots, the polite delay     *)
(* between two requests to a domain, at most one more request after an     *)
(* answer that asks for a pause, and no more retries than are allowed.     *)
(* Nothing is said of queues, locks, sleeps and slots.                     *)
(***************************************************************************)
EXTENDS Integers, FiniteSets

CONSTANTS
  Requests, Domains, DomainOf, GlobalSlots, DomainSlots, Delay, MinPause,
  RetryAfters, MaxRetries

VARIABLES
  phase,    \* of each request: "waiting", "sent", "ok" or "failed"
  attempt,  \* its failed attempts
  since,    \* time since a domain was last asked, Delay standing for more
  pause,    \* what is left of the pause a domain asked for
  late      \* requests sent into that pause

Out == {r \in Requests : phase[r] = "sent"}
OutTo(d) == {r \in Out : DomainOf[r] = d}

Init ==
  /\ phase = [r \in Requests |-> "waiting"]
  /\ attempt = [r \in Requests |-> 0]
  /\ since = [d \in Domains |-> Delay]
  /\ pause = [d \in Domains |-> 0]
  /\ late = [d \in Domains |-> 0]

Send(r) ==
  LET d == DomainOf[r] IN
  /\ phase[r] = "waiting"
  /\ Cardinality(Out) < GlobalSlots
  /\ Cardinality(OutTo(d)) < DomainSlots
  /\ since[d] = Delay
  /\ pause[d] > 0 => late[d] = 0
  /\ phase' = [phase EXCEPT ![r] = "sent"]
  /\ since' = [since EXCEPT ![d] = 0]
  /\ late' = IF pause[d] > 0 THEN [late EXCEPT ![d] = 1] ELSE late
  /\ UNCHANGED <<attempt, pause>>

(* The caller gets an answer, or an error that is not retried.             *)
End(r) ==
  /\ phase[r] = "sent"
  /\ phase' \in {[phase EXCEPT ![r] = outcome] : outcome \in {"ok", "failed"}}
  /\ UNCHANGED <<attempt, since, pause, late>>

(* An error without ever having been sent: there is no browser.            *)
GiveUp(r) ==
  /\ phase[r] = "waiting" /\ attempt[r] = 0
  /\ phase' = [phase EXCEPT ![r] = "failed"]
  /\ UNCHANGED <<attempt, since, pause, late>>

TryAgain(r) ==
  /\ phase[r] = "sent"
  /\ attempt' = [attempt EXCEPT ![r] = @ + 1]
  /\ phase' = [phase EXCEPT ![r] = IF attempt[r] < MaxRetries THEN "waiting" ELSE "failed"]
  /\ UNCHANGED since

Transient(r) == TryAgain(r) /\ UNCHANGED <<pause, late>>

(* The domain asks for a pause: it lasts the longest time asked for, and   *)
(* one request more may come when it is longer than what is left.          *)
RateLimited(r) ==
  LET d == DomainOf[r] IN
  /\ TryAgain(r)
  /\ \E t \in RetryAfters :
       LET time == IF t >= MinPause THEN t ELSE MinPause IN
       IF time > pause[d]
       THEN pause' = [pause EXCEPT ![d] = time] /\ late' = [late EXCEPT ![d] = 0]
       ELSE UNCHANGED <<pause, late>>

Wait ==
  /\ pause' = [d \in Domains |-> IF pause[d] > 0 THEN pause[d] - 1 ELSE 0]
  /\ since' = [d \in Domains |-> IF since[d] < Delay THEN since[d] + 1 ELSE Delay]
  /\ UNCHANGED <<phase, attempt, late>>

Next ==
  \/ Wait
  \/ \E r \in Requests : Send(r) \/ End(r) \/ GiveUp(r) \/ Transient(r) \/ RateLimited(r)

vars == <<phase, attempt, since, pause, late>>
Spec == Init /\ [][Next]_vars
=============================================================================
