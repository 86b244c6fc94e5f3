---------------------------- MODULE SignalLedger ----------------------------
(***************************************************************************)
(* What the database tells of one signal source, to whoever reads it: the  *)
(* items that have a record, and the crawl state.  Records are only added, *)
(* one at a time.  The watermark is set to a moment that is not in the     *)
(* future, once every item that was due then has a record, but for a gap   *)
(* of items the crawl has passed over; every item of the snapshot has one. *)
(* There are no runs, no processes and no failures.                        *)
(***************************************************************************)
EXTENDS Integers

CONSTANTS Items, Published, DateOf, Disallowed, Window, NoState, Never

VARIABLES
  now,     \* the clock
  state,   \* the crawl state: watermark and snapshot
  stored,  \* the items that have a record
  gap      \* what was passed over when the watermark was set

DueAt(t) ==
  {i \in Items \ Disallowed : DateOf[i] = "listing" /\ Published[i] \in (t - Window)..t}

Init == now = 0 /\ state = NoState /\ stored = {} /\ gap = {}

Store(i) ==
  /\ stored' = stored \cup {i}
  /\ UNCHANGED <<now, state, gap>>

FirstAttempt ==
  /\ state = NoState
  /\ state' = [success |-> Never, snapshot |-> {}]
  /\ UNCHANGED <<now, stored, gap>>

Advance(t, S, G) ==
  /\ state # NoState
  /\ S \subseteq stored
  /\ DueAt(t) \ G \subseteq stored
  /\ state' = [success |-> t, snapshot |-> S]
  /\ gap' = G
  /\ UNCHANGED <<now, stored>>

(* The watermark was at this moment already.                               *)
Observe(S) ==
  /\ state # NoState
  /\ S \subseteq stored
  /\ state' = [success |-> state.success, snapshot |-> S]
  /\ UNCHANGED <<now, stored, gap>>

Tick ==
  /\ now' = now + 1
  /\ UNCHANGED <<state, stored, gap>>

Next ==
  \/ \E i \in Items : Store(i)
  \/ \E t \in 0..now, S, G \in SUBSET Items : Advance(t, S, G)
  \/ \E S \in SUBSET Items : Observe(S)
  \/ FirstAttempt \/ Tick

vars == <<now, state, stored, gap>>
Spec == Init /\ [][Next]_vars
=============================================================================
