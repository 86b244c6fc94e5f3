-------------------------- MODULE SequentialCrawl --------------------------
(***************************************************************************)
(* What a resumable crawl of a paginated source promises: it goes through  *)
(* the items in their order, and the point it would resume at moves        *)
(* forward only over items it has dealt with.  Some of them it misses.     *)
(* Restarts do not show; items put in front of the listing move the resume *)
(* point back, so that what is behind it is crawled again, and numbers     *)
(* below 0, given to the new ones, are promised nothing.                   *)
(***************************************************************************)
EXTENDS Integers

CONSTANTS Dropped

VARIABLES stored, missed, resume

Init == stored = {} /\ missed = {} /\ resume = 0

Handled(p) == p \in stored \cup missed \cup Dropped

AllBefore(p) == \A q \in 0..(p - 1) : Handled(q)

(* The next item is stored, or a stretch that begins with it is missed (it *)
(* may be stored all the same when what failed was the answer).            *)
Deal ==
  \E p \in stored' \cup missed' :
    /\ AllBefore(p)
    /\ stored' \in {stored, stored \cup {p}}
    /\ \/ missed' = missed
       \/ \E q \in missed' : missed' = missed \cup p..q
    /\ UNCHANGED resume

Advance ==
  /\ resume' > resume
  /\ AllBefore(resume')
  /\ UNCHANGED <<stored, missed>>

FallBack ==
  /\ resume' = resume - 1
  /\ UNCHANGED <<stored, missed>>

Next == Deal \/ Advance \/ FallBack

Spec == Init /\ [][Next]_<<stored, missed, resume>>
=============================================================================
