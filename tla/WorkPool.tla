------------------------------ MODULE WorkPool ------------------------------
(***************************************************************************)
(* What the Phase I worker pool promises about a single task, whatever the *)
(* queue, the workers and the signals do: a task is enqueued at most once, *)
(* taken at most once, and finished at most once, in that order.           *)
(***************************************************************************)
CONSTANT Tasks

VARIABLE status

Statuses == {"new", "queued", "running", "finished"}

Init == status = [t \in Tasks |-> "new"]

Move(t, from, to) ==
  /\ status[t] = from
  /\ status' = [status EXCEPT ![t] = to]

Enqueue(t) == Move(t, "new", "queued")
Start(t)   == Move(t, "queued", "running")
Skip(t)    == Move(t, "queued", "finished")
Finish(t)  == Move(t, "running", "finished")

Next == \E t \in Tasks : Enqueue(t) \/ Start(t) \/ Skip(t) \/ Finish(t)

Spec == Init /\ [][Next]_status
=============================================================================
