---------------------------- MODULE UniqueStore ----------------------------
(***************************************************************************)
(* What check_and_save_record promises its callers: each call takes effect *)
(* atomically at some moment between its start and its return.  It stores  *)
(* a record nobody has stored and answers "saved", finds it stored and     *)
(* answers "duplicate", or fails and answers "error", with or without      *)
(* having stored it.  A crash may cut a call off, before or after it took  *)
(* effect.                                                                 *)
(***************************************************************************)
CONSTANTS Workers, Records

VARIABLES stored, call

Idle            == [phase |-> "idle"]
Pending(r)      == [phase |-> "pending", record |-> r]
Decided(r, ans) == [phase |-> "decided", record |-> r, answer |-> ans]

Init == stored = {} /\ call = [w \in Workers |-> Idle]

Invoke(w, r) ==
  /\ call[w] = Idle
  /\ call' = [call EXCEPT ![w] = Pending(r)]
  /\ UNCHANGED stored

Save(w, r) ==
  /\ call[w] = Pending(r)
  /\ r \notin stored
  /\ stored' = stored \cup {r}
  /\ call' = [call EXCEPT ![w] = Decided(r, "saved")]

Refuse(w, r) ==
  /\ call[w] = Pending(r)
  /\ r \in stored
  /\ call' = [call EXCEPT ![w] = Decided(r, "duplicate")]
  /\ UNCHANGED stored

(* An error leaves open whether the record was stored.                     *)
Fail(w, r) ==
  /\ call[w] = Pending(r)
  /\ stored' \in {stored, stored \cup {r}}
  /\ call' = [call EXCEPT ![w] = Decided(r, "error")]

Return(w) ==
  /\ call[w].phase = "decided"
  /\ call' = [call EXCEPT ![w] = Idle]
  /\ UNCHANGED stored

Crash(S) ==
  /\ call' = [w \in Workers |-> IF w \in S THEN Idle ELSE call[w]]
  /\ UNCHANGED stored

Next ==
  \/ \E w \in Workers : \/ Return(w)
                        \/ \E r \in Records : \/ Invoke(w, r) \/ Save(w, r)
                                              \/ Refuse(w, r) \/ Fail(w, r)
  \/ \E S \in SUBSET Workers : Crash(S)

Spec == Init /\ [][Next]_<<stored, call>>
=============================================================================
