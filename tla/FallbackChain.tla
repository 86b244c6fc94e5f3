--------------------------- MODULE FallbackChain ---------------------------
(***************************************************************************)
(* What ExtractionEngine.extract promises: the providers are tried in the  *)
(* order of the chain, each until it succeeds or has failed, and the       *)
(* result is what the first successful one extracted from all of the text. *)
(***************************************************************************)
EXTENDS Naturals

VARIABLES
  length,   \* number of providers in the chain
  failed,   \* number of providers that have failed
  outcome,  \* "none" yet, "refused", "extracted" or "exhausted"
  text      \* what the result covers: "none", "all" or "part"

Init == length \in Nat /\ failed = 0 /\ outcome = "none" /\ text = "none"

Refuse ==
  /\ outcome = "none" /\ failed = 0
  /\ outcome' = "refused"
  /\ UNCHANGED <<length, failed, text>>

Fail ==
  /\ outcome = "none" /\ failed < length
  /\ failed' = failed + 1
  /\ outcome' = IF failed' = length THEN "exhausted" ELSE "none"
  /\ UNCHANGED <<length, text>>

Succeed ==
  /\ outcome = "none" /\ failed < length
  /\ outcome' = "extracted"
  /\ text' = "all"
  /\ UNCHANGED <<length, failed>>

vars == <<length, failed, outcome, text>>

Next == Refuse \/ Fail \/ Succeed
Spec == Init /\ [][Next]_vars
=============================================================================
