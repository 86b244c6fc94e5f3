------------------------------ MODULE MCPolite ------------------------------
(* Four requests, three of them to one domain. *)
EXTENDS PoliteFetch, TLC
CONSTANTS r1, r2, r3, r4, d1, d2
ThreeAndOne == (r1 :> d1) @@ (r2 :> d1) @@ (r3 :> d1) @@ (r4 :> d2)
ConstantBackoff == [n \in 1..MaxRetries |-> 1]
=============================================================================
