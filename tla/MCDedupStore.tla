---------------------------- MODULE MCDedupStore ----------------------------
(* Two processes, one with two workers; two records on one URL.            *)
EXTENDS DedupStore, TLC

CONSTANTS w1, w2, w3, proc1, proc2, r1, r2, u1

MCProcessOf == (w1 :> proc1) @@ (w2 :> proc1) @@ (w3 :> proc2)
MCUrlOf     == (r1 :> u1) @@ (r2 :> u1)
=============================================================================
