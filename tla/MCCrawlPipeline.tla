-------------------------- MODULE MCCrawlPipeline --------------------------
(* Instances of CrawlPipeline for TLC: two adapters of different lengths.  *)
EXTENDS CrawlPipeline, TLC

CONSTANTS p1, p2

LimitLong  == (p1 :> 3) @@ (p2 :> 1)
LimitShort == (p1 :> 2) @@ (p2 :> 1)
=============================================================================
