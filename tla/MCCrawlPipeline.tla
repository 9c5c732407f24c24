--------------------------- MODULE MCCrawlPipeline --------------------------
(* Instances of CrawlPipeline for TLC: a site of three pages, whose links  *)
(* go forth and back, and a job whose first seed is given twice.           *)
EXTENDS CrawlPipeline, TLC

CONSTANTS u1, u2, u3

MCLinks == (u1 :> {u2, u3}) @@ (u2 :> {u2, u3}) @@ (u3 :> {u1})
MCLinksOut == (u1 :> {u2, u3}) @@ (u2 :> {}) @@ (u3 :> {})

MCSeeds == <<u1, u2, u1>>
MCSeedTwice == <<u1, u1>>
=============================================================================
