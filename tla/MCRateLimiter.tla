---------------------------- MODULE MCRateLimiter ---------------------------
(* Instances of RateLimiter for TLC: two jobs that crawl the same domain,  *)
(* one of which crawls a second domain, too.                               *)
EXTENDS RateLimiter, TLC

CONSTANTS j1, j2, d1, d2, r1, r2, r3

MCJobOf   == (r1 :> j1) @@ (r2 :> j2) @@ (r3 :> j1)
MCTokenOf == (r1 :> d1) @@ (r2 :> d1) @@ (r3 :> d2)
=============================================================================
