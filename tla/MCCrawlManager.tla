--------------------------- MODULE MCCrawlManager ---------------------------
(* Instances of CrawlManager for TLC.                                      *)
EXTENDS CrawlManager, TLC

CONSTANTS j1, j2, c1, c2
=============================================================================
