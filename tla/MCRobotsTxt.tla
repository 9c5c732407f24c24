---------------------------- MODULE MCRobotsTxt ----------------------------
(* Values for the constants of RobotsTxt: a site that publishes a file,    *)
(* and another that has none; the cache holds one of them.                 *)
EXTENDS RobotsTxt

MaxVersionValue == [u \in Urls |-> IF u = "file" THEN 1 ELSE 0]
MaxTimeValue == [a \in MaxAges |-> IF a < Day THEN 1 ELSE 3]
============================================================================
