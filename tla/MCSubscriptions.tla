-------------------------- MODULE MCSubscriptions --------------------------
(* Values for the constants of Subscriptions: a client of each kind.       *)
EXTENDS Subscriptions

InterestsValue == {{k} : k \in Kinds}
SyncOnly == {{"sync"}}
============================================================================
