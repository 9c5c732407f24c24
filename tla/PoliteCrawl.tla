---------------------------- MODULE PoliteCrawl -----------------------------
(***************************************************************************)
(* What the rate limiter promises to the sites it crawls and to the jobs   *)
(* that share it, without its heap, its tasks, its buffer or its channels: *)
(* the requests for a domain are downloaded one at a time, in the order in *)
(* which they were submitted, and a delay lies between the end of one and  *)
(* the beginning of the next (docs/configuration.rst, Rate Limits).        *)
(***************************************************************************)
EXTENDS Integers, Sequences, Deques

CONSTANTS Jobs, Tokens, Requests, JobOf, TokenOf, Delays, None

VARIABLES
  now,      \* the time
  fresh,    \* requests that have not been submitted
  waiting,  \* the submitted requests of each domain, oldest first
  active,   \* the request that is being downloaded from each domain
  ready     \* when the next download from each domain may begin

vars == <<now, fresh, waiting, active, ready>>

OfJob(j) == {r \in Requests : JobOf[r] = j}

Init ==
  /\ now = 0
  /\ fresh = Requests
  /\ waiting = [t \in Tokens |-> <<>>]
  /\ active = [t \in Tokens |-> None]
  /\ ready = [t \in Tokens |-> 0]

Submit(r) ==
  /\ r \in fresh
  /\ fresh' = fresh \ {r}
  /\ waiting' = [waiting EXCEPT ![TokenOf[r]] = Append(@, r)]
  /\ UNCHANGED <<now, active, ready>>

Begin(t) ==
  /\ active[t] = None
  /\ waiting[t] # <<>>
  /\ ready[t] <= now
  /\ active'  = [active EXCEPT ![t] = Head(waiting[t])]
  /\ waiting' = [waiting EXCEPT ![t] = Tail(@)]
  /\ UNCHANGED <<now, fresh, ready>>

End(t, delay) ==
  /\ active[t] # None
  /\ active' = [active EXCEPT ![t] = None]
  /\ ready'  = [ready EXCEPT ![t] = now + delay]
  /\ UNCHANGED <<now, fresh, waiting>>

(* The downloads of a stopped job are abandoned ...                        *)
Abandon(j) ==
  /\ active' = [t \in Tokens |-> IF active[t] \in OfJob(j) THEN None ELSE active[t]]
  /\ UNCHANGED <<now, fresh, waiting, ready>>

(* ... and its waiting requests forgotten.                                 *)
Forget(j) ==
  /\ waiting' = [t \in Tokens |-> Without(waiting[t], OfJob(j))]
  /\ UNCHANGED <<now, fresh, active, ready>>

Tick == /\ now' = now + 1
        /\ UNCHANGED <<fresh, waiting, active, ready>>

Next ==
  \/ \E r \in Requests : Submit(r)
  \/ \E t \in Tokens : Begin(t)
  \/ \E t \in Tokens, delay \in Delays : End(t, delay)
  \/ \E j \in Jobs : Abandon(j) \/ Forget(j)
  \/ Tick

Spec == Init /\ [][Next]_vars
=============================================================================
