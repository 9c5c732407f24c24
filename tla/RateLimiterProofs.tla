-------------------------- MODULE RateLimiterProofs -------------------------
(* Theorems about RateLimiter, for all jobs, tokens, requests, capacities  *)
(* and delays.                                                             *)
EXTENDS RateLimiter, DequeLemmas, FiniteSetTheorems

-----------------------------------------------------------------------------
(* Type correctness *)

(* remove_job leaves a deque of requests of the same domain.               *)
LEMMA WithoutJobKeepsItems ==
  ASSUME NEW deque \in Seq(Requests), NEW j
  PROVE  /\ WithoutJob(deque, j) \in Seq(Requests)
         /\ \A k \in 1 .. Len(WithoutJob(deque, j)) :
              \E i \in 1 .. Len(deque) : WithoutJob(deque, j)[k] = deque[i]
<1> DEFINE drop == {r \in Requests : JobOf[r] = j}
<1>1. WithoutJob(deque, j) = Without(deque, drop)
  BY DEF WithoutJob
<1> HIDE DEF drop
<1>2. /\ Without(deque, drop) \in Seq(Requests)
      /\ \A k \in 1 .. Len(Without(deque, drop)) :
           \E i \in 1 .. Len(deque) : Without(deque, drop)[k] = deque[i]
  BY WithoutKeepsItems
<1> QED
  BY <1>1, <1>2

(* Every step of the limiter keeps the type invariant.                     *)
LEMMA TypeStep == TypeOK /\ [Next]_vars => TypeOK'
<1> SUFFICES ASSUME TypeOK, [Next]_vars PROVE TypeOK'
  OBVIOUS
<1> USE RateLimiterAssumption
<1>1. ASSUME Crash PROVE TypeOK'
  BY <1>1 DEF TypeOK, Crash, limiterVars, configVars, jobVars, downloadVars
<1>2. ASSUME NEW r \in Requests, ReadRequest(r) PROVE TypeOK'
  BY <1>2 DEF TypeOK, ReadRequest, configVars, jobVars
<1>3. ASSUME QueueRequest PROVE TypeOK'
  <2> DEFINE t == TokenOf[reader]
  <2>1. reader \in Requests /\ t \in Tokens
    BY <1>3 DEF TypeOK, QueueRequest
  <2>2. CASE t \in DOMAIN queues
    <3>1. /\ queues' = [queues EXCEPT ![t] = Append(@, reader)]
          /\ UNCHANGED <<expires, writer>>
      BY <1>3, <2>2 DEF QueueRequest
    <3>2. queues[t] \in Seq(Requests) /\ Append(queues[t], reader) \in Seq(Requests)
      BY <2>1, <2>2 DEF TypeOK
    <3>3. DOMAIN queues' = DOMAIN queues /\ queues' \in [DOMAIN queues' -> Seq(Requests)]
      BY <3>1, <3>2 DEF TypeOK
    <3> QED
      BY <1>3, <3>1, <3>3 DEF TypeOK, QueueRequest, configVars, jobVars, downloadVars
  <2>3. CASE t \notin DOMAIN queues
    <3>1. /\ queues' = [u \in DOMAIN queues \cup {t} |->
                          IF u = t THEN <<reader>> ELSE queues[u]]
          /\ AddExpiry(now, t)
      BY <1>3, <2>3 DEF QueueRequest
    <3>2. DOMAIN queues' = DOMAIN queues \cup {t}
      BY <3>1
    <3>3. queues' \in [DOMAIN queues' -> Seq(Requests)]
      BY <2>1, <3>1 DEF TypeOK
    <3>4. expires' \subseteq Expiries /\ writer' \in {"awake", "asleep", "sending"}
      BY <2>1, <3>1 DEF TypeOK, AddExpiry, Expiries
    <3>5. sending # None <=> writer' = "sending"
      BY <3>1 DEF TypeOK, AddExpiry
    <3> QED
      BY <1>3, <2>1, <3>2, <3>3, <3>4, <3>5
      DEF TypeOK, QueueRequest, configVars, jobVars, downloadVars
  <2> QED
    BY <2>2, <2>3
<1>4. ASSUME WriterSleeps PROVE TypeOK'
  <2>1. wakeAt' \in Nat \cup {Forever}
    BY <1>4 DEF TypeOK, WriterSleeps, Earliest, Expiries
  <2> QED
    BY <1>4, <2>1 DEF TypeOK, WriterSleeps, configVars, jobVars, downloadVars
<1>5. ASSUME WriterWakes PROVE TypeOK'
  BY <1>5 DEF TypeOK, WriterWakes, configVars, jobVars, downloadVars
<1>6. ASSUME PopIdleToken PROVE TypeOK'
  <2>1. PICK e \in Earliest :
          /\ e.token \in DOMAIN queues
          /\ expires' = expires \ {e}
          /\ queues' = [t \in DOMAIN queues \ {e.token} |-> queues[t]]
    BY <1>6 DEF PopIdleToken
  <2> QED
    BY <1>6, <2>1 DEF TypeOK, PopIdleToken, configVars, jobVars, downloadVars
<1>7. ASSUME PopRequest PROVE TypeOK'
  <2>1. PICK e \in Earliest :
          /\ Pops(e)
          /\ e.token \in DOMAIN queues
          /\ queues[e.token] # <<>>
          /\ expires' = expires \ {e}
          /\ sending' = Head(queues[e.token])
          /\ queues' = [queues EXCEPT ![e.token] = Tail(@)]
    BY <1>7 DEF PopRequest
  <2>2. queues[e.token] \in Seq(Requests) /\ queues[e.token] # <<>>
    BY <2>1 DEF TypeOK
  <2>3. sending' \in Requests /\ Tail(queues[e.token]) \in Seq(Requests)
    BY <2>1, <2>2
  <2>4. queues' \in [DOMAIN queues' -> Seq(Requests)] /\ DOMAIN queues' \subseteq Tokens
    BY <2>1, <2>3 DEF TypeOK
  <2> QED
    BY <1>7, <2>1, <2>3, <2>4 DEF TypeOK, PopRequest, configVars, jobVars, downloadVars
<1>8. ASSUME Deliver PROVE TypeOK'
  BY <1>8 DEF TypeOK, Deliver, configVars, jobVars
<1>9. ASSUME NEW r \in Requests, ReadReset(r) PROVE TypeOK'
  <2> DEFINE t == TokenOf[r]
             time == now + LimitOf(t)
  <2>1. LimitOf(t) \in Nat /\ t \in Tokens
    BY <1>9 DEF TypeOK, ReadReset, LimitOf
  <2>2. AddExpiry(time, t) /\ due' = [due EXCEPT ![t] = time]
    BY <1>9 DEF ReadReset
  <2> HIDE DEF time
  <2>3. time \in Nat
    BY <2>1 DEF time, TypeOK
  <2>4. expires' \subseteq Expiries /\ due' \in [Tokens -> Nat]
    BY <2>1, <2>2, <2>3 DEF TypeOK, AddExpiry, Expiries
  <2>5. /\ writer' \in {"awake", "asleep", "sending"}
        /\ sending # None <=> writer' = "sending"
    BY <2>2 DEF TypeOK, AddExpiry
  <2> QED
    BY <1>9, <2>4, <2>5 DEF TypeOK, ReadReset, configVars, jobVars
<1>10. ASSUME NEW t \in Tokens, NEW delay \in Delays, SetRateLimit(t, delay) PROVE TypeOK'
  <2>1. /\ DOMAIN rateLimits' \subseteq Tokens
        /\ rateLimits' \in [DOMAIN rateLimits' -> Delays]
    BY <1>10 DEF TypeOK, SetRateLimit
  <2> QED
    BY <1>10, <2>1 DEF TypeOK, SetRateLimit, limiterVars, jobVars, downloadVars
<1>11. ASSUME NEW delay \in Delays, SetGlobalLimit(delay) PROVE TypeOK'
  BY <1>11 DEF TypeOK, SetGlobalLimit, limiterVars, jobVars, downloadVars
<1>12. ASSUME NEW t \in Tokens, DeleteRateLimit(t) PROVE TypeOK'
  <2>1. /\ DOMAIN rateLimits' \subseteq Tokens
        /\ rateLimits' \in [DOMAIN rateLimits' -> Delays]
    BY <1>12 DEF TypeOK, DeleteRateLimit
  <2> QED
    BY <1>12, <2>1 DEF TypeOK, DeleteRateLimit, limiterVars, jobVars, downloadVars
<1>13. ASSUME NEW j \in Jobs, AddJob(j) PROVE TypeOK'
  BY <1>13 DEF TypeOK, AddJob, limiterVars, configVars, downloadVars
<1>14. ASSUME NEW j \in Jobs, StopJob(j) PROVE TypeOK'
  BY <1>14 DEF TypeOK, StopJob, limiterVars, configVars
<1>15. ASSUME NEW j \in Jobs, RemoveJob(j) PROVE TypeOK'
  <2>1. \A t \in DOMAIN queues : WithoutJob(queues[t], j) \in Seq(Requests)
    BY WithoutJobKeepsItems DEF TypeOK
  <2>2. /\ DOMAIN queues' = DOMAIN queues
        /\ queues' \in [DOMAIN queues' -> Seq(Requests)]
    BY <1>15, <2>1 DEF RemoveJob
  <2> QED
    BY <1>15, <2>2 DEF TypeOK, RemoveJob, configVars, downloadVars
<1>16. ASSUME Tick PROVE TypeOK'
  BY <1>16 DEF TypeOK, Tick, limiterVars, configVars, jobVars, downloadVars
<1>17. CASE UNCHANGED vars
  BY <1>17 DEF TypeOK, vars, limiterVars, configVars, jobVars, downloadVars
<1> QED
  BY <1>1, <1>2, <1>3, <1>4, <1>5, <1>6, <1>7, <1>8, <1>9, <1>10, <1>11,
     <1>12, <1>13, <1>14, <1>15, <1>16, <1>17
  DEF Next, Writer, PopRaises, ReadResetUnlimited, RemoveJobWhileSending

(* The limiter's variables always have their types.                        *)
THEOREM TypeCorrect == Spec => []TypeOK
<1>1. Init => TypeOK
  BY RateLimiterAssumption DEF Init, TypeOK, Expiries
<1> QED
  BY <1>1, TypeStep, PTL DEF Spec

-----------------------------------------------------------------------------
(* Turns: one download per domain, and a delay between two                 *)

turnVars == <<expires, queues, sending, downloading, cancelled, due, now>>

(* The actions that have to do with turns.                                 *)
TurnAction == \/ QueueRequest \/ PopIdleToken \/ PopRequest \/ Deliver
              \/ \E r \in Requests : ReadReset(r)
              \/ \E j \in Jobs : StopJob(j) \/ RemoveJob(j)
              \/ Tick

LEMMA OnlyTurnActionsMatter == [Next]_vars => TurnAction \/ UNCHANGED turnVars
  BY DEF Next, Writer, vars, turnVars, TurnAction, Crash, ReadRequest,
         WriterSleeps, WriterWakes, PopRaises, ReadResetUnlimited, SetRateLimit,
         SetGlobalLimit, DeleteRateLimit, AddJob, RemoveJobWhileSending,
         limiterVars, configVars, jobVars, downloadVars

(* What is known of an expiry that is popped with a request.               *)
LEMMA PoppedRequest ==
  ASSUME TurnInv, PopRequest
  PROVE  \E e \in expires :
           /\ e.token \in DOMAIN queues /\ e.token \in Tokens
           /\ e.time \in Nat /\ e.time <= now
           /\ queues[e.token] \in Seq(Requests) /\ queues[e.token] # <<>>
           /\ expires' = expires \ {e}
           /\ sending' = Head(queues[e.token])
           /\ sending' \in Requests
           /\ sending' # None
           /\ TokenOf[sending'] = e.token
           /\ sending = None
           /\ queues' = [queues EXCEPT ![e.token] = Tail(@)]
           /\ DOMAIN queues' = DOMAIN queues
           /\ UNCHANGED <<downloading, cancelled, due, now>>
<1>1. PICK e \in Earliest :
        /\ Pops(e)
        /\ e.token \in DOMAIN queues
        /\ queues[e.token] # <<>>
        /\ expires' = expires \ {e}
        /\ sending' = Head(queues[e.token])
        /\ queues' = [queues EXCEPT ![e.token] = Tail(@)]
  BY DEF PopRequest
<1>2. e \in expires /\ e.token \in Tokens /\ e.time \in Nat /\ e.time <= now
  BY <1>1 DEF TurnInv, TypeOK, Earliest, Expiries, Pops
<1>3. queues[e.token] \in Seq(Requests)
  BY <1>1 DEF TurnInv, TypeOK
<1>4. Head(queues[e.token]) = queues[e.token][1] /\ 1 \in 1 .. Len(queues[e.token])
  BY <1>1, <1>3
<1>5. sending' \in Requests /\ TokenOf[sending'] = e.token
  BY <1>1, <1>3, <1>4 DEF TurnInv, QueuesAreSorted
<1>6. sending' # None
  BY <1>5, RateLimiterAssumption
<1>7. sending = None
  BY <1>1 DEF TurnInv, TypeOK, Pops
<1>8. UNCHANGED <<downloading, cancelled, due, now>> /\ DOMAIN queues' = DOMAIN queues
  BY <1>1 DEF PopRequest, downloadVars
<1> QED
  BY <1>1, <1>2, <1>3, <1>5, <1>6, <1>7, <1>8

(* Requests stay in the queue of their domain.                             *)
LEMMA SortedStep == TurnInv /\ [Next]_vars => QueuesAreSorted'
<1> SUFFICES ASSUME TurnInv, [Next]_vars PROVE QueuesAreSorted'
  OBVIOUS
<1>1. CASE QueueRequest
  <2> DEFINE t == TokenOf[reader]
  <2>1. reader \in Requests
    BY <1>1 DEF TurnInv, TypeOK, QueueRequest
  <2>2. CASE t \in DOMAIN queues
    <3>1. queues' = [queues EXCEPT ![t] = Append(@, reader)]
      BY <1>1, <2>2 DEF QueueRequest
    <3>2. queues[t] \in Seq(Requests)
      BY <2>2 DEF TurnInv, TypeOK
    <3>3. \A i \in 1 .. Len(Append(queues[t], reader)) :
            TokenOf[Append(queues[t], reader)[i]] = t
      BY <2>2, <3>2 DEF TurnInv, QueuesAreSorted
    <3> QED
      BY <3>1, <3>3 DEF TurnInv, QueuesAreSorted
  <2>3. CASE t \notin DOMAIN queues
    <3>1. queues' = [u \in DOMAIN queues \cup {t} |->
                       IF u = t THEN <<reader>> ELSE queues[u]]
      BY <1>1, <2>3 DEF QueueRequest
    <3> QED
      BY <3>1 DEF TurnInv, QueuesAreSorted
  <2> QED
    BY <2>2, <2>3
<1>2. CASE PopIdleToken
  BY <1>2 DEF TurnInv, PopIdleToken, QueuesAreSorted
<1>3. CASE PopRequest
  <2>1. PICK t \in DOMAIN queues :
          /\ queues[t] \in Seq(Requests)
          /\ queues[t] # <<>>
          /\ queues' = [queues EXCEPT ![t] = Tail(@)]
    BY <1>3, PoppedRequest
  <2>2. \A i \in 1 .. Len(Tail(queues[t])) : TokenOf[Tail(queues[t])[i]] = t
    BY <2>1 DEF TurnInv, QueuesAreSorted
  <2> QED
    BY <2>1, <2>2 DEF TurnInv, QueuesAreSorted
<1>4. ASSUME NEW j \in Jobs, RemoveJob(j) PROVE QueuesAreSorted'
  <2>1. queues' = [t \in DOMAIN queues |-> WithoutJob(queues[t], j)]
    BY <1>4 DEF RemoveJob
  <2>2. ASSUME NEW t \in DOMAIN queues, NEW k \in 1 .. Len(WithoutJob(queues[t], j))
        PROVE  TokenOf[WithoutJob(queues[t], j)[k]] = t
    <3>1. queues[t] \in Seq(Requests)
      BY DEF TurnInv, TypeOK
    <3>2. PICK i \in 1 .. Len(queues[t]) : WithoutJob(queues[t], j)[k] = queues[t][i]
      BY <3>1, WithoutJobKeepsItems
    <3> QED
      BY <3>2 DEF TurnInv, QueuesAreSorted
  <2> QED
    BY <2>1, <2>2 DEF QueuesAreSorted
<1>5. CASE UNCHANGED queues
  BY <1>5 DEF TurnInv, QueuesAreSorted
<1>6. Deliver \/ (\E r \in Requests : ReadReset(r))
        \/ (\E j \in Jobs : StopJob(j)) \/ Tick \/ UNCHANGED turnVars
        => UNCHANGED queues
  BY DEF Deliver, ReadReset, StopJob, Tick, turnVars, limiterVars
<1> QED
  BY <1>1, <1>2, <1>3, <1>4, <1>5, <1>6, OnlyTurnActionsMatter DEF TurnAction

(* A queued request starts a turn just if its domain had no queue.         *)
LEMMA QueuedRequest ==
  ASSUME TurnInv, QueueRequest
  PROVE  /\ UNCHANGED <<sending, downloading, cancelled, due, now>>
         /\ \/ DOMAIN queues' = DOMAIN queues /\ UNCHANGED expires
            \/ \E t \in Tokens \ DOMAIN queues :
                 /\ DOMAIN queues' = DOMAIN queues \cup {t}
                 /\ expires' = expires \cup {[time |-> now, token |-> t]}
<1> DEFINE t == TokenOf[reader]
<1>1. t \in Tokens
  BY RateLimiterAssumption DEF TurnInv, TypeOK, QueueRequest
<1>2. CASE t \in DOMAIN queues
  BY <1>2 DEF QueueRequest, downloadVars
<1>3. CASE t \notin DOMAIN queues
  BY <1>1, <1>3 DEF QueueRequest, AddExpiry, downloadVars
<1> QED
  BY <1>2, <1>3

LEMMA PoppedIdleToken ==
  ASSUME TurnInv, PopIdleToken
  PROVE  \E e \in expires :
           /\ e.token \in Tokens /\ e.time \in Nat /\ e.time <= now
           /\ expires' = expires \ {e}
           /\ DOMAIN queues' = DOMAIN queues \ {e.token}
           /\ UNCHANGED <<sending, downloading, cancelled, due, now>>
  BY DEF PopIdleToken, TurnInv, TypeOK, Earliest, Pops, Expiries, downloadVars

LEMMA DeliveredRequest ==
  ASSUME TurnInv, Deliver
  PROVE  /\ sending \in Requests /\ sending # None /\ sending' = None
         /\ downloading' = downloading \cup {sending}
         /\ UNCHANGED <<expires, queues, cancelled, due, now>>
  BY RateLimiterAssumption DEF Deliver, TurnInv, TypeOK

LEMMA ResetRead ==
  ASSUME TurnInv, NEW r \in Requests, ReadReset(r)
  PROVE  \E time \in Nat :
           /\ time >= now
           /\ r \in downloading /\ downloading' = downloading \ {r}
           /\ expires' = expires \cup {[time |-> time, token |-> TokenOf[r]]}
           /\ due' = [due EXCEPT ![TokenOf[r]] = time]
           /\ UNCHANGED <<queues, sending, cancelled, now>>
<1>1. LimitOf(TokenOf[r]) \in Nat
  BY RateLimiterAssumption DEF TurnInv, TypeOK, ReadReset, LimitOf
<1>2. now + LimitOf(TokenOf[r]) \in Nat /\ now + LimitOf(TokenOf[r]) >= now
  BY <1>1 DEF TurnInv, TypeOK
<1> QED
  BY <1>2 DEF ReadReset, AddExpiry

LEMMA StoppedJob ==
  ASSUME NEW j \in Jobs, StopJob(j)
  PROVE  \E lost \in SUBSET downloading :
           /\ downloading' = downloading \ lost
           /\ cancelled' = cancelled \cup lost
           /\ UNCHANGED <<expires, queues, sending, due, now>>
  BY DEF StopJob, limiterVars

LEMMA RemovedJob ==
  ASSUME NEW j \in Jobs, RemoveJob(j)
  PROVE  /\ DOMAIN queues' = DOMAIN queues
         /\ UNCHANGED <<expires, sending, downloading, cancelled, due, now>>
  BY DEF RemoveJob, downloadVars

LEMMA Ticked ==
  ASSUME TurnInv, Tick
  PROVE  now' = now + 1 /\ UNCHANGED <<expires, queues, sending, downloading, cancelled, due>>
  BY DEF Tick, limiterVars, downloadVars

(* No turn is held twice.                                                  *)
LEMMA ValidStep == TurnInv /\ [Next]_vars => TurnsAreValid'
<1> SUFFICES ASSUME TurnInv, [Next]_vars PROVE TurnsAreValid'
  OBVIOUS
<1> USE RateLimiterAssumption DEF TurnsAreValid, HoldsTurn, Lost
<1>0. /\ TurnsAreValid
      /\ sending \in Requests \cup {None}
      /\ downloading \subseteq Requests
      /\ \A r \in Requests : TokenOf[r] \in Tokens
      /\ \A e \in expires : e.token \in Tokens
      /\ \A r \in cancelled : TokenOf[r] \in DOMAIN queues
  BY DEF TurnInv, TypeOK, Expiries, TurnsAreKept
<1>1. CASE QueueRequest
  <2>1. UNCHANGED <<sending, downloading, cancelled, due, now>>
    BY <1>1, QueuedRequest
  <2>2. CASE DOMAIN queues' = DOMAIN queues /\ UNCHANGED expires
    BY <1>0, <2>1, <2>2
  <2>3. ASSUME NEW t \in Tokens \ DOMAIN queues,
               DOMAIN queues' = DOMAIN queues \cup {t},
               expires' = expires \cup {[time |-> now, token |-> t]}
        PROVE  TurnsAreValid'
    <3> DEFINE new == [time |-> now, token |-> t]
    <3>1. new.token = t /\ new.time = now /\ expires' = expires \cup {new}
      BY <2>3
    <3> HIDE DEF new
    <3> QED
      BY <1>0, <2>1, <2>3, <3>1
  <2> QED
    BY <1>1, <2>2, <2>3, QueuedRequest
<1>2. CASE PopIdleToken
  BY <1>0, <1>2, PoppedIdleToken
<1>3. CASE PopRequest
  BY <1>0, <1>3, PoppedRequest
<1>4. CASE Deliver
  BY <1>0, <1>4, DeliveredRequest
<1>5. ASSUME NEW r \in Requests, ReadReset(r) PROVE TurnsAreValid'
  BY <1>0, <1>5, ResetRead
<1>6. ASSUME NEW j \in Jobs, StopJob(j) PROVE TurnsAreValid'
  BY <1>0, <1>6, StoppedJob
<1>7. ASSUME NEW j \in Jobs, RemoveJob(j) PROVE TurnsAreValid'
  BY <1>0, <1>7, RemovedJob
<1>8. CASE Tick
  BY <1>0, <1>8, Ticked
<1>9. CASE UNCHANGED turnVars
  BY <1>0, <1>9 DEF turnVars
<1> QED
  BY <1>1, <1>2, <1>3, <1>4, <1>5, <1>6, <1>7, <1>8, <1>9, OnlyTurnActionsMatter
  DEF TurnAction

(* No turn vanishes but with a cancelled download.                         *)
LEMMA KeptStep == TurnInv /\ [Next]_vars => TurnsAreKept'
<1> SUFFICES ASSUME TurnInv, [Next]_vars PROVE TurnsAreKept'
  OBVIOUS
<1> USE RateLimiterAssumption DEF TurnsAreKept, HoldsTurn, Lost
<1>0. /\ TurnsAreKept
      /\ TurnsAreValid
      /\ sending \in Requests \cup {None}
      /\ downloading \subseteq Requests
      /\ DOMAIN queues \subseteq Tokens
      /\ \A r \in Requests : TokenOf[r] \in Tokens
  BY DEF TurnInv, TypeOK
<1>1. CASE QueueRequest
  <2>1. UNCHANGED <<sending, downloading, cancelled, due, now>>
    BY <1>1, QueuedRequest
  <2>2. CASE DOMAIN queues' = DOMAIN queues /\ UNCHANGED expires
    BY <1>0, <2>1, <2>2
  <2>3. ASSUME NEW t \in Tokens \ DOMAIN queues,
               DOMAIN queues' = DOMAIN queues \cup {t},
               expires' = expires \cup {[time |-> now, token |-> t]}
        PROVE  TurnsAreKept'
    <3> DEFINE new == [time |-> now, token |-> t]
    <3>1. new.token = t /\ new.time = now /\ expires' = expires \cup {new}
      BY <2>3
    <3> HIDE DEF new
    <3> QED
      BY <1>0, <2>1, <2>3, <3>1
  <2> QED
    BY <1>1, <2>2, <2>3, QueuedRequest
<1>2. CASE PopIdleToken
  BY <1>0, <1>2, PoppedIdleToken DEF TurnsAreValid
<1>3. CASE PopRequest
  BY <1>0, <1>3, PoppedRequest
<1>4. CASE Deliver
  BY <1>0, <1>4, DeliveredRequest
<1>5. ASSUME NEW r \in Requests, ReadReset(r) PROVE TurnsAreKept'
  <2>1. PICK time \in Nat :
          /\ downloading' = downloading \ {r}
          /\ expires' = expires \cup {[time |-> time, token |-> TokenOf[r]]}
          /\ UNCHANGED <<queues, sending, cancelled>>
    BY <1>5, ResetRead
  <2> DEFINE new == [time |-> time, token |-> TokenOf[r]]
  <2>2. new.token = TokenOf[r] /\ expires' = expires \cup {new}
    BY <2>1
  <2> HIDE DEF new
  <2> QED
    BY <1>0, <2>1, <2>2
<1>6. ASSUME NEW j \in Jobs, StopJob(j) PROVE TurnsAreKept'
  BY <1>0, <1>6, StoppedJob DEF TurnsAreValid
<1>7. ASSUME NEW j \in Jobs, RemoveJob(j) PROVE TurnsAreKept'
  BY <1>0, <1>7, RemovedJob
<1>8. CASE Tick
  BY <1>0, <1>8, Ticked
<1>9. CASE UNCHANGED turnVars
  BY <1>0, <1>9 DEF turnVars
<1> QED
  BY <1>1, <1>2, <1>3, <1>4, <1>5, <1>6, <1>7, <1>8, <1>9, OnlyTurnActionsMatter
  DEF TurnAction

(* No turn comes too early.                                                *)
LEMMA DueStep == TurnInv /\ [Next]_vars => TurnsAreDue'
<1> SUFFICES ASSUME TurnInv, [Next]_vars PROVE TurnsAreDue'
  OBVIOUS
<1> USE RateLimiterAssumption DEF TurnsAreDue
<1>0. /\ TurnsAreDue
      /\ TurnsAreValid
      /\ now \in Nat
      /\ due \in [Tokens -> Nat]
      /\ sending \in Requests \cup {None}
      /\ downloading \subseteq Requests
      /\ \A r \in Requests : TokenOf[r] \in Tokens
      /\ \A e \in expires : e.token \in Tokens /\ e.time \in Nat
  BY DEF TurnInv, TypeOK, Expiries
<1>1. CASE QueueRequest
  <2>1. UNCHANGED <<sending, downloading, cancelled, due, now>>
    BY <1>1, QueuedRequest
  <2>2. CASE DOMAIN queues' = DOMAIN queues /\ UNCHANGED expires
    BY <1>0, <2>1, <2>2
  <2>3. ASSUME NEW t \in Tokens \ DOMAIN queues,
               DOMAIN queues' = DOMAIN queues \cup {t},
               expires' = expires \cup {[time |-> now, token |-> t]}
        PROVE  TurnsAreDue'
    <3> DEFINE new == [time |-> now, token |-> t]
    <3>1. new.token = t /\ new.time = now /\ expires' = expires \cup {new}
      BY <2>3
    <3> HIDE DEF new
    <3> QED
      BY <1>0, <2>1, <2>3, <3>1
  <2> QED
    BY <1>1, <2>2, <2>3, QueuedRequest
<1>2. CASE PopIdleToken
  <2>1. PICK e \in expires :
          /\ e.time <= now
          /\ expires' = expires \ {e}
          /\ DOMAIN queues' = DOMAIN queues \ {e.token}
          /\ UNCHANGED <<sending, due, now>>
    BY <1>2, PoppedIdleToken
  <2>2. due[e.token] \in Nat /\ e.time \in Nat /\ due[e.token] <= now
    BY <1>0, <2>1
  <2> QED
    BY <1>0, <2>1, <2>2
<1>3. CASE PopRequest
  BY <1>0, <1>3, PoppedRequest
<1>4. CASE Deliver
  BY <1>0, <1>4, DeliveredRequest
<1>5. ASSUME NEW r \in Requests, ReadReset(r) PROVE TurnsAreDue'
  BY <1>0, <1>5, ResetRead DEF TurnsAreValid, HoldsTurn
<1>6. ASSUME NEW j \in Jobs, StopJob(j) PROVE TurnsAreDue'
  BY <1>0, <1>6, StoppedJob
<1>7. ASSUME NEW j \in Jobs, RemoveJob(j) PROVE TurnsAreDue'
  BY <1>0, <1>7, RemovedJob
<1>8. CASE Tick
  BY <1>0, <1>8, Ticked
<1>9. CASE UNCHANGED turnVars
  BY <1>0, <1>9 DEF turnVars
<1> QED
  BY <1>1, <1>2, <1>3, <1>4, <1>5, <1>6, <1>7, <1>8, <1>9, OnlyTurnActionsMatter
  DEF TurnAction

LEMMA TurnInit == Init => TurnInv
  BY RateLimiterAssumption
  DEF Init, TurnInv, TypeOK, Expiries, QueuesAreSorted, TurnsAreValid,
      TurnsAreKept, TurnsAreDue, HoldsTurn, Lost

LEMMA TurnStep == TurnInv /\ [Next]_vars => TurnInv'
  BY TypeStep, SortedStep, ValidStep, KeptStep, DueStep DEF TurnInv

(* The inductive invariant holds in every state: requests wait in the      *)
(* queues of their domains, turns are held once, kept and never early.     *)
THEOREM TurnsCorrect == Spec => []TurnInv
  BY TurnInit, TurnStep, PTL DEF Spec

(* A set whose members are all equal has one member, or none.              *)
LEMMA AtMostOne ==
  ASSUME NEW S, \A x, y \in S : x = y
  PROVE  Cardinality(S) = IF S = {} THEN 0 ELSE 1
<1>1. CASE S = {}
  BY <1>1, FS_EmptySet
<1>2. CASE S # {}
  <2>1. PICK x \in S : S = {x}
    BY <1>2
  <2> QED
    BY <1>2, <2>1, FS_Singleton
<1> QED
  BY <1>1, <1>2

(* Every domain in use has one turn, which is in the heap, with the writer *)
(* or with a downloader, until a cancelled download takes it away.         *)
THEOREM OneTurnAlways == Spec => []OneTurnPerDomain
<1>1. TurnInv => OneTurnPerDomain
  <2> SUFFICES ASSUME TurnInv, NEW t \in Tokens
               PROVE  Cardinality(ExpiriesOf(t)) + Cardinality(SendingOf(t))
                        + Cardinality(DownloadsOf(t))
                      = IF t \in DOMAIN queues /\ ~ Lost(t) THEN 1 ELSE 0
    BY DEF OneTurnPerDomain
  <2>1. TurnsAreValid /\ TurnsAreKept
    BY DEF TurnInv
  <2>2. Cardinality(ExpiriesOf(t)) = IF ExpiriesOf(t) = {} THEN 0 ELSE 1
    <3>1. \A e, f \in ExpiriesOf(t) : e = f
      BY <2>1 DEF TurnsAreValid, ExpiriesOf
    <3> QED
      BY <3>1, AtMostOne
  <2>3. Cardinality(SendingOf(t)) = IF SendingOf(t) = {} THEN 0 ELSE 1
    <3>1. \A r, s \in SendingOf(t) : r = s
      BY DEF SendingOf
    <3> QED
      BY <3>1, AtMostOne
  <2>4. Cardinality(DownloadsOf(t)) = IF DownloadsOf(t) = {} THEN 0 ELSE 1
    <3>1. \A r, s \in DownloadsOf(t) : r = s
      BY <2>1 DEF TurnsAreValid, DownloadsOf
    <3> QED
      BY <3>1, AtMostOne
  <2>5. /\ ExpiriesOf(t) # {} => SendingOf(t) = {} /\ DownloadsOf(t) = {}
        /\ SendingOf(t) # {} => DownloadsOf(t) = {}
    BY <2>1 DEF TurnsAreValid, ExpiriesOf, SendingOf, DownloadsOf
  <2>6. HoldsTurn(t) <=> ExpiriesOf(t) # {} \/ SendingOf(t) # {} \/ DownloadsOf(t) # {}
    BY DEF HoldsTurn, ExpiriesOf, SendingOf, DownloadsOf
  <2>7. HoldsTurn(t) <=> t \in DOMAIN queues /\ ~ Lost(t)
    BY <2>1 DEF TurnsAreValid, TurnsAreKept
  <2> QED
    BY <2>2, <2>3, <2>4, <2>5, <2>6, <2>7
<1> QED
  BY <1>1, TurnsCorrect, PTL

(* A request reaches a downloader only when the delay after the last       *)
(* download from its domain is over.                                       *)
THEOREM AlwaysPolite == Spec => Polite
<1>1. TurnInv /\ [Next]_vars =>
        [\A r \in Requests :
           r \in downloading' \ downloading => due[TokenOf[r]] <= now]_vars
  <2> SUFFICES ASSUME TurnInv, [Next]_vars,
                      NEW r \in Requests, r \in downloading' \ downloading
               PROVE  due[TokenOf[r]] <= now
    OBVIOUS
  <2>1. ~ UNCHANGED downloading
    OBVIOUS
  <2>2. CASE Deliver
    <3>1. r = sending /\ sending # None
      BY <2>2, DeliveredRequest
    <3> QED
      BY <3>1 DEF TurnInv, TurnsAreDue
  <2>3. ASSUME NEW s \in Requests, ReadReset(s) PROVE FALSE
    BY <2>3 DEF ReadReset
  <2>4. ASSUME NEW j \in Jobs, StopJob(j) PROVE FALSE
    BY <2>4 DEF StopJob
  <2>5. QueueRequest \/ PopIdleToken \/ PopRequest
          \/ (\E j \in Jobs : RemoveJob(j)) \/ Tick \/ UNCHANGED turnVars
        => UNCHANGED downloading
    BY DEF QueueRequest, PopIdleToken, PopRequest, RemoveJob, Tick, turnVars,
           downloadVars
  <2> QED
    BY <2>1, <2>2, <2>3, <2>4, <2>5, OnlyTurnActionsMatter DEF TurnAction
<1> QED
  BY <1>1, TurnsCorrect, PTL DEF Spec, Polite

-----------------------------------------------------------------------------
(* The writer's sleep *)

(* The writer sleeps no longer than until the earliest expiry, whatever is *)
(* added to the heap while it sleeps.                                      *)
THEOREM NeverOversleeps == Spec => []NoOversleep
<1>1. Init => NoOversleep
  BY DEF Init, NoOversleep
<1>2. TypeOK /\ NoOversleep /\ [Next]_vars => NoOversleep'
  <2> SUFFICES ASSUME TypeOK, NoOversleep, [Next]_vars PROVE NoOversleep'
    OBVIOUS
  <2> USE DEF NoOversleep
  <2>1. CASE WriterSleeps
    BY <2>1, RateLimiterAssumption DEF WriterSleeps, Earliest, TypeOK, Expiries
  <2>2. CASE UNCHANGED <<expires, writer, wakeAt>>
    BY <2>2
  <2>3. CASE writer' # "asleep"
    BY <2>3
  <2>4. CASE QueueRequest
    BY <2>4 DEF QueueRequest, AddExpiry
  <2>5. ASSUME NEW r \in Requests, ReadReset(r) PROVE NoOversleep'
    BY <2>5 DEF ReadReset, AddExpiry
  <2>6. WriterWakes \/ PopIdleToken \/ PopRequest \/ Deliver => writer' # "asleep"
    BY DEF WriterWakes, PopIdleToken, Pops, PopRequest, Deliver
  <2>7. \/ Crash \/ \E r \in Requests : ReadRequest(r)
        \/ \E t \in Tokens, delay \in Delays : SetRateLimit(t, delay)
        \/ \E delay \in Delays : SetGlobalLimit(delay)
        \/ \E t \in Tokens : DeleteRateLimit(t)
        \/ \E j \in Jobs : AddJob(j) \/ StopJob(j) \/ RemoveJob(j)
        \/ Tick
        \/ UNCHANGED vars
        => UNCHANGED <<expires, writer, wakeAt>>
    BY DEF Crash, ReadRequest, SetRateLimit, SetGlobalLimit, DeleteRateLimit,
           AddJob, StopJob, RemoveJob, Tick, vars, limiterVars
  <2> QED
    BY <2>1, <2>2, <2>3, <2>4, <2>5, <2>6, <2>7
    DEF Next, Writer, PopRaises, ReadResetUnlimited, RemoveJobWhileSending
<1> QED
  BY <1>1, <1>2, TypeCorrect, PTL DEF Spec
-----------------------------------------------------------------------------
(* The limiter implements PoliteCrawl *)

(* What has been received from a frontier is not offered again.            *)
Received == reader # None => reader \notin pending

QueueOf(t) == IF t \in DOMAIN queues THEN queues[t] ELSE <<>>

LEMMA ReceivedInit == Init => Received
BY DEF Init, Received

LEMMA ReceivedStep == TypeOK /\ Received /\ [Next]_vars => Received'
<1> SUFFICES ASSUME TypeOK, Received, [Next]_vars PROVE Received'
  OBVIOUS
<1>1. ASSUME NEW r \in Requests, ReadRequest(r) PROVE Received'
  BY <1>1 DEF ReadRequest, Received
<1>2. CASE UNCHANGED <<reader, pending>>
  BY <1>2 DEF Received
<1>3. CASE QueueRequest
  BY <1>3 DEF QueueRequest, Received
<1>4. \/ \E r \in Requests : ReadRequest(r)
      \/ UNCHANGED <<reader, pending>> \/ QueueRequest
  BY DEF Next, vars, limiterVars, downloadVars, Crash, Writer, WriterSleeps, WriterWakes,
    PopIdleToken, PopRequest, PopRaises, Deliver, ReadReset, ReadResetUnlimited, SetRateLimit,
    SetGlobalLimit, DeleteRateLimit, AddJob, StopJob, RemoveJob, RemoveJobWhileSending, Tick
<1> QED BY <1>1, <1>2, <1>3, <1>4

(* The values of PoliteCrawl's variables.                                  *)
WaitingFacts ==
  \A t \in Tokens :
    /\ QueueOf(t) \in Seq(Requests)
    /\ sending # None /\ TokenOf[sending] = t => WaitingFor(t) = <<sending>> \o QueueOf(t)
    /\ sending = None \/ TokenOf[sending] # t => WaitingFor(t) = QueueOf(t)

DownloadFacts ==
  \A t \in Tokens :
    /\ \A r \in downloading : TokenOf[r] = t => DownloadOf(t) = r
    /\ (\A r \in downloading : TokenOf[r] # t) => DownloadOf(t) = None

LEMMA WaitingIs == TypeOK => WaitingFacts
<1> SUFFICES ASSUME TypeOK, NEW t \in Tokens
    PROVE  /\ QueueOf(t) \in Seq(Requests)
           /\ sending # None /\ TokenOf[sending] = t => WaitingFor(t) = <<sending>> \o QueueOf(t)
           /\ sending = None \/ TokenOf[sending] # t => WaitingFor(t) = QueueOf(t)
  BY DEF WaitingFacts
<1>1. QueueOf(t) \in Seq(Requests)
  <2>1. t \in DOMAIN queues => queues[t] \in Seq(Requests)
    BY DEF TypeOK
  <2>2. <<>> \in Seq(Requests)
    OBVIOUS
  <2> QED BY <2>1, <2>2 DEF QueueOf
<1>2. <<>> \o QueueOf(t) = QueueOf(t)
  BY <1>1
<1>3. SendingOf(t) = IF sending # None /\ TokenOf[sending] = t THEN {sending} ELSE {}
  BY DEF SendingOf
<1> QED BY <1>1, <1>2, <1>3 DEF WaitingFor, QueueOf

LEMMA DownloadIs == TurnsAreValid => DownloadFacts
<1> SUFFICES ASSUME TurnsAreValid, NEW t \in Tokens
    PROVE  /\ \A r \in downloading : TokenOf[r] = t => DownloadOf(t) = r
           /\ (\A r \in downloading : TokenOf[r] # t) => DownloadOf(t) = None
  BY DEF DownloadFacts
<1>1. ASSUME NEW r \in downloading, TokenOf[r] = t PROVE DownloadOf(t) = r
  <2>1. DownloadsOf(t) = {r}
    BY <1>1 DEF DownloadsOf, TurnsAreValid
  <2> QED BY <2>1 DEF DownloadOf
<1>2. ASSUME \A r \in downloading : TokenOf[r] # t PROVE DownloadOf(t) = None
  BY <1>2 DEF DownloadOf, DownloadsOf
<1> QED BY <1>1, <1>2

LEMMA ValuesLater == (TypeOK' => WaitingFacts') /\ (TurnsAreValid' => DownloadFacts')
BY WaitingIs, DownloadIs, PTL
LEMMA Values ==
  ASSUME TurnInv, TurnInv'
  PROVE  WaitingFacts /\ DownloadFacts /\ WaitingFacts' /\ DownloadFacts'
BY WaitingIs, DownloadIs, ValuesLater DEF TurnInv

Mapped == <<now, pending, reader, sending, queues, downloading, due>>

LEMMA Stutters == UNCHANGED Mapped => UNCHANGED Promise!vars
BY DEF Mapped, Promise!vars, WaitingFor, SendingOf, DownloadOf, DownloadsOf

(* Reading a request: it is still to be submitted.                         *)
LEMMA ReadStutters ==
  ASSUME NEW r \in Requests, ReadRequest(r) PROVE UNCHANGED Promise!vars
<1>1. /\ r \in pending /\ reader = None /\ reader' = r /\ pending' = pending \ {r}
      /\ UNCHANGED <<now, sending, queues, downloading, due>> /\ r # None
  BY RateLimiterAssumption DEF ReadRequest
<1>2. UNCHANGED (pending \cup ({reader} \ {None}))
  BY <1>1
<1>3. \A t : UNCHANGED WaitingFor(t) /\ UNCHANGED DownloadOf(t)
  BY <1>1 DEF WaitingFor, SendingOf, DownloadOf, DownloadsOf
<1> QED BY <1>1, <1>2, <1>3 DEF Promise!vars

LEMMA QueueSubmits ==
  ASSUME TurnInv, TurnInv', Received, QueueRequest PROVE Promise!Submit(reader)
<1>1. /\ reader \in Requests /\ reader # None /\ reader \notin pending /\ TokenOf[reader] \in Tokens
      /\ reader' = None /\ UNCHANGED <<now, sending, pending, downloading, due>>
  BY RateLimiterAssumption DEF QueueRequest, downloadVars, TurnInv, TypeOK, Received
<1>2. PICK q \in Tokens : q = TokenOf[reader]
  BY <1>1
<1>3. /\ reader \in pending \cup ({reader} \ {None})
      /\ pending' \cup ({reader'} \ {None}) = (pending \cup ({reader} \ {None})) \ {reader}
  BY <1>1
<1>4. \A t \in Tokens : QueueOf(t)' = IF t = q THEN Append(QueueOf(t), reader) ELSE QueueOf(t)
  <2>1. CASE q \in DOMAIN queues
    BY <1>2, <2>1 DEF QueueRequest, QueueOf
  <2>2. CASE q \notin DOMAIN queues
    <3>1. queues' = [u \in DOMAIN queues \cup {q} |-> IF u = q THEN <<reader>> ELSE queues[u]]
      BY <1>2, <2>2 DEF QueueRequest
    <3>2. Append(<<>>, reader) = <<reader>>
      OBVIOUS
    <3> QED BY <2>2, <3>1, <3>2 DEF QueueOf
  <2> QED BY <2>1, <2>2
<1>5. \A t \in Tokens : WaitingFor(t)' = IF t = q THEN Append(WaitingFor(t), reader) ELSE WaitingFor(t)
  <2>1. TAKE t \in Tokens
  <2>2. WaitingFacts /\ WaitingFacts'
    BY Values
  <2>3. CASE sending # None /\ TokenOf[sending] = t
    <3>1. WaitingFor(t) = <<sending>> \o QueueOf(t) /\ WaitingFor(t)' = <<sending>> \o QueueOf(t)'
      BY <1>1, <2>2, <2>3 DEF WaitingFacts
    <3>2. sending \in Requests /\ QueueOf(t) \in Seq(Requests)
      BY <2>2, <2>3 DEF WaitingFacts, TurnInv, TypeOK
    <3>3. Append(<<sending>> \o QueueOf(t), reader) = <<sending>> \o Append(QueueOf(t), reader)
      BY <1>1, <3>2, AppendBehind
    <3> QED BY <1>4, <3>1, <3>3
  <2>4. CASE ~ (sending # None /\ TokenOf[sending] = t)
    <3>1. WaitingFor(t) = QueueOf(t) /\ WaitingFor(t)' = QueueOf(t)'
      BY <1>1, <2>2, <2>4 DEF WaitingFacts
    <3> QED BY <1>4, <3>1
  <2> QED BY <2>3, <2>4
<1>6. [t \in Tokens |-> WaitingFor(t)]'
        = [[t \in Tokens |-> WaitingFor(t)] EXCEPT ![TokenOf[reader]] = Append(@, reader)]
  BY <1>2, <1>5
<1>7. \A t : UNCHANGED DownloadOf(t)
  BY <1>1 DEF DownloadOf, DownloadsOf
<1> QED BY <1>1, <1>3, <1>6, <1>7 DEF Promise!Submit

(* A token without a queue, and one with an empty queue, look the same.    *)
LEMMA IdleStutters ==
  ASSUME TurnInv, TurnInv', PopIdleToken PROVE UNCHANGED Promise!vars
<1>1. UNCHANGED <<now, pending, reader, sending, downloading, due>>
  BY DEF PopIdleToken, downloadVars
<1>2. \A t \in Tokens : QueueOf(t)' = QueueOf(t)
  BY DEF PopIdleToken, QueueOf
<1>3. \A t \in Tokens : WaitingFor(t)' = WaitingFor(t)
  BY <1>1, <1>2, Values DEF WaitingFacts
<1>4. \A t : UNCHANGED DownloadOf(t)
  BY <1>1 DEF DownloadOf, DownloadsOf
<1> QED BY <1>1, <1>3, <1>4 DEF Promise!vars

(* The request that the writer offers is still the first to wait.          *)
LEMMA OfferStutters ==
  ASSUME TurnInv, TurnInv', PopRequest PROVE UNCHANGED Promise!vars
<1>1. PICK e \in Earliest :
        /\ Pops(e) /\ e.token \in DOMAIN queues /\ queues[e.token] # <<>>
        /\ sending' = Head(queues[e.token])
        /\ queues' = [queues EXCEPT ![e.token] = Tail(@)]
  BY DEF PopRequest
<1>2. /\ UNCHANGED <<now, pending, reader, downloading, due>> /\ sending = None
      /\ e.token \in Tokens /\ queues[e.token] \in Seq(Requests)
  BY <1>1 DEF PopRequest, downloadVars, Pops, TurnInv, TypeOK
<1>3. sending' \in Requests /\ sending' # None /\ TokenOf[sending'] = e.token
  <2>1. /\ 1 \in 1 .. Len(queues[e.token]) /\ Head(queues[e.token]) = queues[e.token][1]
        /\ Head(queues[e.token]) \in Requests
    BY <1>1, <1>2
  <2> QED BY <1>1, <2>1, RateLimiterAssumption DEF TurnInv, QueuesAreSorted
<1>4. \A t \in Tokens : WaitingFor(t)' = WaitingFor(t)
  <2>1. TAKE t \in Tokens
  <2>2. WaitingFor(t) = QueueOf(t)
    BY <1>2, Values DEF WaitingFacts
  <2>3. CASE t = e.token
    <3>1. QueueOf(t) = queues[t] /\ QueueOf(t)' = Tail(queues[t])
      BY <1>1, <2>3 DEF QueueOf
    <3>2. WaitingFor(t)' = <<sending'>> \o QueueOf(t)'
      BY <1>3, <2>3, Values DEF WaitingFacts
    <3>3. <<Head(queues[t])>> \o Tail(queues[t]) = queues[t]
      BY <1>1, <1>2, <2>3, FirstAndRest
    <3> QED BY <1>1, <2>2, <2>3, <3>1, <3>2, <3>3
  <2>4. CASE t # e.token
    <3>1. WaitingFor(t)' = QueueOf(t)'
      BY <1>3, <2>4, Values DEF WaitingFacts
    <3>2. QueueOf(t)' = QueueOf(t)
      BY <1>1, <2>4 DEF QueueOf
    <3> QED BY <2>2, <3>1, <3>2
  <2> QED BY <2>3, <2>4
<1>5. \A t : UNCHANGED DownloadOf(t)
  BY <1>2 DEF DownloadOf, DownloadsOf
<1> QED BY <1>2, <1>4, <1>5 DEF Promise!vars

LEMMA DeliverBegins ==
  ASSUME TurnInv, TurnInv', Deliver PROVE Promise!Begin(TokenOf[sending])
<1>1. /\ sending \in Requests /\ sending # None /\ sending' = None
      /\ downloading' = downloading \cup {sending}
      /\ UNCHANGED <<now, pending, reader, queues, due>>
  BY DeliveredRequest DEF Deliver
<1>2. PICK q \in Tokens : q = TokenOf[sending]
  BY <1>1, RateLimiterAssumption
<1>3. DownloadOf(q) = None
  <2>1. \A r \in downloading : TokenOf[r] # q
    BY <1>1, <1>2 DEF TurnInv, TurnsAreValid
  <2> QED BY <2>1, Values DEF DownloadFacts
<1>4. due[q] <= now
  BY <1>1, <1>2 DEF TurnInv, TurnsAreDue
<1>5. \A t \in Tokens : QueueOf(t)' = QueueOf(t) /\ WaitingFor(t)' = QueueOf(t)
  BY <1>1, Values DEF QueueOf, WaitingFacts
<1>6. WaitingFor(q) = <<sending>> \o QueueOf(q) /\ QueueOf(q) \in Seq(Requests)
  BY <1>1, <1>2, Values DEF WaitingFacts
<1>7. WaitingFor(q) # <<>> /\ Head(WaitingFor(q)) = sending /\ Tail(WaitingFor(q)) = QueueOf(q)
  BY <1>1, <1>6, FirstAndRest
<1>8. \A t \in Tokens : WaitingFor(t)' = IF t = q THEN Tail(WaitingFor(t)) ELSE WaitingFor(t)
  <2>1. \A t \in Tokens : t # q => WaitingFor(t) = QueueOf(t)
    BY <1>2, Values DEF WaitingFacts
  <2> QED BY <1>5, <1>7, <2>1
<1>9. \A t \in Tokens : DownloadOf(t)' = IF t = q THEN Head(WaitingFor(q)) ELSE DownloadOf(t)
  <2>1. DownloadOf(q)' = sending
    BY <1>1, <1>2, Values DEF DownloadFacts
  <2>2. ASSUME NEW t \in Tokens, t # q PROVE DownloadOf(t)' = DownloadOf(t)
    <3>1. DownloadsOf(t)' = DownloadsOf(t)
      BY <1>1, <1>2, <2>2 DEF DownloadsOf
    <3> QED BY <3>1 DEF DownloadOf
  <2> QED BY <1>7, <2>1, <2>2
<1> QED BY <1>1, <1>2, <1>3, <1>4, <1>7, <1>8, <1>9 DEF Promise!Begin
LEMMA ResetEnds ==
  ASSUME TurnInv, TurnInv', NEW r \in Requests, ReadReset(r)
  PROVE  Promise!End(TokenOf[r], LimitOf(TokenOf[r])) /\ LimitOf(TokenOf[r]) \in Delays
<1>1. /\ r \in downloading /\ downloading' = downloading \ {r} /\ TokenOf[r] \in Tokens
      /\ UNCHANGED <<now, pending, reader, sending, queues>>
      /\ due' = [due EXCEPT ![TokenOf[r]] = now + LimitOf(TokenOf[r])]
  BY RateLimiterAssumption DEF ReadReset
<1>2. LimitOf(TokenOf[r]) \in Delays
  BY DEF ReadReset, LimitOf, TurnInv, TypeOK
<1>3. DownloadOf(TokenOf[r]) = r /\ r # None
  BY <1>1, Values, RateLimiterAssumption DEF DownloadFacts
<1>4. \A t \in Tokens : DownloadOf(t)' = IF t = TokenOf[r] THEN None ELSE DownloadOf(t)
  <2>1. DownloadOf(TokenOf[r])' = None
    <3>1. \A s \in downloading' : TokenOf[s] # TokenOf[r]
      BY <1>1 DEF TurnInv, TurnsAreValid
    <3> QED BY <1>1, <3>1, Values DEF DownloadFacts
  <2>2. ASSUME NEW t \in Tokens, t # TokenOf[r] PROVE DownloadOf(t)' = DownloadOf(t)
    <3>1. DownloadsOf(t)' = DownloadsOf(t)
      BY <1>1, <2>2 DEF DownloadsOf
    <3> QED BY <3>1 DEF DownloadOf
  <2> QED BY <2>1, <2>2
<1>5. \A t : WaitingFor(t)' = WaitingFor(t)
  BY <1>1 DEF WaitingFor, SendingOf
<1> QED BY <1>1, <1>2, <1>3, <1>4, <1>5 DEF Promise!End

LEMMA StopAbandons ==
  ASSUME TurnInv, TurnInv', NEW j \in Jobs, StopJob(j) PROVE Promise!Abandon(j)
<1>1. /\ downloading' = downloading \ {r \in downloading : JobOf[r] = j}
      /\ UNCHANGED <<now, pending, reader, sending, queues, due>>
  BY DEF StopJob, limiterVars
<1>2. \A t : WaitingFor(t)' = WaitingFor(t)
  BY <1>1 DEF WaitingFor, SendingOf
<1>3. downloading \subseteq Requests /\ None \notin Requests
  BY RateLimiterAssumption DEF TurnInv, TypeOK
<1>4. \A t \in Tokens :
        DownloadOf(t)' = IF DownloadOf(t) \in Promise!OfJob(j) THEN None ELSE DownloadOf(t)
  <2>1. TAKE t \in Tokens
  <2>2. CASE \A r \in downloading : TokenOf[r] # t
    <3>1. DownloadOf(t) = None /\ DownloadOf(t)' = None
      BY <1>1, <2>2, Values DEF DownloadFacts
    <3> QED BY <3>1
  <2>3. ASSUME NEW r \in downloading, TokenOf[r] = t
        PROVE  DownloadOf(t)' = IF DownloadOf(t) \in Promise!OfJob(j) THEN None ELSE DownloadOf(t)
    <3>1. DownloadOf(t) = r
      BY <2>3, Values DEF DownloadFacts
    <3>2. r \in Promise!OfJob(j) <=> JobOf[r] = j
      BY <1>3 DEF Promise!OfJob
    <3>3. CASE JobOf[r] = j
      <4>1. \A s \in downloading' : TokenOf[s] # t
        BY <1>1, <2>3, <3>3 DEF TurnInv, TurnsAreValid
      <4>2. DownloadOf(t)' = None
        BY <4>1, Values DEF DownloadFacts
      <4> QED BY <3>1, <3>2, <3>3, <4>2
    <3>4. CASE JobOf[r] # j
      <4>1. r \in downloading'
        BY <1>1, <3>4
      <4>2. DownloadOf(t)' = r
        BY <2>3, <4>1, Values DEF DownloadFacts
      <4> QED BY <3>1, <3>2, <3>4, <4>2
    <3> QED BY <3>3, <3>4
  <2> QED BY <2>2, <2>3
<1> QED BY <1>1, <1>2, <1>4 DEF Promise!Abandon

LEMMA RemoveForgets ==
  ASSUME TurnInv, TurnInv', NEW j \in Jobs, RemoveJob(j) PROVE Promise!Forget(j)
<1> DEFINE drop == {r \in Requests : JobOf[r] = j}
<1>1. /\ queues' = [t \in DOMAIN queues |-> Without(queues[t], drop)]
      /\ ~ (writer = "sending" /\ JobOf[sending] = j)
      /\ UNCHANGED <<now, pending, reader, sending, downloading, due>>
  BY DEF RemoveJob, WithoutJob, downloadVars
<1>2. Promise!OfJob(j) = drop
  BY DEF Promise!OfJob
<1>3. sending # None => sending \in Requests /\ sending \notin drop
  BY <1>1 DEF TurnInv, TypeOK
<1> HIDE DEF drop
<1>4. \A t \in Tokens : QueueOf(t)' = Without(QueueOf(t), drop)
  <2>1. TAKE t \in Tokens
  <2>2. CASE t \in DOMAIN queues
    BY <1>1, <2>2 DEF QueueOf
  <2>3. CASE t \notin DOMAIN queues
    BY <1>1, <2>3, WithoutNothing DEF QueueOf
  <2> QED BY <2>2, <2>3
<1>5. \A t \in Tokens : WaitingFor(t)' = Without(WaitingFor(t), drop)
  <2>1. TAKE t \in Tokens
  <2>2. CASE sending # None /\ TokenOf[sending] = t
    <3>1. /\ WaitingFor(t) = <<sending>> \o QueueOf(t) /\ WaitingFor(t)' = <<sending>> \o QueueOf(t)'
          /\ QueueOf(t) \in Seq(Requests)
      BY <1>1, <2>2, Values DEF WaitingFacts
    <3>2. Without(InFront(sending, QueueOf(t)), drop) = InFront(sending, Without(QueueOf(t), drop))
      BY <1>3, <2>2, <3>1, WithoutKeepsFirst
    <3>3. WaitingFor(t)' = InFront(sending, QueueOf(t)')
      BY <1>1, <3>1 DEF InFront
    <3>4. WaitingFor(t) = InFront(sending, QueueOf(t))
      BY <3>1 DEF InFront
    <3> QED BY <1>4, <3>2, <3>3, <3>4
  <2>3. CASE ~ (sending # None /\ TokenOf[sending] = t)
    <3>1. WaitingFor(t) = QueueOf(t) /\ WaitingFor(t)' = QueueOf(t)'
      BY <1>1, <2>3, Values DEF WaitingFacts
    <3> QED BY <1>4, <3>1
  <2> QED BY <2>2, <2>3
<1>6. \A t : DownloadOf(t)' = DownloadOf(t)
  BY <1>1 DEF DownloadOf, DownloadsOf
<1>7. \A s : Promise!Without(s, drop) = Without(s, drop)
  BY Zenon DEF Promise!Without, Without
<1> QED BY <1>1, <1>2, <1>5, <1>6, <1>7 DEF Promise!Forget

(* Each step of the limiter is one of PoliteCrawl, or none.                *)
LEMMA StepKeepsPromise ==
  ASSUME TurnInv, TurnInv', Received, [Next]_vars
  PROVE  [Promise!Next]_(Promise!vars)
<1>1. ASSUME NEW r \in Requests, ReadRequest(r) PROVE UNCHANGED Promise!vars
  BY <1>1, ReadStutters
<1>2. CASE QueueRequest
  <2>1. reader \in Requests
    BY <1>2 DEF QueueRequest, TurnInv, TypeOK
  <2> QED BY <1>2, <2>1, QueueSubmits DEF Promise!Next
<1>3. CASE PopIdleToken \/ PopRequest
  BY <1>3, IdleStutters, OfferStutters
<1>4. CASE Deliver
  <2>1. TokenOf[sending] \in Tokens
    BY <1>4, DeliveredRequest, RateLimiterAssumption
  <2> QED BY <1>4, <2>1, DeliverBegins DEF Promise!Next
<1>5. ASSUME NEW r \in Requests, ReadReset(r) PROVE Promise!Next
  <2>1. TokenOf[r] \in Tokens
    BY RateLimiterAssumption
  <2> QED BY <1>5, <2>1, ResetEnds DEF Promise!Next
<1>6. ASSUME NEW j \in Jobs, StopJob(j) \/ RemoveJob(j) PROVE Promise!Next
  BY <1>6, StopAbandons, RemoveForgets DEF Promise!Next
<1>7. CASE Tick
  <2>1. now' = now + 1 /\ UNCHANGED <<pending, reader, sending, queues, downloading, due>>
    BY <1>7 DEF Tick, limiterVars, downloadVars
  <2>2. Promise!Tick
    BY <2>1 DEF Promise!Tick, WaitingFor, SendingOf, DownloadOf, DownloadsOf
  <2> QED BY <2>2 DEF Promise!Next
<1>8. \/ \E r \in Requests : ReadRequest(r) \/ ReadReset(r)
      \/ QueueRequest \/ PopIdleToken \/ PopRequest \/ Deliver
      \/ \E j \in Jobs : StopJob(j) \/ RemoveJob(j)
      \/ Tick
      \/ UNCHANGED Mapped
  BY DEF Next, Writer, vars, Mapped, Crash, WriterSleeps, WriterWakes, PopRaises,
    ReadResetUnlimited, SetRateLimit, SetGlobalLimit, DeleteRateLimit, AddJob,
    RemoveJobWhileSending, limiterVars, downloadVars
<1> QED BY <1>1, <1>2, <1>3, <1>4, <1>5, <1>6, <1>7, <1>8, Stutters

LEMMA InitKeepsPromise == Init => Promise!Init
<1> SUFFICES ASSUME Init PROVE Promise!Init
  OBVIOUS
<1>1. /\ now = 0 /\ pending = Requests /\ reader = None /\ sending = None /\ downloading = {}
      /\ DOMAIN queues = {} /\ due = [t \in Tokens |-> 0]
  BY DEF Init
<1>2. pending \cup ({reader} \ {None}) = Requests
  BY <1>1
<1>3. <<>> \o <<>> = <<>>
  OBVIOUS
<1>4. \A t : WaitingFor(t) = <<>>
  BY <1>1, <1>3 DEF WaitingFor, SendingOf
<1>5. \A t : DownloadOf(t) = None
  BY <1>1 DEF DownloadOf, DownloadsOf
<1> QED BY <1>1, <1>2, <1>4, <1>5 DEF Promise!Init

(* The limiter does what PoliteCrawl promises, for any jobs, domains and   *)
(* changes of the limits: its tasks, heap, buffer and channels hide in     *)
(* steps that change nothing that the promise speaks of, downloads of a    *)
(* domain begin in the order of their requests, one at a time and not      *)
(* before the delay is over, and a job that is stopped takes its own       *)
(* downloads and requests with it and no others.                           *)
THEOREM PromiseKept == Spec => ImplementsPoliteCrawl
<1>1. TurnInv /\ TurnInv' /\ Received /\ [Next]_vars => [Promise!Next]_(Promise!vars)
  BY StepKeepsPromise
<1>2. TurnInv => TypeOK
  BY DEF TurnInv
<1> QED
  BY <1>1, <1>2, InitKeepsPromise, ReceivedInit, ReceivedStep, TurnsCorrect, PTL
  DEF Spec, ImplementsPoliteCrawl, Promise!Spec
=============================================================================
