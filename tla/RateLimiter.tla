---------------------------- MODULE RateLimiter ----------------------------
(***************************************************************************)
(* The rate limiter of starbelly (src/starbelly/rate_limiter.py): one      *)
(* object, shared by all crawl jobs, between the frontiers and the         *)
(* downloaders.  Its three Trio tasks are the reader of requests, the      *)
(* writer and the reader of resets.  A Trio task gives way to the others   *)
(* only at an "await", so one action here is the code between two awaits.  *)
(*                                                                         *)
(* Its surroundings are modelled as far as the limiter sees them: the      *)
(* frontier of a running job offers requests (pending), its downloader     *)
(* receives them, and reports the end of a download with a reset, unless   *)
(* the job is stopped in between (cancelled).                              *)
(***************************************************************************)
EXTENDS Integers, Sequences, FiniteSets, Deques

CONSTANTS
  Jobs,       \* identifiers of crawl jobs
  Tokens,     \* rate limit tokens, one per domain
  Requests,   \* download requests, each of them submitted at most once
  JobOf,      \* request.job_id, a function on Requests
  TokenOf,    \* get_domain_token(request.url.host), a function on Requests
  Capacity,   \* how many requests the limiter buffers (1,000 in bootstrap.py)
  Delays,     \* the delays an operator chooses rate limits from
  None,       \* no request, no delay: Python's None
  Forever     \* the deadline of trio.sleep_forever()

ASSUME RateLimiterAssumption ==
  /\ JobOf \in [Requests -> Jobs]
  /\ TokenOf \in [Requests -> Tokens]
  /\ Capacity \in Nat \ {0}
  /\ Delays \subseteq Nat
  /\ None \notin Requests \cup Nat
  /\ Forever \notin Nat

VARIABLES
  alive,        \* FALSE once an exception has left one of the three tasks
  now,          \* trio.current_time()
  expires,      \* _expires, the heap of expiries
  queues,       \* _queues, a deque for each token that is in use
  rateLimits,   \* _rate_limits, the delays of single tokens
  globalLimit,  \* _global_limit
  free,         \* _semaphore.value
  channels,     \* the keys of _job_channels
  reader,       \* what the request reader has received and not queued yet
  writer,       \* what the writer is doing: "awake", "asleep" or "sending"
  sending,      \* the request the writer offers to a downloader
  wakeAt,       \* the deadline of the writer's sleep
  running,      \* jobs whose frontier and downloader are running
  pending,      \* requests that no frontier has sent yet
  downloading,  \* requests received by a downloader that has sent no reset
  cancelled,    \* requests whose download was cancelled before its reset
  due           \* history: when the last reset lets the next download begin

limiterVars == <<expires, queues, free, reader, writer, sending, wakeAt>>
configVars  == <<rateLimits, globalLimit>>
jobVars     == <<channels, running>>
downloadVars == <<pending, downloading, cancelled, due>>
vars == <<alive, now, limiterVars, configVars, jobVars, downloadVars>>

Expiries == [time : Nat, token : Tokens]

-----------------------------------------------------------------------------
(* Operators *)

(* A deque without the items of one job: the inner loop of remove_job.     *)
WithoutJob(deque, j) == Without(deque, {r \in Requests : JobOf[r] = j})

(* What heappop may return: Expiry objects are compared by time only.      *)
Earliest == {e \in expires : \A f \in expires : e.time <= f.time}

(* self._rate_limits.get(token, self._global_limit)                        *)
LimitOf(t) == IF t \in DOMAIN rateLimits THEN rateLimits[t] ELSE globalLimit

(* Mutant of AddExpiry: the sleeping writer is not woken.                  *)
AddExpiryQuietly(time, t) ==
  /\ expires' = expires \cup {[time |-> time, token |-> t]}
  /\ writer'  = writer

(* _add_expiry also cancels the scope in which the writer sleeps.  (The    *)
(* scope of a sleep that is over may be cancelled too, to no effect.)      *)
AddExpiry(time, t) ==
  /\ expires' = expires \cup {[time |-> time, token |-> t]}
  /\ writer'  = IF writer = "asleep" THEN "awake" ELSE writer

(* An exception leaves a task: its nursery cancels the other two and the   *)
(* exception goes on to the nursery of the whole server.                   *)
Crash == /\ alive' = FALSE
         /\ UNCHANGED <<now, limiterVars, configVars, jobVars, downloadVars>>

-----------------------------------------------------------------------------
(* _read_requests_task *)

ReadRequest(r) ==
  /\ alive
  /\ reader = None
  /\ r \in pending
  /\ JobOf[r] \in running
  /\ reader'  = r
  /\ pending' = pending \ {r}
  /\ UNCHANGED <<alive, now, expires, queues, free, writer, sending, wakeAt,
                 configVars, jobVars, downloading, cancelled, due>>

(* Mutant of QueueRequest: an expiry for every request, not every queue.   *)
QueueWithExpiry ==
  /\ alive
  /\ reader # None
  /\ free > 0
  /\ LET t == TokenOf[reader]
     IN  /\ queues' = [u \in DOMAIN queues \cup {t} |->
                         IF u # t THEN queues[u]
                         ELSE IF t \in DOMAIN queues THEN Append(queues[t], reader)
                         ELSE <<reader>>]
         /\ AddExpiry(now, t)
  /\ free'   = free - 1
  /\ reader' = None
  /\ UNCHANGED <<alive, now, sending, wakeAt, configVars, jobVars, downloadVars>>

(* The reader gets a place in the buffer and appends its request.          *)
QueueRequest ==
  /\ alive
  /\ reader # None
  /\ free > 0
  /\ LET t == TokenOf[reader]
     IN  IF t \in DOMAIN queues
         THEN /\ queues' = [queues EXCEPT ![t] = Append(@, reader)]
              /\ UNCHANGED <<expires, writer>>
         ELSE /\ queues' = [u \in DOMAIN queues \cup {t} |->
                              IF u = t THEN <<reader>> ELSE queues[u]]
              /\ AddExpiry(now, t)
  /\ free'   = free - 1
  /\ reader' = None
  /\ UNCHANGED <<alive, now, sending, wakeAt, configVars, jobVars, downloadVars>>

-----------------------------------------------------------------------------
(* _write_requests_task and _get_next_expiry *)

(* The heap is empty, or its head lies in the future: the writer sleeps.   *)
WriterSleeps ==
  /\ alive
  /\ writer = "awake"
  /\ \A e \in expires : e.time > now
  /\ writer' = "asleep"
  /\ \/ expires = {} /\ wakeAt' = Forever
     \/ \E e \in Earliest : wakeAt' = e.time
  /\ UNCHANGED <<alive, now, expires, queues, free, reader, sending,
                 configVars, jobVars, downloadVars>>

(* trio.move_on_after ends the sleep.                                      *)
WriterWakes ==
  /\ alive
  /\ writer = "asleep"
  /\ wakeAt # Forever
  /\ wakeAt <= now
  /\ writer' = "awake"
  /\ UNCHANGED <<alive, now, expires, queues, free, reader, sending, wakeAt,
                 configVars, jobVars, downloadVars>>

(* Mutant of Pops: the head of the heap is popped before its time.         *)
PopsEarly(e) == /\ writer = "awake"
                /\ e \in expires

(* The writer is awake and pops e off the heap.                            *)
Pops(e) == /\ writer = "awake"
           /\ e.time <= now

(* Nothing is waiting for the token: it is forgotten.                      *)
PopIdleToken ==
  /\ alive
  /\ \E e \in Earliest :
       /\ Pops(e)
       /\ e.token \in DOMAIN queues
       /\ queues[e.token] = <<>>
       /\ expires' = expires \ {e}
       /\ queues'  = [t \in DOMAIN queues \ {e.token} |-> queues[t]]
  /\ UNCHANGED <<alive, now, free, reader, writer, sending, wakeAt,
                 configVars, jobVars, downloadVars>>

(* Mutant of PopRequest: the newest request goes first.                    *)
PopNewest ==
  /\ alive
  /\ \E e \in Earliest :
       /\ Pops(e)
       /\ e.token \in DOMAIN queues
       /\ queues[e.token] # <<>>
       /\ JobOf[Head(queues[e.token])] \in channels
       /\ expires' = expires \ {e}
       /\ sending' = queues[e.token][Len(queues[e.token])]
       /\ queues'  = [queues EXCEPT ![e.token] = SubSeq(@, 1, Len(@) - 1)]
  /\ writer' = "sending"
  /\ UNCHANGED <<alive, now, free, reader, wakeAt,
                 configVars, jobVars, downloadVars>>

(* The oldest request of the token is offered to its job's downloader.     *)
PopRequest ==
  /\ alive
  /\ \E e \in Earliest :
       /\ Pops(e)
       /\ e.token \in DOMAIN queues
       /\ queues[e.token] # <<>>
       /\ JobOf[Head(queues[e.token])] \in channels
       /\ expires' = expires \ {e}
       /\ sending' = Head(queues[e.token])
       /\ queues'  = [queues EXCEPT ![e.token] = Tail(@)]
  /\ writer' = "sending"
  /\ UNCHANGED <<alive, now, free, reader, wakeAt,
                 configVars, jobVars, downloadVars>>

(* A KeyError: the token has no queue, or the job of its oldest request    *)
(* has no channel.                                                         *)
PopRaises ==
  /\ alive
  /\ \E e \in Earliest :
       /\ Pops(e)
       /\ e.token \in DOMAIN queues =>
            /\ queues[e.token] # <<>>
            /\ JobOf[Head(queues[e.token])] \notin channels
  /\ Crash

(* The downloader takes the request, the writer gives its place back.      *)
Deliver ==
  /\ alive
  /\ writer = "sending"
  /\ JobOf[sending] \in running
  /\ downloading' = downloading \cup {sending}
  /\ free'    = free + 1
  /\ writer'  = "awake"
  /\ sending' = None
  /\ UNCHANGED <<alive, now, expires, queues, reader, wakeAt,
                 configVars, jobVars, pending, cancelled, due>>

-----------------------------------------------------------------------------
(* _read_resets_task *)

(* Mutant of ReadReset: no expiry when nothing waits for the domain.       *)
ReadResetIfWaiting(r) ==
  /\ alive
  /\ r \in downloading
  /\ LimitOf(TokenOf[r]) # None
  /\ LET t    == TokenOf[r]
         time == now + LimitOf(t)
     IN  /\ IF queues[t] = <<>> THEN UNCHANGED <<expires, writer>>
            ELSE AddExpiry(time, t)
         /\ due' = [due EXCEPT ![t] = time]
  /\ downloading' = downloading \ {r}
  /\ UNCHANGED <<alive, now, queues, free, reader, sending, wakeAt,
                 configVars, jobVars, pending, cancelled>>

(* The download of r is over and its reset arrives.                        *)
ReadReset(r) ==
  /\ alive
  /\ r \in downloading
  /\ LimitOf(TokenOf[r]) # None
  /\ LET t    == TokenOf[r]
         time == now + LimitOf(t)
     IN  /\ AddExpiry(time, t)
         /\ due' = [due EXCEPT ![t] = time]
  /\ downloading' = downloading \ {r}
  /\ UNCHANGED <<alive, now, queues, free, reader, sending, wakeAt,
                 configVars, jobVars, pending, cancelled>>

(* trio.current_time() + None raises TypeError.                            *)
ReadResetUnlimited(r) ==
  /\ alive
  /\ r \in downloading
  /\ LimitOf(TokenOf[r]) = None
  /\ Crash

-----------------------------------------------------------------------------
(* Calls from the server, from bootstrap and from the crawl manager *)

SetRateLimit(t, delay) ==
  /\ alive
  /\ rateLimits' = [u \in DOMAIN rateLimits \cup {t} |->
                      IF u = t THEN delay ELSE rateLimits[u]]
  /\ UNCHANGED <<alive, now, limiterVars, globalLimit, jobVars, downloadVars>>

SetGlobalLimit(delay) ==
  /\ alive
  /\ globalLimit' = delay
  /\ UNCHANGED <<alive, now, limiterVars, rateLimits, jobVars, downloadVars>>

DeleteRateLimit(t) ==
  /\ alive
  /\ t \in DOMAIN rateLimits
  /\ rateLimits' = [u \in DOMAIN rateLimits \ {t} |-> rateLimits[u]]
  /\ UNCHANGED <<alive, now, limiterVars, globalLimit, jobVars, downloadVars>>

(* add_job, by a job that is started or resumed and begins to run.         *)
AddJob(j) ==
  /\ alive
  /\ j \notin channels
  /\ channels' = channels \cup {j}
  /\ running'  = running \cup {j}
  /\ UNCHANGED <<alive, now, limiterVars, configVars, downloadVars>>

(* The nursery of the job is cancelled: nothing is received or sent for it *)
(* any more, and its downloads end without a reset, since in the "finally" *)
(* of _download the await of the reset raises Cancelled once more.         *)
StopJob(j) ==
  LET mine == {r \in downloading : JobOf[r] = j}
  IN  /\ alive
      /\ j \in running
      /\ running'     = running \ {j}
      /\ downloading' = downloading \ mine
      /\ cancelled'   = cancelled \cup mine
      /\ UNCHANGED <<alive, now, limiterVars, configVars, channels, pending, due>>

(* remove_job: the job's requests leave the queues, its channel is closed. *)
(* Their places in the buffer are not given back.                          *)
RemoveJob(j) ==
  /\ alive
  /\ j \in channels \ running
  /\ ~ (writer = "sending" /\ JobOf[sending] = j)
  /\ queues'   = [t \in DOMAIN queues |-> WithoutJob(queues[t], j)]
  /\ channels' = channels \ {j}
  /\ UNCHANGED <<alive, now, expires, free, reader, writer, sending, wakeAt,
                 configVars, running, downloadVars>>

(* The writer is blocked in the send: it gets a ClosedResourceError.       *)
RemoveJobWhileSending(j) ==
  /\ alive
  /\ j \in channels \ running
  /\ writer = "sending" /\ JobOf[sending] = j
  /\ Crash

(* Time passes.  Nothing in the limiter depends on how long it has been    *)
(* overdue, so the clock only runs while some expiry lies in the future.   *)
Tick ==
  /\ alive
  /\ \E e \in expires : e.time > now
  /\ now' = now + 1
  /\ UNCHANGED <<alive, limiterVars, configVars, jobVars, downloadVars>>

-----------------------------------------------------------------------------

Init ==
  /\ alive = TRUE
  /\ now = 0
  /\ expires = {}
  /\ queues = [t \in {} |-> <<>>]
  /\ rateLimits = [t \in {} |-> 0]
  /\ globalLimit \in Delays \cup {None}
  /\ free = Capacity
  /\ channels = {}
  /\ reader = None
  /\ writer = "awake"
  /\ sending = None
  /\ wakeAt = Forever
  /\ running = {}
  /\ pending = Requests
  /\ downloading = {}
  /\ cancelled = {}
  /\ due = [t \in Tokens |-> 0]

Writer == \/ WriterSleeps \/ WriterWakes
          \/ PopIdleToken \/ PopRequest \/ PopRaises
          \/ Deliver

Next ==
  \/ \E r \in Requests : ReadRequest(r)
  \/ QueueRequest
  \/ Writer
  \/ \E r \in Requests : ReadReset(r) \/ ReadResetUnlimited(r)
  \/ \E t \in Tokens, delay \in Delays : SetRateLimit(t, delay)
  \/ \E delay \in Delays : SetGlobalLimit(delay)
  \/ \E t \in Tokens : DeleteRateLimit(t)
  \/ \E j \in Jobs : AddJob(j) \/ StopJob(j)
  \/ \E j \in Jobs : RemoveJob(j) \/ RemoveJobWhileSending(j)
  \/ Tick

Spec == Init /\ [][Next]_vars

(* Trio runs every task that is ready, so the limiter's own steps, and the *)
(* end of a job that has been stopped, are weakly fair; so is the clock.   *)
(* A download ends since aiohttp has a time limit.  Nothing obliges a      *)
(* frontier to send, an operator to act or a job to be started or stopped. *)
Fairness ==
  /\ WF_vars(QueueRequest)
  /\ WF_vars(Writer)
  /\ \A r \in Requests : WF_vars(ReadReset(r) \/ ReadResetUnlimited(r))
  /\ \A j \in Jobs : WF_vars(RemoveJob(j) \/ RemoveJobWhileSending(j))
  /\ WF_vars(Tick)

FairSpec == Spec /\ Fairness

-----------------------------------------------------------------------------
(* Properties *)

(* Every variable has its type.                                            *)
TypeOK ==
  /\ alive \in BOOLEAN
  /\ now \in Nat
  /\ expires \subseteq Expiries
  /\ DOMAIN queues \subseteq Tokens
  /\ queues \in [DOMAIN queues -> Seq(Requests)]
  /\ DOMAIN rateLimits \subseteq Tokens
  /\ rateLimits \in [DOMAIN rateLimits -> Delays]
  /\ globalLimit \in Delays \cup {None}
  /\ free \in Nat
  /\ channels \subseteq Jobs
  /\ reader \in Requests \cup {None}
  /\ writer \in {"awake", "asleep", "sending"}
  /\ sending \in Requests \cup {None}
  /\ sending # None <=> writer = "sending"
  /\ wakeAt \in Nat \cup {Forever}
  /\ running \subseteq channels
  /\ pending \subseteq Requests
  /\ downloading \subseteq {r \in Requests : JobOf[r] \in running}
  /\ cancelled \subseteq Requests
  /\ due \in [Tokens -> Nat]

(* The turn to download from a domain is held by its expiry in the heap,   *)
(* by the request the writer sends or by the one that is being downloaded. *)
ExpiriesOf(t)  == {e \in expires : e.token = t}
SendingOf(t)   == {r \in {sending} \ {None} : TokenOf[r] = t}
DownloadsOf(t) == {r \in downloading : TokenOf[r] = t}

(* A cancelled download has taken the turn of its domain with it.          *)
Lost(t) == \E r \in cancelled : TokenOf[r] = t

(* A domain that has a queue has exactly one turn, shared by all jobs, and *)
(* a domain that has none has no turn: so no two downloads from a domain   *)
(* overlap, no expiry meets a missing queue (the KeyError of               *)
(* _write_requests_task), and no queue waits for a turn that nobody holds, *)
(* unless a cancelled download has lost it.                                *)
OneTurnPerDomain ==
  \A t \in Tokens :
    Cardinality(ExpiriesOf(t)) + Cardinality(SendingOf(t))
      + Cardinality(DownloadsOf(t))
    = IF t \in DOMAIN queues /\ ~ Lost(t) THEN 1 ELSE 0

(* The same as an inductive invariant, in parts.  Who holds a turn ...     *)
HoldsTurn(t) == \/ \E e \in expires : e.token = t
                \/ sending # None /\ TokenOf[sending] = t
                \/ \E r \in downloading : TokenOf[r] = t

(* ... has a queue and has lost no download; nobody holds it twice, ...    *)
TurnsAreValid ==
  /\ \A t \in Tokens : HoldsTurn(t) => t \in DOMAIN queues /\ ~ Lost(t)
  /\ \A e, f \in expires : e.token = f.token => e = f
  /\ \A r, s \in downloading : TokenOf[r] = TokenOf[s] => r = s
  /\ \A r \in downloading, e \in expires : TokenOf[r] # e.token
  /\ sending # None =>
       /\ \A e \in expires : TokenOf[sending] # e.token
       /\ \A r \in downloading : TokenOf[sending] # TokenOf[r]

(* ... and every queue that lost none has one.                             *)
TurnsAreKept ==
  /\ \A t \in DOMAIN queues : HoldsTurn(t) \/ Lost(t)
  /\ \A r \in cancelled : TokenOf[r] \in DOMAIN queues

(* Requests wait in the queue of their own domain.                         *)
QueuesAreSorted ==
  \A t \in DOMAIN queues : \A i \in 1 .. Len(queues[t]) : TokenOf[queues[t][i]] = t

(* Nothing that lets a download begin does so before it is due: neither an *)
(* expiry, nor the absence of a queue, nor the writer's offer.             *)
TurnsAreDue ==
  /\ \A e \in expires : due[e.token] <= e.time
  /\ \A t \in Tokens \ DOMAIN queues : due[t] <= now
  /\ sending # None => due[TokenOf[sending]] <= now

(* All of these together are inductive: they are why OneTurnPerDomain and  *)
(* Polite hold.                                                            *)
TurnInv == TypeOK /\ QueuesAreSorted /\ TurnsAreValid /\ TurnsAreKept /\ TurnsAreDue

(* Politeness (docs/configuration.rst, Rate Limits): a request reaches a   *)
(* downloader only when the delay that began at the last reset of its      *)
(* domain is over, whichever job it belongs to.                            *)
Polite ==
  [][\A r \in Requests :
       r \in downloading' \ downloading => due[TokenOf[r]] <= now]_vars

(* The writer never sleeps past an expiry: one that is added while it      *)
(* sleeps and ends sooner than its deadline wakes it (_add_expiry).        *)
NoOversleep ==
  writer = "asleep" =>
    IF wakeAt = Forever THEN expires = {}
    ELSE \A e \in expires : wakeAt <= e.time

(* The places taken in the limiter: the positions of the queues, and the   *)
(* request that is being sent.                                             *)
Places   == {p \in Tokens \X (1 .. Capacity + 1) :
               p[1] \in DOMAIN queues /\ p[2] <= Len(queues[p[1]])}
Buffered == Cardinality(Places) + Cardinality({sending} \ {None})

(* A request that has been queued reaches its downloader or is removed     *)
(* with its job, provided that no download from its domain was cancelled   *)
(* and the limiter has not died.                                           *)
Queued(r) == \E t \in DOMAIN queues : \E i \in DOMAIN queues[t] : queues[t][i] = r
EventuallyServed ==
  \A r \in Requests :
    (Queued(r) \/ sending = r)
      ~> \/ ~ Queued(r) /\ sending # r
         \/ Lost(TokenOf[r])
         \/ ~ alive

(* The limiter does what PoliteCrawl says: a domain's waiting requests are *)
(* those of its queue behind the one that is being sent.                   *)
DownloadOf(t) == IF DownloadsOf(t) = {} THEN None
                 ELSE CHOOSE r \in DownloadsOf(t) : TRUE
WaitingFor(t) == (IF SendingOf(t) = {} THEN <<>> ELSE <<sending>>)
                 \o (IF t \in DOMAIN queues THEN queues[t] ELSE <<>>)

Promise == INSTANCE PoliteCrawl WITH
             fresh   <- pending \cup ({reader} \ {None}),
             waiting <- [t \in Tokens |-> WaitingFor(t)],
             active  <- [t \in Tokens |-> DownloadOf(t)],
             ready   <- due

ImplementsPoliteCrawl == Promise!Spec
(* The number that item_count reports as "the number of requests queued    *)
(* inside the rate limiter" is the number of requests in it.               *)
ItemCountExact == Capacity - free = Buffered

(* remove_job removes "all download requests for the given job": none of   *)
(* them is in a queue while the job has no channel.                        *)
RemovedJobIsGone ==
  \A r \in Requests : Queued(r) => JobOf[r] \in channels

(* The writer "runs until cancelled": while there is a global limit, so    *)
(* that resets find a delay, no exception leaves a task.                   *)
RunsUntilCancelled == globalLimit # None => alive

(* "When a rate limit expires for a given token, the next URL in the       *)
(* corresponding queue is sent to the downloader": each queued request     *)
(* leaves its queue at some time, as long as the limiter lives.            *)
EveryQueueIsServed ==
  \A r \in Requests : Queued(r) ~> (~ Queued(r) \/ ~ alive)
=============================================================================
