# A verification project for starbelly

Starbelly is a web crawler written in Python on Trio: one process runs several
crawl jobs, keeps everything in RethinkDB and is controlled over a websocket
API. This directory holds TLA+ modules that model its core, TLC configurations
that check them on small instances, and proofs that TLAPS checks for every
instance. `PROJECT.json` is the index: components, runs, mutants (changes of a
definition that a run must notice), the source lines each definition stands
for, findings, hazards, theorems.

Contents: 1 the system; 2 the modules; 3 the runs; 4 bounds; 5 fairness;
6 proofs; 7 what does not hold; 8 what is not modelled; 9 plan.

## 1. The system

Trio is cooperative: a task gives way only at an `await`. So a step of a model
is the code between two awaits, and every await - above all every database
query - is a point where other tasks, or a kill of the server, come in between.

| component | state | operations | made correct by |
|---|---|---|---|
| rate limiter (`rate_limiter.py`) | a deque per domain, a heap of expiries, a semaphore of 1,000 places, a channel per job | three tasks: read requests, write the next request that is due, read resets; `set_rate_limit`, `add_job`, `remove_job` | one download per domain at a time over all jobs, the delay between them, no request lost, the tasks never die |
| pipeline of a job (`frontier.py`, `downloader.py`, `storage.py`, `extractor.py`) | the `frontier` rows with their mark "in flight", `old_urls`, the counters, a semaphore of 20 downloads for all jobs | poll, download, store, extract, insert, delete; ends with one of three exceptions | a URL is crawled once and none is forgotten, permits come back, the job ends, and only when it has finished |
| crawl manager (`job.py`, `server/job.py`) | the row of the job, the statistics, the registry of running jobs, the limiter's channel | start, pause, resume, cancel, complete, delete; state events to listeners on bounded channels | one run per job at a time; the places that hold the state agree; a finished job stays finished |
| scheduler (`schedule.py`, `server/schedule.py`) | the schedules, a heap of due events, the running job of each schedule | load, add, edit, delete; listen to state events; start a job and cancel its predecessor | each schedule has exactly one next run; its jobs keep their distance and do not overlap |
| item sync (`subscription.py`) | a position in the job's items, a page of them, a channel of state events | poll, send, resume from a token, cancel, end when the job has ended | items arrive once and in order; a client that reconnects misses none; the end comes when the job has ended, and then does come |
| other subscriptions (`subscription.py`, `resource_monitor.py`) | changefeeds, a snapshot of the statistics, a buffer of measurements | send what there is, then each change | what a client makes of the events is what the server has |
| connections (`server/__init__.py`) | a nursery of the reader, the handlers and the subscriptions | dispatch; close when one of them raises | one client's failure ends no other's connection |
| backoff (`backoff.py`) | a delay | double, halve | between its minimum and its maximum |
| robots.txt manager (`robots.py`) | a cache, documents, and events for fetches under way | fetch once for all tasks that ask; expire; apply the crawl delay | a file is fetched once for all, answers do not go back to old files, no task waits for ever |
| policy (`policy.py`) | none (a document) | URL rules, MIME rules, limits, normalization, user agents, proxies | the first rule that applies decides, and a maximal cost ends a crawl |
| startup (`bootstrap.py`, `db.py`) | - | marks running jobs as paused and rows as not in flight, then starts everything | the tables are a state from which each component can go on |
| others | login, captcha, sitemap, configuration | | section 8 |

How they interact. The frontier task of a job sends requests to the limiter on
a channel without buffer; the limiter sends each, when its domain's turn comes,
to the downloader of its job, which reports the end of the download with a
reset. The downloader passes responses to the storage, the storage to the
extractor, the extractor inserts rows that the frontier polls. The crawl
manager builds all this, runs it in a nursery and sends a state event at every
change of a job; the scheduler is one of the listeners, and starts and cancels
jobs by calling the crawl manager, and each item sync is another. Extractors of
all jobs ask the robots.txt manager whether they may follow a link, and the
policy what it costs. Subscriptions read the tables that pipelines and requests
write. API requests call the crawl manager, the
scheduler, the limiter and the database.

What is hard. The tasks of all jobs share the limiter, its turns and its places,
and the download permits. An operation of the manager is a row of queries with
other requests, the end of the job and a kill in between. The frontier is judged
by two queries. An exception in one task cancels the others wherever they are -
in a job as on a connection. A client may be cut off at any moment and come back
with the token of the last item it saw. State events are dropped when a listener
is late. `hazards` in `PROJECT.json` lists these cases by line, with the
properties that cover them.

## 2. The modules

`Deques` (operators) serves `RateLimiter`; `DequeLemmas` has what is proved of
them, of queues and of functions defined step by step, for the proofs about
`RateLimiter`, `Scheduler`, `Subscriptions` and `RobotsTxt`. The `MC...` modules
only give values to constants. Each component has its theorems in a module of
their own, `...Proofs` (section 6).

### RateLimiter, PoliteCrawl, RateLimiterProofs

`RateLimiter` is the whole of `rate_limiter.py`. Its variables are the object's
attributes: `expires` is `_expires` (a set, because `Expiry` compares by time
alone, so `heappop` may return any that is earliest), `queues` is `_queues`,
`free` the semaphore's value, `channels` the keys of `_job_channels`; `reader`,
`writer`, `sending`, `wakeAt` are the local state of the tasks between awaits.
`ReadRequest` and `QueueRequest` are the two halves of `_read_requests_task`
around the wait for a place; `WriterSleeps`, `WriterWakes`, `PopIdleToken`,
`PopRequest`, `PopRaises` and `Deliver` are the branches of
`_write_requests_task`; `ReadReset` and `ReadResetUnlimited` the third task,
`SetRateLimit`, `SetGlobalLimit`, `DeleteRateLimit`, `AddJob`, `RemoveJob` the
calls. `StopJob` and the requests are the surroundings: a job's tasks are gone
before `remove_job` is called, and what they were downloading is `cancelled`.
`due` is history: when the last reset of a domain allows the next download.

`PoliteCrawl` is what the limiter promises its users: for each domain a queue,
at most one download, and no download before the delay after the last one.
`RateLimiter` is shown to implement it (`ImplementsPoliteCrawl`).

### CrawlPipeline

One job from its first seed to its end. `ready` and `inFlight` are the rows of
the frontier table by their mark; a row is a URL, the run that inserted it and, for a
seed, its place in the list of seeds, since `create_job` inserts a row for each seed as
it is given. Each further variable is what a task holds
between two awaits. An action is a query (`FrontierQuery`, `FrontierMark`,
`StorageSave`, `StorageCount`, `ExtractInsert`, `ExtractDelete`) or a hand-over
on a channel. `DurationElapses`, `FrontierExhausted` and the item limit in
`FinishDownload` raise the three exceptions; `Unwound`, `CompleteJob` and
`EscapeJob` are the nursery, `CrawlManager._run_job` and the case of two
exceptions at once. `Pause`, `PauseJob`, `Resume` and `Restart` interrupt the
run: the tables stay, and `old_urls` as far as it was saved. The limiter is seen
as a bag that delivers in any order, which `RateLimiter` refines.

### CrawlManager

The life of several jobs: `db`, `stats`, `registry`, `channels` and `heard` are
the places that hold the state of a job, `stage` is where each run's
`_run_job` is, `call` where each API request is. Each operation is one action
per await (`pause:stopped`, `pause:save`, `pause:return`, ...). A request may
come at any time. `valid` are the jobs that `_make_job` can make of their
documents; it raises for the others (`JobStartRaises`, `JobResumeRaises`), when the
row is there already. `Ask` counts those that are *disorderly* - the client does not
go by the state it is shown, or its last request for the job has not returned -
and the properties are claimed as long as there was none. A kill (`Restart`)
may come at any step.

### Scheduler

`events` is the list `_events` with its true order: `HeapPush` is `heappush`
place by place (`rise`, a recursive function, since a module with `RECURSIVE`
operators cannot be proved about), and a due event is taken from the front as
`pop(0)` does.
`task` is `_schedule_task` (looking, sleeping until a time, cancelling the old
job, creating the row, having inserted it, updating the count), `running` is
`_running_jobs`, `channel` the bounded channel of state events, `api` the
handler of `set_schedule` or `delete_schedule` between its queries, `loading`
the documents `Scheduler.run` has yet to read. A job's own steps are coarse
(`JobRuns`, `JobEnds`, `UserPauses`...), since `CrawlManager` has them in detail.
`disturbed` and `mistaken` record that the code has lost track of a schedule, in
the ways that section 7 lists, and `revived` which ones it loaded although they had
been disabled or deleted since their documents were read.

### ScheduleDates

`compute_next_event` for months and years, as operators on dates; the shorter
units are durations of fixed length, which is how `Scheduler` counts all
intervals.

### Connection, ItemSync, EventStreams, Subscriptions, Backoff

`Connection` is the life of one client: `conn` and `raised` are the nursery of
`Connection.run`, `link` and `wire` the network, `subs` the subscriptions that
run. `CloseConnection` is the end of the nursery; two exceptions in one round are
a `MultiError`, which no clause catches and which ends the server.

`ItemSync` is `JobSyncSubscription` with the storage it reads behind. `phase`
is where `run` waits, `current` is `_current_sequence`, `page` the rest of the
result of one query. `Query` and `EndPage` are the two ends of a round of
`_run_sync`, `SendItem` the loop in it, `JobStatus` the second task,
`ReadJob` the query before both start, `SendComplete` the end. `StoreItem` and
`StoreBody` are the two queries of `save_response`, `DeleteItems` and `DeleteRow`
those of `delete_job`. `horizon` is history: the last number taken when the
sync saw an empty page. `Page` is *the* ascending sequence of the items behind a
number; that there is one is proved (`AscendingExists`).

`EventStreams` has the other subscriptions but the task monitor. A list
subscription is a changefeed (`OpenFeed`, `SendListEvent`), whose queue is
`feed`; the job statuses are the difference of two snapshots (`MakeEvent`); the
resource monitor has a ring of measurements and a bounded channel for each
subscription. `view`, `statusView` and `seen` are what a client makes of the
events. `ViewsAgree` says of every row and of every job that the last word about
it - received, in flight, or not yet sent - is the true one.

`Subscriptions` puts them on one connection, for a client that wants a set of
kinds, cancels, and connects again. `Backoff`, which it extends, is the arithmetic
of the delay between two polls, in quarters of a second because `//` rounds down to whole
ones.

### RobotsTxt

`cache`, `fetching` (the keys of `_events`) and `docs` are the manager's state,
`pc` and `call` each task's place in `is_allowed` and `_get_robots`: `Request` up
to the first await, `WakeUp` after the wait for another task, then the query
(`Found`, `ReadDocument`), the download, the save (`Saved`) and `Finish`, which
puts the file into the cache, sets the event and answers. Before a download the task
waits for one of the permits (`Acquire`) that the downloads of pages hold as well
(`pages`). `Interrupt` is an
exception or a cancellation at any await, after which the event stays; `Kill` a
restart. `raced` records a file that two tasks fetch because one woke to find it
dropped from the cache; from then on nothing is claimed of that file.

### PolicyRules

The rules of a policy as documents of the database, their validation, and what
`should_save`, `get_proxy_url`, `get_cost` and `exceeds_max_cost` say.
`RobotsTxt` extends it: whoever asks whether it may follow a link asks the
policy, too. A pattern is the set of subjects it matches. The reference is
`Meaning`, which reads a list from its end: each rule is an exception to those
behind it.

## 3. The runs

| run | module, configuration | question |
|---|---|---|
| `limiter_safety` | `MCRateLimiter` | Two jobs crawl one domain and one of them a second; limits are changed, jobs added, stopped and removed at any step. Has each domain with a queue exactly one turn (`OneTurnPerDomain`), is every download at its time (`Polite`), does the writer never oversleep (`NoOversleep`), and is the whole an implementation of `PoliteCrawl`? |
| `limiter_liveness` | `MCRateLimiterLive` | Is every queued request sent or removed (`EventuallyServed`), with a buffer of one place? |
| `limiter_survives` | `MCRateLimiterSurvives` | Do the tasks run until they are cancelled? **No** (finding). |
| `pipeline` | `MCCrawlPipeline` | A job left alone, with a seed given twice, an item limit of none, one or zero, a time limit, an error and a link that makes the extractor raise: does everything in flight have a place (`InFlightIsInPipeline`), are permits (`PermitsAreUsed`) and items (`ItemsAreCounted`) accounted for, does it end (`EventuallyEnds`), idle if exhausted (`ExhaustedMeansIdle`), soon after the limit (`LimitIsNoticed`)? |
| `pipeline_interrupted` | `...Interrupted` | The same with a pause, a resume and kills at any step, robots.txt, a page of a disallowed type and a limit of three items: is each row with one task only (`OneStationPerRow`), marked and not polled again (`PipelineIsInFlight`), each row downloaded once in a run, and each URL once but a repeated seed (`DownloadedOnce`), no URL or link forgotten (`NoUrlForgotten`, `LinksAreFollowed`)? |
| `manager` | `MCCrawlManager` | Two requests at a time, one of them out of order, the job's own end, kills: one run at a time (`OneRunPerJob`), the registry and the channels are those of the jobs that run (`RegistryIsExact`), no `KeyError` ends the server (`ServerSurvives`), row, statistics and events agree and the frontier of a finished job is empty (`PlacesAgree`), the row makes the steps of a job's life only (`LifeCycle`), requests return (`RequestsReturn`). |
| `cancel_continues` | `...Cancel` | Does a cancelled job stop? **No** (finding). |
| `scheduler` | `MCScheduler` | A schedule of either kind, one client request at any time, kills, a channel for one event: exactly one next run for each schedule (`OneNextRun`), none for a removed one unless it was removed while it was loaded (`RemovedHasNoEvent`), jobs at their distance (`Spaced`), one at a time (`OneInstance`), the first event started when due (`DueIsStarted`). And a schedule of months or years is due on the right day (`DatesAreRight`). |
| `scheduler_heap` | `...Heap` | Does the scheduler, with three schedules, never sleep while an event is due? **No** (finding). |
| `subscriptions` | `MCSubscriptions` | A client of each kind, whose connection breaks at any step, who cancels or comes back: items once and in order (`InOrder`), none missed but those of the next run (`MissedAreSuccessors`), the end not before the job's (`EndsWhenFinished`) and not never (`SyncEnds`), its pictures of tables, statistics and measurements right (`ViewsAgree`) and in the end complete (`ViewsCatchUp`). The delay between polls grows to its maximum and starts again (`PollsBackOff`). |
| `sync_skips` | `...Skips` | Does a client with sync tokens miss no item? **No** (finding). |
| `robots` | `MCRobotsTxt` | Two jobs and two sites, a cache for one file, one permit that pages take as well, new files, failing downloads, an interrupted task or a kill: one fetch for all who need a file, and no download unless there is none or an old one (`NoNeedlessFetch`), what is cached is saved (`CacheIsSaved`), no answer goes back to an older file (`NeverGoesBack`), every request is answered if permits become free again and again (`RequestsEnd`). A policy decides what its rules say (`PolicyDecides`). |

Every property of a passing run has a mutant in `PROJECT.json`: a change of one
definition, such as a programmer might make, with which TLC reports that
property. Three statements are about pure functions and have no variables: `DueOnTheDay`,
`BacksOff` and `DecidesAsRuled`. They are claimed where the program depends on
them (`DatesAreRight` in `MCScheduler`: while an event waits; `PollsBackOff` in
`Subscriptions`: while a sync polls; `PolicyDecides` in `RobotsTxt`: while a task
asks). `RegistryIsExact`,
`OneNextRun`, `ViewsAgree` and `CacheIsSaved` include the types of their module;
those of `RateLimiter` and `CrawlPipeline` are theorems only (section 6).

## 4. Bounds

* `limiter_*`: two jobs, two domains, three requests: two requests compete for a
  domain, of the same and of different jobs, while a third waits elsewhere. The
  limiter has room for two requests (one in the other runs), so that the reader
  blocks. Delays are 0 and 1 tick. The clock is not capped: it moves while
  something waits for it.
* `pipeline*`: three pages that link to each other, so that a page is found
  twice, and a first seed that is given twice. In `pipeline` two permits, so that
  downloads overlap and are refused, and a batch of two; in `pipeline_interrupted`,
  whose runs repeat, one permit, for which robots.txt and a page compete, and batches
  of one. Its limit of three items is what a run without interruption downloads
  (one of the links leads to the disallowed type), so that an end by the limit
  meets a pause or a kill. Inserts of one, so that both kinds of loop go round.
  `MaxRuns` = 2: one pause or kill, then a second run. A kill after the last run is
  there as well; further runs start from tables of the same kind.
* `manager`: one job run twice, two requests at a time, one of them disorderly,
  a channel of one event. Jobs do not share any state in this component, except
  for the channel of events, whose loss one job already produces.
* `scheduler`: two schedules, three ticks, two jobs, one client request, a
  channel of one event, interval 2 for both. Two jobs are enough for one
  schedule to run twice, or two schedules to compete; the third start, which
  matters for the heap, is in `scheduler_heap` (three schedules, no client).
  `DueOnTheDay` takes all dates of a leap year, the year after it and 2100, and
  up to 26 units, so that months cross two ends of a year.
* `subscriptions`: one client with one kind of subscription at a time, since they
  share only the nursery (`Raise` lets the reader, a handler and a subscription
  raise together). Two items - one that a page has and one that follows -, one
  message in the network, one cancellation or reconnection, channels of one,
  three changes of what is shown. `BacksOff`: ten polls of either outcome, enough
  to go from the minimum to the maximum.
* `robots`: one site that publishes a second file and one that has none, a cache
  for one of them, so that the waiting task finds its file dropped; a day of two
  ticks, and a maximal age of none or a day; one permit, so that one page keeps a
  fetch waiting; one interruption or kill. The
  surroundings stop once a race has happened (`Calm`). Policies: all lists of up
  to two rules - a rule and a default - over two subjects; amounts 0 and 2.

## 5. Fairness

Only what Trio and the outside justify. Trio runs each task that can run, so the
actions that only need the task itself are weakly fair. The database answers, and
a download ends because aiohttp has a time limit: these too are weakly fair. The
clock moves (`Tick` in `RateLimiter`). Never fair: a client's request, a kill, a
pause, a resume, an operator's change of a limit, the end of a job, its links,
and `Restart`. In `RateLimiter` weak fairness of the `Writer` as a whole is
enough, because it is one task; in `CrawlPipeline` it is per task and row.
In `Scheduler` it is `Scheduler.run` alone, which loads the schedules and then
runs the schedule task. In `Subscriptions` the two tasks of a sync are fair one by one, the streams
together; and the client reads, subscribes and connects again as long as it may,
which is what makes it a client of these properties. In `RobotsTxt` each task
is weakly fair, and downloads answer or fail because aiohttp has a time limit. It
begins only when the task has its permit, and nothing ends the wait for one: `PageEnds`
is not fair, because the page that holds a permit may wait for the very task that
waits for it. Trio's semaphore serves its waiters in turn, so `Acquire` is strongly
fair: a task gets a permit if they become free again and again, and `RequestsEnd`
claims an answer only then. Sites, clock, interruptions and kills are not fair.

## 6. Proofs

TLAPS checks the theorems below for every value of the constants that the named
assumptions of the modules allow. Each proof is the same argument: an invariant
is found that is inductive - the property together with whatever a step has to
know to preserve it -, TLC looks for a counterexample on the runs, and then
every action has a lemma, or a case, that it keeps every part. The invariants
are defined in the `...Proofs` modules, unless a run checks them.

The assumptions are few, and the code justifies them. A `None` is not a URL, a
job, a number or a record. Bounds and sizes are naturals, positive where the code
would not work otherwise (a batch, an insert, a channel, a permit). The clients
and the rows of a table are finitely many. `Interests` are sets of the kinds of
subscriptions that there are. No theorem assumes a small number of anything.

### RateLimiterProofs: about `RateLimiter`, under `RateLimiterAssumption`

* `TypeCorrect`: `Spec => []TypeOK`; `TurnsCorrect`: `Spec => []TurnInv`, the
  inductive invariant;
* `OneTurnAlways`: `Spec => []OneTurnPerDomain`; `AlwaysPolite`: `Spec => Polite`;
  `NeverOversleeps`: `Spec => []NoOversleep`;
* `PromiseKept`: `Spec => ImplementsPoliteCrawl`, the refinement.

`OneTurnPerDomain` counts the holders of a domain's turn, and a step that passes
the turn on must know who else may hold it; so it is not inductive by itself.
`TurnInv` says it without counting, in four parts: `TurnsAreValid` (who holds a
turn has a queue, and nobody else holds it), `TurnsAreKept` (each queue has a
holder, or lost it with a cancelled download), `QueuesAreSorted` (the head of a
queue is a request for its domain, which is why the turn passes from the expiry
to the request of the same domain) and `TurnsAreDue` (a turn is not released
before its time). `RemoveJob`, which filters all queues, rests on `DequeLemmas`.
`Polite` follows from `TurnsAreDue` at the step `Deliver`.

The refinement goes step by step. `WaitingFacts` and `DownloadFacts` say what the
mapping gives: the request that is offered, before the queue of its domain; the
one download of a domain, which is one because of `TurnsAreValid`. Reading a
request, looking for a turn and offering a request are stutters; `QueueRequest`,
`Deliver`, `ReadReset`, `StopJob` and `RemoveJob` are the abstract `Submit`,
`Begin`, `End`, `Abandon` and `Forget`. One more invariant is needed, `Received`:
what the reader holds is not offered by its frontier again, or `QueueRequest`
would be no `Submit`. Removing a job from the limiter is the abstract removal only
because filtering keeps what is at the head of a queue there
(`WithoutKeepsFirst`).

### CrawlPipelineProofs: about `CrawlPipeline`, under `CrawlPipelineAssumption`

For all sites, batch and insert sizes, capacities and numbers of runs, with pauses
and kills at any step unless said otherwise:

| theorem | statement | invariant |
|---|---|---|
| `TypeCorrect`, `PermitsCorrect` | types; no permit is given back twice | `TypeInv`: the semaphore's value needs the number of downloads beside it |
| `RowsCorrect`, `RowsAreMarked` | `OneStationPerRow`, `PipelineIsInFlight` | `RowsInv`: a batch that was read by one query and is marked by a second is still ready and with no task; links to be inserted are new to the extractor, and so have no row of this run |
| `PermitsUsedAlways` | `PermitsAreUsed` | `TasksInv`: a row that waits has no download, so that a new one takes a permit of its own |
| `ExhaustedIsIdle` | `ExhaustedMeansIdle` | `EndInv`: nothing is raised before the nursery unwinds |
| `LimitNoticedAlways` | `LimitIsNoticed` | `LimitInv`: the items are less than the limit and the downloads that have been counted, since none ends that saw the limit |
| `InFlightCorrect` | `CrawlSpec => []InFlightIsInPipeline`, if `Disallowed = {}` | itself, with `TypeInv` and `RowsInv` |
| `ItemsCorrect` | `CrawlSpec => []ItemsAreCounted` | `ItemsInv`: the documents are finitely many |
| `DownloadedOnceAlways` | `DownloadedOnce` | `OnceInv`: a row without response has no document of its URL, no two rows but those of seeds have the same URL, and what has a row or a document is remembered by the extractor or, while paused, by the table |
| `NothingForgotten`, `LinksFollowed` | `NoUrlForgotten`, `LinksAreFollowed`, if `BadLinks = {}` | `ExtractionInv`, `CoverInv`: what is remembered has a row, a document or is about to be inserted; the links of the page at hand are in one of three places |

The hypotheses are defects of the code (section 7), and each theorem is false
without them: a response of a disallowed MIME type strands its row; a link that
makes the extractor raise loses the links found before it on that page, which
`old_urls` remembers all the same. In the runs, `Disallowed` is empty where
`InFlightIsInPipeline` is checked, and `BadLinks` where the two last are.
`CrawlSpec` is the job that nobody pauses or kills: a pause leaves rows in
flight, and a kill falls between an insert and its count.

### CrawlManagerProofs: about `CrawlManager`, under `CrawlManagerAssumption`

`InvHolds`: `Spec => []Inv`. It gives `RegistryExactAlways`
(`RegistryIsExact`), `OneRunAlways` (`OneRunPerJob`), `ServerSurvivesAlways`
(`ServerSurvives`), `PlacesAgreeAlways` (`PlacesAgree`) and `LifeCycleHolds`
(`Spec => LifeCycle`), for any number of jobs, clients, runs and kills.

`PlacesAgree` excepts the row of a job that could not be made. `Inv` has the types;
`RunsBounded`, which counts the runs that requests are about to
add; and, as long as requests are orderly, for each job `JobInv`: at most one run is
live and at most one request is under way, and the stage of that run
(`RunFits`) or the await of that request (`AskFits`) determines the row of the
job, the statistics, its entry in the registry and its channel; with neither,
`RestFits`. A pause and the run it stops are in step. `EventsTold` says that the
last event of a job, in the channel or heard, shows what the statistics show,
unless one was dropped.

### SchedulerProofs, ScheduleDatesProofs: about `Scheduler`, under `SchedulerAssumption`

`InvHolds`: `Spec => []Inv`. It gives `NextRunAlways` (`OneNextRun`), `SpacedAlways`
(`Spaced`), `OneInstanceAlways` (`OneInstance`) and `RemovedAlways`
(`RemovedHasNoEvent`), for any schedules, intervals, requests, kills and size of
the channel.

`Inv` is `Whole`, which holds always - what the task, the jobs, the messages, the
handler and the documents yet to be loaded say of each other -, and `ScheduleInv`
for each schedule that is not `disturbed`. Its core is `AtMostOne`/`AtLeastOne`:
of the four causes of a next run - an event, a start under way, a job that will
report, a message - there is one. Beside it stand the distances (`Distant`,
`EventFits`, `StartFits`), what is special to a schedule of either timing
(`RegularFits`, `OtherFits`), and that a job which may run uncancelled is the one
in `_running_jobs` (`InstanceFits`). `EventsInUse` and `UsedFits` are for what
was removed: each event belongs to a schedule in `_schedules`, and these are
enabled in the table, the one a request is at, or revived. That a push or a pop
changes the list but not which events there are is proved of `HeapPush`, place by
place of its `rise`.

`DatesCorrect` is `DueOnTheDay` for all years and all numbers of units under
`ScheduleDatesAssumption`: the number of a month, counted from 0, is twelve
times its year plus a rest (`TwelveMonths`), the clipped day exists because
months have 28 to 31 days, and twelve months change the quotient alone
(`WholeYears`). `DatesAlways` is the same where the scheduler depends on it.

### RobotsTxtProofs: about `RobotsTxt`, under `RobotsAssumption`

`NeverFetchedNeedlessly` (`NoNeedlessFetch`), `CacheIsAlwaysSaved`
(`CacheIsSaved`), `AnswersGoUp` (`Spec => NeverGoesBack`), for any tasks, sites,
cache sizes, ages and kills.

`Inv` has the types and bounds; `CachedOnce`; `CallsFit` and `CacheFits`: a file that
is cached or about to be cached has a document. `OneFetch`: a task that fetches a
file that was not raced for is the only one, holds its event, and the file is not
cached meanwhile. `Upwards` and `CallsUpwards`: the version last used is not newer
than that in the cache, this not newer than the document, and the call that
fetches is at one of five places between them. It also says that the document was not
newer than the time which the task took before its query; so a file that is
downloaded again is older than `max_age`, because the part of an age that is left
without its days is no more than the age. The tasks are finitely many, which makes
the number of permits a number.

`PolicyCorrect` is `DecidesAsRuled`, which the run claims as `PolicyDecides`. It
is about the rules of a policy, for any number of rules, subjects, amounts and
proxies under `PolicyAssumption`, which says that what stands for a missing or an
invalid value is none of the others. The place where the reading from the end
stops for good (`ReadingStops`) is the first rule that applies, by validity; and
when every rule makes the cost grow, each link costs at least one more than the
page that has it.

### SubscriptionsProofs: about `Subscriptions`, with `ItemSync`, `EventStreams`, `Connection`

* `TypesHold`: `Spec => []Types`; `EndsAlways` (`EndsWhenFinished`);
* `OrderAlways` (`InOrder`), `MissedAlways` (`MissedAreSuccessors`);
* `ViewsAlways` (`ViewsAgree`),

for any items, rows, names, jobs, channel sizes and changes, and any number of
reconnections.

The sync. Items are received, in flight, on a page or in the table; `OrderInv` says
that they are in order along that way, and `CoverInv` that each item of the table
is sent, follows one that was sent (the defect of `sync_skips`), or lies ahead: on
the page or behind its last item. What an empty page proved (`horizon`) is kept by
the order of the messages up to the last, so that it still holds when the client
reads COMPLETE.

The streams. `ListInv` and `StatusInv` are about queues of which only the newest word
on a row, or on a job, counts; a handful of lemmas on `Newest` say what appending,
sending on and receiving do to it, and so no fold over the queues is needed.
`MeterInv` says that measurements increase along the client, the network, the
backlog and the channel, and that what lies between two of them was lost.

The delay. `BacksOffAlways` (`BacksOff`) and `PollsBackOffAlways`
(`PollsBackOff`) have the hypothesis `Doubles`: doubling leads from the minimum to
the maximum, in at most `MaxPolls` steps, and neither is broken by the division by
whole seconds. The code uses two pairs, 1/4 and 64 seconds (the run's values) and
1 and 16 seconds, and both are of this kind. By `DelaysStep`, each
poll moves the delay to a neighbour on that ladder, leaves it, or makes it zero; so
there is no other delay, whatever the outcomes of the polls (`DelaysAre`), and polls
in vain climb to its top (`VainIs`).

### What stays with TLC

Liveness, which is out of the prover's reach: `EventuallyServed`, `EventuallyEnds`,
`RequestsReturn`, `DueIsStarted`, `RequestsEnd`, `SyncEnds`, `ViewsCatchUp`. Every
invariant and every safety property of the passing runs is a theorem.

TLAPS has no induction rule that it can instantiate with an operator. Where a proof
needs an induction (`Without`, `rise`, the ascending page, the rules of a policy,
the delays), it takes the least counterexample (`LeastNatural` in `DequeLemmas`),
and that a function defined step by step exists at all is shown in the same way
(`IterationExists`).

## 7. What does not hold

Four disagreements between the code and its own words are runs that TLC must
find violated; `findings` quotes the lines:

* `limiter_survives` - `remove_job` closes the channel in which the writer is
  blocked: the exception ends the limiter, and with it the server.
* `cancel_continues` - a job that is cancelled while it runs is not stopped.
* `scheduler_heap` - `pop(0)` destroys the heap of due events, and the scheduler
  sleeps for a later event while an earlier one is overdue.
* `sync_skips` - a sync goes on after the number of its last item plus one, and
  the query leaves that number out as well: the item in between is never sent.

More cases were met. The models contain them, and the properties exclude them by
name, where a reader can remove the exclusion to see the counterexample:

* RateLimiter. `ItemCountExact`: `remove_job` drops requests and keeps their
  places. `RemovedJobIsGone`: a request that the reader holds is queued after its
  job was removed. `EveryQueueIsServed`: a cancelled download takes the turn of
  its domain with it, for all jobs. These three are stated in the module; put
  one into a configuration.
* CrawlPipeline. `ExhaustedMeansEmpty`: a job declares its frontier exhausted
  although a link was inserted between the two queries that judge it.
  `PermitsAreReturned`: a cancelled download never returns its permit, because
  the `release` stands after an `await` in the `finally` block. Both are stated
  in the module. A seed that is given twice, or in two forms of one URL, has two
  rows and two documents (`DownloadedOnce` excepts seeds). A response of a
  disallowed MIME type never reaches the extractor, so its row stays in flight
  and the job never ends (`Disallowed` in `pipeline`). With as many permits
  waiting for the storage as there are, the extractor waits for a permit to fetch
  robots.txt, and nothing moves (`UseRobots` in `pipeline`). A pause leaves rows
  in flight, and the resumed job polls for ever; it also saves `old_urls` with
  links that were not inserted (`NeverPaused`). A kill forgets `old_urls`
  (`~killed`). Two exceptions in one round of the scheduler make a `MultiError`
  that `_run_job` does not catch (`phase = "dead"`). Downloads under way pass the
  item limit (`LimitIsNoticed` bounds by how much).
* CrawlManager. A job whose policy or seeds make `_make_job` raise has its row in
  the table already: it stays pending, without a run, statistics or an event,
  until the next start of the server (`JobStartRaises`; `PlacesAgree` excepts
  it). A pause whose job ends by itself never returns (`Hangs`). A resume of a
  job that still runs, or a second resume, makes two runs and then a `KeyError`
  (`disorder`). A job killed while pending stays pending.
* Scheduler (`Disturb`, `mistaken`). A pause or resume of a regular schedule's
  job adds a due event each, so that the schedule is doubled. The event of a
  cancelled job has no `schedule_id`, so a schedule that waits for it stops. A
  schedule that is edited when it has jobs raises `TypeError`, since
  `list_schedule_jobs` returns a pair, and stops until the next start of the
  server. A dropped event stops or doubles a schedule. The end of a job that was
  "cancelled" removes its successor from `_running_jobs`. A schedule whose policy
  was deleted ends the server when it is due (`CreateJobRaises`), as does one
  whose job cannot be made and leaves a pending row (`JobCreatedRaises`), and so
  does a schedule that a client sets while the server still loads it
  (`LoadRaises`). One that a client disables or deletes while the server holds
  its document is loaded all the same, and runs until it is changed again or the
  server is started (`revived`).

* ItemSync. `save_response` inserts a row before its body; a sync that reads it
  in between gets no join, raises `TypeError` (`SendItemRaises`) and closes the
  whole connection. If the storage is stopped in between (`AbandonBody`) the body
  never comes, and every sync with this token dies at that item (`rows # bodies`
  in `SyncEnds`). A sync of a deleted job raises, too (`ReadJobRaises`). A sync
  that the client cancels still sends COMPLETE.
* Connection. Two tasks of one connection that raise in the same round make a
  `MultiError`, which passes the clauses of `Connection.run` and ends the server
  (`GivenUp`).
* EventStreams. An error of the database ends a list subscription silently
  (`FeedFails`). Nobody closes the channels of subscriptions that have ended,
  which stay full in the lists of the monitor and of the crawl manager.
* Backoff. `//` makes delays of half a second and of one second zero, and zero
  doubled stays zero: a sync may poll without any delay for ever (`BacksOff`
  excepts it; the docstring says "not if would be less than 1").
* RobotsTxt. An interrupted fetch leaves its event, and who asks for that file
  later waits for ever (`broken`). The file that is cached is made from the
  document as it was before the download, so that it is one fetch behind
  (`Robots`). `seconds` of a timedelta leaves days out, so that with the default
  of a day no file ever expires, although the docstrings of the manager and of
  `_get_robots` say that an older one is downloaded again (robots.py:27, 120).
  `NoNeedlessFetch` claims only the half that is kept: what is downloaded again is
  older. A fetch waits without a time limit for a permit that pages hold
  (`RequestsEnd`). A task that wakes after its file was dropped
  fetches it again, and overwrites the event of another (`raced`).
* Policy. `starbelly.proto` gives `PolicyRobotsTxt` only `usage`, and
  `convert_pb_to_doc` asks it for `read_sitemaps` with `HasField`, which raises:
  with the generated code in the repository no policy can be saved (policy.py:554), and
  conversions are not modelled. The downloader passes a URL object to
  `get_proxy_url`, whose patterns can only be searched in strings (policy.py:513), so
  that a proxy rule with a pattern makes each download raise. Saving merges nested documents
  (`db.py:750`), so optional fields that a client leaves out keep old values.
* ScheduleDates. A schedule of years from 29 February raises in most years, and
  one of months drifts after a short month (31 January, 28 February, 28 March).

## 8. What is not modelled

* The task monitor, a subscription that sends a tree of Trio's tasks at
  intervals and keeps nothing.
* Of the policy: the conversions from and to protocol buffers, of which the first
  cannot work (section 7), the normalization of URLs, user agents (a choice at
  random) and the authentication flag. How a robots.txt file is parsed and
  matched is the library's.
* The fields of an item, and which of them a subscription leaves out.
* Login and captcha: a chain of downloads whose form is chosen by probability,
  and a poll of an external service. What they may do to a job - a URL in
  addition, an exception - the pipeline has.
* Sitemaps, protocol buffers, configuration, logging: parsing by libraries and
  generated code.
* Of the API server: read-only requests, and the handlers that only change a row
  which is shown in a list (`ChangeRow` in `EventStreams` stands for them).
  Dispatch is in `Connection` as far as it starts, ends or fails a subscription.
* The cost of a frontier row, so the order of a poll: any rows may be chosen,
  which includes those of least cost.
* The contents of pages and responses, names and tags.
* The deletion of jobs that a schedule started, changes of a schedule's interval
  and two clients that set schedules at once are not in `Scheduler`; the database
  is taken to apply one query after the other and not to fail.

## 9. Plan

Done: all modules, and theorems for every invariant and safety property that a run
checks. Left, in this order:

1. A composition of `CrawlManager` and `Scheduler`, whose jobs would then make the
   manager's steps, as far as TLC can hold it.
2. That the limiter which `CrawlPipeline` sees, a bag, is what `PoliteCrawl`
   promises one job, as a refinement.
3. Shorter proofs where several actions have the same effect on an invariant
   (`SchedulerProofs`, `SubscriptionsProofs`).
4. The task monitor, and `delete_job` for jobs of a schedule in `Scheduler`.
