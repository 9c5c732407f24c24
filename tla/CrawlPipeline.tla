---------------------------- MODULE CrawlPipeline ---------------------------
(***************************************************************************)
(* One crawl job of starbelly from its first seed to its end: the frontier *)
(* table of the database, the frontier task that polls it, the downloader, *)
(* the storage and the extractor (src/starbelly/frontier.py,               *)
(* downloader.py, storage.py, extractor.py), run in one Trio nursery by    *)
(* CrawlJob and CrawlManager._run_job (job.py).  The channels between them *)
(* have no buffer, so that a send and its receive are one action; each     *)
(* database query is an action, because the other tasks run while it is    *)
(* awaited.                                                                *)
(*                                                                         *)
(* A job may be paused and resumed, and the server killed and started      *)
(* again: then the tables remain and what the tasks hold is lost.  The     *)
(* rate limiter is seen from the job only (module RateLimiter has the      *)
(* rest): it delivers the requests it is given, in any order.              *)
(***************************************************************************)
EXTENDS Integers, Sequences, FiniteSets, Functions, FiniteSetsExt

CONSTANTS
  Urls,        \* the normalized URLs of the site
  Seeds,       \* job_doc["seeds"], a list, each in its normalized form
  Links,       \* the links of each page that the policy and robots.txt allow
  Broken,      \* URLs that are answered by an error, or not at all
  Disallowed,  \* URLs of a MIME type that the policy does not download
  BadLinks,    \* links that make the extractor raise an exception
  UseRobots,   \* policy.robots_txt.usage # "IGNORE"
  Timed,       \* policy.limits.max_duration is set
  ItemLimits,  \* what policy.limits.max_items may be: numbers, or None
  BatchSize,   \* the frontier rows of one poll (10)
  InsertSize,  \* the frontier rows of one insert (100)
  Permits,     \* the download capacity, which all jobs share (20)
  MaxRuns,     \* bound: how often the job is run, i.e. one more than resumed
  None

ASSUME CrawlPipelineAssumption ==
  /\ Seeds \in Seq(Urls)
  /\ Links \in [Urls -> SUBSET Urls]
  /\ Broken \subseteq Urls /\ Disallowed \subseteq Urls /\ BadLinks \subseteq Urls
  /\ UseRobots \in BOOLEAN /\ Timed \in BOOLEAN
  /\ ItemLimits \subseteq Nat \cup {None}
  /\ BatchSize \in Nat \ {0} /\ InsertSize \in Nat \ {0}
  /\ Permits \in Nat \ {0} /\ MaxRuns \in Nat \ {0}
  /\ None \notin (Urls \X (1..MaxRuns) \X (0..Len(Seeds))) \cup Nat
  /\ \A urls \in SUBSET Urls : urls # None

VARIABLES
  maxItems,    \* policy.limits.max_items of this job
  ready,       \* table frontier: the rows with in_flight = False
  inFlight,    \* table frontier: the rows with in_flight = True
  responses,   \* table response: how many documents each row has led to
  itemCount,   \* table job: item_count
  savedOld,    \* table job: old_urls, or None
  runState,    \* table job: run_state
  phase,       \* the tasks of the job: "running", "unwinding" once they are
               \* cancelled, "down"; "dead" if they took the server with them
  run,         \* how often the job has been run
  raised,      \* the exceptions that tasks of this run have ended with
  stopping,    \* pause_job waits for the end of this run
  old,         \* the extractor's _old_urls
  items,       \* stats["item_count"]
  free,        \* _download_semaphore.value
  robotsKnown, \* a copy of robots.txt is in the database
  frontier,    \* the frontier task: "query", "mark", "check" or "sending"
  batch,       \* the rows it has read and not sent yet
  limiter,     \* the rows whose requests are with the rate limiter
  held,        \* the row that the downloader has no permit for yet
  tasks,       \* the _download tasks, by row: "fetching", "responding",
               \* "resetting" or "finishing"
  storage,     \* the storage task: "idle", "saving", "counting" or "sending"
  stored,      \* the row whose response it handles
  extractor,   \* the extractor task: "idle", "linking", "fetchingRobots",
               \* "inserting" or "deleting"
  extracted,   \* the row whose response it handles
  todo,        \* the links it has not looked at yet
  found,       \* insert_items
  killed       \* history: the server was killed since the job began

jobVars      == <<responses, itemCount, savedOld, runState>>
controlVars  == <<phase, run, raised, stopping>>
frontierVars == <<frontier, batch>>
storageVars  == <<storage, stored>>
extractorVars == <<extractor, extracted, todo, found>>
historyVars  == <<maxItems, killed>>
vars == <<historyVars, ready, inFlight, jobVars, controlVars, old, items, free, robotsKnown,
          frontierVars, limiter, held, tasks, storageVars, extractorVars>>

(* A row of the frontier table: its URL, the run that inserted it, and the *)
(* place in the list of seeds that it comes from, or 0 if it is a link.    *)
(* No link is inserted twice in the same run, but a seed may be given      *)
(* twice, as it is or in another form of the same URL.                     *)
SeedRows == {<<Seeds[k], 1, k>> : k \in DOMAIN Seeds}
Rows == SeedRows \cup (Urls \X (1..MaxRuns) \X {0})
UrlOf(row) == row[1]
IsSeed(row) == row[3] # 0
Row(u) == <<u, run, 0>>

Least(m, n) == IF m < n THEN m ELSE n
Most(m, n)  == IF m < n THEN n ELSE m

-----------------------------------------------------------------------------
(* Operators *)

(* policy.limits.met_item_limit                                            *)
MetItemLimit(n) == maxItems # None /\ n >= maxItems

(* An exception leaves a task: the nursery cancels the other tasks.        *)
Raise(exception) ==
  /\ raised' = Append(raised, exception)
  /\ phase'  = "unwinding"
  /\ UNCHANGED <<run, stopping>>

(* The next thing the extractor does, its links and its finds given.       *)
Extracting(links, finds) ==
  IF links # {} THEN "linking"
  ELSE IF finds # {} THEN "inserting"
  ELSE "deleting"

(* All that the tasks of a run hold is gone.                               *)
DropTasks ==
  /\ frontier' = "query" /\ batch' = {}
  /\ limiter'  = {}
  /\ held'     = None
  /\ tasks'    = <<>>
  /\ storage'  = "idle" /\ stored' = None
  /\ extractor' = "idle" /\ extracted' = None /\ todo' = {} /\ found' = {}
  /\ old'      = {}
  /\ items'    = 0

-----------------------------------------------------------------------------
(* CrawlFrontier._get_batch and run *)

(* Up to BatchSize rows that are not in flight, those of least cost; the   *)
(* cost is not modelled, so it may be any of them.                         *)
FrontierQuery ==
  /\ phase = "running"
  /\ frontier = "query"
  /\ \E docs \in kSubset(Least(BatchSize, Cardinality(ready)), ready) :
       /\ batch'    = docs
       /\ frontier' = IF docs = {} THEN "check" ELSE "mark"
  /\ UNCHANGED <<historyVars, ready, inFlight, jobVars, controlVars, old, items, free,
                 robotsKnown, limiter, held, tasks, storageVars, extractorVars>>

(* Mutant of FrontierMark: the rows are not marked.                        *)
FrontierForgetsMark ==
  /\ phase = "running"
  /\ frontier = "mark"
  /\ frontier' = "sending"
  /\ UNCHANGED <<historyVars, ready, inFlight, jobVars, controlVars, old, items, free,
                 robotsKnown, batch, limiter, held, tasks, storageVars,
                 extractorVars>>

(* The second query of get_frontier_batch: in_flight becomes True.         *)
FrontierMark ==
  /\ phase = "running"
  /\ frontier = "mark"
  /\ ready'    = ready \ batch
  /\ inFlight' = inFlight \cup batch
  /\ frontier' = "sending"
  /\ UNCHANGED <<historyVars, jobVars, controlVars, old, items, free, robotsKnown, batch,
                 limiter, held, tasks, storageVars, extractorVars>>

(* No row was ready, but the crawl goes on: the frontier polls again.      *)
FrontierPollsAgain ==
  /\ phase = "running"
  /\ frontier = "check"
  /\ inFlight # {}
  /\ frontier' = "query"
  /\ UNCHANGED <<historyVars, ready, inFlight, jobVars, controlVars, old, items, free,
                 robotsKnown, batch, limiter, held, tasks, storageVars,
                 extractorVars>>

(* Mutant of FrontierExhausted: any_in_flight is not asked.                *)
FrontierGivesUp ==
  /\ phase \in {"running", "unwinding"}
  /\ "exhausted" \notin Range(raised)
  /\ frontier = "check"
  /\ Raise("exhausted")
  /\ UNCHANGED <<historyVars, ready, inFlight, jobVars, old, items, free, robotsKnown,
                 frontierVars, limiter, held, tasks, storageVars, extractorVars>>

(* FrontierExhaustionError; also when the answer of the query comes in the *)
(* same round as the end or the pause that cancels the tasks.              *)
FrontierExhausted ==
  /\ phase \in {"running", "unwinding"}
  /\ "exhausted" \notin Range(raised)
  /\ frontier = "check"
  /\ inFlight = {}
  /\ Raise("exhausted")
  /\ UNCHANGED <<historyVars, ready, inFlight, jobVars, old, items, free, robotsKnown,
                 frontierVars, limiter, held, tasks, storageVars, extractorVars>>

FrontierSend(r) ==
  /\ phase = "running"
  /\ frontier = "sending"
  /\ r \in batch
  /\ batch'    = batch \ {r}
  /\ limiter'  = limiter \cup {r}
  /\ frontier' = IF batch' = {} THEN "query" ELSE "sending"
  /\ UNCHANGED <<historyVars, ready, inFlight, jobVars, controlVars, old, items, free,
                 robotsKnown, held, tasks, storageVars, extractorVars>>

-----------------------------------------------------------------------------
(* Downloader.run and _download *)

DownloaderReceive(r) ==
  /\ phase = "running"
  /\ held = None
  /\ r \in limiter
  /\ limiter' = limiter \ {r}
  /\ held'    = r
  /\ UNCHANGED <<historyVars, ready, inFlight, jobVars, controlVars, old, items, free,
                 robotsKnown, frontierVars, tasks, storageVars, extractorVars>>

(* semaphore.acquire() has returned: the nursery starts _download.         *)
StartDownload ==
  /\ phase = "running"
  /\ held # None
  /\ free > 0
  /\ free'  = free - 1
  /\ tasks' = [r \in DOMAIN tasks \cup {held} |->
                 IF r = held THEN "fetching" ELSE tasks[r]]
  /\ held'  = None
  /\ UNCHANGED <<historyVars, ready, inFlight, jobVars, controlVars, old, items, robotsKnown,
                 frontierVars, limiter, storageVars, extractorVars>>

(* The response is complete, or its exception recorded: it counts.         *)
FetchPage(r) ==
  /\ phase = "running"
  /\ r \in DOMAIN tasks
  /\ tasks[r] = "fetching"
  /\ UrlOf(r) \notin Disallowed
  /\ tasks' = [tasks EXCEPT ![r] = "responding"]
  /\ items' = items + 1
  /\ UNCHANGED <<historyVars, ready, inFlight, jobVars, controlVars, old, free, robotsKnown,
                 frontierVars, limiter, held, storageVars, extractorVars>>

(* MimeNotAllowedError: no response goes to the storage.                   *)
RejectMime(r) ==
  /\ phase = "running"
  /\ r \in DOMAIN tasks
  /\ tasks[r] = "fetching"
  /\ UrlOf(r) \in Disallowed
  /\ tasks' = [tasks EXCEPT ![r] = "resetting"]
  /\ UNCHANGED <<historyVars, ready, inFlight, jobVars, controlVars, old, items, free,
                 robotsKnown, frontierVars, limiter, held, storageVars,
                 extractorVars>>

(* The rate limiter receives the reset: the task is scheduled, and nothing *)
(* it still does can be cancelled.                                         *)
SendReset(r) ==
  /\ phase = "running"
  /\ r \in DOMAIN tasks
  /\ tasks[r] = "resetting"
  /\ tasks' = [tasks EXCEPT ![r] = "finishing"]
  /\ UNCHANGED <<historyVars, ready, inFlight, jobVars, controlVars, old, items, free,
                 robotsKnown, frontierVars, limiter, held, storageVars,
                 extractorVars>>

(* Mutant of FinishDownload: the permit is not released.                   *)
FinishKeepsPermit(r) ==
  /\ phase \in {"running", "unwinding"}
  /\ r \in DOMAIN tasks
  /\ tasks[r] = "finishing"
  /\ tasks' = Restrict(tasks, DOMAIN tasks \ {r})
  /\ IF MetItemLimit(items) THEN Raise("itemLimit") ELSE UNCHANGED controlVars
  /\ UNCHANGED <<historyVars, ready, inFlight, jobVars, old, items, free, robotsKnown,
                 frontierVars, limiter, held, storageVars, extractorVars>>

(* Mutant of FinishDownload: the limit is met one item late.               *)
FinishDownloadLate(r) ==
  /\ phase \in {"running", "unwinding"}
  /\ r \in DOMAIN tasks
  /\ tasks[r] = "finishing"
  /\ tasks' = Restrict(tasks, DOMAIN tasks \ {r})
  /\ free'  = free + 1
  /\ IF MetItemLimit(items - 1) THEN Raise("itemLimit") ELSE UNCHANGED controlVars
  /\ UNCHANGED <<historyVars, ready, inFlight, jobVars, old, items, robotsKnown, frontierVars,
                 limiter, held, storageVars, extractorVars>>

(* The end of the finally block: the permit, the count, the limit.         *)
FinishDownload(r) ==
  /\ phase \in {"running", "unwinding"}
  /\ r \in DOMAIN tasks
  /\ tasks[r] = "finishing"
  /\ tasks' = Restrict(tasks, DOMAIN tasks \ {r})
  /\ free'  = free + 1
  /\ IF MetItemLimit(items) THEN Raise("itemLimit") ELSE UNCHANGED controlVars
  /\ UNCHANGED <<historyVars, ready, inFlight, jobVars, old, items, robotsKnown, frontierVars,
                 limiter, held, storageVars, extractorVars>>

-----------------------------------------------------------------------------
(* CrawlStorage.run and _save_response *)

StorageReceive(r) ==
  /\ phase = "running"
  /\ r \in DOMAIN tasks
  /\ tasks[r] = "responding"
  /\ storage = "idle"
  /\ tasks'   = [tasks EXCEPT ![r] = "resetting"]
  /\ storage' = "saving"
  /\ stored'  = r
  /\ UNCHANGED <<historyVars, ready, inFlight, jobVars, controlVars, old, items, free,
                 robotsKnown, frontierVars, limiter, held, extractorVars>>

StorageSave ==
  /\ phase = "running"
  /\ storage = "saving"
  /\ responses' = [responses EXCEPT ![stored] = @ + 1]
  /\ storage'   = "counting"
  /\ UNCHANGED <<historyVars, ready, inFlight, itemCount, savedOld, runState, controlVars, old,
                 items, free, robotsKnown, frontierVars, limiter, held, tasks,
                 stored, extractorVars>>

(* Mutant of StorageCount: an error is saved, but not counted.             *)
StorageCountSuccess ==
  /\ phase = "running"
  /\ storage = "counting"
  /\ itemCount' = IF UrlOf(stored) \in Broken THEN itemCount ELSE itemCount + 1
  /\ storage'   = "sending"
  /\ UNCHANGED <<historyVars, ready, inFlight, responses, savedOld, runState, controlVars, old,
                 items, free, robotsKnown, frontierVars, limiter, held, tasks,
                 stored, extractorVars>>

(* update_job_stats *)
StorageCount ==
  /\ phase = "running"
  /\ storage = "counting"
  /\ itemCount' = itemCount + 1
  /\ storage'   = "sending"
  /\ UNCHANGED <<historyVars, ready, inFlight, responses, savedOld, runState, controlVars, old,
                 items, free, robotsKnown, frontierVars, limiter, held, tasks,
                 stored, extractorVars>>

-----------------------------------------------------------------------------
(* CrawlExtractor.run and _extract, RobotsTxtManager.is_allowed *)

(* Mutant of ExtractorReceive: the row is deleted before its links are     *)
(* inserted.                                                               *)
ExtractorDeletesFirst ==
  /\ phase = "running"
  /\ storage = "sending"
  /\ extractor = "idle"
  /\ storage'   = "idle"
  /\ stored'    = None
  /\ extracted' = stored
  /\ todo'      = IF UrlOf(stored) \in Broken THEN {} ELSE Links[UrlOf(stored)]
  /\ found'     = {}
  /\ extractor' = Extracting(todo', {})
  /\ inFlight'  = inFlight \ {stored}
  /\ UNCHANGED <<historyVars, ready, jobVars, controlVars, old, items, free,
                 robotsKnown, frontierVars, limiter, held, tasks>>

(* The storage sends the response; the links of a page are extracted only  *)
(* if it was a success.                                                    *)
ExtractorReceive ==
  /\ phase = "running"
  /\ storage = "sending"
  /\ extractor = "idle"
  /\ storage'   = "idle"
  /\ stored'    = None
  /\ extracted' = stored
  /\ todo'      = IF UrlOf(stored) \in Broken THEN {} ELSE Links[UrlOf(stored)]
  /\ found'     = {}
  /\ extractor' = Extracting(todo', {})
  /\ UNCHANGED <<historyVars, ready, inFlight, jobVars, controlVars, old, items, free,
                 robotsKnown, frontierVars, limiter, held, tasks>>

(* Downloader.download: robots.txt has to be fetched first, with a permit  *)
(* of the same semaphore.                                                  *)
RobotsStart ==
  /\ phase = "running"
  /\ extractor = "linking"
  /\ UseRobots /\ ~robotsKnown
  /\ free > 0
  /\ free'      = free - 1
  /\ extractor' = "fetchingRobots"
  /\ UNCHANGED <<historyVars, ready, inFlight, jobVars, controlVars, old, items, robotsKnown,
                 frontierVars, limiter, held, tasks, storageVars, extracted,
                 todo, found>>

(* The fetched robots.txt, or its absence, is saved to the database.       *)
RobotsDone ==
  /\ phase = "running"
  /\ extractor = "fetchingRobots"
  /\ free'        = free + 1
  /\ robotsKnown' = TRUE
  /\ extractor'   = "linking"
  /\ UNCHANGED <<historyVars, ready, inFlight, jobVars, controlVars, old, items,
                 frontierVars, limiter, held, tasks, storageVars, extracted,
                 todo, found>>

(* One link of the page: what old_urls has is not added again.             *)
ExtractLink(u) ==
  /\ phase = "running"
  /\ extractor = "linking"
  /\ UseRobots => robotsKnown
  /\ u \in todo \ BadLinks
  /\ todo'      = todo \ {u}
  /\ found'     = IF u \in old THEN found ELSE found \cup {u}
  /\ old'       = old \cup {u}
  /\ extractor' = Extracting(todo', found')
  /\ UNCHANGED <<historyVars, ready, inFlight, jobVars, controlVars, items, free, robotsKnown,
                 frontierVars, limiter, held, tasks, storageVars, extracted>>

(* An exception leaves _extract: it is logged, and the insert_items gone.  *)
ExtractRaises(u) ==
  /\ phase = "running"
  /\ extractor = "linking"
  /\ UseRobots => robotsKnown
  /\ u \in todo \cap BadLinks
  /\ todo'      = {}
  /\ found'     = {}
  /\ extractor' = "deleting"
  /\ UNCHANGED <<historyVars, ready, inFlight, jobVars, controlVars, old, items, free,
                 robotsKnown, frontierVars, limiter, held, tasks, storageVars,
                 extracted>>

(* Mutant of ExtractInsert: the rest of a long list is not inserted.       *)
ExtractInsertOnce ==
  /\ phase = "running"
  /\ extractor = "inserting"
  /\ \E some \in kSubset(Least(InsertSize, Cardinality(found)), found) :
       ready' = ready \cup {Row(u) : u \in some}
  /\ found'     = {}
  /\ extractor' = "deleting"
  /\ UNCHANGED <<historyVars, inFlight, jobVars, controlVars, old, items, free, robotsKnown,
                 frontierVars, limiter, held, tasks, storageVars, extracted,
                 todo>>

(* One insert of up to InsertSize rows.                                    *)
ExtractInsert ==
  /\ phase = "running"
  /\ extractor = "inserting"
  /\ \E some \in kSubset(Least(InsertSize, Cardinality(found)), found) :
       /\ ready' = ready \cup {Row(u) : u \in some}
       /\ found' = found \ some
  /\ extractor' = Extracting({}, found')
  /\ UNCHANGED <<historyVars, inFlight, jobVars, controlVars, old, items, free, robotsKnown,
                 frontierVars, limiter, held, tasks, storageVars, extracted,
                 todo>>

(* Mutant of ExtractDelete: only the row of a success is deleted.          *)
ExtractDeleteSuccess ==
  /\ phase = "running"
  /\ extractor = "deleting"
  /\ inFlight'  = IF UrlOf(extracted) \in Broken THEN inFlight
                  ELSE inFlight \ {extracted}
  /\ extractor' = "idle"
  /\ extracted' = None
  /\ UNCHANGED <<historyVars, ready, jobVars, controlVars, old, items, free, robotsKnown,
                 frontierVars, limiter, held, tasks, storageVars, todo, found>>

(* delete_frontier_item, whatever happened; then the response goes to the  *)
(* pipeline terminator, which is always ready to receive it.               *)
ExtractDelete ==
  /\ phase = "running"
  /\ extractor = "deleting"
  /\ inFlight'  = inFlight \ {extracted}
  /\ extractor' = "idle"
  /\ extracted' = None
  /\ UNCHANGED <<historyVars, ready, jobVars, controlVars, old, items, free, robotsKnown,
                 frontierVars, limiter, held, tasks, storageVars, todo, found>>

-----------------------------------------------------------------------------
(* CrawlJob.run and stop, CrawlManager._run_job, pause_job and resume_job *)

(* CrawlDurationExceeded; also in the round of another end.                *)
DurationElapses ==
  /\ phase \in {"running", "unwinding"}
  /\ Timed
  /\ "duration" \notin Range(raised)
  /\ Raise("duration")
  /\ UNCHANGED <<historyVars, ready, inFlight, jobVars, old, items, free, robotsKnown,
                 frontierVars, limiter, held, tasks, storageVars, extractorVars>>

(* No task has anything left to do before it sees that it is cancelled.    *)
Unwound == phase = "unwinding" /\ \A r \in DOMAIN tasks : tasks[r] # "finishing"

(* Downloader.download releases its permit when it is cancelled ("async    *)
(* with"); _download does not, because the send before the release raises. *)
PermitsAfterCancel == IF extractor = "fetchingRobots" THEN free + 1 ELSE free

(* Exactly one exception ended the run: the job is complete, and its rows  *)
(* are cleared.                                                            *)
CompleteJob ==
  /\ Unwound
  /\ Len(raised) = 1
  /\ phase'    = "down"
  /\ runState' = "completed"
  /\ ready'    = {}
  /\ inFlight' = {}
  /\ free'     = PermitsAfterCancel
  /\ DropTasks
  /\ UNCHANGED <<historyVars, responses, itemCount, savedOld, run, raised, stopping,
                 robotsKnown>>

(* Several exceptions are a MultiError, which _run_job does not catch: it  *)
(* goes on to the nurseries of the manager and of the server.              *)
EscapeJob ==
  /\ Unwound
  /\ Len(raised) > 1
  /\ phase' = "dead"
  /\ free'  = PermitsAfterCancel
  /\ DropTasks
  /\ UNCHANGED <<historyVars, ready, inFlight, jobVars, run, raised, stopping, robotsKnown>>

(* pause_job cancels the tasks ...                                         *)
Pause ==
  /\ phase = "running"
  /\ run < MaxRuns
  /\ phase'    = "unwinding"
  /\ stopping' = TRUE
  /\ UNCHANGED <<historyVars, ready, inFlight, jobVars, run, raised, old, items, free,
                 robotsKnown, frontierVars, limiter, held, tasks, storageVars,
                 extractorVars>>

(* Mutant of PauseJob: old_urls is not saved.                              *)
PauseWithoutOld ==
  /\ Unwound
  /\ raised = <<>>
  /\ phase'    = "down"
  /\ runState' = "paused"
  /\ stopping' = FALSE
  /\ free'     = PermitsAfterCancel
  /\ DropTasks
  /\ UNCHANGED <<historyVars, ready, inFlight, responses, itemCount, savedOld, run, raised,
                 robotsKnown>>

(* ... and saves the job when they have ended.                             *)
PauseJob ==
  /\ Unwound
  /\ raised = <<>>
  /\ phase'    = "down"
  /\ runState' = "paused"
  /\ savedOld' = old
  /\ stopping' = FALSE
  /\ free'     = PermitsAfterCancel
  /\ DropTasks
  /\ UNCHANGED <<historyVars, ready, inFlight, responses, itemCount, run, raised, robotsKnown>>

(* resume_job, _make_job and the first lines of _run_job.                  *)
Resume ==
  /\ phase = "down"
  /\ runState = "paused"
  /\ run < MaxRuns
  /\ phase'    = "running"
  /\ runState' = "running"
  /\ run'      = run + 1
  /\ raised'   = <<>>
  /\ old'      = IF savedOld = None THEN Range(Seeds) ELSE savedOld
  /\ items'    = itemCount
  /\ UNCHANGED <<historyVars, ready, inFlight, responses, itemCount, savedOld, stopping, free,
                 robotsKnown, frontierVars, limiter, held, tasks, storageVars,
                 extractorVars>>

(* The server is killed, and started again: startup_check.                 *)
Restart ==
  /\ phase'    = "down"
  /\ runState' = IF runState = "running" THEN "paused" ELSE runState
  /\ ready'    = ready \cup inFlight
  /\ inFlight' = {}
  /\ free'     = Permits
  /\ raised'   = <<>>
  /\ stopping' = FALSE
  /\ killed'   = TRUE
  /\ DropTasks
  /\ UNCHANGED <<maxItems, responses, itemCount, savedOld, run, robotsKnown>>

-----------------------------------------------------------------------------
(* start_job: every seed has a row in the table, the tasks start.          *)
Init ==
  /\ maxItems \in ItemLimits
  /\ killed = FALSE
  /\ ready = SeedRows
  /\ inFlight = {}
  /\ responses = [r \in Rows |-> 0]
  /\ itemCount = 0
  /\ savedOld = None
  /\ runState = "running"
  /\ phase = "running"
  /\ run = 1
  /\ raised = <<>>
  /\ stopping = FALSE
  /\ old = Range(Seeds)
  /\ items = 0
  /\ free = Permits
  /\ robotsKnown = FALSE
  /\ frontier = "query" /\ batch = {}
  /\ limiter = {}
  /\ held = None
  /\ tasks = <<>>
  /\ storage = "idle" /\ stored = None
  /\ extractor = "idle" /\ extracted = None /\ todo = {} /\ found = {}

FrontierNext == \/ FrontierQuery \/ FrontierMark
                \/ FrontierPollsAgain \/ FrontierExhausted
                \/ \E r \in Rows : FrontierSend(r)

DownloaderNext == \/ StartDownload
                  \/ \E r \in Rows :
                       \/ DownloaderReceive(r)
                       \/ FetchPage(r)
                       \/ RejectMime(r)
                       \/ SendReset(r)
                       \/ FinishDownload(r)

StorageNext == \/ \E r \in Rows : StorageReceive(r)
               \/ StorageSave
               \/ StorageCount

ExtractorNext == \/ ExtractorReceive
                 \/ RobotsStart \/ RobotsDone
                 \/ \E u \in Urls : ExtractLink(u) \/ ExtractRaises(u)
                 \/ ExtractInsert
                 \/ ExtractDelete

EndNext == DurationElapses \/ CompleteJob \/ EscapeJob

(* A job that nobody interferes with.                                      *)
CrawlNext == FrontierNext \/ DownloaderNext \/ StorageNext \/ ExtractorNext \/ EndNext

(* A job that is paused and resumed.                                       *)
PauseNext == CrawlNext \/ Pause \/ PauseJob \/ Resume

(* ... and whose server may be killed at any time.                         *)
Next == PauseNext \/ Restart

(* Trio runs every task that can run; the database, the network (with its  *)
(* timeout of 20 seconds) and the rate limiter answer.  Nothing makes a    *)
(* paused job resume, or a running one pause.                              *)
Fairness ==
  /\ WF_vars(FrontierQuery) /\ WF_vars(FrontierMark)
  /\ WF_vars(FrontierPollsAgain) /\ WF_vars(FrontierExhausted)
  /\ WF_vars(StartDownload)
  /\ WF_vars(StorageSave) /\ WF_vars(StorageCount)
  /\ WF_vars(ExtractorReceive) /\ WF_vars(RobotsStart) /\ WF_vars(RobotsDone)
  /\ WF_vars(\E u \in Urls : ExtractLink(u) \/ ExtractRaises(u))
  /\ WF_vars(ExtractInsert) /\ WF_vars(ExtractDelete)
  /\ WF_vars(CompleteJob) /\ WF_vars(EscapeJob) /\ WF_vars(PauseJob)
  /\ WF_vars(\E r \in Rows : FrontierSend(r))
  /\ WF_vars(\E r \in Rows : DownloaderReceive(r))
  /\ \A r \in Rows : /\ WF_vars(FetchPage(r)) /\ WF_vars(RejectMime(r))
                     /\ WF_vars(StorageReceive(r))
                     /\ WF_vars(SendReset(r)) /\ WF_vars(FinishDownload(r))

CrawlSpec == Init /\ [][CrawlNext]_vars
FairCrawlSpec == CrawlSpec /\ Fairness
PauseSpec == Init /\ [][PauseNext]_vars
Spec == Init /\ [][Next]_vars

-----------------------------------------------------------------------------
(* Properties *)

TypeOK ==
  /\ maxItems \in ItemLimits /\ killed \in BOOLEAN
  /\ ready \subseteq Rows /\ inFlight \subseteq Rows
  /\ responses \in [Rows -> Nat] /\ itemCount \in Nat
  /\ savedOld \in (SUBSET Urls) \cup {None}
  /\ runState \in {"running", "paused", "completed"}
  /\ phase \in {"running", "unwinding", "down", "dead"}
  /\ run \in 1..MaxRuns
  /\ raised \in Seq({"exhausted", "itemLimit", "duration"})
  /\ stopping \in BOOLEAN
  /\ old \subseteq Urls /\ items \in Nat
  /\ free \in 0..Permits /\ robotsKnown \in BOOLEAN
  /\ frontier \in {"query", "mark", "check", "sending"} /\ batch \subseteq Rows
  /\ limiter \subseteq Rows
  /\ held \in Rows \cup {None}
  /\ DOMAIN tasks \subseteq Rows
  /\ \A r \in DOMAIN tasks :
       tasks[r] \in {"fetching", "responding", "resetting", "finishing"}
  /\ storage \in {"idle", "saving", "counting", "sending"}
  /\ extractor \in {"idle", "linking", "fetchingRobots", "inserting", "deleting"}
  /\ stored \in Rows \cup {None} /\ extracted \in Rows \cup {None}
  /\ todo \subseteq Urls /\ found \subseteq Urls

(* The rows at each station of the pipeline; a download that has handed    *)
(* its response over is no longer concerned with its row.                  *)
Sent        == IF frontier = "sending" THEN batch ELSE {}
Downloading == {r \in DOMAIN tasks : tasks[r] \in {"fetching", "responding"}}
Stations    == <<Sent, limiter, {held} \ {None}, Downloading,
                 {stored} \ {None}, {extracted} \ {None}>>
Handled     == UNION Range(Stations)

(* No row is at two stations of the pipeline at once: whatever the polls,  *)
(* inserts and deletes interleave to, no response is handled by two tasks  *)
(* and no URL is requested while its response is on the way.               *)
OneStationPerRow ==
  LET s == Stations
  IN  \A i, j \in DOMAIN s : i < j => s[i] \cap s[j] = {}

(* Every row in the pipeline is marked in the table, and not offered to    *)
(* the next poll: get_frontier_batch (db.py) excludes "items that are      *)
(* already being processed by downstream components".                      *)
PipelineIsInFlight ==
  /\ Handled \subseteq inFlight
  /\ Handled \cap ready = {}

(* What makes the last two true at every step: permits are never given     *)
(* twice, a task that does nothing holds no row, ...                       *)
PermitsAreCounted ==
  /\ IsFiniteSet(DOMAIN tasks)
  /\ free + Cardinality(DOMAIN tasks)
          + (IF extractor = "fetchingRobots" THEN 1 ELSE 0) <= Permits

IdleTasksHoldNothing ==
  /\ storage = "idle" <=> stored = None
  /\ extractor = "idle" <=> extracted = None
  /\ phase \in {"down", "dead"} => found = {}

(* ... the rows that a poll has read are still ready when it marks them,   *)
(* though links are inserted in between, ...                               *)
RowsAreApart ==
  /\ ready \cap inFlight = {}
  /\ frontier = "mark" => batch \subseteq ready

(* ... and a link that is about to be inserted has no row in this run: the *)
(* extractor remembers every URL that ever had one.                        *)
LinksAreNew ==
  /\ found \subseteq old
  /\ \A r \in ready \cup inFlight :
       r[2] <= run /\ (phase = "running" /\ r[2] = run => UrlOf(r) \in old \ found)

(* All of these together, with TypeOK and the two above, are inductive.    *)
RowInv == PermitsAreCounted /\ IdleTasksHoldNothing /\ RowsAreApart /\ LinksAreNew

(* The reverse, which any_in_flight (db.py) relies on: "in-flight, i.e.    *)
(* somewhere in the crawling pipeline".                                    *)
InFlightIsInPipeline == phase = "running" => inFlight \subseteq Handled

HasRow(u)      == \E r \in ready \cup inFlight : UrlOf(r) = u
HasDocument(u) == \E r \in Rows : UrlOf(r) = u /\ responses[r] > 0

(* A URL is in the table, about to be inserted, or was downloaded.         *)
Covered(u) == HasRow(u) \/ u \in found \/ HasDocument(u)

(* No pause has saved the old_urls of an extractor that it interrupted.    *)
NeverPaused == savedOld = None

(* A URL that the extractor will not add again is covered: one that is     *)
(* neither in the table nor downloaded is lost to the crawl.               *)
NoUrlForgotten ==
  NeverPaused /\ runState # "completed" => \A u \in old : Covered(u)

(* When the row of a page is gone, all its links are covered: the insert   *)
(* of the links and the delete of the row are two queries, and the server  *)
(* may be killed before, between and after them.                           *)
LinksAreFollowed ==
  NeverPaused /\ runState # "completed" =>
    \A u \in Urls \ Broken :
      HasDocument(u) /\ ~HasRow(u) => \A v \in Links[u] : Covered(v)

(* A row is downloaded at most once in each run, also if the server is     *)
(* killed between its download and its deletion.  As long as the server is *)
(* not killed, a URL is downloaded once, even if the job is paused at any  *)
(* moment and resumed; a seed is downloaded as often as it was given.  (A  *)
(* kill loses old_urls, after which links are inserted again.)             *)
DownloadedOnce ==
  /\ \A r \in Rows : responses[r] > 0 => responses[r] <= run - r[2] + 1
  /\ ~killed =>
       /\ \A r \in Rows : responses[r] <= 1
       /\ \A r, s \in {q \in Rows : responses[q] > 0} :
            UrlOf(r) = UrlOf(s) => r = s \/ (IsSeed(r) /\ IsSeed(s))

(* While a job that was never stopped runs, every permit of the semaphore  *)
(* is free, with a download, or with the fetch of robots.txt.              *)
PermitsAreUsed ==
  phase = "running" /\ run = 1 =>
    free + Cardinality(DOMAIN tasks)
         + (IF extractor = "fetchingRobots" THEN 1 ELSE 0) = Permits

(* When no job runs, nothing is downloaded, and all permits are free.      *)
PermitsAreReturned == phase = "down" => free = Permits

(* The documents of table response.                                        *)
Documents == UNION {{r} \X (1..responses[r]) : r \in Rows}

(* item_count counts the response documents, of successes, errors and      *)
(* exceptions, and the item_count of the statistics, which the limit is    *)
(* compared with, runs ahead of it by those on the way to the database.    *)
ItemsAreCounted ==
  LET saved   == Cardinality(Documents)
      waiting == Cardinality({r \in DOMAIN tasks : tasks[r] = "responding"})
  IN  phase = "running" =>
        /\ itemCount + (IF storage = "counting" THEN 1 ELSE 0) = saved
        /\ items = saved + waiting + (IF storage = "saving" THEN 1 ELSE 0)

(* A job ends as "exhausted" only when its pipeline is empty.              *)
ExhaustedMeansIdle ==
  phase = "unwinding" /\ raised = <<"exhausted">> => Handled = {}

(* A job ends as "exhausted" only if no row is left in its frontier: "no   *)
(* items remaining (in-flight or otherwise)" (frontier.py).                *)
ExhaustedMeansEmpty ==
  phase = "unwinding" /\ raised = <<"exhausted">> =>
    ready = {} /\ inFlight = {}

(* Once the item limit is met, it takes the end of one download to see it: *)
(* the tasks that still run are at most those that had a permit.  A limit  *)
(* of 0 is met, like a limit of 1, when the first item has been counted.   *)
LimitIsNoticed ==
  maxItems # None /\ run = 1 => items < Most(maxItems, 1) + Permits

(* A job that is left alone, and does not have to fetch robots.txt, ends:  *)
(* it is completed, unless two exceptions end it at once.                  *)
EventuallyEnds == <>(runState = "completed" \/ phase = "dead")
=============================================================================
