------------------------------ MODULE RobotsTxt ------------------------------
(***************************************************************************)
(* RobotsTxtManager of src/starbelly/robots.py.  The extractors of all     *)
(* jobs ask it whether they may crawl a URL.  It keeps the files in a      *)
(* cache that drops the least recently used one, and in the database, and  *)
(* downloads them; the first task that misses a file fetches it, and later *)
(* ones wait for an event.                                                 *)
(*                                                                         *)
(* A file is the number of its version, 0 if there is none.  Time passes   *)
(* in units of which Day make a day.  A task may be interrupted: its job   *)
(* is paused, or a query or the download raises.  It asks with the policy  *)
(* of its job (PolicyRules).  The pages that jobs download, of which       *)
(* module CrawlPipeline tells, matter here by the permits they hold.       *)
(***************************************************************************)
EXTENDS Integers, SequencesExt, PolicyRules

CONSTANTS
  Tasks,       \* the extractors of jobs whose policy does not ignore robots.txt
  ObeyDelay,   \* those whose policy has obey_crawl_delay
  Urls,        \* the URLs of robots.txt files
  Delaying,    \* versions that ask for a delay between requests
  Day,         \* units of time in a day
  MaxAges,     \* values that max_age may have; Day is the default
  MaxCache,    \* max_cache
  Permits,     \* downloads at a time, of pages and of robots.txt files
  MaxTime,     \* bound: for each max_age, when the clock stops
  MaxVersion,  \* bound: the last version of each file
  MaxFailures, \* bound: interrupted tasks and kills of the server
  None         \* no document

(* A document as a task has read it, and what a task knows of its call.    *)
Documents == [place : Nat, file : Nat, updated : Nat]
Calls == [url : Urls, stamp : Nat, doc : Documents \cup {None}, file : Nat]

ASSUME RobotsAssumption ==
  /\ IsFiniteSet(Tasks) /\ ObeyDelay \subseteq Tasks
  /\ Day \in Nat \ {0} /\ MaxAges \subseteq Nat /\ MaxCache \in Nat \ {0}
  /\ Permits \in Nat \ {0}
  /\ MaxTime \in [MaxAges -> Nat] /\ MaxVersion \in [Urls -> Nat] /\ MaxFailures \in Nat
  /\ None \notin Documents /\ None \notin Calls

VARIABLES
  now,      \* the clock
  maxAge,   \* _max_age
  site,     \* the version that each site serves
  docs,     \* table robots_txt: the documents of each URL
  cache,    \* _cache, the least recently used first
  fetching, \* the keys of _events
  pc,       \* where each task is
  call,     \* its call of is_allowed: the URL of robots.txt, now when the fetch
            \*   began, robots_doc with its place in the table, and robots_file
  pages,    \* permits of _download_semaphore that downloads of pages hold
  limit,    \* the version whose delay the rate limiter has been told, or 0
  used,     \* history: the version that the last answer for each URL used
  broken,   \* history: URLs whose fetch was interrupted
  raced,    \* history: URLs whose file was gone when a waiting task woke, while
            \*   another task fetched it again
  failures  \* how often tasks were interrupted, or the server killed

worldVars == <<now, maxAge, site>>
historyVars == <<used, broken, raced, failures>>
vars == <<worldVars, docs, cache, fetching, pc, call, pages, limit, historyVars>>

Busy == {"database", "permit", "network", "saving", "caching"}

Init ==
  /\ now = 0 /\ maxAge \in MaxAges /\ site = [u \in Urls |-> 0]
  /\ docs = [u \in Urls |-> <<>>] /\ cache = <<>> /\ fetching = {}
  /\ pc = [t \in Tasks |-> "idle"]
  /\ call = [t \in Tasks |-> None]
  /\ pages = 0
  /\ limit = [u \in Urls |-> 0]
  /\ used = [u \in Urls |-> 0]
  /\ broken = {} /\ raced = {} /\ failures = 0

-----------------------------------------------------------------------------
(* Operators *)

(* The attribute seconds of a timedelta leaves whole days out.             *)
Seconds(age) == age % Day

(* RobotsTxt.is_older_than                                                 *)
IsOlderThan(robots, age) == Seconds(now - robots.updated) >= age

Cached(u) == {i \in DOMAIN cache : cache[i].url = u}
CacheWithout(u) ==
  IF Cached(u) = {} THEN cache ELSE RemoveAt(cache, CHOOSE i \in Cached(u) : TRUE)

(* The cache with one more, without the first if it grows too long.        *)
PutLast(robots) ==
  LET longer == Append(CacheWithout(robots.url), robots)
  IN IF Len(longer) > MaxCache THEN Tail(longer) ELSE longer

Idle(t) == pc[t] = "idle"
Url(t) == IF call[t] = None THEN None ELSE call[t].url
At(place, u) == {t \in Tasks : pc[t] = place /\ Url(t) = u}
Fetchers(u) == {t \in Tasks : pc[t] \in Busy /\ Url(t) = u}
PermitsFree == Permits - pages - Cardinality({t \in Tasks : pc[t] = "network"})

(* is_allowed returns what the file in the cache and the usage say.        *)
Answer(t, robots) ==
  /\ pc' = [pc EXCEPT ![t] = "idle"]
  /\ call' = [call EXCEPT ![t] = None]
  /\ used' = [used EXCEPT ![robots.url] = robots.file]

-----------------------------------------------------------------------------
(* The world *)

(* Bound: once tasks have raced for a file, only their calls go on.        *)
Calm == raced = {}

Tick ==
  /\ Calm /\ now < MaxTime[maxAge]
  /\ now' = now + 1
  /\ UNCHANGED <<maxAge, site, docs, cache, fetching, pc, call, pages, limit, historyVars>>

Publish(u) ==
  /\ Calm /\ site[u] < MaxVersion[u]
  /\ site' = [site EXCEPT ![u] = @ + 1]
  /\ UNCHANGED <<now, maxAge, docs, cache, fetching, pc, call, pages, limit, historyVars>>

(* The downloader of a job takes a permit for a page before it starts a    *)
(* task for it, which keeps it until the storage has taken the response.   *)
PageStarts ==
  /\ PermitsFree > 0
  /\ pages' = pages + 1
  /\ UNCHANGED <<worldVars, docs, cache, fetching, pc, call, limit, historyVars>>

PageEnds ==
  /\ pages > 0
  /\ pages' = pages - 1
  /\ UNCHANGED <<worldVars, docs, cache, fetching, pc, call, limit, historyVars>>

-----------------------------------------------------------------------------
(* The tasks *)

Call(u) == [url |-> u, stamp |-> 0, doc |-> None, file |-> 0]

(* Mutant of StartFetch: without an event.                                 *)
StartFetchAlone(t, u) ==
  /\ UNCHANGED fetching
  /\ call' = [call EXCEPT ![t] = [Call(u) EXCEPT !.stamp = now]]

(* _get_robots starts: the time is taken, and the database is asked.       *)
StartFetch(t, u) ==
  /\ fetching' = fetching \cup {u}
  /\ call' = [call EXCEPT ![t] = [Call(u) EXCEPT !.stamp = now]]

(* is_allowed, up to its first await: the cache has a current copy, or an  *)
(* old one, which is deleted, or none.                                     *)
Request(t, u) ==
  /\ Calm /\ Idle(t)
  /\ \/ \E i \in Cached(u) :
          /\ ~IsOlderThan(cache[i], maxAge)
          /\ cache' = Append(CacheWithout(u), cache[i])
          /\ Answer(t, cache[i])
          /\ UNCHANGED fetching
     \/ /\ \A i \in Cached(u) : IsOlderThan(cache[i], maxAge)
        /\ cache' = CacheWithout(u)
        /\ IF u \in fetching
             THEN /\ pc' = [pc EXCEPT ![t] = "waiting"]
                  /\ call' = [call EXCEPT ![t] = Call(u)]
                  /\ UNCHANGED fetching
             ELSE pc' = [pc EXCEPT ![t] = "database"] /\ StartFetch(t, u)
        /\ UNCHANGED used
  /\ UNCHANGED <<worldVars, docs, pages, limit, broken, raced, failures>>

(* The event was set.  If the file is not in the cache, the KeyError makes *)
(* the task fetch it; its event may replace another task's, whose waiters  *)
(* are lost.                                                               *)
WakeUp(t) ==
  /\ pc[t] = "woken"
  /\ \/ \E i \in Cached(Url(t)) : Answer(t, cache[i]) /\ UNCHANGED <<fetching, raced>>
     \/ /\ Cached(Url(t)) = {}
        /\ StartFetch(t, Url(t))
        /\ pc' = [s \in Tasks |-> IF s = t THEN "database"
                                  ELSE IF s \in At("waiting", Url(t)) THEN "stuck" ELSE pc[s]]
        /\ raced' = raced \cup ({Url(t)} \cap fetching)
        /\ UNCHANGED used
  /\ UNCHANGED <<worldVars, docs, cache, pages, limit, broken, failures>>

(* Mutant of Found: an empty result raises.                                *)
FoundOnly(u) ==
  {[place |-> i, file |-> docs[u][i].file, updated |-> docs[u][i].updated] : i \in DOMAIN docs[u]}

(* _get_robots_from_db: any of the documents with the URL, or none.        *)
Found(u) ==
  IF docs[u] = <<>> THEN {None}
  ELSE {[place |-> i, file |-> docs[u][i].file, updated |-> docs[u][i].updated] :
          i \in DOMAIN docs[u]}

(* A document that is too old, or missing, is downloaded.                  *)
ReadDocument(t) ==
  /\ pc[t] = "database"
  /\ \E doc \in Found(Url(t)) :
       /\ call' = [call EXCEPT ![t].doc = doc]
       /\ pc' = [pc EXCEPT ![t] =
                   IF doc = None THEN "permit"
                   ELSE IF Seconds(call[t].stamp - doc.updated) > maxAge THEN "permit"
                   ELSE "saving"]
  /\ UNCHANGED <<worldVars, docs, cache, fetching, pages, limit, historyVars>>

(* Downloader.download waits for a permit, and no time limit has begun.    *)
Acquire(t) ==
  /\ pc[t] = "permit"
  /\ PermitsFree > 0
  /\ pc' = [pc EXCEPT ![t] = "network"]
  /\ UNCHANGED <<worldVars, docs, cache, fetching, call, pages, limit, historyVars>>

(* The file, or none when the download fails; the permit is released.      *)
Download(t) ==
  /\ pc[t] = "network"
  /\ \E got \in {site[Url(t)], 0} : call' = [call EXCEPT ![t].file = got]
  /\ pc' = [pc EXCEPT ![t] = "saving"]
  /\ UNCHANGED <<worldVars, docs, cache, fetching, pages, limit, historyVars>>

(* Mutant of Saved: without a new file the document loses the old one.     *)
SavedWithoutFile(c) == [file |-> c.file, updated |-> c.stamp]

(* The document after the upsert; without a new file it keeps the old one. *)
Saved(c) ==
  [file |-> IF c.doc # None /\ c.file = 0 THEN docs[c.url][c.doc.place].file ELSE c.file,
   updated |-> c.stamp]

(* _save_robots_to_db is evaluated.                                        *)
Save(t) ==
  /\ pc[t] = "saving"
  /\ LET c == call[t]
     IN docs' = [docs EXCEPT ![c.url] = IF c.doc = None THEN Append(@, Saved(c))
                                        ELSE [@ EXCEPT ![c.doc.place] = Saved(c)]]
  /\ pc' = [pc EXCEPT ![t] = "caching"]
  /\ UNCHANGED <<worldVars, cache, fetching, call, pages, limit, historyVars>>

(* Mutant of Robots: made from what was downloaded.                        *)
RobotsOfDownload(c) == [url |-> c.url, file |-> c.file, updated |-> c.stamp]

(* The RobotsTxt was made before the document was updated.                 *)
Robots(c) ==
  IF c.doc = None THEN [url |-> c.url, file |-> c.file, updated |-> c.stamp]
  ELSE [url |-> c.url, file |-> c.doc.file, updated |-> c.doc.updated]

(* _apply_crawl_delay *)
Limited(t, robots) ==
  IF t \in ObeyDelay /\ robots.file \in Delaying
    THEN [limit EXCEPT ![robots.url] = robots.file] ELSE limit

(* The event is set: those who wait for it will wake.                      *)
Woken(t, u) ==
  [s \in Tasks |-> IF s = t THEN "idle" ELSE IF s \in At("waiting", u) THEN "woken" ELSE pc[s]]

(* The save was answered: the rest of _get_robots and is_allowed.  The     *)
(* event is gone if another task has replaced it and been faster: KeyError.*)
Finish(t) ==
  /\ pc[t] = "caching"
  /\ LET robots == Robots(call[t])
         u == Url(t)
     IN /\ cache' = PutLast(robots)
        /\ \/ /\ u \in fetching
              /\ pc' = Woken(t, u)
              /\ used' = [used EXCEPT ![u] = robots.file]
              /\ limit' = Limited(t, robots)
           \/ /\ u \notin fetching
              /\ pc' = [pc EXCEPT ![t] = "idle"]
              /\ UNCHANGED <<used, limit>>
        /\ fetching' = fetching \ {u}
  /\ call' = [call EXCEPT ![t] = None]
  /\ UNCHANGED <<worldVars, docs, pages, broken, raced, failures>>

(* The task is cancelled, or what it awaits raises: its event stays.  The  *)
(* extractor goes on with another page.                                    *)
Interrupt(t) ==
  /\ failures < MaxFailures
  /\ ~Idle(t)
  /\ pc' = [pc EXCEPT ![t] = "idle"] /\ call' = [call EXCEPT ![t] = None]
  /\ broken' = IF pc[t] \in Busy THEN broken \cup {Url(t)} ELSE broken
  /\ failures' = failures + 1
  /\ UNCHANGED <<worldVars, docs, cache, fetching, pages, limit, used, raced>>

(* The server is killed and started again.                                 *)
Kill ==
  /\ failures < MaxFailures
  /\ cache' = <<>> /\ fetching' = {}
  /\ pc' = [t \in Tasks |-> "idle"] /\ call' = [t \in Tasks |-> None]
  /\ pages' = 0 /\ limit' = [u \in Urls |-> 0]
  /\ broken' = {}
  /\ failures' = failures + 1
  /\ UNCHANGED <<worldVars, docs, used, raced>>

(* Steps that a task takes by itself once it has a permit, if it needs one.*)
Step(t) == WakeUp(t) \/ ReadDocument(t) \/ Download(t) \/ Save(t) \/ Finish(t)

Next ==
  \/ Tick \/ Kill \/ PageStarts \/ PageEnds
  \/ \E u \in Urls : Publish(u) \/ \E t \in Tasks : Request(t, u)
  \/ \E t \in Tasks : Step(t) \/ Acquire(t) \/ Interrupt(t)

Spec == Init /\ [][Next]_vars

(* A task that can run does run; the database answers, and aiohttp limits  *)
(* the time of a download.  A semaphore of Trio gives its permits in turn: *)
(* who waits gets one if they become free again and again.  But nothing    *)
(* obliges a page to give its permit back: it waits for the storage, which *)
(* waits for the extractor, which may be the task that waits here.         *)
FairSpec == Spec /\ \A t \in Tasks : WF_vars(Step(t)) /\ SF_vars(Acquire(t))
-----------------------------------------------------------------------------
(* Properties *)

(* The variables have their types, and the cache its size.                 *)
TypeOK ==
  /\ maxAge \in MaxAges /\ now \in 0..MaxTime[maxAge]
  /\ \A u \in Urls :
       /\ site[u] \in 0..MaxVersion[u] /\ {limit[u], used[u]} \subseteq 0..site[u]
       /\ docs[u] \in Seq([file : 0..site[u], updated : 0..now])
  /\ \A robots \in ToSet(cache) : robots.file \in 0..site[robots.url] /\ robots.updated \in 0..now
  /\ Len(cache) <= MaxCache /\ pages \in 0..Permits
  /\ pc \in [Tasks -> Busy \cup {"idle", "waiting", "woken", "stuck"}]
  /\ \A t \in Tasks : Idle(t) <=> call[t] = None
  /\ fetching \cup broken \cup raced \subseteq Urls /\ failures \in 0..MaxFailures

(* No file is fetched needlessly: tasks that need the same file share one  *)
(* fetch, and it is downloaded only if the database has none or only one   *)
(* that is older than max_age - unless a waiting task woke to find the     *)
(* file gone and another fetch on the way.  (That every file that old is   *)
(* downloaded again does not hold: see Seconds.)                           *)
NoNeedlessFetch ==
  \A u \in Urls \ raced :
    /\ Cardinality(Fetchers(u)) <= 1
    /\ \A t \in Fetchers(u) : pc[t] \in {"permit", "network"} =>
         \A i \in DOMAIN docs[u] : call[t].stamp > docs[u][i].updated + maxAge

(* What is cached is in the database, which may be ahead of it, and no     *)
(* file is cached twice: a fetch saves its file before others can use it.  *)
(* (The types are checked with it.)                                        *)
CacheIsSaved ==
  /\ TypeOK
  /\ \A i \in DOMAIN cache :
       LET u == cache[i].url
       IN /\ Cached(u) = {i}
          /\ docs[u] # <<>> /\ (u \in raced \/ cache[i].file <= docs[u][1].file)

(* A task that asks whether it may crawl has a policy, and what that says  *)
(* is right (DecidesAsRuled has no variables: TLC evaluates it once).      *)
PolicyDecides == (\E t \in Tasks : ~Idle(t)) => DecidesAsRuled

(* No answer uses an older version than an earlier one did, although       *)
(* copies are cached, dropped, fetched and lost, and downloads fail; nor   *)
(* does the rate limiter get an older version's delay.                     *)
NeverGoesBack ==
  [][\A u \in Urls : u \notin raced' =>
       used'[u] >= used[u] /\ (limit'[u] >= limit[u] \/ limit'[u] = 0)]_vars

(* Every request is answered, unless a fetch was interrupted or raced, or  *)
(* the downloads of pages keep all permits for good.                       *)
RequestsEnd ==
  \A t \in Tasks :
    []<>(PermitsFree > 0) => (~Idle(t) ~> (Idle(t) \/ Url(t) \in broken \cup raced))
=============================================================================
