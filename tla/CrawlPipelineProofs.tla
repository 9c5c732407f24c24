------------------------ MODULE CrawlPipelineProofs ------------------------
(* Theorems about CrawlPipeline, for all sites, policies, batches, permits *)
(* and numbers of runs, with pauses and kills at any step.                 *)
EXTENDS CrawlPipeline, FiniteSetTheorems, TLAPS

-----------------------------------------------------------------------------
(* Type correctness *)

(* The parts of the invariant that say what the values are like.           *)
TypeInv == TypeOK /\ PermitsAreCounted /\ IdleTasksHoldNothing

(* What is common to all ends of a run: nothing is held any more.          *)
LEMMA DroppedTasks ==
  ASSUME DropTasks, free' \in 0..Permits
  PROVE  /\ PermitsAreCounted' /\ IdleTasksHoldNothing'
         /\ old' = {} /\ found' = {} /\ todo' = {} /\ batch' = {} /\ limiter' = {}
         /\ items' = 0 /\ held' = None /\ stored' = None /\ extracted' = None
         /\ DOMAIN tasks' = {}
         /\ frontier' = "query" /\ storage' = "idle" /\ extractor' = "idle"
<1>1. DOMAIN tasks' = {}
  BY DEF DropTasks
<1>2. IsFiniteSet(DOMAIN tasks') /\ Cardinality(DOMAIN tasks') = 0
  BY <1>1, FS_EmptySet
<1>3. Permits \in Nat /\ extractor' = "idle"
  BY CrawlPipelineAssumption DEF DropTasks
<1>4. PermitsAreCounted'
  BY <1>2, <1>3 DEF PermitsAreCounted
<1> QED
  BY <1>1, <1>4 DEF DropTasks, IdleTasksHoldNothing

(* A download takes a permit when it starts and gives it back at its end;  *)
(* the steps between change what the task does, not that it exists.        *)
LEMMA PermitTaken ==
  ASSUME TypeInv, StartDownload
  PROVE  PermitsAreCounted' /\ free' \in 0..Permits
<1>1. /\ IsFiniteSet(DOMAIN tasks) /\ DOMAIN tasks' = DOMAIN tasks \cup {held}
  BY DEF TypeInv, PermitsAreCounted, StartDownload
<1>2. /\ IsFiniteSet(DOMAIN tasks') /\ Cardinality(DOMAIN tasks) \in Nat
      /\ \/ Cardinality(DOMAIN tasks') = Cardinality(DOMAIN tasks)
         \/ Cardinality(DOMAIN tasks') = Cardinality(DOMAIN tasks) + 1
  BY <1>1, FS_AddElement, FS_CardinalityType
<1>3. free' = free - 1 /\ free > 0 /\ free \in 0..Permits /\ extractor' = extractor
  BY DEF TypeInv, TypeOK, StartDownload, extractorVars
<1>4. PermitsAreCounted'
  BY <1>2, <1>3, CrawlPipelineAssumption DEF TypeInv, PermitsAreCounted
<1> QED
  BY <1>3, <1>4, CrawlPipelineAssumption

LEMMA PermitReturned ==
  ASSUME TypeInv, NEW r \in Rows, FinishDownload(r)
  PROVE  PermitsAreCounted' /\ free' \in 0..Permits
<1>1. /\ IsFiniteSet(DOMAIN tasks) /\ r \in DOMAIN tasks
      /\ DOMAIN tasks' = DOMAIN tasks \ {r}
  BY DEF TypeInv, PermitsAreCounted, FinishDownload, Restrict
<1>2. /\ IsFiniteSet(DOMAIN tasks') /\ Cardinality(DOMAIN tasks) \in Nat
      /\ Cardinality(DOMAIN tasks') \in Nat
      /\ Cardinality(DOMAIN tasks') = Cardinality(DOMAIN tasks) - 1
  BY <1>1, FS_RemoveElement, FS_CardinalityType
<1>3. free' = free + 1 /\ free \in 0..Permits /\ extractor' = extractor
  BY DEF TypeInv, TypeOK, FinishDownload, extractorVars
<1>4. PermitsAreCounted'
  BY <1>2, <1>3, CrawlPipelineAssumption DEF TypeInv, PermitsAreCounted
<1>5. free' <= Permits
  BY <1>2, <1>3, <1>4, CrawlPipelineAssumption DEF PermitsAreCounted
<1> QED
  BY <1>3, <1>4, <1>5, CrawlPipelineAssumption

(* A row is one of a URL of the site, and never None.                      *)
LEMMA RowFacts ==
  /\ None \notin Rows
  /\ \A r \in Rows : UrlOf(r) \in Urls /\ r[2] \in 1..MaxRuns
  /\ \A u : UrlOf(Row(u)) = u /\ Row(u)[2] = run
  /\ \A u \in Urls : run \in 1..MaxRuns => Row(u) \in Rows
<1>0. /\ Len(Seeds) \in Nat
      /\ Rows \subseteq Urls \X (1..MaxRuns) \X (0..Len(Seeds))
  <2>1. /\ Seeds \in Seq(Urls) /\ MaxRuns \in Nat \ {0}
    BY CrawlPipelineAssumption
  <2>2. /\ DOMAIN Seeds = 1..Len(Seeds) /\ Len(Seeds) \in Nat
        /\ \A k \in DOMAIN Seeds : Seeds[k] \in Urls
    BY <2>1
  <2> QED
    BY <2>1, <2>2 DEF Rows, SeedRows
<1>1. None \notin Rows
  BY <1>0, CrawlPipelineAssumption
<1>2. \A r \in Rows : UrlOf(r) \in Urls /\ r[2] \in 1..MaxRuns
  BY <1>0 DEF UrlOf
<1>3. \A u : UrlOf(Row(u)) = u /\ Row(u)[2] = run
  BY DEF UrlOf, Row
<1>4. \A u \in Urls : run \in 1..MaxRuns => Row(u) \in Rows
  BY <1>0 DEF Rows, Row
<1> QED
  BY <1>1, <1>2, <1>3, <1>4

(* The rows of the seeds are those of the first run, one for each place.   *)
LEMMA SeedFacts ==
  /\ Range(Seeds) \subseteq Urls
  /\ SeedRows \subseteq Rows
  /\ \A r \in SeedRows : UrlOf(r) \in Range(Seeds) /\ r[2] = 1 /\ IsSeed(r)
  /\ \A u \in Range(Seeds) : \E r \in SeedRows : UrlOf(r) = u
<1>1. /\ Seeds \in Seq(Urls) /\ MaxRuns \in Nat \ {0}
  BY CrawlPipelineAssumption
<1>2. /\ DOMAIN Seeds = 1..Len(Seeds) /\ Len(Seeds) \in Nat
      /\ \A k \in DOMAIN Seeds : Seeds[k] \in Urls
  BY <1>1
<1>3. Range(Seeds) = {Seeds[k] : k \in DOMAIN Seeds}
  BY DEF Range
<1>4. SeedRows \subseteq Rows
  BY DEF Rows
<1>5. \A r \in SeedRows : UrlOf(r) \in Range(Seeds) /\ r[2] = 1 /\ IsSeed(r)
  BY <1>2, <1>3 DEF SeedRows, UrlOf, IsSeed
<1>6. ASSUME NEW u \in Range(Seeds) PROVE \E r \in SeedRows : UrlOf(r) = u
  <2>1. PICK k \in DOMAIN Seeds : u = Seeds[k]
    BY <1>3, <1>6
  <2>2. <<Seeds[k], 1, k>> \in SeedRows /\ UrlOf(<<Seeds[k], 1, k>>) = Seeds[k]
    BY DEF SeedRows, UrlOf
  <2> QED
    BY <2>1, <2>2
<1> QED
  BY <1>2, <1>3, <1>4, <1>5, <1>6

(* The initial state.                                                      *)
LEMMA TypeInit == Init => TypeInv
<1> SUFFICES ASSUME Init PROVE TypeInv
  OBVIOUS
<1>1. /\ IsFiniteSet(DOMAIN tasks) /\ Cardinality(DOMAIN tasks) = 0
      /\ DOMAIN tasks = {}
  BY FS_EmptySet DEF Init
<1>2. Permits \in Nat /\ free = Permits /\ extractor = "idle"
  BY CrawlPipelineAssumption DEF Init
<1>3. PermitsAreCounted
  BY <1>1, <1>2 DEF PermitsAreCounted
<1>4. IdleTasksHoldNothing
  BY DEF Init, IdleTasksHoldNothing
<1>5. ready \subseteq Rows /\ run \in 1..MaxRuns
  BY CrawlPipelineAssumption, SeedFacts DEF Init
<1>6. responses \in [Rows -> Nat] /\ raised \in Seq({"exhausted", "itemLimit", "duration"})
  BY DEF Init
<1>7. free \in 0..Permits /\ old \subseteq Urls
  BY <1>2, CrawlPipelineAssumption, SeedFacts DEF Init
<1> QED
  BY <1>1, <1>3, <1>4, <1>5, <1>6, <1>7 DEF TypeInv, TypeOK, Init

(* What is raised is a sequence of the exceptions that end a job.          *)
LEMMA RaisedStaysTyped ==
  ASSUME TypeInv, NEW e \in {"exhausted", "itemLimit", "duration"}
  PROVE  Append(raised, e) \in Seq({"exhausted", "itemLimit", "duration"})
<1>1. raised \in Seq({"exhausted", "itemLimit", "duration"})
  BY DEF TypeInv, TypeOK
<1> QED
  BY <1>1

(* The steps that leave the permits, the storage and the extractor alone.  *)
LEMMA FrontierTypeStep ==
  ASSUME TypeInv, FrontierNext PROVE TypeInv'
<1> USE DEF TypeInv, TypeOK, PermitsAreCounted, IdleTasksHoldNothing,
        historyVars, jobVars, controlVars, frontierVars, storageVars, extractorVars
<1>1. ASSUME FrontierQuery PROVE TypeInv'
  BY <1>1 DEF FrontierQuery, kSubset
<1>2. ASSUME FrontierMark PROVE TypeInv'
  BY <1>2 DEF FrontierMark
<1>3. ASSUME FrontierPollsAgain PROVE TypeInv'
  BY <1>3 DEF FrontierPollsAgain
<1>4. ASSUME FrontierExhausted PROVE TypeInv'
  BY <1>4 DEF FrontierExhausted, Raise
<1>5. ASSUME NEW r \in Rows, FrontierSend(r) PROVE TypeInv'
  BY <1>5 DEF FrontierSend
<1> QED
  BY <1>1, <1>2, <1>3, <1>4, <1>5 DEF FrontierNext

LEMMA DownloaderTypeStep ==
  ASSUME TypeInv, DownloaderNext PROVE TypeInv'
<1> USE DEF TypeInv, TypeOK, IdleTasksHoldNothing,
        historyVars, jobVars, controlVars, frontierVars, storageVars, extractorVars
<1>1. ASSUME StartDownload PROVE TypeInv'
  <2>1. PermitsAreCounted' /\ free' \in 0..Permits
    BY <1>1, PermitTaken
  <2>2. held \in Rows
    BY <1>1 DEF StartDownload
  <2> QED
    BY <1>1, <2>1, <2>2 DEF StartDownload
<1>2. ASSUME NEW r \in Rows, DownloaderReceive(r) PROVE TypeInv'
  BY <1>2 DEF DownloaderReceive, PermitsAreCounted
<1>3. ASSUME NEW r \in Rows, FetchPage(r) PROVE TypeInv'
  BY <1>3 DEF FetchPage, PermitsAreCounted
<1>4. ASSUME NEW r \in Rows, RejectMime(r) PROVE TypeInv'
  BY <1>4 DEF RejectMime, PermitsAreCounted
<1>5. ASSUME NEW r \in Rows, SendReset(r) PROVE TypeInv'
  BY <1>5 DEF SendReset, PermitsAreCounted
<1>6. ASSUME NEW r \in Rows, FinishDownload(r) PROVE TypeInv'
  <2>1. PermitsAreCounted' /\ free' \in 0..Permits
    BY <1>6, PermitReturned
  <2>2. /\ raised' \in Seq({"exhausted", "itemLimit", "duration"})
        /\ phase' = phase \/ phase' = "unwinding"
        /\ run' = run /\ stopping' = stopping
    <3>1. CASE MetItemLimit(items)
      <4>1. /\ raised' = Append(raised, "itemLimit") /\ phase' = "unwinding"
            /\ run' = run /\ stopping' = stopping
        BY <1>6, <3>1 DEF FinishDownload, Raise
      <4>2. Append(raised, "itemLimit") \in Seq({"exhausted", "itemLimit", "duration"})
        BY RaisedStaysTyped
      <4> QED
        BY <4>1, <4>2
    <3>2. CASE ~MetItemLimit(items)
      BY <1>6, <3>2 DEF FinishDownload
    <3> QED
      BY <3>1, <3>2
  <2>3. /\ DOMAIN tasks' \subseteq DOMAIN tasks
        /\ \A q \in DOMAIN tasks' : tasks'[q] = tasks[q]
    BY <1>6 DEF FinishDownload, Restrict
  <2>4. UNCHANGED <<historyVars, ready, inFlight, jobVars, old, items, robotsKnown,
                    frontierVars, limiter, held, storageVars, extractorVars>>
    BY <1>6 DEF FinishDownload
  <2> QED
    BY <2>1, <2>2, <2>3, <2>4
<1> QED
  BY <1>1, <1>2, <1>3, <1>4, <1>5, <1>6 DEF DownloaderNext

LEMMA StorageTypeStep ==
  ASSUME TypeInv, StorageNext PROVE TypeInv'
<1> USE DEF TypeInv, TypeOK, PermitsAreCounted, IdleTasksHoldNothing,
        historyVars, jobVars, controlVars, frontierVars, storageVars, extractorVars
<1>1. ASSUME NEW r \in Rows, StorageReceive(r) PROVE TypeInv'
  <2>1. r # None /\ tasks' \in [DOMAIN tasks -> {"fetching", "responding", "resetting", "finishing"}]
    BY <1>1, RowFacts DEF StorageReceive
  <2> QED
    BY <1>1, <2>1 DEF StorageReceive
<1>2. ASSUME StorageSave PROVE TypeInv'
  <2>1. stored \in Rows
    BY <1>2 DEF StorageSave
  <2>2. responses' = [responses EXCEPT ![stored] = @ + 1]
    BY <1>2 DEF StorageSave
  <2>3. responses' \in [Rows -> Nat]
    BY <2>1, <2>2
  <2> QED
    BY <1>2, <2>3 DEF StorageSave
<1>3. ASSUME StorageCount PROVE TypeInv'
  BY <1>3 DEF StorageCount
<1> QED
  BY <1>1, <1>2, <1>3 DEF StorageNext

LEMMA ExtractorTypeStep ==
  ASSUME TypeInv, ExtractorNext PROVE TypeInv'
<1> USE DEF TypeInv, TypeOK, IdleTasksHoldNothing,
        historyVars, jobVars, controlVars, frontierVars, storageVars, extractorVars
<1>1. ASSUME ExtractorReceive PROVE TypeInv'
  <2>1. stored \in Rows /\ extracted' \in Rows
    BY <1>1 DEF ExtractorReceive
  <2>2. todo' \subseteq Urls
    BY <1>1, <2>1, RowFacts, CrawlPipelineAssumption DEF ExtractorReceive
  <2>3. extractor' \in {"linking", "inserting", "deleting"}
    BY <1>1 DEF ExtractorReceive, Extracting
  <2>4. PermitsAreCounted'
    BY <1>1, <2>3 DEF ExtractorReceive, PermitsAreCounted
  <2> QED
    BY <1>1, <2>1, <2>2, <2>3, <2>4, RowFacts DEF ExtractorReceive
<1>2. ASSUME RobotsStart \/ RobotsDone PROVE TypeInv'
  <2>1. /\ IsFiniteSet(DOMAIN tasks) /\ Cardinality(DOMAIN tasks) \in Nat
        /\ Permits \in Nat
    BY FS_CardinalityType, CrawlPipelineAssumption DEF PermitsAreCounted
  <2>2. PermitsAreCounted' /\ free' \in 0..Permits
    BY <1>2, <2>1 DEF RobotsStart, RobotsDone, PermitsAreCounted
  <2>3. CASE RobotsStart
    BY <2>2, <2>3 DEF RobotsStart
  <2>4. CASE RobotsDone
    BY <2>2, <2>4 DEF RobotsDone
  <2> QED
    BY <1>2, <2>3, <2>4
<1>3. ASSUME NEW u \in Urls, ExtractLink(u) \/ ExtractRaises(u) PROVE TypeInv'
  BY <1>3 DEF ExtractLink, ExtractRaises, Extracting, PermitsAreCounted
<1>4. ASSUME ExtractInsert PROVE TypeInv'
  <2>1. PICK some \in SUBSET found :
          /\ ready' = ready \cup {Row(u) : u \in some}
          /\ found' = found \ some
    BY <1>4 DEF ExtractInsert, kSubset
  <2>2. ready' \subseteq Rows
    BY <2>1, RowFacts
  <2>3. extractor' \in {"inserting", "deleting"}
    BY <1>4 DEF ExtractInsert, Extracting
  <2> QED
    BY <1>4, <2>1, <2>2, <2>3 DEF ExtractInsert, PermitsAreCounted
<1>5. ASSUME ExtractDelete PROVE TypeInv'
  BY <1>5 DEF ExtractDelete, PermitsAreCounted
<1> QED
  BY <1>1, <1>2, <1>3, <1>4, <1>5 DEF ExtractorNext

(* The ends of a run, and the start of the next one.                       *)
LEMMA PermitsAfterCancelType == TypeInv => PermitsAfterCancel \in 0..Permits
<1> SUFFICES ASSUME TypeInv PROVE PermitsAfterCancel \in 0..Permits
  OBVIOUS
<1>1. Cardinality(DOMAIN tasks) \in Nat
  BY FS_CardinalityType DEF TypeInv, PermitsAreCounted
<1> QED
  BY <1>1, CrawlPipelineAssumption DEF TypeInv, TypeOK, PermitsAreCounted, PermitsAfterCancel

LEMMA EndTypeStep ==
  ASSUME TypeInv, EndNext \/ Pause \/ PauseJob \/ Resume \/ Restart PROVE TypeInv'
<1> USE DEF TypeInv, TypeOK, historyVars, jobVars, frontierVars, storageVars, extractorVars
<1>1. ASSUME DurationElapses PROVE TypeInv'
  BY <1>1 DEF DurationElapses, Raise, PermitsAreCounted, IdleTasksHoldNothing
<1>2. ASSUME Pause PROVE TypeInv'
  BY <1>2 DEF Pause, PermitsAreCounted, IdleTasksHoldNothing
<1>3. ASSUME Resume PROVE TypeInv'
  <2>1. old' \subseteq Urls
    BY <1>3, SeedFacts DEF Resume
  <2>2. run' \in 1..MaxRuns
    BY <1>3, CrawlPipelineAssumption DEF Resume
  <2> QED
    BY <1>3, <2>1, <2>2 DEF Resume, PermitsAreCounted, IdleTasksHoldNothing
<1>4. ASSUME CompleteJob \/ EscapeJob \/ PauseJob \/ Restart PROVE TypeInv'
  <2>1. free' \in 0..Permits
    BY <1>4, PermitsAfterCancelType, CrawlPipelineAssumption
    DEF CompleteJob, EscapeJob, PauseJob, Restart
  <2>2. DropTasks
    BY <1>4 DEF CompleteJob, EscapeJob, PauseJob, Restart
  <2>3. /\ PermitsAreCounted' /\ IdleTasksHoldNothing'
        /\ old' = {} /\ found' = {} /\ todo' = {} /\ batch' = {} /\ limiter' = {}
        /\ items' = 0 /\ held' = None /\ stored' = None /\ extracted' = None
        /\ DOMAIN tasks' = {}
        /\ frontier' = "query" /\ storage' = "idle" /\ extractor' = "idle"
    BY <2>1, <2>2, DroppedTasks
  <2>4. /\ phase' \in {"down", "dead"}
        /\ runState' \in {"running", "paused", "completed"}
        /\ savedOld' \in (SUBSET Urls) \cup {None}
        /\ stopping' \in BOOLEAN /\ killed' \in BOOLEAN
    BY <1>4 DEF CompleteJob, EscapeJob, PauseJob, Restart
  <2>5. ready' \subseteq Rows /\ inFlight' \subseteq Rows
    BY <1>4 DEF CompleteJob, EscapeJob, PauseJob, Restart
  <2>6. raised' \in Seq({"exhausted", "itemLimit", "duration"})
    <3>1. raised' = raised \/ raised' = <<>>
      BY <1>4 DEF CompleteJob, EscapeJob, PauseJob, Restart
    <3>2. <<>> \in Seq({"exhausted", "itemLimit", "duration"})
      OBVIOUS
    <3>3. raised \in Seq({"exhausted", "itemLimit", "duration"})
      OBVIOUS
    <3> QED
      BY <3>1, <3>2, <3>3, Zenon
  <2>7. UNCHANGED <<maxItems, responses, itemCount, run, robotsKnown>>
    BY <1>4 DEF CompleteJob, EscapeJob, PauseJob, Restart
  <2> QED
    BY <2>1, <2>3, <2>4, <2>5, <2>6, <2>7
<1> QED
  BY <1>1, <1>2, <1>3, <1>4 DEF EndNext

LEMMA TypeStep == TypeInv /\ [Next]_vars => TypeInv'
<1> SUFFICES ASSUME TypeInv, [Next]_vars PROVE TypeInv'
  OBVIOUS
<1>1. CASE UNCHANGED vars
  BY <1>1 DEF TypeInv, TypeOK, PermitsAreCounted, IdleTasksHoldNothing, vars, historyVars,
    jobVars, controlVars, frontierVars, storageVars, extractorVars
<1>2. CASE Next
  BY <1>2, FrontierTypeStep, DownloaderTypeStep, StorageTypeStep, ExtractorTypeStep,
    EndTypeStep DEF Next, PauseNext, CrawlNext
<1> QED
  BY <1>1, <1>2

(* Every value has its type at every step of a crawl that may be paused,   *)
(* resumed and killed at any time; in particular the semaphore's value is  *)
(* never negative and never above the capacity: permits may be lost when a *)
(* job is stopped (see PermitsAreReturned), but none is given back twice.  *)
THEOREM TypeCorrect == Spec => []TypeOK
<1>1. TypeInv => TypeOK
  BY DEF TypeInv
<1> QED
  BY <1>1, TypeInit, TypeStep, PTL DEF Spec

(* All jobs together never hold more permits than the semaphore has.       *)
THEOREM PermitsCorrect == Spec => []PermitsAreCounted
<1>1. TypeInv => PermitsAreCounted
  BY DEF TypeInv
<1> QED
  BY <1>1, TypeInit, TypeStep, PTL DEF Spec

-----------------------------------------------------------------------------
(* The rows *)

(* The stations in words: six sets, no two of which have a row in common.  *)
Held      == {held} \ {None}
Stored    == {stored} \ {None}
Extracted == {extracted} \ {None}

Apart(a, b, c, d, e, f) ==
  /\ a \cap b = {} /\ a \cap c = {} /\ a \cap d = {} /\ a \cap e = {} /\ a \cap f = {}
  /\ b \cap c = {} /\ b \cap d = {} /\ b \cap e = {} /\ b \cap f = {}
  /\ c \cap d = {} /\ c \cap e = {} /\ c \cap f = {}
  /\ d \cap e = {} /\ d \cap f = {}
  /\ e \cap f = {}

LEMMA SixStations ==
  ASSUME NEW a, NEW b, NEW c, NEW d, NEW e, NEW f
  PROVE  LET s == <<a, b, c, d, e, f>>
         IN  /\ (\A i, j \in DOMAIN s : i < j => s[i] \cap s[j] = {})
                <=> Apart(a, b, c, d, e, f)
             /\ UNION Range(s) = a \cup b \cup c \cup d \cup e \cup f
<1> DEFINE s == <<a, b, c, d, e, f>>
<1>1. /\ DOMAIN s = {1, 2, 3, 4, 5, 6}
      /\ s[1] = a /\ s[2] = b /\ s[3] = c /\ s[4] = d /\ s[5] = e /\ s[6] = f
  OBVIOUS
<1> HIDE DEF s
<1>2. (\A i, j \in DOMAIN s : i < j => s[i] \cap s[j] = {}) => Apart(a, b, c, d, e, f)
  BY <1>1 DEF Apart
<1>3. Apart(a, b, c, d, e, f) => \A i, j \in DOMAIN s : i < j => s[i] \cap s[j] = {}
  BY <1>1 DEF Apart
<1>4. UNION Range(s) = a \cup b \cup c \cup d \cup e \cup f
  BY <1>1 DEF Range
<1> QED
  BY <1>2, <1>3, <1>4 DEF s

(* The invariant of the rows over these sets.                              *)
RowsInv == /\ RowsAreApart /\ LinksAreNew
           /\ Apart(Sent, limiter, Held, Downloading, Stored, Extracted)
           /\ Sent \cup limiter \cup Held \cup Downloading \cup Stored \cup Extracted
                \subseteq inFlight

LEMMA RowsInvMeans == RowsInv => OneStationPerRow /\ PipelineIsInFlight
<1> SUFFICES ASSUME RowsInv PROVE OneStationPerRow /\ PipelineIsInFlight
  OBVIOUS
<1>1. OneStationPerRow
  BY SixStations DEF RowsInv, OneStationPerRow, Stations, Held, Stored, Extracted
<1>2. Handled = Sent \cup limiter \cup Held \cup Downloading \cup Stored \cup Extracted
  BY SixStations DEF Handled, Stations, Held, Stored, Extracted
<1> QED
  BY <1>1, <1>2 DEF RowsInv, RowsAreApart, PipelineIsInFlight

LEMMA RowsInit == Init => RowsInv
<1> SUFFICES ASSUME Init PROVE RowsInv
  OBVIOUS
<1>1. /\ Sent = {} /\ limiter = {} /\ Held = {} /\ Downloading = {}
      /\ Stored = {} /\ Extracted = {} /\ inFlight = {}
  BY DEF Init, Sent, Held, Downloading, Stored, Extracted
<1>2. RowsAreApart
  BY DEF Init, RowsAreApart
<1>3. \A r \in ready : r[2] = 1 /\ UrlOf(r) \in Range(Seeds)
  BY SeedFacts DEF Init
<1>4. LinksAreNew
  BY <1>1, <1>3 DEF Init, LinksAreNew
<1> QED
  BY <1>1, <1>2, <1>4 DEF RowsInv, Apart

(* A step that moves no row into or out of the table, and none into the    *)
(* pipeline.                                                               *)
LEMMA TableUnchanged ==
  ASSUME RowsAreApart, LinksAreNew,
         UNCHANGED <<ready, inFlight, run>>,
         frontier' = "mark" => batch' \subseteq ready,
         \/ phase' # "running"
         \/ phase' = phase /\ UNCHANGED <<old, found>>,
         found' \subseteq old'
  PROVE  RowsAreApart' /\ LinksAreNew'
BY DEF RowsAreApart, LinksAreNew

LEMMA FrontierRowsStep ==
  ASSUME TypeInv, RowsInv, FrontierNext PROVE RowsInv'
<1> USE DEF historyVars, jobVars, controlVars, frontierVars, storageVars, extractorVars
<1>1. ASSUME FrontierQuery PROVE RowsInv'
  <2>1. RowsAreApart' /\ LinksAreNew'
    <3>1. batch' \subseteq ready
      BY <1>1 DEF FrontierQuery, kSubset
    <3> QED
      BY <1>1, <3>1, TableUnchanged DEF FrontierQuery, RowsInv, LinksAreNew
  <2>2. Sent = {} /\ Sent' = {}
    BY <1>1 DEF FrontierQuery, Sent
  <2>3. UNCHANGED <<limiter, Held, Downloading, Stored, Extracted, inFlight>>
    BY <1>1 DEF FrontierQuery, Held, Downloading, Stored, Extracted
  <2> QED
    BY <2>1, <2>2, <2>3 DEF RowsInv
<1>2. ASSUME FrontierMark PROVE RowsInv'
  <2>1. batch \subseteq ready /\ ready \cap inFlight = {}
    BY <1>2 DEF FrontierMark, RowsInv, RowsAreApart
  <2>2. RowsAreApart'
    BY <1>2, <2>1 DEF FrontierMark, RowsAreApart
  <2>3. LinksAreNew'
    BY <1>2, <2>1 DEF FrontierMark, RowsInv, LinksAreNew
  <2>4. Sent = {} /\ Sent' = batch /\ inFlight' = inFlight \cup batch
    BY <1>2 DEF FrontierMark, Sent
  <2>5. UNCHANGED <<limiter, Held, Downloading, Stored, Extracted>>
    BY <1>2 DEF FrontierMark, Held, Downloading, Stored, Extracted
  <2>6. Apart(Sent, limiter, Held, Downloading, Stored, Extracted)'
    BY <2>1, <2>4, <2>5 DEF RowsInv, Apart
  <2> QED
    BY <2>2, <2>3, <2>4, <2>5, <2>6 DEF RowsInv
<1>3. ASSUME FrontierPollsAgain \/ FrontierExhausted PROVE RowsInv'
  <2>1. RowsAreApart' /\ LinksAreNew'
    BY <1>3, TableUnchanged
    DEF FrontierPollsAgain, FrontierExhausted, Raise, RowsInv, LinksAreNew
  <2>2. UNCHANGED <<Sent, limiter, Held, Downloading, Stored, Extracted, inFlight>>
    BY <1>3 DEF FrontierPollsAgain, FrontierExhausted, Sent, Held, Downloading, Stored,
      Extracted
  <2> QED
    BY <2>1, <2>2 DEF RowsInv
<1>4. ASSUME NEW r \in Rows, FrontierSend(r) PROVE RowsInv'
  <2>1. RowsAreApart' /\ LinksAreNew'
    BY <1>4, TableUnchanged DEF FrontierSend, RowsInv, LinksAreNew
  <2>2. r \in Sent /\ Sent' = Sent \ {r} /\ limiter' = limiter \cup {r}
    BY <1>4 DEF FrontierSend, Sent
  <2>3. UNCHANGED <<Held, Downloading, Stored, Extracted, inFlight>>
    BY <1>4 DEF FrontierSend, Held, Downloading, Stored, Extracted
  <2>4. Apart(Sent, limiter, Held, Downloading, Stored, Extracted)'
    BY <2>2, <2>3 DEF RowsInv, Apart
  <2> QED
    BY <2>1, <2>2, <2>3, <2>4 DEF RowsInv
<1> QED
  BY <1>1, <1>2, <1>3, <1>4 DEF FrontierNext

LEMMA DownloaderRowsStep ==
  ASSUME TypeInv, RowsInv, DownloaderNext PROVE RowsInv'
<1> USE DEF historyVars, jobVars, controlVars, frontierVars, storageVars, extractorVars
<1>1. ASSUME StartDownload PROVE RowsInv'
  <2>1. RowsAreApart' /\ LinksAreNew'
    BY <1>1, TableUnchanged DEF StartDownload, RowsInv, RowsAreApart, LinksAreNew
  <2>2. Held = {held} /\ Held' = {} /\ Downloading' = Downloading \cup {held}
    BY <1>1 DEF StartDownload, Held, Downloading
  <2>3. UNCHANGED <<Sent, limiter, Stored, Extracted, inFlight>>
    BY <1>1 DEF StartDownload, Sent, Stored, Extracted
  <2>4. Apart(Sent, limiter, Held, Downloading, Stored, Extracted)'
    BY <2>2, <2>3 DEF RowsInv, Apart
  <2> QED
    BY <2>1, <2>2, <2>3, <2>4 DEF RowsInv
<1>2. ASSUME NEW r \in Rows, DownloaderReceive(r) PROVE RowsInv'
  <2>1. RowsAreApart' /\ LinksAreNew'
    BY <1>2, TableUnchanged DEF DownloaderReceive, RowsInv, RowsAreApart, LinksAreNew
  <2>2. r \in limiter /\ limiter' = limiter \ {r} /\ Held' = {r}
    BY <1>2, RowFacts DEF DownloaderReceive, Held
  <2>3. Held = {} /\ UNCHANGED <<Sent, Downloading, Stored, Extracted, inFlight>>
    BY <1>2 DEF DownloaderReceive, Sent, Held, Downloading, Stored, Extracted
  <2>4. Apart(Sent, limiter, Held, Downloading, Stored, Extracted)'
    BY <2>2, <2>3 DEF RowsInv, Apart
  <2> QED
    BY <2>1, <2>2, <2>3, <2>4 DEF RowsInv
<1>3. ASSUME NEW r \in Rows,
             FetchPage(r) \/ RejectMime(r) \/ SendReset(r) \/ FinishDownload(r)
      PROVE  RowsInv'
  <2>1. /\ UNCHANGED <<ready, inFlight, run, old, frontier, batch, found>>
        /\ phase' = phase \/ phase' = "unwinding"
    BY <1>3 DEF FetchPage, RejectMime, SendReset, FinishDownload, Raise
  <2>2. RowsAreApart' /\ LinksAreNew'
    BY <2>1, TableUnchanged DEF RowsInv, RowsAreApart, LinksAreNew
  <2>3. UNCHANGED <<Sent, limiter, Held, Stored, Extracted, inFlight>>
    BY <1>3 DEF FetchPage, RejectMime, SendReset, FinishDownload, Sent, Held, Stored,
      Extracted
  <2>4. Downloading' \subseteq Downloading
    <3>1. CASE FetchPage(r)
      BY <3>1 DEF FetchPage, Downloading
    <3>2. CASE RejectMime(r)
      BY <3>2 DEF RejectMime, Downloading
    <3>3. CASE SendReset(r)
      BY <3>3 DEF SendReset, Downloading
    <3>4. CASE FinishDownload(r)
      BY <3>4 DEF FinishDownload, Downloading, Restrict
    <3> QED
      BY <1>3, <3>1, <3>2, <3>3, <3>4
  <2>5. Apart(Sent, limiter, Held, Downloading, Stored, Extracted)'
    BY <2>3, <2>4 DEF RowsInv, Apart
  <2> QED
    BY <2>2, <2>3, <2>4, <2>5 DEF RowsInv
<1> QED
  BY <1>1, <1>2, <1>3 DEF DownloaderNext

LEMMA StorageRowsStep ==
  ASSUME TypeInv, RowsInv, StorageNext PROVE RowsInv'
<1> USE DEF historyVars, jobVars, controlVars, frontierVars, storageVars, extractorVars
<1>1. ASSUME NEW r \in Rows, StorageReceive(r) PROVE RowsInv'
  <2>1. RowsAreApart' /\ LinksAreNew'
    BY <1>1, TableUnchanged DEF StorageReceive, RowsInv, RowsAreApart, LinksAreNew
  <2>2. r \in Downloading /\ Downloading' = Downloading \ {r}
    BY <1>1 DEF StorageReceive, Downloading
  <2>3. Stored = {} /\ Stored' = {r}
    BY <1>1, RowFacts DEF StorageReceive, Stored, TypeInv, IdleTasksHoldNothing
  <2>4. UNCHANGED <<Sent, limiter, Held, Extracted, inFlight>>
    BY <1>1 DEF StorageReceive, Sent, Held, Extracted
  <2>5. Apart(Sent, limiter, Held, Downloading, Stored, Extracted)'
    BY <2>2, <2>3, <2>4 DEF RowsInv, Apart
  <2> QED
    BY <2>1, <2>2, <2>3, <2>4, <2>5 DEF RowsInv
<1>2. ASSUME StorageSave \/ StorageCount PROVE RowsInv'
  <2>1. RowsAreApart' /\ LinksAreNew'
    BY <1>2, TableUnchanged DEF StorageSave, StorageCount, RowsInv, RowsAreApart, LinksAreNew
  <2>2. UNCHANGED <<Sent, limiter, Held, Downloading, Stored, Extracted, inFlight>>
    BY <1>2 DEF StorageSave, StorageCount, Sent, Held, Downloading, Stored, Extracted
  <2> QED
    BY <2>1, <2>2 DEF RowsInv
<1> QED
  BY <1>1, <1>2 DEF StorageNext

LEMMA ExtractorRowsStep ==
  ASSUME TypeInv, RowsInv, ExtractorNext PROVE RowsInv'
<1> USE DEF historyVars, jobVars, controlVars, frontierVars, storageVars, extractorVars
<1>1. ASSUME ExtractorReceive PROVE RowsInv'
  <2>1. RowsAreApart' /\ LinksAreNew'
    BY <1>1 DEF ExtractorReceive, RowsInv, RowsAreApart, LinksAreNew, TypeInv,
      IdleTasksHoldNothing
  <2>2. Stored' = {} /\ Extracted = {} /\ Extracted' = Stored
    BY <1>1 DEF ExtractorReceive, Stored, Extracted, TypeInv, IdleTasksHoldNothing
  <2>3. UNCHANGED <<Sent, limiter, Held, Downloading, inFlight>>
    BY <1>1 DEF ExtractorReceive, Sent, Held, Downloading
  <2>4. Apart(Sent, limiter, Held, Downloading, Stored, Extracted)'
    BY <2>2, <2>3 DEF RowsInv, Apart
  <2> QED
    BY <2>1, <2>2, <2>3, <2>4 DEF RowsInv
<1>2. ASSUME RobotsStart \/ RobotsDone PROVE RowsInv'
  <2>1. RowsAreApart' /\ LinksAreNew'
    BY <1>2, TableUnchanged DEF RobotsStart, RobotsDone, RowsInv, RowsAreApart, LinksAreNew
  <2>2. UNCHANGED <<Sent, limiter, Held, Downloading, Stored, Extracted, inFlight>>
    BY <1>2 DEF RobotsStart, RobotsDone, Sent, Held, Downloading, Stored, Extracted
  <2> QED
    BY <2>1, <2>2 DEF RowsInv
<1>3. ASSUME NEW u \in Urls, ExtractLink(u) \/ ExtractRaises(u) PROVE RowsInv'
  <2>1. RowsAreApart'
    BY <1>3 DEF ExtractLink, ExtractRaises, RowsInv, RowsAreApart
  <2>2. /\ old \subseteq old' /\ found' \subseteq old'
        /\ \A v \in old \ found : v \in old' \ found'
        /\ UNCHANGED <<ready, inFlight, run, phase>>
    BY <1>3 DEF ExtractLink, ExtractRaises, RowsInv, LinksAreNew
  <2>3. LinksAreNew'
    BY <2>2 DEF RowsInv, LinksAreNew
  <2>4. UNCHANGED <<Sent, limiter, Held, Downloading, Stored, Extracted, inFlight>>
    BY <1>3 DEF ExtractLink, ExtractRaises, Sent, Held, Downloading, Stored, Extracted
  <2> QED
    BY <2>1, <2>3, <2>4 DEF RowsInv
<1>4. ASSUME ExtractInsert PROVE RowsInv'
  <2>1. PICK some \in SUBSET found :
          /\ ready' = ready \cup {Row(u) : u \in some}
          /\ found' = found \ some
    BY <1>4 DEF ExtractInsert, kSubset
  <2>2. /\ phase = "running" /\ run \in 1..MaxRuns
        /\ UNCHANGED <<inFlight, run, phase, old, frontier, batch>>
    BY <1>4 DEF ExtractInsert, TypeInv, TypeOK
  <2>3. \A u \in some : Row(u)[2] = run /\ UrlOf(Row(u)) = u /\ u \in old
    BY DEF Row, UrlOf, RowsInv, LinksAreNew
  <2>4. \A u \in some : Row(u) \notin inFlight
    BY <2>2, <2>3 DEF RowsInv, LinksAreNew
  <2>5. RowsAreApart'
    BY <2>1, <2>2, <2>4 DEF RowsInv, RowsAreApart
  <2>6. LinksAreNew'
    BY <2>1, <2>2, <2>3 DEF RowsInv, LinksAreNew
  <2>7. UNCHANGED <<Sent, limiter, Held, Downloading, Stored, Extracted, inFlight>>
    BY <1>4 DEF ExtractInsert, Sent, Held, Downloading, Stored, Extracted
  <2> QED
    BY <2>5, <2>6, <2>7 DEF RowsInv
<1>5. ASSUME ExtractDelete PROVE RowsInv'
  <2>1. RowsAreApart' /\ LinksAreNew'
    BY <1>5 DEF ExtractDelete, RowsInv, RowsAreApart, LinksAreNew
  <2>2. extracted # None /\ Extracted = {extracted} /\ Extracted' = {}
    BY <1>5 DEF ExtractDelete, Extracted, TypeInv, IdleTasksHoldNothing
  <2>3. UNCHANGED <<Sent, limiter, Held, Downloading, Stored>>
    BY <1>5 DEF ExtractDelete, Sent, Held, Downloading, Stored
  <2>4. inFlight' = inFlight \ {extracted}
    BY <1>5 DEF ExtractDelete
  <2>5. Apart(Sent, limiter, Held, Downloading, Stored, Extracted)'
    BY <2>2, <2>3 DEF RowsInv, Apart
  <2> QED
    BY <2>1, <2>2, <2>3, <2>4, <2>5 DEF RowsInv, Apart
<1> QED
  BY <1>1, <1>2, <1>3, <1>4, <1>5 DEF ExtractorNext

(* The ends of a run: the pipeline is empty, whatever becomes of the table. *)
LEMMA EndRowsStep ==
  ASSUME TypeInv, RowsInv, EndNext \/ Pause \/ PauseJob \/ Resume \/ Restart
  PROVE  RowsInv'
<1> USE DEF historyVars, jobVars, frontierVars, storageVars, extractorVars
<1>1. ASSUME DurationElapses \/ Pause PROVE RowsInv'
  <2>1. RowsAreApart' /\ LinksAreNew'
    BY <1>1, TableUnchanged
    DEF DurationElapses, Pause, Raise, RowsInv, RowsAreApart, LinksAreNew
  <2>2. UNCHANGED <<Sent, limiter, Held, Downloading, Stored, Extracted, inFlight>>
    BY <1>1 DEF DurationElapses, Pause, Sent, Held, Downloading, Stored, Extracted
  <2> QED
    BY <2>1, <2>2 DEF RowsInv
<1>2. ASSUME Resume PROVE RowsInv'
  <2>1. found = {} /\ run' = run + 1 /\ run \in 1..MaxRuns
        /\ UNCHANGED <<ready, inFlight, found, frontier, batch>>
    BY <1>2 DEF Resume, TypeInv, TypeOK, IdleTasksHoldNothing
  <2>2. RowsAreApart'
    BY <2>1 DEF RowsInv, RowsAreApart
  <2>3. ready \subseteq Rows /\ inFlight \subseteq Rows
    BY DEF TypeInv, TypeOK
  <2>4. \A r \in ready \cup inFlight : r[2] <= run' /\ r[2] # run'
    BY <2>1, <2>3, RowFacts, CrawlPipelineAssumption DEF RowsInv, LinksAreNew
  <2>5. LinksAreNew'
    BY <2>1, <2>4 DEF LinksAreNew
  <2>6. UNCHANGED <<Sent, limiter, Held, Downloading, Stored, Extracted, inFlight>>
    BY <1>2 DEF Resume, Sent, Held, Downloading, Stored, Extracted
  <2> QED
    BY <2>2, <2>5, <2>6 DEF RowsInv
<1>3. ASSUME CompleteJob \/ EscapeJob \/ PauseJob \/ Restart PROVE RowsInv'
  <2>1. DropTasks /\ phase' \in {"down", "dead"} /\ run' = run
    BY <1>3 DEF CompleteJob, EscapeJob, PauseJob, Restart
  <2>2. ready' \cup inFlight' \subseteq ready \cup inFlight /\ ready' \cap inFlight' = {}
    BY <1>3 DEF CompleteJob, EscapeJob, PauseJob, Restart, RowsInv, RowsAreApart
  <2>3. RowsAreApart'
    BY <2>1, <2>2 DEF DropTasks, RowsAreApart
  <2>4. LinksAreNew'
    BY <2>1, <2>2 DEF DropTasks, RowsInv, LinksAreNew
  <2>5. /\ Sent' = {} /\ limiter' = {} /\ Held' = {} /\ Downloading' = {}
        /\ Stored' = {} /\ Extracted' = {}
    BY <2>1 DEF DropTasks, Sent, Held, Downloading, Stored, Extracted
  <2> QED
    BY <2>3, <2>4, <2>5 DEF RowsInv, Apart
<1> QED
  BY <1>1, <1>2, <1>3 DEF EndNext

LEMMA RowsStep == TypeInv /\ RowsInv /\ [Next]_vars => RowsInv'
<1> SUFFICES ASSUME TypeInv, RowsInv, [Next]_vars PROVE RowsInv'
  OBVIOUS
<1>1. CASE UNCHANGED vars
  BY <1>1 DEF RowsInv, RowsAreApart, LinksAreNew, Sent, Held, Downloading, Stored, Extracted,
    vars, historyVars, jobVars, controlVars, frontierVars, storageVars, extractorVars
<1>2. CASE Next
  BY <1>2, FrontierRowsStep, DownloaderRowsStep, StorageRowsStep, ExtractorRowsStep,
    EndRowsStep DEF Next, PauseNext, CrawlNext
<1> QED
  BY <1>1, <1>2

LEMMA RowsAlways == Spec => [](OneStationPerRow /\ PipelineIsInFlight)
BY TypeInit, TypeStep, RowsInit, RowsStep, RowsInvMeans, PTL DEF Spec

(* No row is handled by two tasks at once, at every step of every          *)
(* interleaving of polls, downloads, inserts and deletes, with pauses and  *)
(* kills in between.                                                       *)
THEOREM RowsCorrect == Spec => []OneStationPerRow
BY RowsAlways, PTL

(* Every row that is handled is marked in the table, and kept from the     *)
(* next poll.                                                              *)
THEOREM RowsAreMarked == Spec => []PipelineIsInFlight
BY RowsAlways, PTL

-----------------------------------------------------------------------------
(* The tasks of the downloads *)

(* The rows that wait for their download, from the table to the downloader. *)
Waiting == ready \cup Sent \cup limiter \cup Held

(* A row that waits for its download has no task, and neither has a link   *)
(* that is about to become a row.                                          *)
TasksInv ==
  /\ Waiting \cap DOMAIN tasks = {}
  /\ \A r \in DOMAIN tasks :
       r[2] <= run /\ (phase = "running" /\ r[2] = run => UrlOf(r) \in old \ found)
  /\ phase \in {"down", "dead"} => DOMAIN tasks = {}

LEMMA TasksInit == Init => TasksInv
BY DEF Init, TasksInv

(* A step by which no row begins to wait, and no task begins.              *)
LEMMA WaitingShrinks ==
  ASSUME TasksInv, Waiting' \subseteq Waiting, DOMAIN tasks' \subseteq DOMAIN tasks,
         run' = run, phase' \notin {"down", "dead"},
         phase' = "running" => phase = "running" /\ old \ found \subseteq old' \ found'
  PROVE  TasksInv'
BY DEF TasksInv

LEMMA FrontierTasksStep ==
  ASSUME TypeInv, RowsInv, TasksInv, FrontierNext PROVE TasksInv'
<1> USE DEF historyVars, jobVars, controlVars, frontierVars, storageVars, extractorVars
<1>1. UNCHANGED <<tasks, run, old, found>>
  BY DEF FrontierNext, FrontierQuery, FrontierMark, FrontierPollsAgain, FrontierExhausted,
    FrontierSend, Raise
<1>2. /\ phase \in {"running", "unwinding"} /\ phase' \in {"running", "unwinding"}
      /\ phase' = "running" => phase = "running"
  BY DEF FrontierNext, FrontierQuery, FrontierMark, FrontierPollsAgain, FrontierExhausted,
    FrontierSend, Raise
<1>3. Waiting' \subseteq Waiting
  <2>1. CASE FrontierQuery \/ FrontierPollsAgain \/ FrontierExhausted
    BY <2>1 DEF FrontierQuery, FrontierPollsAgain, FrontierExhausted, Waiting, Sent, Held
  <2>2. CASE FrontierMark
    BY <2>2 DEF FrontierMark, RowsInv, RowsAreApart, Waiting, Sent, Held
  <2>3. ASSUME NEW r \in Rows, FrontierSend(r) PROVE Waiting' \subseteq Waiting
    BY <2>3 DEF FrontierSend, Waiting, Sent, Held
  <2> QED
    BY <2>1, <2>2, <2>3 DEF FrontierNext
<1> QED
  BY <1>1, <1>2, <1>3, WaitingShrinks

LEMMA DownloaderTasksStep ==
  ASSUME TypeInv, RowsInv, TasksInv, DownloaderNext PROVE TasksInv'
<1> USE DEF historyVars, jobVars, controlVars, frontierVars, storageVars, extractorVars
<1>1. ASSUME StartDownload PROVE TasksInv'
  <2>1. Held = {held} /\ Held' = {} /\ held \in inFlight
    BY <1>1 DEF StartDownload, Held, RowsInv
  <2>2. held \notin ready \cup Sent \cup limiter
    BY <2>1 DEF RowsInv, RowsAreApart, Apart
  <2>3. UNCHANGED <<ready, Sent, limiter, run, phase, old, found>> /\ phase = "running"
    BY <1>1 DEF StartDownload, Sent
  <2>4. DOMAIN tasks' = DOMAIN tasks \cup {held}
    BY <1>1 DEF StartDownload
  <2>5. held[2] <= run /\ (held[2] = run => UrlOf(held) \in old \ found)
    BY <2>1, <2>3 DEF RowsInv, LinksAreNew
  <2>6. Waiting' \cap DOMAIN tasks' = {}
    BY <2>1, <2>2, <2>3, <2>4 DEF TasksInv, Waiting
  <2> QED
    BY <2>3, <2>4, <2>5, <2>6 DEF TasksInv
<1>2. ASSUME NEW r \in Rows, DownloaderReceive(r) PROVE TasksInv'
  <2>1. Waiting' \subseteq Waiting
    BY <1>2 DEF DownloaderReceive, Waiting, Sent, Held
  <2> QED
    BY <1>2, <2>1, WaitingShrinks DEF DownloaderReceive
<1>3. ASSUME NEW r \in Rows,
             FetchPage(r) \/ RejectMime(r) \/ SendReset(r) \/ FinishDownload(r)
      PROVE  TasksInv'
  <2>1. DOMAIN tasks' \subseteq DOMAIN tasks
    BY <1>3 DEF FetchPage, RejectMime, SendReset, FinishDownload, Restrict
  <2>2. /\ UNCHANGED <<Waiting, run, old, found>>
        /\ phase \in {"running", "unwinding"} /\ phase' \in {phase, "unwinding"}
    BY <1>3 DEF FetchPage, RejectMime, SendReset, FinishDownload, Raise, Waiting, Sent, Held
  <2> QED
    BY <2>1, <2>2, WaitingShrinks
<1> QED
  BY <1>1, <1>2, <1>3 DEF DownloaderNext

LEMMA LaterTasksStep ==
  ASSUME TypeInv, RowsInv, TasksInv, StorageNext \/ ExtractorNext PROVE TasksInv'
<1> USE DEF historyVars, jobVars, controlVars, frontierVars, storageVars, extractorVars
<1>1. ASSUME NEW r \in Rows, StorageReceive(r) PROVE TasksInv'
  BY <1>1, WaitingShrinks DEF StorageReceive, Waiting, Sent, Held
<1>2. ASSUME StorageSave \/ StorageCount \/ ExtractorReceive \/ RobotsStart \/ RobotsDone
             \/ ExtractDelete
      PROVE  TasksInv'
  <2>1. UNCHANGED <<Waiting, tasks, run, phase, old>> /\ phase = "running"
    BY <1>2 DEF StorageSave, StorageCount, ExtractorReceive, RobotsStart, RobotsDone,
      ExtractDelete, Waiting, Sent, Held
  <2>2. found' \subseteq found
    BY <1>2 DEF StorageSave, StorageCount, ExtractorReceive, RobotsStart, RobotsDone,
      ExtractDelete
  <2> QED
    BY <2>1, <2>2, WaitingShrinks
<1>3. ASSUME NEW u \in Urls, ExtractLink(u) \/ ExtractRaises(u) PROVE TasksInv'
  <2>1. UNCHANGED <<Waiting, tasks, run, phase>> /\ phase = "running"
    BY <1>3 DEF ExtractLink, ExtractRaises, Waiting, Sent, Held
  <2>2. old \ found \subseteq old' \ found'
    BY <1>3 DEF ExtractLink, ExtractRaises
  <2> QED
    BY <2>1, <2>2, WaitingShrinks
<1>4. ASSUME ExtractInsert PROVE TasksInv'
  <2>1. PICK some \in SUBSET found :
          /\ ready' = ready \cup {Row(u) : u \in some}
          /\ found' = found \ some
    BY <1>4 DEF ExtractInsert, kSubset
  <2>2. /\ phase = "running"
        /\ UNCHANGED <<Sent, limiter, Held, tasks, run, phase, old>>
    BY <1>4 DEF ExtractInsert, Sent, Held
  <2>3. \A u \in some : Row(u) \notin DOMAIN tasks
    BY <2>2 DEF TasksInv, Row, UrlOf
  <2>4. Waiting' \cap DOMAIN tasks' = {}
    BY <2>1, <2>2, <2>3 DEF TasksInv, Waiting
  <2> QED
    BY <2>1, <2>2, <2>4 DEF TasksInv
<1> QED
  BY <1>1, <1>2, <1>3, <1>4 DEF StorageNext, ExtractorNext

LEMMA EndTasksStep ==
  ASSUME TypeInv, RowsInv, TasksInv, EndNext \/ Pause \/ PauseJob \/ Resume \/ Restart
  PROVE  TasksInv'
<1> USE DEF historyVars, jobVars, frontierVars, storageVars, extractorVars
<1>1. ASSUME DurationElapses \/ Pause PROVE TasksInv'
  BY <1>1, WaitingShrinks DEF DurationElapses, Pause, Raise, Waiting, Sent, Held
<1>2. ASSUME Resume PROVE TasksInv'
  BY <1>2 DEF Resume, TasksInv
<1>3. ASSUME CompleteJob \/ EscapeJob \/ PauseJob \/ Restart PROVE TasksInv'
  <2>1. DOMAIN tasks' = {}
    BY <1>3 DEF CompleteJob, EscapeJob, PauseJob, Restart, DropTasks
  <2> QED
    BY <2>1 DEF TasksInv
<1> QED
  BY <1>1, <1>2, <1>3 DEF EndNext

LEMMA TasksStep == TypeInv /\ RowsInv /\ TasksInv /\ [Next]_vars => TasksInv'
<1> SUFFICES ASSUME TypeInv, RowsInv, TasksInv, [Next]_vars PROVE TasksInv'
  OBVIOUS
<1>1. CASE UNCHANGED vars
  BY <1>1 DEF TasksInv, Waiting, Sent, Held, vars, historyVars, jobVars, controlVars,
    frontierVars, storageVars, extractorVars
<1>2. CASE Next
  BY <1>2, FrontierTasksStep, DownloaderTasksStep, LaterTasksStep, EndTasksStep
    DEF Next, PauseNext, CrawlNext
<1> QED
  BY <1>1, <1>2

-----------------------------------------------------------------------------
(* The permits of a job that was never stopped *)

LEMMA PermitsKept ==
  ASSUME PermitsAreUsed, run' = run, phase' = "running" => phase = "running",
         phase' = "running" =>
           /\ DOMAIN tasks' = DOMAIN tasks /\ free' = free
           /\ extractor' = "fetchingRobots" <=> extractor = "fetchingRobots"
  PROVE  PermitsAreUsed'
BY DEF PermitsAreUsed

LEMMA UsedInit == Init => PermitsAreUsed
<1> SUFFICES ASSUME Init PROVE PermitsAreUsed
  OBVIOUS
<1>1. DOMAIN tasks = {} /\ Cardinality({}) = 0
  BY FS_EmptySet DEF Init
<1>2. free = Permits /\ Permits \in Nat /\ extractor = "idle"
  BY CrawlPipelineAssumption DEF Init
<1> QED
  BY <1>1, <1>2 DEF PermitsAreUsed

LEMMA UsedStep ==
  ASSUME TypeInv, TasksInv, PermitsAreUsed, [Next]_vars PROVE PermitsAreUsed'
<1> USE DEF historyVars, jobVars, controlVars, frontierVars, storageVars, extractorVars
<1>0. /\ IsFiniteSet(DOMAIN tasks) /\ Cardinality(DOMAIN tasks) \in Nat
      /\ free \in Nat /\ Permits \in Nat
  BY FS_CardinalityType, CrawlPipelineAssumption DEF TypeInv, TypeOK, PermitsAreCounted
<1>1. CASE FrontierNext
  BY <1>1, PermitsKept DEF FrontierNext, FrontierQuery, FrontierMark, FrontierPollsAgain,
    FrontierExhausted, FrontierSend, Raise
<1>2. CASE StartDownload
  <2>1. DOMAIN tasks' = DOMAIN tasks \cup {held} /\ held \notin DOMAIN tasks
    BY <1>2 DEF StartDownload, TasksInv, Waiting, Held
  <2>2. Cardinality(DOMAIN tasks') = Cardinality(DOMAIN tasks) + 1
    BY <1>0, <2>1, FS_AddElement
  <2> QED
    BY <1>0, <1>2, <2>2 DEF StartDownload, PermitsAreUsed
<1>3. ASSUME NEW r \in Rows,
             DownloaderReceive(r) \/ FetchPage(r) \/ RejectMime(r) \/ SendReset(r)
      PROVE  PermitsAreUsed'
  BY <1>3, PermitsKept DEF DownloaderReceive, FetchPage, RejectMime, SendReset
<1>4. ASSUME NEW r \in Rows, FinishDownload(r) PROVE PermitsAreUsed'
  <2>1. CASE phase' # "running"
    BY <2>1 DEF PermitsAreUsed
  <2>2. CASE phase' = "running"
    <3>1. phase = "running" /\ run' = run
      BY <1>4, <2>2 DEF FinishDownload, Raise
    <3>2. DOMAIN tasks' = DOMAIN tasks \ {r} /\ r \in DOMAIN tasks
      BY <1>4 DEF FinishDownload, Restrict
    <3>3. Cardinality(DOMAIN tasks') = Cardinality(DOMAIN tasks) - 1
      BY <1>0, <3>2, FS_RemoveElement
    <3> QED
      BY <1>0, <1>4, <3>1, <3>3 DEF FinishDownload, PermitsAreUsed
  <2> QED
    BY <2>1, <2>2
<1>5. CASE StorageNext
  BY <1>5, PermitsKept DEF StorageNext, StorageReceive, StorageSave, StorageCount
<1>6. CASE RobotsStart \/ RobotsDone
  BY <1>0, <1>6 DEF RobotsStart, RobotsDone, PermitsAreUsed
<1>7. ASSUME NEW u \in Urls, ExtractLink(u) \/ ExtractRaises(u) PROVE PermitsAreUsed'
  BY <1>7, PermitsKept DEF ExtractLink, ExtractRaises, Extracting
<1>8. CASE ExtractorReceive \/ ExtractInsert \/ ExtractDelete
  BY <1>8, PermitsKept DEF ExtractorReceive, ExtractInsert, ExtractDelete, Extracting
<1>9. CASE EndNext \/ Pause \/ PauseJob \/ Restart
  <2>1. phase' # "running"
    BY <1>9 DEF EndNext, DurationElapses, CompleteJob, EscapeJob, Pause, PauseJob, Restart,
      Raise
  <2> QED
    BY <2>1 DEF PermitsAreUsed
<1>10. CASE Resume
  <2>1. run' # 1
    BY <1>10 DEF Resume, TypeInv, TypeOK
  <2> QED
    BY <2>1 DEF PermitsAreUsed
<1>11. CASE UNCHANGED vars
  BY <1>11, PermitsKept DEF vars
<1> QED
  BY <1>1, <1>2, <1>3, <1>4, <1>5, <1>6, <1>7, <1>8, <1>9, <1>10, <1>11
    DEF Next, PauseNext, CrawlNext, DownloaderNext, ExtractorNext

(* No permit is lost by anything that a running job does: of the downloads *)
(* that end well, with an error or with a MIME type that the policy does   *)
(* not allow, and the fetches of robots.txt, each returns what it took.    *)
THEOREM PermitsUsedAlways == Spec => []PermitsAreUsed
<1> QED
  BY TypeInit, TypeStep, RowsInit, RowsStep, TasksInit, TasksStep, UsedInit, UsedStep, PTL
    DEF Spec

-----------------------------------------------------------------------------
(* The end of a run *)

(* A run has not raised anything before it is unwound.                     *)
EndInv == (phase = "running" => raised = <<>>) /\ ExhaustedMeansIdle

LEMMA HandledIs ==
  Handled = Sent \cup limiter \cup Held \cup Downloading \cup Stored \cup Extracted
BY SixStations DEF Handled, Stations, Held, Stored, Extracted

LEMMA HandledWillBe ==
  Handled' = (Sent \cup limiter \cup Held \cup Downloading \cup Stored \cup Extracted)'
BY SixStations DEF Handled, Stations, Held, Stored, Extracted

(* Which exceptions came is told by their number and the last of them.     *)
LEMMA OneException ==
  /\ <<>> # <<"exhausted">>
  /\ \A s \in Seq({"exhausted", "itemLimit", "duration"}) :
       \A e \in {"itemLimit", "duration"} : Append(s, e) # <<"exhausted">>
<1>1. Len(<<>>) = 0 /\ Len(<<"exhausted">>) = 1 /\ <<"exhausted">>[1] = "exhausted"
  OBVIOUS
<1>2. ASSUME NEW s \in Seq({"exhausted", "itemLimit", "duration"}),
             NEW e \in {"itemLimit", "duration"},
             Append(s, e) = <<"exhausted">>
      PROVE  FALSE
  <2>1. Len(Append(s, e)) = Len(s) + 1 /\ Len(s) \in Nat
    OBVIOUS
  <2>2. Append(s, e)[Len(s) + 1] = e /\ e # "exhausted"
    OBVIOUS
  <2>3. Len(s) = 0
    <3>1. Len(Append(s, e)) = Len(<<"exhausted">>)
      BY <1>2, Zenon
    <3>2. Len(s) + 1 = 1
      BY <3>1, <2>1, <1>1, Zenon
    <3> QED
      BY <3>2, <2>1
  <2> QED
    BY <1>1, <1>2, <2>2, <2>3
<1> QED
  BY <1>1, <1>2

LEMMA EndInit == Init => EndInv
BY DEF Init, EndInv, ExhaustedMeansIdle

LEMMA EndStep ==
  ASSUME TypeInv, RowsInv, EndInv, [Next]_vars PROVE EndInv'
<1> USE DEF historyVars, jobVars, controlVars, frontierVars, storageVars, extractorVars
<1>1. CASE phase = "running" /\ phase' = "running"
  <2>1. raised' = raised
    BY <1>1 DEF Next, PauseNext, CrawlNext, FrontierNext, FrontierQuery, FrontierMark,
      FrontierPollsAgain, FrontierExhausted, FrontierSend, DownloaderNext, StartDownload,
      DownloaderReceive, FetchPage, RejectMime, SendReset, FinishDownload, StorageNext,
      StorageReceive, StorageSave, StorageCount, ExtractorNext, ExtractorReceive,
      RobotsStart, RobotsDone, ExtractLink, ExtractRaises, ExtractInsert, ExtractDelete,
      EndNext, DurationElapses, CompleteJob, EscapeJob, Pause, PauseJob, Resume, Restart,
      Raise, vars
  <2> QED
    BY <1>1, <2>1 DEF EndInv, ExhaustedMeansIdle
<1>2. ASSUME FrontierExhausted PROVE EndInv'
  <2>1. Handled = {}
    BY <1>2, HandledIs DEF FrontierExhausted, RowsInv
  <2>2. Handled' = Handled
    BY <1>2, HandledIs, HandledWillBe DEF FrontierExhausted, Sent, Held, Downloading, Stored, Extracted
  <2>3. phase' = "unwinding"
    BY <1>2 DEF FrontierExhausted, Raise
  <2> QED
    BY <2>1, <2>2, <2>3 DEF EndInv, ExhaustedMeansIdle
<1>3. ASSUME NEW r \in Rows, FinishDownload(r), phase' = "unwinding" PROVE EndInv'
  <2>1. CASE MetItemLimit(items)
    <3>1. /\ raised' = Append(raised, "itemLimit")
          /\ raised \in Seq({"exhausted", "itemLimit", "duration"})
      BY <1>3, <2>1 DEF FinishDownload, Raise, TypeInv, TypeOK
    <3>2. raised' # <<"exhausted">>
      BY <3>1, OneException
    <3> QED
      BY <1>3, <3>2 DEF EndInv, ExhaustedMeansIdle
  <2>2. CASE ~MetItemLimit(items)
    <3>1. raised' = raised /\ phase = "unwinding"
      BY <1>3, <2>2 DEF FinishDownload
    <3>2. Downloading' \subseteq Downloading
      BY <1>3 DEF FinishDownload, Downloading, Restrict
    <3>3. Handled' \subseteq Handled
      BY <1>3, <3>2, HandledIs, HandledWillBe DEF FinishDownload, Sent, Held, Stored, Extracted
    <3> QED
      BY <1>3, <3>1, <3>3 DEF EndInv, ExhaustedMeansIdle
  <2> QED
    BY <2>1, <2>2
<1>4. ASSUME DurationElapses \/ Pause PROVE EndInv'
  <2>1. CASE DurationElapses
    <3>1. /\ raised' = Append(raised, "duration") /\ phase' = "unwinding"
          /\ raised \in Seq({"exhausted", "itemLimit", "duration"})
      BY <2>1 DEF DurationElapses, Raise, TypeInv, TypeOK
    <3>2. raised' # <<"exhausted">>
      BY <3>1, OneException
    <3> QED
      BY <3>1, <3>2 DEF EndInv, ExhaustedMeansIdle
  <2>2. CASE Pause
    <3>1. raised = <<>> /\ phase' = "unwinding" /\ raised' = raised
      BY <2>2 DEF Pause, EndInv
    <3> QED
      BY <3>1, OneException DEF EndInv, ExhaustedMeansIdle
  <2> QED
    BY <1>4, <2>1, <2>2
<1>5. ASSUME CompleteJob \/ EscapeJob \/ PauseJob \/ Restart PROVE EndInv'
  BY <1>5 DEF CompleteJob, EscapeJob, PauseJob, Restart, EndInv, ExhaustedMeansIdle
<1>6. ASSUME Resume PROVE EndInv'
  BY <1>6 DEF Resume, EndInv, ExhaustedMeansIdle
<1>7. ASSUME UNCHANGED vars PROVE EndInv'
  BY <1>7, HandledIs, HandledWillBe DEF EndInv, ExhaustedMeansIdle, vars, Sent, Held, Downloading, Stored,
    Extracted
<1>8. CASE phase' = phase /\ phase' \notin {"running", "unwinding"}
  BY <1>8 DEF EndInv, ExhaustedMeansIdle
<1> QED
  BY <1>1, <1>2, <1>3, <1>4, <1>5, <1>6, <1>7, <1>8
    DEF Next, PauseNext, CrawlNext, FrontierNext, FrontierQuery, FrontierMark,
      FrontierPollsAgain, FrontierSend, DownloaderNext, StartDownload,
      DownloaderReceive, FetchPage, RejectMime, SendReset, FinishDownload, StorageNext,
      StorageReceive, StorageSave, StorageCount, ExtractorNext, ExtractorReceive,
      RobotsStart, RobotsDone, ExtractLink, ExtractRaises, ExtractInsert, ExtractDelete,
      EndNext, Raise

(* A job that ends because its frontier is exhausted has nothing on the    *)
(* way that could still have been saved, whatever it was interrupted by.   *)
THEOREM ExhaustedIsIdle == Spec => []ExhaustedMeansIdle
<1>1. EndInv => ExhaustedMeansIdle
  BY DEF EndInv
<1> QED
  BY <1>1, TypeInit, TypeStep, RowsInit, RowsStep, EndInit, EndStep, PTL DEF Spec

-----------------------------------------------------------------------------
(* The item limit *)

(* The downloads that have been counted, or need not be.                   *)
Past == {r \in DOMAIN tasks : tasks[r] # "fetching"}

(* While the job runs, none has ended that saw the limit.                  *)
LimitInv ==
  maxItems # None /\ run = 1 =>
    /\ items < Most(maxItems, 1) + Permits
    /\ phase = "running" => items < Most(maxItems, 1) + Cardinality(Past)

LEMMA LimitInit == Init => LimitInv
<1> SUFFICES ASSUME Init, maxItems # None PROVE LimitInv
  BY DEF LimitInv
<1>1. Past = {} /\ Cardinality({}) = 0
  BY FS_EmptySet DEF Init, Past
<1>2. maxItems \in Nat /\ items = 0 /\ Permits \in Nat
  BY CrawlPipelineAssumption DEF Init
<1> QED
  BY <1>1, <1>2 DEF LimitInv, Most

(* What no step but the start of a download, its count and its end touch.  *)
LEMMA LimitKept ==
  ASSUME LimitInv, UNCHANGED <<maxItems, run, items>>,
         phase' = "running" => phase = "running" /\ Past' = Past
  PROVE  LimitInv'
BY DEF LimitInv

PastFacts ==
  /\ IsFiniteSet(Past) /\ Cardinality(Past) \in Nat
  /\ Cardinality(Past) <= Permits

LEMMA PastIsFinite == TypeInv => PastFacts
<1> SUFFICES ASSUME TypeInv PROVE PastFacts
  OBVIOUS
<1>1. Past \subseteq DOMAIN tasks /\ IsFiniteSet(DOMAIN tasks)
  BY DEF Past, TypeInv, PermitsAreCounted
<1>2. /\ IsFiniteSet(Past) /\ Cardinality(Past) \in Nat
      /\ Cardinality(Past) <= Cardinality(DOMAIN tasks)
      /\ Cardinality(DOMAIN tasks) \in Nat
  BY <1>1, FS_Subset, FS_CardinalityType
<1> QED
  BY <1>2, CrawlPipelineAssumption DEF TypeInv, TypeOK, PermitsAreCounted, PastFacts

LEMMA PastStaysFinite == TypeInv' => PastFacts'
BY PastIsFinite, PTL

LEMMA LimitStep ==
  ASSUME TypeInv, TypeInv', TasksInv, LimitInv, [Next]_vars PROVE LimitInv'
<1> USE DEF historyVars, jobVars, controlVars, frontierVars, storageVars, extractorVars
<1>0. /\ IsFiniteSet(Past) /\ Cardinality(Past) \in Nat
      /\ IsFiniteSet(Past') /\ Cardinality(Past') \in Nat /\ Cardinality(Past') <= Permits
      /\ Permits \in Nat /\ items \in Nat
      /\ maxItems # None =>
           Most(maxItems, 1) \in Nat /\ Most(maxItems, 1) > 0 /\ maxItems <= Most(maxItems, 1)
  <2>1. PastFacts /\ PastFacts'
    BY PastIsFinite, PastStaysFinite
  <2>2. items \in Nat /\ maxItems \in ItemLimits
    BY DEF TypeInv, TypeOK
  <2>3. Permits \in Nat /\ ItemLimits \subseteq Nat \cup {None}
    BY CrawlPipelineAssumption
  <2> QED
    BY <2>1, <2>2, <2>3 DEF PastFacts, Most
<1>1. CASE FrontierNext \/ ExtractorNext
  BY <1>1, LimitKept DEF FrontierNext, FrontierQuery, FrontierMark, FrontierPollsAgain,
    FrontierExhausted, FrontierSend, Raise, ExtractorNext, ExtractorReceive, RobotsStart,
    RobotsDone, ExtractLink, ExtractRaises, ExtractInsert, ExtractDelete, Past
<1>2. CASE StartDownload
  <2>1. held \notin DOMAIN tasks
    BY <1>2 DEF StartDownload, TasksInv, Waiting, Held
  <2>2. Past' = Past
    BY <1>2, <2>1 DEF StartDownload, Past
  <2> QED
    BY <1>2, <2>2, LimitKept DEF StartDownload
<1>3. ASSUME NEW r \in Rows, DownloaderReceive(r) \/ SendReset(r) \/ StorageReceive(r)
      PROVE  LimitInv'
  <2>1. Past' = Past
    BY <1>3 DEF DownloaderReceive, SendReset, StorageReceive, Past
  <2> QED
    BY <1>3, <2>1, LimitKept DEF DownloaderReceive, SendReset, StorageReceive
<1>4. ASSUME NEW r \in Rows, FetchPage(r) PROVE LimitInv'
  <2>1. Past' = Past \cup {r} /\ r \notin Past
    BY <1>4 DEF FetchPage, Past
  <2>2. Cardinality(Past') = Cardinality(Past) + 1
    BY <1>0, <2>1, FS_AddElement
  <2> QED
    BY <1>0, <1>4, <2>2 DEF FetchPage, LimitInv
<1>5. ASSUME NEW r \in Rows, RejectMime(r) PROVE LimitInv'
  <2>1. Past \subseteq Past'
    BY <1>5 DEF RejectMime, Past
  <2>2. Cardinality(Past) <= Cardinality(Past')
    BY <1>0, <2>1, FS_Subset
  <2> QED
    BY <1>0, <1>5, <2>2 DEF RejectMime, LimitInv
<1>6. ASSUME NEW r \in Rows, FinishDownload(r) PROVE LimitInv'
  <2>1. UNCHANGED <<maxItems, run, items>>
    BY <1>6 DEF FinishDownload, Raise
  <2>2. phase' = "running" => ~MetItemLimit(items)
    BY <1>6 DEF FinishDownload, Raise
  <2>3. maxItems # None /\ phase' = "running" => items < Most(maxItems, 1)
    BY <2>2, CrawlPipelineAssumption DEF MetItemLimit, Most, TypeInv, TypeOK
  <2> QED
    BY <1>0, <2>1, <2>3 DEF LimitInv
<1>7. CASE StorageSave \/ StorageCount
  BY <1>7, LimitKept DEF StorageSave, StorageCount, Past
<1>8. CASE DurationElapses \/ Pause
  BY <1>8, LimitKept DEF DurationElapses, Pause, Raise
<1>9. CASE CompleteJob \/ EscapeJob \/ PauseJob \/ Restart
  <2>1. items' = 0 /\ maxItems' = maxItems /\ phase' # "running"
    BY <1>9 DEF CompleteJob, EscapeJob, PauseJob, Restart, DropTasks
  <2> QED
    BY <1>0, <2>1 DEF LimitInv
<1>10. CASE Resume
  <2>1. run' # 1
    BY <1>10 DEF Resume, TypeInv, TypeOK
  <2> QED
    BY <2>1 DEF LimitInv
<1>11. CASE UNCHANGED vars
  BY <1>11, LimitKept DEF vars, Past
<1> QED
  BY <1>1, <1>2, <1>3, <1>4, <1>5, <1>6, <1>7, <1>8, <1>9, <1>10, <1>11
    DEF Next, PauseNext, CrawlNext, DownloaderNext, StorageNext, EndNext

(* The limit is seen at the end of a download, after its item was counted: *)
(* by then no more than the other permits' downloads have been counted, at *)
(* whatever limit and however many downloads run at once.                  *)
THEOREM LimitNoticedAlways == Spec => []LimitIsNoticed
<1>1. LimitInv => LimitIsNoticed
  BY DEF LimitInv, LimitIsNoticed
<1> QED
  BY <1>1, TypeInit, TypeStep, RowsInit, RowsStep, TasksInit, TasksStep, LimitInit, LimitStep,
    PTL DEF Spec

-----------------------------------------------------------------------------
(* A job that nobody interferes with *)

LEMMA BaseAlways == Spec => [](TypeInv /\ RowsInv /\ TasksInv)
BY TypeInit, TypeStep, RowsInit, RowsStep, TasksInit, TasksStep, PTL DEF Spec

LEMMA CrawlIsSpec == CrawlSpec => Spec
<1>1. [CrawlNext]_vars => [Next]_vars
  BY DEF Next, PauseNext
<1> QED
  BY <1>1, PTL DEF CrawlSpec, Spec

LEMMA CrawlNeverStarts == CrawlNext /\ phase' = "running" => phase = "running"
BY DEF CrawlNext, FrontierNext, FrontierQuery, FrontierMark, FrontierPollsAgain,
  FrontierExhausted, FrontierSend, DownloaderNext, StartDownload, DownloaderReceive,
  FetchPage, RejectMime, SendReset, FinishDownload, StorageNext, StorageReceive,
  StorageSave, StorageCount, ExtractorNext, ExtractorReceive, RobotsStart, RobotsDone,
  ExtractLink, ExtractRaises, ExtractInsert, ExtractDelete, EndNext, DurationElapses,
  CompleteJob, EscapeJob, Raise, controlVars

LEMMA InFlightInit == Init => InFlightIsInPipeline
BY DEF Init, InFlightIsInPipeline

LEMMA InFlightStep ==
  ASSUME Disallowed = {}, TypeInv, RowsInv, InFlightIsInPipeline, [CrawlNext]_vars
  PROVE  InFlightIsInPipeline'
<1> USE HandledIs, HandledWillBe
    DEF historyVars, jobVars, controlVars, frontierVars, storageVars, extractorVars
<1>0. SUFFICES ASSUME phase' = "running" PROVE inFlight' \subseteq Handled'
  BY DEF InFlightIsInPipeline
<1>1. phase = "running" /\ inFlight \subseteq Handled
  BY <1>0, CrawlNeverStarts DEF InFlightIsInPipeline, vars
<1>2. CASE FrontierQuery \/ FrontierPollsAgain \/ FrontierExhausted
  BY <1>1, <1>2 DEF FrontierQuery, FrontierPollsAgain, FrontierExhausted, Raise, Sent, Held,
    Downloading, Stored, Extracted
<1>3. CASE FrontierMark
  BY <1>1, <1>3 DEF FrontierMark, Sent, Held, Downloading, Stored, Extracted
<1>4. ASSUME NEW r \in Rows, FrontierSend(r) PROVE inFlight' \subseteq Handled'
  BY <1>1, <1>4 DEF FrontierSend, Sent, Held, Downloading, Stored, Extracted
<1>5. CASE StartDownload
  <2>1. Held = {held} /\ Downloading' = Downloading \cup {held}
    BY <1>5 DEF StartDownload, Held, Downloading
  <2>2. UNCHANGED <<inFlight, Sent, limiter, Stored, Extracted>>
    BY <1>5 DEF StartDownload, Sent, Stored, Extracted
  <2> QED
    BY <1>1, <2>1, <2>2
<1>6. ASSUME NEW r \in Rows, DownloaderReceive(r) PROVE inFlight' \subseteq Handled'
  <2>1. Held = {} /\ Held' = {r} /\ limiter' = limiter \ {r}
    BY <1>6, RowFacts DEF DownloaderReceive, Held
  <2>2. UNCHANGED <<inFlight, Sent, Downloading, Stored, Extracted>>
    BY <1>6 DEF DownloaderReceive, Sent, Downloading, Stored, Extracted
  <2> QED
    BY <1>1, <2>1, <2>2
<1>7. ASSUME NEW r \in Rows, FetchPage(r) \/ SendReset(r) \/ FinishDownload(r)
      PROVE  inFlight' \subseteq Handled'
  <2>1. Downloading' = Downloading
    <3>1. CASE FetchPage(r)
      BY <3>1 DEF FetchPage, Downloading
    <3>2. CASE SendReset(r)
      BY <3>2 DEF SendReset, Downloading
    <3>3. CASE FinishDownload(r)
      BY <3>3 DEF FinishDownload, Downloading, Restrict
    <3> QED
      BY <1>7, <3>1, <3>2, <3>3
  <2>2. UNCHANGED <<inFlight, Sent, limiter, Held, Stored, Extracted>>
    BY <1>7 DEF FetchPage, SendReset, FinishDownload, Sent, Held, Stored, Extracted
  <2> QED
    BY <1>1, <2>1, <2>2
<1>8. ASSUME NEW r \in Rows, RejectMime(r) PROVE FALSE
  BY <1>8 DEF RejectMime
<1>9. ASSUME NEW r \in Rows, StorageReceive(r) PROVE inFlight' \subseteq Handled'
  <2>1. Downloading' = Downloading \ {r} /\ Stored = {} /\ Stored' = {r}
    BY <1>9, RowFacts DEF StorageReceive, Downloading, Stored, TypeInv, IdleTasksHoldNothing
  <2>2. UNCHANGED <<inFlight, Sent, limiter, Held, Extracted>>
    BY <1>9 DEF StorageReceive, Sent, Held, Extracted
  <2> QED
    BY <1>1, <2>1, <2>2
<1>10. CASE ExtractorReceive
  <2>1. Extracted = {} /\ Extracted' = Stored
    BY <1>10 DEF ExtractorReceive, Stored, Extracted, TypeInv, IdleTasksHoldNothing
  <2>2. UNCHANGED <<inFlight, Sent, limiter, Held, Downloading>>
    BY <1>10 DEF ExtractorReceive, Sent, Held, Downloading
  <2> QED
    BY <1>1, <2>1, <2>2
<1>11. CASE ExtractDelete
  <2>1. inFlight' = inFlight \ Extracted
    BY <1>11 DEF ExtractDelete, Extracted, TypeInv, IdleTasksHoldNothing
  <2>2. UNCHANGED <<Sent, limiter, Held, Downloading, Stored>>
    BY <1>11 DEF ExtractDelete, Sent, Held, Downloading, Stored
  <2> QED
    BY <1>1, <2>1, <2>2
<1>12. ASSUME \/ StorageSave \/ StorageCount \/ RobotsStart \/ RobotsDone \/ ExtractInsert
              \/ \E u \in Urls : ExtractLink(u) \/ ExtractRaises(u)
              \/ UNCHANGED vars
       PROVE  inFlight' \subseteq Handled'
  BY <1>1, <1>12 DEF StorageSave, StorageCount, RobotsStart, RobotsDone, ExtractInsert,
    ExtractLink, ExtractRaises, vars, Sent, Held, Downloading, Stored, Extracted
<1>13. CASE EndNext
  BY <1>0, <1>13 DEF EndNext, DurationElapses, CompleteJob, EscapeJob, Raise
<1> QED
  BY <1>2, <1>3, <1>4, <1>5, <1>6, <1>7, <1>8, <1>9, <1>10, <1>11, <1>12, <1>13
    DEF CrawlNext, FrontierNext, DownloaderNext, StorageNext, ExtractorNext

(* If the policy downloads every MIME type, a row is marked only while one *)
(* of the tasks has it, so that the frontier, which asks the table whether *)
(* any row is marked, does not wait for a row that nobody will delete.     *)
THEOREM InFlightCorrect ==
  ASSUME Disallowed = {} PROVE CrawlSpec => []InFlightIsInPipeline
<1>1. TypeInv /\ RowsInv /\ InFlightIsInPipeline /\ [CrawlNext]_vars => InFlightIsInPipeline'
  BY InFlightStep
<1>2. CrawlSpec => [](TypeInv /\ RowsInv)
  BY BaseAlways, CrawlIsSpec, PTL
<1> QED
  BY <1>1, <1>2, InFlightInit, PTL DEF CrawlSpec

-----------------------------------------------------------------------------
(* The counts of items *)

(* The items on the way to the database.                                   *)
Responding == {r \in DOMAIN tasks : tasks[r] = "responding"}

ItemsInv == IsFiniteSet(Documents) /\ ItemsAreCounted

LEMMA DocumentIs ==
  \A d : d \in Documents <=> \E r \in Rows : \E n \in 1..responses[r] : d = <<r, n>>
BY DEF Documents

LEMMA DocumentWillBe ==
  \A d : d \in Documents' <=> \E r \in Rows : \E n \in 1..responses'[r] : d = <<r, n>>
BY DEF Documents

LEMMA OneMoreDocument ==
  ASSUME responses \in [Rows -> Nat], NEW v \in Rows, IsFiniteSet(Documents),
         responses' = [responses EXCEPT ![v] = @ + 1]
  PROVE  /\ IsFiniteSet(Documents')
         /\ Cardinality(Documents') = Cardinality(Documents) + 1
<1> DEFINE new == <<v, responses[v] + 1>>
<1>1. new \notin Documents
  BY DocumentIs
<1>2. \A r \in Rows : responses'[r] = IF r = v THEN responses[v] + 1 ELSE responses[r]
  OBVIOUS
<1>3. 1..(responses[v] + 1) = 1..responses[v] \cup {responses[v] + 1}
  OBVIOUS
<1>4. Documents' = Documents \cup {new}
  BY <1>2, <1>3, DocumentIs, DocumentWillBe
<1> HIDE DEF new
<1> QED
  BY <1>1, <1>4, FS_AddElement

LEMMA ItemsInit == Init => ItemsInv
<1> SUFFICES ASSUME Init PROVE ItemsInv
  OBVIOUS
<1>1. Documents = {}
  BY DocumentIs DEF Init
<1>2. {r \in DOMAIN tasks : tasks[r] = "responding"} = {}
  BY DEF Init
<1>3. IsFiniteSet({}) /\ Cardinality({}) = 0
  BY FS_EmptySet
<1> QED
  BY <1>1, <1>2, <1>3 DEF Init, ItemsInv, ItemsAreCounted

(* What the steps elsewhere leave as it is.                                *)
LEMMA ItemsKept ==
  ASSUME ItemsInv, phase = "running",
         UNCHANGED <<itemCount, items, responses, Responding>>,
         storage' = "counting" <=> storage = "counting",
         storage' = "saving" <=> storage = "saving"
  PROVE  ItemsInv'
BY DEF ItemsInv, ItemsAreCounted, Documents, Responding

LEMMA ItemsStep ==
  ASSUME TypeInv, TasksInv, ItemsInv, [CrawlNext]_vars PROVE ItemsInv'
<1> USE DEF historyVars, jobVars, controlVars, frontierVars, storageVars, extractorVars
<1>0. /\ IsFiniteSet(Documents) /\ Cardinality(Documents) \in Nat
      /\ IsFiniteSet(Responding) /\ Cardinality(Responding) \in Nat
      /\ items \in Nat /\ itemCount \in Nat
  <2>1. Responding \subseteq DOMAIN tasks /\ IsFiniteSet(DOMAIN tasks)
    BY DEF Responding, TypeInv, PermitsAreCounted
  <2> QED
    BY <2>1, FS_Subset, FS_CardinalityType DEF ItemsInv, TypeInv, TypeOK
<1>1. CASE UNCHANGED vars
  BY <1>1 DEF vars, ItemsInv, ItemsAreCounted, Documents
<1>2. CASE phase' # "running"
  <2>1. CASE responses' = responses
    BY <1>2, <2>1 DEF ItemsInv, ItemsAreCounted, Documents
  <2>2. CASE StorageSave
    BY <1>2, <2>2 DEF StorageSave
  <2> QED
    BY <2>1, <2>2 DEF CrawlNext, FrontierNext, FrontierQuery, FrontierMark,
      FrontierPollsAgain, FrontierExhausted, FrontierSend, DownloaderNext, StartDownload,
      DownloaderReceive, FetchPage, RejectMime, SendReset, FinishDownload, StorageNext,
      StorageReceive, StorageCount, ExtractorNext, ExtractorReceive, RobotsStart, RobotsDone,
      ExtractLink, ExtractRaises, ExtractInsert, ExtractDelete, EndNext, DurationElapses,
      CompleteJob, EscapeJob, vars
<1>3. CASE FrontierNext /\ phase' = "running"
  BY <1>3, ItemsKept DEF FrontierNext, FrontierQuery, FrontierMark,
    FrontierPollsAgain, FrontierExhausted, FrontierSend, Raise, Responding
<1>4. CASE StartDownload
  <2>1. Responding' = Responding
    BY <1>4 DEF StartDownload, TasksInv, Waiting, Held, Responding
  <2> QED
    BY <1>4, <2>1, ItemsKept DEF StartDownload
<1>5. ASSUME NEW r \in Rows, FetchPage(r) PROVE ItemsInv'
  <2>1. Responding' = Responding \cup {r} /\ r \notin Responding
    BY <1>5 DEF FetchPage, Responding
  <2>2. Cardinality(Responding') = Cardinality(Responding) + 1
    BY <1>0, <2>1, FS_AddElement
  <2> QED
    BY <1>0, <1>5, <2>2 DEF FetchPage, ItemsInv, ItemsAreCounted, Documents, Responding
<1>6. ASSUME NEW r \in Rows, phase' = "running",
             DownloaderReceive(r) \/ RejectMime(r) \/ SendReset(r) \/ FinishDownload(r)
      PROVE  ItemsInv'
  <2>1. Responding' = Responding
    BY <1>6 DEF DownloaderReceive, RejectMime, SendReset, FinishDownload, Responding, Restrict
  <2> QED
    BY <1>6, <2>1, ItemsKept DEF DownloaderReceive, RejectMime, SendReset, FinishDownload,
      Raise
<1>7. ASSUME NEW r \in Rows, StorageReceive(r) PROVE ItemsInv'
  <2>1. Responding' = Responding \ {r} /\ r \in Responding
    BY <1>7 DEF StorageReceive, Responding
  <2>2. Cardinality(Responding') = Cardinality(Responding) - 1
    BY <1>0, <2>1, FS_RemoveElement
  <2> QED
    BY <1>0, <1>7, <2>2 DEF StorageReceive, ItemsInv, ItemsAreCounted, Documents, Responding
<1>8. CASE StorageSave
  <2>1. stored \in Rows /\ responses \in [Rows -> Nat]
    BY <1>8 DEF StorageSave, TypeInv, TypeOK, IdleTasksHoldNothing
  <2>2. /\ IsFiniteSet(Documents')
        /\ Cardinality(Documents') = Cardinality(Documents) + 1
    BY <1>0, <1>8, <2>1, OneMoreDocument DEF StorageSave
  <2> QED
    BY <1>0, <1>8, <2>2 DEF StorageSave, ItemsInv, ItemsAreCounted, Responding
<1>9. CASE StorageCount
  BY <1>0, <1>9 DEF StorageCount, ItemsInv, ItemsAreCounted, Documents, Responding
<1>10. CASE ExtractorNext
  BY <1>10, ItemsKept DEF ExtractorNext, ExtractorReceive, RobotsStart, RobotsDone,
      ExtractLink, ExtractRaises, ExtractInsert, ExtractDelete, Responding
<1>11. CASE EndNext /\ phase' = "running"
  BY <1>11 DEF EndNext, DurationElapses, CompleteJob, EscapeJob, Raise
<1> QED
  BY <1>1, <1>2, <1>3, <1>4, <1>5, <1>6, <1>7, <1>8, <1>9, <1>10, <1>11
    DEF CrawlNext, DownloaderNext, StorageNext

(* At every step the job's item_count is the number of its documents, and  *)
(* the count that the limit is compared with is ahead of it by the items   *)
(* on the way, however many downloads finish while an item is saved.       *)
THEOREM ItemsCorrect == CrawlSpec => []ItemsAreCounted
<1>1. ItemsInv => ItemsAreCounted
  BY DEF ItemsInv
<1>2. CrawlSpec => [](TypeInv /\ TasksInv)
  BY BaseAlways, CrawlIsSpec, PTL
<1> QED
  BY <1>1, <1>2, ItemsInit, ItemsStep, PTL DEF CrawlSpec

-----------------------------------------------------------------------------
(* One download for each URL *)

(* The rows whose response has not been saved.                             *)
Unsaved == Waiting \cup Downloading \cup (IF storage = "saving" THEN Stored ELSE {})

(* The rows in the table and those that a document comes from, the URLs of *)
(* both, and those that are remembered by the extractor, or by the table   *)
(* while the job is paused.                                                *)
Known  == ready \cup inFlight \cup {r \in Rows : responses[r] > 0}
Seen   == {u \in Urls : HasRow(u) \/ HasDocument(u)}
Memory == IF phase \in {"running", "unwinding"} THEN old \ found ELSE savedOld

(* No run saves a second response for a row, over all kills: ...           *)
RunsInv ==
  /\ \A r \in Rows : responses[r] > 0 =>
       /\ responses[r] <= run - r[2] + 1
       /\ phase = "running" /\ r[2] = run => UrlOf(r) \in old \ found
  /\ phase \in {"running", "unwinding"} =>
       \A r \in Unsaved : responses[r] <= run - r[2]

(* ... and without kills no URL gets a second row, unless both are seeds.  *)
OnceInv ==
  ~killed =>
    /\ \A r \in Rows : responses[r] <= 1
    /\ \A r, s \in Known : UrlOf(r) = UrlOf(s) => r = s \/ (IsSeed(r) /\ IsSeed(s))
    /\ \A r \in Unsaved : responses[r] = 0
    /\ phase \in {"running", "unwinding"} => runState = "running"
    /\ phase \in {"running", "unwinding"} \/ runState = "paused" => Seen \subseteq Memory
    /\ runState = "paused" => savedOld # None

DownloadsInv == RunsInv /\ OnceInv

LEMMA KnownIsSeen == TypeInv => \A r \in Known : UrlOf(r) \in Seen
BY RowFacts DEF Known, Seen, HasRow, HasDocument, TypeInv, TypeOK

LEMMA UnsavedInTable == TypeInv /\ RowsInv => Unsaved \subseteq ready \cup inFlight
BY DEF Unsaved, Waiting, RowsInv

LEMMA OnceInit == Init => DownloadsInv
<1> SUFFICES ASSUME Init PROVE DownloadsInv
  OBVIOUS
<1>1. /\ ready = SeedRows /\ inFlight = {} /\ SeedRows \subseteq Rows
      /\ \A r \in Rows : responses[r] = 0
      /\ \A r \in SeedRows : UrlOf(r) \in Range(Seeds) /\ r[2] = 1 /\ IsSeed(r)
  BY SeedFacts DEF Init
<1>2. Unsaved = SeedRows /\ Known = SeedRows
  BY <1>1 DEF Init, Unsaved, Waiting, Sent, Held, Downloading, Known
<1>3. Seen \subseteq Memory
  BY <1>1 DEF Init, Seen, HasRow, HasDocument, Memory
<1>4. RunsInv
  BY <1>1, <1>2 DEF Init, RunsInv
<1>5. OnceInv
  BY <1>1, <1>2, <1>3 DEF Init, OnceInv
<1> QED
  BY <1>4, <1>5 DEF DownloadsInv

(* A step by which no row is new, and nothing is forgotten.                *)
LEMMA OnceKept ==
  ASSUME DownloadsInv, UNCHANGED <<killed, responses, runState, savedOld, run>>,
         ready' \cup inFlight' \subseteq ready \cup inFlight,
         Unsaved' \subseteq Unsaved,
         phase \in {"running", "unwinding"}, phase' \in {"running", "unwinding"},
         phase' = "running" => phase = "running",
         old \ found \subseteq old' \ found'
  PROVE  DownloadsInv'
<1>1. RunsInv'
  BY DEF DownloadsInv, RunsInv
<1>2. ASSUME ~killed PROVE OnceInv'
  <2>1. Seen' \subseteq Seen /\ Known' \subseteq Known
    BY DEF Seen, HasRow, HasDocument, Known
  <2>2. Seen' \subseteq Memory'
    BY <1>2, <2>1 DEF DownloadsInv, OnceInv, Memory
  <2> QED
    BY <1>2, <2>1, <2>2 DEF DownloadsInv, OnceInv
<1> QED
  BY <1>1, <1>2 DEF DownloadsInv, OnceInv

LEMMA FrontierOnceStep ==
  ASSUME TypeInv, RowsInv, DownloadsInv, FrontierNext PROVE DownloadsInv'
<1> USE DEF historyVars, jobVars, controlVars, frontierVars, storageVars, extractorVars
<1>1. UNCHANGED <<killed, responses, runState, savedOld, run, old, found, Downloading, Stored,
                  storage>>
  BY DEF FrontierNext, FrontierQuery, FrontierMark, FrontierPollsAgain, FrontierExhausted,
    FrontierSend, Raise, Downloading, Stored
<1>2. /\ phase \in {"running", "unwinding"} /\ phase' \in {"running", "unwinding"}
      /\ phase' = "running" => phase = "running"
  BY DEF FrontierNext, FrontierQuery, FrontierMark, FrontierPollsAgain, FrontierExhausted,
    FrontierSend, Raise
<1>3. Waiting' \subseteq Waiting
  <2>1. CASE FrontierQuery \/ FrontierPollsAgain \/ FrontierExhausted
    BY <2>1 DEF FrontierQuery, FrontierPollsAgain, FrontierExhausted, Waiting, Sent, Held
  <2>2. CASE FrontierMark
    BY <2>2 DEF FrontierMark, RowsInv, RowsAreApart, Waiting, Sent, Held
  <2>3. ASSUME NEW r \in Rows, FrontierSend(r) PROVE Waiting' \subseteq Waiting
    BY <2>3 DEF FrontierSend, Waiting, Sent, Held
  <2> QED
    BY <2>1, <2>2, <2>3 DEF FrontierNext
<1>4. ready' \cup inFlight' \subseteq ready \cup inFlight
  BY DEF FrontierNext, FrontierQuery, FrontierMark, FrontierPollsAgain, FrontierExhausted,
    FrontierSend, RowsInv, RowsAreApart
<1> QED
  BY <1>1, <1>2, <1>3, <1>4, OnceKept DEF Unsaved

LEMMA DownloaderOnceStep ==
  ASSUME TypeInv, RowsInv, DownloadsInv, DownloaderNext \/ \E r \in Rows : StorageReceive(r)
  PROVE  DownloadsInv'
<1> USE DEF historyVars, jobVars, controlVars, frontierVars, storageVars, extractorVars
<1>1. /\ UNCHANGED <<killed, responses, runState, savedOld, run, ready, inFlight, old, found>>
      /\ phase \in {"running", "unwinding"} /\ phase' \in {"running", "unwinding"}
      /\ phase' = "running" => phase = "running"
  BY DEF DownloaderNext, StartDownload, DownloaderReceive, FetchPage, RejectMime, SendReset,
    FinishDownload, StorageReceive, Raise
<1>2. Unsaved' \subseteq Unsaved
  <2>1. CASE StartDownload
    BY <2>1 DEF StartDownload, Unsaved, Waiting, Sent, Held, Downloading, Stored
  <2>2. ASSUME NEW r \in Rows, DownloaderReceive(r) PROVE Unsaved' \subseteq Unsaved
    BY <2>2 DEF DownloaderReceive, Unsaved, Waiting, Sent, Held, Downloading, Stored
  <2>3. ASSUME NEW r \in Rows, FetchPage(r) \/ RejectMime(r) \/ SendReset(r)
        PROVE  Unsaved' \subseteq Unsaved
    BY <2>3 DEF FetchPage, RejectMime, SendReset, Unsaved, Waiting, Sent, Held, Downloading,
      Stored
  <2>4. ASSUME NEW r \in Rows, FinishDownload(r) PROVE Unsaved' \subseteq Unsaved
    BY <2>4 DEF FinishDownload, Unsaved, Waiting, Sent, Held, Downloading, Stored, Restrict
  <2>5. ASSUME NEW r \in Rows, StorageReceive(r) PROVE Unsaved' \subseteq Unsaved
    <3>1. r \in Downloading /\ Downloading' = Downloading \ {r} /\ Stored' \subseteq {r}
      BY <2>5 DEF StorageReceive, Downloading, Stored
    <3>2. Waiting' = Waiting
      BY <2>5 DEF StorageReceive, Waiting, Sent, Held
    <3> QED
      BY <3>1, <3>2 DEF Unsaved
  <2> QED
    BY <2>1, <2>2, <2>3, <2>4, <2>5 DEF DownloaderNext
<1> QED
  BY <1>1, <1>2, OnceKept

LEMMA SaveOnceStep ==
  ASSUME TypeInv, RowsInv, DownloadsInv, StorageSave PROVE DownloadsInv'
<1> USE DEF historyVars, jobVars, controlVars, frontierVars, storageVars, extractorVars
<1>1. /\ stored \in Rows /\ Stored = {stored} /\ stored \in inFlight /\ stored \in Unsaved
      /\ phase = "running" /\ run \in Nat /\ stored[2] \in Nat /\ stored[2] <= run
  BY RowFacts, CrawlPipelineAssumption DEF StorageSave, Stored, Unsaved, TypeInv, TypeOK,
    IdleTasksHoldNothing, RowsInv, LinksAreNew
<1>2. /\ responses \in [Rows -> Nat]
      /\ \A r \in Rows : responses'[r] = IF r = stored THEN responses[r] + 1 ELSE responses[r]
  BY <1>1 DEF StorageSave, TypeInv, TypeOK
<1>3. UNCHANGED <<killed, ready, inFlight, phase, run, runState, savedOld, old, found>>
  BY DEF StorageSave
<1>4. Unsaved' \subseteq Unsaved \ {stored}
  BY <1>1 DEF StorageSave, Unsaved, Waiting, Sent, Held, Downloading, Stored, RowsInv,
    RowsAreApart, Apart
<1>5. Unsaved \subseteq Rows
  BY UnsavedInTable DEF TypeInv, TypeOK
<1>6. RunsInv'
  <2>1. responses[stored] <= run - stored[2]
    BY <1>1 DEF DownloadsInv, RunsInv
  <2>2. stored[2] = run => UrlOf(stored) \in old \ found
    BY <1>1 DEF RowsInv, LinksAreNew
  <2>3. ASSUME NEW r \in Rows, responses'[r] > 0
        PROVE  /\ responses'[r] <= run - r[2] + 1
               /\ phase = "running" /\ r[2] = run => UrlOf(r) \in old \ found
    <3>1. CASE r = stored
      BY <1>1, <1>2, <2>1, <2>2, <3>1
    <3>2. CASE r # stored
      BY <1>2, <2>3, <3>2 DEF DownloadsInv, RunsInv
    <3> QED
      BY <3>1, <3>2
  <2>4. ASSUME NEW r \in Unsaved' PROVE responses'[r] <= run - r[2]
    BY <1>1, <1>2, <1>4, <1>5 DEF DownloadsInv, RunsInv
  <2> QED
    BY <1>3, <2>3, <2>4 DEF RunsInv
<1>7. ASSUME ~killed PROVE OnceInv'
  <2>1. responses[stored] = 0 /\ \A r \in Rows : responses'[r] <= 1
    BY <1>1, <1>2, <1>7 DEF DownloadsInv, OnceInv
  <2>2. Known' = Known
    BY <1>1, <1>2, <1>3 DEF Known
  <2>3. Seen' = Seen
    <3>1. \A u : HasRow(u)' = HasRow(u)
      BY <1>3 DEF HasRow
    <3>2. \A u : HasDocument(u)' <=> HasDocument(u) \/ u = UrlOf(stored)
      <4>1. \A r \in Rows : responses'[r] > 0 <=> responses[r] > 0 \/ r = stored
        BY <1>1, <1>2
      <4> QED
        BY <1>1, <4>1 DEF HasDocument
    <3>3. HasRow(UrlOf(stored))
      BY <1>1 DEF HasRow
    <3> QED
      BY <3>1, <3>2, <3>3 DEF Seen
  <2>4. \A r \in Unsaved' : responses'[r] = 0
    BY <1>2, <1>4, <1>5, <1>7 DEF DownloadsInv, OnceInv
  <2> QED
    BY <1>3, <1>7, <2>1, <2>2, <2>3, <2>4 DEF DownloadsInv, OnceInv, Memory
<1> QED
  BY <1>3, <1>6, <1>7 DEF DownloadsInv, OnceInv

LEMMA InsertOnceStep ==
  ASSUME TypeInv, RowsInv, DownloadsInv, ExtractInsert PROVE DownloadsInv'
<1> USE DEF historyVars, jobVars, controlVars, frontierVars, storageVars, extractorVars
<1>1. PICK some \in SUBSET found :
        /\ ready' = ready \cup {Row(u) : u \in some}
        /\ found' = found \ some
  BY DEF ExtractInsert, kSubset
<1>2. /\ phase = "running" /\ some \subseteq Urls /\ some \subseteq old
      /\ run \in 1..MaxRuns /\ run \in Nat
      /\ responses \in [Rows -> Nat]
      /\ UNCHANGED <<killed, responses, inFlight, phase, run, runState, savedOld, old>>
  BY CrawlPipelineAssumption DEF ExtractInsert, TypeInv, TypeOK, RowsInv, LinksAreNew
<1>3. \A u \in some : /\ Row(u) \in Rows /\ UrlOf(Row(u)) = u /\ Row(u)[2] = run
                      /\ u \notin old \ found
  BY <1>2, RowFacts
<1>4. Unsaved' \subseteq Unsaved \cup {Row(u) : u \in some}
  BY <1>1 DEF ExtractInsert, Unsaved, Waiting, Sent, Held, Downloading, Stored
<1>5. \A u \in some : responses[Row(u)] = 0
  BY <1>2, <1>3 DEF DownloadsInv, RunsInv
<1>6. RunsInv'
  <2>1. \A r \in Unsaved' : responses'[r] <= run - r[2]
    BY <1>2, <1>3, <1>4, <1>5 DEF DownloadsInv, RunsInv
  <2> QED
    BY <1>1, <1>2, <2>1 DEF DownloadsInv, RunsInv
<1>7. ASSUME ~killed PROVE OnceInv'
  <2>1. Seen \subseteq old \ found
    BY <1>2, <1>7 DEF DownloadsInv, OnceInv, Memory
  <2>2. \A r \in Known : UrlOf(r) \notin some
    BY <1>3, <2>1, KnownIsSeen
  <2>3. Known' = Known \cup {Row(u) : u \in some}
    BY <1>1, <1>2 DEF Known
  <2>4. \A r, s \in Known' : UrlOf(r) = UrlOf(s) => r = s \/ (IsSeed(r) /\ IsSeed(s))
    <3>1. TAKE r, s \in Known'
    <3>2. CASE r \in Known /\ s \in Known
      BY <1>7, <3>2 DEF DownloadsInv, OnceInv
    <3>3. ASSUME NEW u \in some, r = Row(u) PROVE UrlOf(r) = UrlOf(s) => r = s
      BY <1>3, <2>2, <2>3, <3>3
    <3>4. ASSUME NEW u \in some, s = Row(u) PROVE UrlOf(r) = UrlOf(s) => r = s
      BY <1>3, <2>2, <2>3, <3>4
    <3> QED
      BY <2>3, <3>2, <3>3, <3>4
  <2>5. \A r \in Unsaved' : responses'[r] = 0
    BY <1>2, <1>4, <1>5, <1>7 DEF DownloadsInv, OnceInv
  <2>6. Seen' \subseteq Seen \cup some
    BY <1>1, <1>2, <1>3 DEF Seen, HasRow, HasDocument
  <2>7. Seen' \subseteq Memory'
    BY <1>1, <1>2, <2>1, <2>6 DEF Memory
  <2> QED
    BY <1>2, <1>7, <2>4, <2>5, <2>7 DEF DownloadsInv, OnceInv
<1> QED
  BY <1>2, <1>6, <1>7 DEF DownloadsInv, OnceInv

LEMMA LaterOnceStep ==
  ASSUME TypeInv, RowsInv, DownloadsInv,
         StorageCount \/ ExtractorReceive \/ RobotsStart \/ RobotsDone \/ ExtractDelete
           \/ \E u \in Urls : ExtractLink(u) \/ ExtractRaises(u)
  PROVE  DownloadsInv'
<1> USE DEF historyVars, jobVars, controlVars, frontierVars, storageVars, extractorVars
<1>1. /\ UNCHANGED <<killed, responses, runState, savedOld, run, ready, phase>>
      /\ phase = "running" /\ inFlight' \subseteq inFlight
  BY DEF StorageCount, ExtractorReceive, RobotsStart, RobotsDone, ExtractDelete, ExtractLink,
    ExtractRaises
<1>2. Waiting' = Waiting /\ Downloading' = Downloading
  BY DEF StorageCount, ExtractorReceive, RobotsStart, RobotsDone, ExtractDelete, ExtractLink,
    ExtractRaises, Waiting, Sent, Held, Downloading
<1>3. storage' = "saving" => storage = "saving" /\ Stored' = Stored
  BY DEF StorageCount, ExtractorReceive, RobotsStart, RobotsDone, ExtractDelete, ExtractLink,
    ExtractRaises, Stored
<1>4. old \ found \subseteq old' \ found'
  BY DEF StorageCount, ExtractorReceive, RobotsStart, RobotsDone, ExtractDelete, ExtractLink,
    ExtractRaises
<1> QED
  BY <1>1, <1>2, <1>3, <1>4, OnceKept DEF Unsaved

LEMMA EndOnceStep ==
  ASSUME TypeInv, RowsInv, DownloadsInv, EndNext \/ Pause \/ PauseJob \/ Resume \/ Restart
  PROVE  DownloadsInv'
<1> USE DEF historyVars, jobVars, frontierVars, storageVars, extractorVars
<1>1. ASSUME DurationElapses \/ Pause PROVE DownloadsInv'
  BY <1>1, OnceKept DEF DurationElapses, Pause, Raise, Unsaved, Waiting, Sent, Held,
    Downloading, Stored
<1>2. ASSUME CompleteJob \/ EscapeJob \/ PauseJob \/ Restart PROVE RunsInv'
  <2>1. phase' \in {"down", "dead"} /\ UNCHANGED <<run, responses>>
    BY <1>2 DEF CompleteJob, EscapeJob, PauseJob, Restart
  <2> QED
    BY <2>1 DEF DownloadsInv, RunsInv
<1>3. ASSUME Resume PROVE RunsInv'
  <2>1. /\ run' = run + 1 /\ run \in Nat
        /\ Unsaved' = Unsaved /\ UNCHANGED responses
        /\ responses \in [Rows -> Nat]
    BY <1>3, CrawlPipelineAssumption DEF Resume, Unsaved, Waiting, Sent, Held, Downloading,
      Stored, TypeInv, TypeOK
  <2>2. \A r \in Rows : r[2] \in Nat
    BY RowFacts, CrawlPipelineAssumption
  <2>3. \A r \in Unsaved : r \in Rows /\ r[2] <= run
    BY UnsavedInTable DEF TypeInv, TypeOK, RowsInv, LinksAreNew
  <2>4. \A r \in Rows : responses[r] > 0 => responses[r] <= run - r[2] + 1
    BY DEF DownloadsInv, RunsInv
  <2>5. ASSUME NEW r \in Rows, responses'[r] > 0
        PROVE  responses'[r] <= run' - r[2] + 1 /\ r[2] # run'
    BY <2>1, <2>2, <2>4, <2>5
  <2>6. ASSUME NEW r \in Unsaved' PROVE responses'[r] <= run' - r[2]
    <3>1. r \in Rows /\ r[2] <= run /\ r[2] \in Nat /\ responses[r] \in Nat
      BY <2>1, <2>2, <2>3
    <3> QED
      BY <2>1, <2>4, <3>1
  <2> QED
    BY <2>5, <2>6 DEF RunsInv
<1>4. ASSUME Restart PROVE OnceInv'
  BY <1>4 DEF Restart, OnceInv
<1>5. ASSUME CompleteJob \/ EscapeJob \/ PauseJob, ~killed PROVE OnceInv'
  <2>1. /\ Unsaved' = ready' /\ phase' \in {"down", "dead"}
        /\ UNCHANGED <<killed, responses>>
    BY <1>5 DEF CompleteJob, EscapeJob, PauseJob, DropTasks, Unsaved, Waiting, Sent, Held,
      Downloading
  <2>2. ready' \subseteq ready /\ inFlight' \subseteq inFlight
    BY <1>5 DEF CompleteJob, EscapeJob, PauseJob
  <2>3. ready \subseteq Unsaved
    BY DEF Unsaved, Waiting
  <2>4. phase = "unwinding" /\ runState = "running" /\ Seen \subseteq old
    BY <1>5 DEF CompleteJob, EscapeJob, PauseJob, Unwound, DownloadsInv, OnceInv, Memory
  <2>5. runState' = "paused" => savedOld' = old
    BY <1>5, <2>4 DEF CompleteJob, EscapeJob, PauseJob
  <2>6. old # None
    BY CrawlPipelineAssumption DEF TypeInv, TypeOK
  <2>7. Seen' \subseteq Seen /\ Known' \subseteq Known
    BY <2>1, <2>2 DEF Seen, HasRow, HasDocument, Known
  <2> QED
    BY <1>5, <2>1, <2>2, <2>3, <2>4, <2>5, <2>6, <2>7 DEF DownloadsInv, OnceInv, Memory
<1>6. ASSUME Resume, ~killed PROVE OnceInv'
  <2>1. /\ Unsaved' = Unsaved
        /\ UNCHANGED <<killed, responses, ready, inFlight, savedOld>>
    BY <1>6 DEF Resume, Unsaved, Waiting, Sent, Held, Downloading, Stored
  <2>2. Seen \subseteq savedOld /\ old' = savedOld /\ found' = {}
    BY <1>6 DEF Resume, DownloadsInv, OnceInv, Memory, TypeInv, IdleTasksHoldNothing
  <2>3. Seen' \subseteq Memory' /\ Known' = Known
    BY <1>6, <2>1, <2>2 DEF Resume, Seen, HasRow, HasDocument, Memory, Known
  <2> QED
    BY <1>6, <2>1, <2>3 DEF Resume, DownloadsInv, OnceInv
<1>7. ASSUME killed, CompleteJob \/ EscapeJob \/ PauseJob \/ Resume PROVE OnceInv'
  BY <1>7 DEF CompleteJob, EscapeJob, PauseJob, Resume, OnceInv
<1> QED
  BY <1>1, <1>2, <1>3, <1>4, <1>5, <1>6, <1>7 DEF EndNext, DownloadsInv

LEMMA OnceStep == TypeInv /\ RowsInv /\ DownloadsInv /\ [Next]_vars => DownloadsInv'
<1> SUFFICES ASSUME TypeInv, RowsInv, DownloadsInv, [Next]_vars PROVE DownloadsInv'
  OBVIOUS
<1>1. CASE UNCHANGED vars
  <2>1. UNCHANGED <<killed, responses, runState, savedOld, run, phase, old, found, Unsaved,
                    Known, Seen, Memory>>
    BY <1>1 DEF Unsaved, Waiting, Sent, Held, Downloading, Stored, Known, Seen, Memory,
      HasRow, HasDocument, vars, historyVars, jobVars, controlVars, frontierVars,
      storageVars, extractorVars
  <2> QED
    BY <2>1 DEF DownloadsInv, RunsInv, OnceInv
<1>2. CASE Next
  BY <1>2, FrontierOnceStep, DownloaderOnceStep, SaveOnceStep, InsertOnceStep,
    LaterOnceStep, EndOnceStep
    DEF Next, PauseNext, CrawlNext, StorageNext, ExtractorNext
<1> QED
  BY <1>1, <1>2

(* No run downloads a row twice, wherever a kill strikes.  A job whose     *)
(* server was not killed downloads no page twice but for the seeds it was  *)
(* given twice: the extractor's memory, which is saved when the job is     *)
(* paused and read when it is resumed, has every URL that ever had a row,  *)
(* at whatever step the pause interrupted the tasks.                       *)
THEOREM DownloadedOnceAlways == Spec => []DownloadedOnce
<1>1. DownloadsInv => DownloadedOnce
  BY DEF DownloadsInv, RunsInv, OnceInv, Known, DownloadedOnce
<1> QED
  BY <1>1, BaseAlways, OnceInit, OnceStep, PTL DEF Spec

-----------------------------------------------------------------------------
(* No URL is forgotten *)

(* What the extractor has done of its page.                                *)
ExtractionInv ==
  /\ extractor \in {"inserting", "deleting"} => todo = {}
  /\ extractor \in {"idle", "deleting"} => found = {}
  /\ extracted # None => responses[extracted] > 0
  /\ stored # None /\ storage # "saving" => responses[stored] > 0

LEMMA ExtractionInit == Init => ExtractionInv
BY DEF Init, ExtractionInv

LEMMA ExtractionStep == TypeInv /\ ExtractionInv /\ [Next]_vars => ExtractionInv'
<1> SUFFICES ASSUME TypeInv, ExtractionInv, [Next]_vars PROVE ExtractionInv'
  OBVIOUS
<1> USE DEF historyVars, jobVars, controlVars, frontierVars, storageVars, extractorVars
<1>1. CASE FrontierNext \/ DownloaderNext \/ DurationElapses \/ Pause \/ Resume
           \/ UNCHANGED vars
  <2>1. UNCHANGED <<responses, storage, stored, extractor, extracted, todo, found>>
    BY <1>1 DEF FrontierNext, FrontierQuery, FrontierMark, FrontierPollsAgain,
      FrontierExhausted, FrontierSend, DownloaderNext, StartDownload, DownloaderReceive,
      FetchPage, RejectMime, SendReset, FinishDownload, DurationElapses, Pause, Resume, vars
  <2> QED
    BY <2>1 DEF ExtractionInv
<1>2. ASSUME NEW r \in Rows, StorageReceive(r) PROVE ExtractionInv'
  BY <1>2 DEF StorageReceive, ExtractionInv
<1>3. CASE StorageSave
  <2>1. stored \in Rows /\ responses \in [Rows -> Nat]
    BY <1>3 DEF StorageSave, TypeInv, TypeOK, IdleTasksHoldNothing
  <2>2. responses' = [responses EXCEPT ![stored] = @ + 1]
    BY <1>3 DEF StorageSave
  <2>3. \A r \in Rows : responses'[r] = IF r = stored THEN responses[r] + 1 ELSE responses[r]
    BY <2>1, <2>2
  <2>4. extracted # None => extracted \in Rows
    BY DEF TypeInv, TypeOK
  <2>5. \A r \in Rows : responses[r] \in Nat
    BY <2>1
  <2>6. responses'[stored] > 0
    BY <2>1, <2>3, <2>5
  <2>7. extracted # None => responses'[extracted] > 0
    BY <2>3, <2>4, <2>5 DEF ExtractionInv
  <2> QED
    BY <1>3, <2>6, <2>7 DEF StorageSave, ExtractionInv
<1>4. CASE StorageCount
  BY <1>4 DEF StorageCount, ExtractionInv
<1>5. CASE ExtractorReceive
  BY <1>5 DEF ExtractorReceive, Extracting, ExtractionInv, TypeInv, IdleTasksHoldNothing
<1>6. CASE RobotsStart \/ RobotsDone
  BY <1>6 DEF RobotsStart, RobotsDone, ExtractionInv
<1>7. ASSUME NEW u \in Urls, ExtractLink(u) \/ ExtractRaises(u) PROVE ExtractionInv'
  BY <1>7 DEF ExtractLink, ExtractRaises, Extracting, ExtractionInv
<1>8. CASE ExtractInsert \/ ExtractDelete
  BY <1>8 DEF ExtractInsert, ExtractDelete, Extracting, ExtractionInv
<1>9. CASE CompleteJob \/ EscapeJob \/ PauseJob \/ Restart
  <2>1. DropTasks
    BY <1>9 DEF CompleteJob, EscapeJob, PauseJob, Restart
  <2> QED
    BY <2>1 DEF DropTasks, ExtractionInv
<1> QED
  BY <1>1, <1>2, <1>3, <1>4, <1>5, <1>6, <1>7, <1>8, <1>9
    DEF Next, PauseNext, CrawlNext, StorageNext, ExtractorNext, EndNext

(* The crawl goes on, and no pause has saved old_urls.                     *)
Crawling == NeverPaused /\ runState # "completed"

CoverInv ==
  Crawling =>
    /\ \A u \in old : Covered(u)
    /\ Range(Seeds) \subseteq Seen
    /\ \A u \in Urls \ Broken :
         HasDocument(u) /\ ~HasRow(u) => Links[u] \subseteq Seen
    /\ extracted # None /\ UrlOf(extracted) \notin Broken =>
         Links[UrlOf(extracted)] \subseteq todo \cup found \cup Seen

LEMMA CoverInit == Init => CoverInv
<1> SUFFICES ASSUME Init PROVE CoverInv
  OBVIOUS
<1>1. \A u \in Range(Seeds) : HasRow(u) /\ u \in Urls
  BY SeedFacts DEF Init, HasRow
<1>2. \A u : ~HasDocument(u)
  BY DEF Init, HasDocument
<1> QED
  BY <1>1, <1>2 DEF Init, CoverInv, Seen, Covered

(* A step by which no row goes, and no URL is new to the extractor.        *)
LEMMA CoverKept ==
  ASSUME TypeInv, CoverInv, Crawling' => Crawling,
         UNCHANGED responses,
         ready \cup inFlight \subseteq ready' \cup inFlight',
         old' \subseteq old,
         found \subseteq found' \cup Seen' \/ old' = {},
         \/ extracted' = None
         \/ UNCHANGED <<extracted, todo>> /\ found \subseteq found' \cup Seen'
  PROVE  CoverInv'
<1> SUFFICES ASSUME Crawling, Crawling' PROVE CoverInv'
  BY DEF CoverInv
<1>1. \A u \in Urls : (HasRow(u) => HasRow(u)') /\ HasDocument(u)' = HasDocument(u)
  BY DEF HasRow, HasDocument
<1>2. Seen \subseteq Seen'
  BY <1>1 DEF Seen
<1>3. old \subseteq Urls
  BY DEF TypeInv, TypeOK
<1>4. \A u \in old : Covered(u) => u \in Seen \/ u \in found
  BY <1>3 DEF Covered, Seen
<1>5. \A u \in old' : Covered(u)'
  BY <1>2, <1>4 DEF CoverInv, Covered, Seen
<1> QED
  BY <1>1, <1>2, <1>5 DEF CoverInv

(* FrontierMark only moves rows.                                           *)
LEMMA FrontierCoverStep ==
  ASSUME TypeInv, RowsInv, CoverInv, FrontierNext \/ DownloaderNext PROVE CoverInv'
<1> USE DEF historyVars, jobVars, controlVars, frontierVars, storageVars, extractorVars
<1>1. UNCHANGED <<savedOld, runState, responses, old, found, extracted, todo>>
  BY DEF FrontierNext, FrontierQuery, FrontierMark, FrontierPollsAgain, FrontierExhausted,
    FrontierSend, DownloaderNext, StartDownload, DownloaderReceive, FetchPage, RejectMime,
    SendReset, FinishDownload
<1>2. ready \cup inFlight \subseteq ready' \cup inFlight'
  BY DEF FrontierNext, FrontierQuery, FrontierMark, FrontierPollsAgain, FrontierExhausted,
    FrontierSend, DownloaderNext, StartDownload, DownloaderReceive, FetchPage, RejectMime,
    SendReset, FinishDownload
<1> QED
  BY <1>1, <1>2, CoverKept DEF Crawling, NeverPaused

LEMMA StorageCoverStep ==
  ASSUME TypeInv, RowsInv, CoverInv, StorageNext PROVE CoverInv'
<1> USE DEF historyVars, jobVars, controlVars, frontierVars, storageVars, extractorVars
<1>1. CASE StorageCount \/ \E r \in Rows : StorageReceive(r)
  BY <1>1, CoverKept DEF StorageCount, StorageReceive, Crawling, NeverPaused
<1>2. CASE StorageSave
  <2> DEFINE v == UrlOf(stored)
  <2>1. /\ stored \in inFlight /\ stored \in Rows /\ v \in Urls
        /\ responses \in [Rows -> Nat]
    BY <1>2, RowFacts DEF StorageSave, TypeInv, TypeOK, IdleTasksHoldNothing, RowsInv, Stored
  <2>2. responses' = [responses EXCEPT ![stored] = @ + 1]
    BY <1>2 DEF StorageSave
  <2>3. \A r \in Rows : responses'[r] = IF r = stored THEN responses[r] + 1 ELSE responses[r]
    BY <2>1, <2>2
  <2>4. \A u : HasDocument(u)' <=> HasDocument(u) \/ u = v
    <3>1. \A r \in Rows : responses'[r] > 0 <=> responses[r] > 0 \/ r = stored
      BY <2>1, <2>3
    <3> QED
      BY <2>1, <3>1 DEF HasDocument
  <2>5. HasRow(v) /\ UNCHANGED <<savedOld, runState, ready, inFlight, old, found, extracted, todo>>
    BY <1>2, <2>1 DEF StorageSave, HasRow
  <2>6. \A u \in Urls : HasRow(u)' <=> HasRow(u)
    BY <2>5 DEF HasRow
  <2>7. Seen' = Seen
    BY <2>4, <2>5, <2>6 DEF Seen
  <2>8. old \subseteq Urls
    BY DEF TypeInv, TypeOK
  <2>9. \A u \in old : Covered(u) => Covered(u)'
    BY <2>4, <2>5, <2>6, <2>8 DEF Covered
  <2>10. \A u \in Urls : HasDocument(u)' /\ ~HasRow(u)' => HasDocument(u) /\ ~HasRow(u)
    BY <2>4, <2>5, <2>6
  <2> HIDE DEF v
  <2> QED
    BY <2>5, <2>7, <2>9, <2>10 DEF CoverInv, Crawling, NeverPaused
<1> QED
  BY <1>1, <1>2 DEF StorageNext

LEMMA ExtractorCoverStep ==
  ASSUME BadLinks = {}, TypeInv, RowsInv, ExtractionInv, CoverInv, ExtractorNext
  PROVE  CoverInv'
<1> USE DEF historyVars, jobVars, controlVars, frontierVars, storageVars, extractorVars
<1>0. SUFFICES ASSUME Crawling PROVE CoverInv'
  BY DEF CoverInv, Crawling, NeverPaused, ExtractorNext, ExtractorReceive, RobotsStart,
    RobotsDone, ExtractLink, ExtractRaises, ExtractInsert, ExtractDelete
<1>1. CASE RobotsStart \/ RobotsDone
  BY <1>1, CoverKept DEF RobotsStart, RobotsDone, Crawling, NeverPaused
<1>2. CASE ExtractorReceive
  <2>1. found = {} /\ found' = {}
    BY <1>2 DEF ExtractorReceive, ExtractionInv
  <2>2. UNCHANGED <<savedOld, runState, responses, ready, inFlight, old>>
    BY <1>2 DEF ExtractorReceive
  <2>3. /\ Seen' = Seen /\ \A u : HasRow(u)' = HasRow(u)
        /\ \A u : HasDocument(u)' = HasDocument(u) /\ Covered(u)' = Covered(u)
    BY <2>1, <2>2 DEF Seen, HasRow, HasDocument, Covered
  <2>4. UrlOf(extracted') \notin Broken => todo' = Links[UrlOf(extracted')]
    BY <1>2 DEF ExtractorReceive
  <2> QED
    BY <1>0, <2>2, <2>3, <2>4 DEF CoverInv
<1>3. ASSUME NEW u \in Urls, ExtractLink(u) PROVE CoverInv'
  <2>1. /\ UNCHANGED <<savedOld, runState, responses, ready, inFlight, extracted>>
        /\ u \in todo /\ todo' = todo \ {u} /\ old' = old \cup {u}
        /\ found' = IF u \in old THEN found ELSE found \cup {u}
    BY <1>3 DEF ExtractLink
  <2>2. Seen' = Seen /\ \A w : HasRow(w)' = HasRow(w) /\ HasDocument(w)' = HasDocument(w)
    BY <2>1 DEF Seen, HasRow, HasDocument
  <2>3. \A w \in old' : Covered(w)'
    BY <1>0, <2>1, <2>2 DEF CoverInv, Covered
  <2>4. u \in found' \cup Seen'
    BY <2>1, <2>3 DEF Covered, Seen
  <2>5. todo \cup found \cup Seen \subseteq todo' \cup found' \cup Seen'
    BY <2>1, <2>2, <2>4
  <2> QED
    BY <1>0, <2>1, <2>2, <2>3, <2>5 DEF CoverInv
<1>4. ASSUME NEW u \in Urls, ExtractRaises(u) PROVE FALSE
  BY <1>4 DEF ExtractRaises
<1>5. CASE ExtractInsert
  <2>1. PICK some \in SUBSET found :
          /\ ready' = ready \cup {Row(u) : u \in some}
          /\ found' = found \ some
    BY <1>5 DEF ExtractInsert, kSubset
  <2>2. UNCHANGED <<savedOld, runState, responses, inFlight, old, extracted, todo>>
    BY <1>5 DEF ExtractInsert
  <2>3. \A u \in some : Row(u) \in ready' /\ UrlOf(Row(u)) = u /\ u \in Urls
    BY <2>1 DEF UrlOf, Row, TypeInv, TypeOK
  <2>4. some \subseteq Seen'
    BY <2>3 DEF Seen, HasRow
  <2> QED
    BY <2>1, <2>2, <2>4, CoverKept DEF Crawling, NeverPaused
<1>6. CASE ExtractDelete
  <2> DEFINE v == UrlOf(extracted)
  <2>1. /\ extracted # None /\ v \in Urls /\ HasDocument(v) /\ todo = {} /\ found = {}
        /\ extracted' = None
    BY <1>6, RowFacts DEF ExtractDelete, ExtractionInv, TypeInv, TypeOK, IdleTasksHoldNothing,
      HasDocument
  <2>2. /\ inFlight' = inFlight \ {extracted}
        /\ UNCHANGED <<savedOld, runState, responses, ready, old, found>>
    BY <1>6 DEF ExtractDelete
  <2>3. /\ \A u : HasDocument(u)' = HasDocument(u)
        /\ \A u : u # v => HasRow(u)' = HasRow(u)
    BY <2>2 DEF HasRow, HasDocument
  <2>4. Seen \subseteq Seen'
    BY <2>1, <2>2, <2>3 DEF Seen
  <2>5. \A u \in old : Covered(u)'
    BY <1>0, <2>1, <2>2, <2>3 DEF CoverInv, Covered
  <2>6. v \notin Broken => Links[v] \subseteq Seen
    BY <1>0, <2>1 DEF CoverInv
  <2>7. ASSUME NEW u \in Urls \ Broken, HasDocument(u)', ~HasRow(u)'
        PROVE  Links[u] \subseteq Seen'
    <3>1. CASE u = v
      BY <2>4, <2>6, <3>1
    <3>2. CASE u # v
      <4>1. ~HasRow(u)
        BY <2>3, <2>7, <3>2
      <4> QED
        BY <1>0, <2>3, <2>4, <2>7, <4>1 DEF CoverInv
    <3> QED
      BY <3>1, <3>2
  <2>8. Range(Seeds) \subseteq Seen'
    BY <1>0, <2>4 DEF CoverInv
  <2> HIDE DEF v
  <2> QED
    BY <2>1, <2>2, <2>5, <2>7, <2>8 DEF CoverInv
<1> QED
  BY <1>1, <1>2, <1>3, <1>4, <1>5, <1>6 DEF ExtractorNext

LEMMA EndCoverStep ==
  ASSUME TypeInv, RowsInv, CoverInv, EndNext \/ Pause \/ PauseJob \/ Resume \/ Restart
  PROVE  CoverInv'
<1> USE DEF historyVars, jobVars, frontierVars, storageVars, extractorVars
<1>1. CASE DurationElapses \/ Pause
  BY <1>1, CoverKept DEF DurationElapses, Pause, Crawling, NeverPaused
<1>2. CASE CompleteJob
  BY <1>2 DEF CompleteJob, CoverInv, Crawling
<1>3. CASE PauseJob
  <2>1. old # None /\ savedOld' = old
    BY <1>3, CrawlPipelineAssumption DEF PauseJob, TypeInv, TypeOK
  <2> QED
    BY <2>1 DEF CoverInv, Crawling, NeverPaused
<1>4. CASE EscapeJob \/ Restart
  <2>1. /\ old' = {} /\ extracted' = None
        /\ UNCHANGED <<savedOld, responses>>
        /\ runState = "completed" => runState' = "completed"
    BY <1>4 DEF EscapeJob, Restart, DropTasks
  <2>2. ready \cup inFlight \subseteq ready' \cup inFlight'
    BY <1>4 DEF EscapeJob, Restart
  <2>3. (Crawling' => Crawling) /\ UNCHANGED responses
    BY <2>1 DEF Crawling, NeverPaused
  <2> QED
    BY <2>1, <2>2, <2>3, CoverKept
<1>5. CASE Resume
  <2>1. /\ UNCHANGED <<savedOld, responses, ready, inFlight, found, extracted, todo>>
        /\ runState = "paused"
    BY <1>5 DEF Resume
  <2>2. savedOld = None => old' = Range(Seeds)
    BY <1>5 DEF Resume
  <2>3. /\ Seen' = Seen /\ \A u : HasRow(u)' = HasRow(u)
        /\ \A u : HasDocument(u)' = HasDocument(u) /\ Covered(u)' = Covered(u)
    BY <2>1 DEF Seen, HasRow, HasDocument, Covered
  <2>4. \A u \in Seen : Covered(u)
    BY DEF Seen, Covered
  <2> QED
    BY <2>1, <2>2, <2>3, <2>4 DEF CoverInv, Crawling, NeverPaused
<1> QED
  BY <1>1, <1>2, <1>3, <1>4, <1>5 DEF EndNext

LEMMA CoverStep ==
  ASSUME BadLinks = {}, TypeInv, RowsInv, ExtractionInv, CoverInv, [Next]_vars
  PROVE  CoverInv'
<1>1. CASE UNCHANGED vars
  BY <1>1, CoverKept DEF Crawling, NeverPaused, vars, jobVars, extractorVars
<1>2. CASE Next
  BY <1>2, FrontierCoverStep, StorageCoverStep, ExtractorCoverStep, EndCoverStep
    DEF Next, PauseNext, CrawlNext
<1> QED
  BY <1>1, <1>2

LEMMA CoverAlways ==
  ASSUME BadLinks = {} PROVE Spec => []CoverInv
<1>1. TypeInv /\ RowsInv /\ ExtractionInv /\ CoverInv /\ [Next]_vars => CoverInv'
  BY CoverStep
<1> QED
  BY <1>1, BaseAlways, ExtractionInit, ExtractionStep, CoverInit, PTL DEF Spec

(* If no link makes the extractor raise, every URL that it will not add    *)
(* again has a row, is about to have one, or has a document: wherever a    *)
(* kill strikes between a save, an insert and a delete.  (A raising link   *)
(* loses the links found before it on the page.)                           *)
THEOREM NothingForgotten ==
  ASSUME BadLinks = {} PROVE Spec => []NoUrlForgotten
<1>1. CoverInv => NoUrlForgotten
  BY DEF CoverInv, Crawling, NoUrlForgotten
<1> QED
  BY <1>1, CoverAlways, PTL

(* And every link of a page that the crawl is done with is in the crawl.   *)
THEOREM LinksFollowed ==
  ASSUME BadLinks = {} PROVE Spec => []LinksAreFollowed
<1>1. CoverInv => LinksAreFollowed
  <2>1. \A u : u \in Seen => Covered(u)
    BY DEF Seen, Covered
  <2> QED
    BY <2>1 DEF CoverInv, Crawling, LinksAreFollowed
<1> QED
  BY <1>1, CoverAlways, PTL
=============================================================================
