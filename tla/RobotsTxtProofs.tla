--------------------------- MODULE RobotsTxtProofs ---------------------------
(* Theorems about RobotsTxt, for all sites, jobs, ages, cache sizes and    *)
(* numbers of interrupted tasks and kills.                                 *)
EXTENDS RobotsTxt, DequeLemmas, FiniteSetTheorems, TLAPS

-----------------------------------------------------------------------------
(* The invariant *)

Copies == [url : Urls, file : Nat, updated : Nat]

Places == Busy \cup {"idle", "waiting", "woken", "stuck"}

WorldTypes == maxAge \in MaxAges /\ now \in Nat /\ site \in [Urls -> Nat]
DocsTypes == docs \in [Urls -> Seq([file : Nat, updated : Nat])]
CacheTypes == cache \in Seq(Copies) /\ Len(cache) <= MaxCache
SetTypes == fetching \subseteq Urls /\ broken \subseteq Urls /\ raced \subseteq Urls
NumberTypes ==
  /\ limit \in [Urls -> Nat] /\ used \in [Urls -> Nat] /\ failures \in Nat
  /\ pages \in 0..Permits
TaskTypes ==
  /\ pc \in [Tasks -> Places] /\ call \in [Tasks -> Calls \cup {None}]
  /\ \A t \in Tasks : pc[t] = "idle" <=> call[t] = None
Types == WorldTypes /\ DocsTypes /\ CacheTypes /\ SetTypes /\ NumberTypes /\ TaskTypes

(* No file is cached twice.                                                *)
CachedOnce == \A i, j \in DOMAIN cache : cache[i].url = cache[j].url => i = j

(* A task has read, or will change, a document that is there, and whose    *)
(* file it saves when it is about to cache it.                             *)
CallsFit ==
  \A t \in Tasks :
    /\ pc[t] \in Busy /\ call[t].doc # None =>
         call[t].doc.place \in DOMAIN docs[call[t].url]
    /\ pc[t] = "caching" => docs[call[t].url] # <<>>
CacheFits == \A i \in DOMAIN cache : docs[cache[i].url] # <<>>

(* The clock, the versions and the failures keep to their bounds.          *)
Within(robots, u) == robots.file <= site[u] /\ robots.updated <= now
WorldBounded ==
  /\ now <= MaxTime[maxAge] /\ failures <= MaxFailures
  /\ \A u \in Urls : site[u] <= MaxVersion[u]
UsedBounded == \A u \in Urls : limit[u] <= site[u] /\ used[u] <= site[u]
DocsBounded == \A u \in Urls : \A i \in DOMAIN docs[u] : Within(docs[u][i], u)
CacheBounded == \A i \in DOMAIN cache : Within(cache[i], cache[i].url)
CallBounded(t) ==
  call[t] # None =>
    /\ call[t].stamp <= now /\ call[t].file <= site[call[t].url]
    /\ call[t].doc # None => Within(call[t].doc, call[t].url)
Bounded ==
  /\ WorldBounded /\ UsedBounded /\ DocsBounded /\ CacheBounded
  /\ \A t \in Tasks : CallBounded(t)

(* One task fetches a file, it holds its event, and the file is not cached *)
(* meanwhile.                                                              *)
OneFetch ==
  \A t \in Tasks : pc[t] \in Busy /\ Url(t) \notin raced =>
    /\ \A s \in Fetchers(Url(t)) : s = t
    /\ Url(t) \in fetching
    /\ Cached(Url(t)) = {}

(* What a file is known to be goes up: from the last answer to what is in  *)
(* the cache or with the fetching task, and on to the database.            *)
UpwardsAt(u) ==
  /\ Len(docs[u]) <= 1
  /\ limit[u] <= used[u]
  /\ IF docs[u] = <<>> THEN used[u] = 0 ELSE used[u] <= docs[u][1].file
  /\ \A i \in Cached(u) : used[u] <= cache[i].file /\ cache[i].file <= docs[u][1].file
Upwards == \A u \in Urls \ raced : UpwardsAt(u)

(* The same for the call c of a task at place, where d are the documents   *)
(* of its URL, n the version last used, and age is the maximal one.  The   *)
(* document is older than that when the file is downloaded again.          *)
UpwardsIn(c, place, d, n, age) ==
  /\ place \in {"permit", "network", "saving"} =>
       /\ c.doc = None <=> d = <<>>
       /\ c.file # 0 /\ d # <<>> => d[1].file <= c.file
  /\ place \in {"permit", "network"} =>
       c.file = 0 /\ (d # <<>> => c.stamp > d[1].updated + age)
  /\ place = "database" =>
       c.doc = None /\ c.file = 0 /\ (d # <<>> => d[1].updated <= c.stamp)
  /\ place # "database" =>
       IF c.doc = None
         THEN n = 0 /\ (place = "caching" => c.file <= d[1].file)
         ELSE n <= c.doc.file /\ c.doc.file <= d[1].file

CallsUpwards ==
  \A t \in Tasks : pc[t] \in Busy /\ Url(t) \notin raced =>
    UpwardsIn(call[t], pc[t], docs[Url(t)], used[Url(t)], maxAge)

Inv == /\ Types /\ CachedOnce /\ CallsFit /\ CacheFits /\ Bounded
       /\ OneFetch /\ Upwards /\ CallsUpwards

-----------------------------------------------------------------------------
(* The cache *)

LEMMA SeqElement ==
  ASSUME NEW S, NEW s \in Seq(S), NEW i \in DOMAIN s
  PROVE  i \in Nat /\ s[i] \in S
OBVIOUS

LEMMA SeqOfElements ==
  ASSUME NEW S, NEW T, NEW s \in Seq(S), \A i \in DOMAIN s : s[i] \in T
  PROVE  s \in Seq(T)
OBVIOUS

LEMMA ConcatFacts ==
  ASSUME NEW S, NEW s \in Seq(S), NEW r \in Seq(S)
  PROVE  /\ s \o r \in Seq(S) /\ Len(s \o r) = Len(s) + Len(r)
         /\ \A k \in 1 .. Len(s) + Len(r) :
              (s \o r)[k] = IF k <= Len(s) THEN s[k] ELSE r[k - Len(s)]
OBVIOUS

LEMMA RemoveAtFacts ==
  ASSUME NEW S, NEW s \in Seq(S), NEW i \in DOMAIN s
  PROVE  /\ RemoveAt(s, i) \in Seq(S) /\ Len(RemoveAt(s, i)) = Len(s) - 1
         /\ \A k \in 1 .. Len(s) - 1 : RemoveAt(s, i)[k] = IF k < i THEN s[k] ELSE s[k + 1]
<1> DEFINE before == SubSeq(s, 1, i - 1)
           after == SubSeq(s, i + 1, Len(s))
<1>1. i \in 1 .. Len(s) /\ Len(s) \in Nat
  OBVIOUS
<1>2. /\ before \in Seq(S) /\ Len(before) = i - 1
      /\ \A k \in 1 .. i - 1 : before[k] = s[k]
  BY <1>1
<1>3. /\ after \in Seq(S) /\ Len(after) = Len(s) - i
      /\ \A k \in 1 .. Len(s) - i : after[k] = s[i + k]
  BY <1>1
<1>4. RemoveAt(s, i) = before \o after
  BY DEF RemoveAt
<1> HIDE DEF before, after
<1>5. /\ before \o after \in Seq(S) /\ Len(before \o after) = Len(s) - 1
      /\ \A k \in 1 .. Len(s) - 1 :
           (before \o after)[k] = IF k <= i - 1 THEN before[k] ELSE after[k - (i - 1)]
  <2>1. (i - 1) + (Len(s) - i) = Len(s) - 1
    BY <1>1
  <2>2. /\ before \o after \in Seq(S) /\ Len(before \o after) = Len(before) + Len(after)
        /\ \A k \in 1 .. Len(before) + Len(after) :
             (before \o after)[k] =
               IF k <= Len(before) THEN before[k] ELSE after[k - Len(before)]
    BY <1>2, <1>3, ConcatFacts
  <2> QED
    BY <1>2, <1>3, <2>1, <2>2
<1>6. \A k \in 1 .. Len(s) - 1 : (before \o after)[k] = IF k < i THEN s[k] ELSE s[k + 1]
  <2>1. TAKE k \in 1 .. Len(s) - 1
  <2>2. CASE k < i
    BY <1>1, <1>2, <1>5, <2>2
  <2>3. CASE ~(k < i)
    <3>1. k - (i - 1) \in 1 .. Len(s) - i /\ i + (k - (i - 1)) = k + 1 /\ ~(k <= i - 1)
      BY <1>1, <2>3
    <3> QED
      BY <1>3, <1>5, <2>3, <3>1
  <2> QED
    BY <2>2, <2>3
<1> QED
  BY <1>4, <1>5, <1>6

(* A cache that has its copies from the cache, each file once.             *)
Kept(s) ==
  /\ s \in Seq(Copies) /\ Len(s) <= MaxCache
  /\ \A j, k \in DOMAIN s : s[j].url = s[k].url => j = k
  /\ \A k \in DOMAIN s : \E i \in DOMAIN cache : s[k] = cache[i]

(* The same, with one copy more, which is the only one of its file.        *)
Grown(s, robots) ==
  /\ s \in Seq(Copies) /\ Len(s) <= MaxCache
  /\ \A j, k \in DOMAIN s : s[j].url = s[k].url => j = k
  /\ \A k \in DOMAIN s :
       \/ s[k] = robots
       \/ s[k].url # robots.url /\ \E i \in DOMAIN cache : s[k] = cache[i]

LEMMA WithoutFacts ==
  ASSUME Types, CachedOnce, NEW u \in Urls
  PROVE  /\ Kept(CacheWithout(u))
         /\ \A k \in DOMAIN CacheWithout(u) : CacheWithout(u)[k].url # u
         /\ Cached(u) # {} => Len(CacheWithout(u)) < Len(cache)
<1>0. cache \in Seq(Copies) /\ Len(cache) <= MaxCache /\ Len(cache) \in Nat /\ MaxCache \in Nat
  BY RobotsAssumption DEF Types, CacheTypes
<1>1. CASE Cached(u) = {}
  BY <1>0, <1>1 DEF CacheWithout, Cached, Kept, CachedOnce
<1>2. CASE Cached(u) # {}
  <2>1. PICK i \in Cached(u) : CacheWithout(u) = RemoveAt(cache, i)
    BY <1>2 DEF CacheWithout
  <2>2. i \in DOMAIN cache /\ cache[i].url = u /\ i \in 1 .. Len(cache)
    BY <1>0, <2>1 DEF Cached
  <2> DEFINE w == RemoveAt(cache, i)
  <2>3. /\ w \in Seq(Copies) /\ Len(w) = Len(cache) - 1
        /\ \A k \in 1 .. Len(cache) - 1 : w[k] = IF k < i THEN cache[k] ELSE cache[k + 1]
    BY <1>0, <2>2, RemoveAtFacts
  <2> HIDE DEF w
  <2>4. DOMAIN w = 1 .. Len(cache) - 1 /\ DOMAIN cache = 1 .. Len(cache)
    BY <1>0, <2>3
  <2>5. \A k \in DOMAIN w : \E j \in DOMAIN cache : j # i /\ w[k] = cache[j]
                               /\ (IF k < i THEN j = k ELSE j = k + 1)
    BY <1>0, <2>2, <2>3, <2>4
  <2>6. \A k \in DOMAIN w : w[k].url # u
    BY <2>2, <2>5 DEF CachedOnce
  <2>7. \A j, k \in DOMAIN w : w[j].url = w[k].url => j = k
    <3>1. TAKE j, k \in DOMAIN w
    <3>2. HAVE w[j].url = w[k].url
    <3>3. PICK a \in DOMAIN cache : a # i /\ w[j] = cache[a] /\ (IF j < i THEN a = j ELSE a = j + 1)
      BY <2>5
    <3>4. PICK b \in DOMAIN cache : b # i /\ w[k] = cache[b] /\ (IF k < i THEN b = k ELSE b = k + 1)
      BY <2>5
    <3>5. a = b
      BY <3>2, <3>3, <3>4 DEF CachedOnce
    <3> QED
      BY <2>2, <2>4, <3>3, <3>4, <3>5
  <2> QED
    BY <1>0, <2>1, <2>3, <2>5, <2>6, <2>7 DEF Kept, w
<1> QED
  BY <1>1, <1>2

LEMMA AppendFacts ==
  ASSUME NEW S, NEW s \in Seq(S), NEW e \in S
  PROVE  /\ Append(s, e) \in Seq(S) /\ Len(Append(s, e)) = Len(s) + 1
         /\ DOMAIN Append(s, e) = 1 .. Len(s) + 1 /\ DOMAIN s = 1 .. Len(s) /\ Len(s) \in Nat
         /\ Append(s, e)[Len(s) + 1] = e
         /\ \A k \in 1 .. Len(s) : Append(s, e)[k] = s[k]
OBVIOUS

(* A copy becomes the most recently used one.                              *)
LEMMA AppendGrows ==
  ASSUME Types, CachedOnce, NEW robots \in Copies, Len(CacheWithout(robots.url)) < MaxCache
  PROVE  Grown(Append(CacheWithout(robots.url), robots), robots)
<1> DEFINE w == CacheWithout(robots.url)
           s == Append(w, robots)
<1>1. robots.url \in Urls
  BY DEF Copies
<1>2. Kept(w) /\ \A k \in DOMAIN w : w[k].url # robots.url
  BY <1>1, WithoutFacts
<1>3. w \in Seq(Copies) /\ MaxCache \in Nat
  BY <1>2, RobotsAssumption DEF Kept
<1> HIDE DEF w
<1>4. /\ s \in Seq(Copies) /\ Len(s) = Len(w) + 1
      /\ DOMAIN s = 1 .. Len(w) + 1 /\ DOMAIN w = 1 .. Len(w) /\ Len(w) \in Nat
      /\ s[Len(w) + 1] = robots /\ \A k \in 1 .. Len(w) : s[k] = w[k]
  BY <1>3, AppendFacts
<1> HIDE DEF s
<1>5. Len(s) <= MaxCache
  BY <1>3, <1>4 DEF w
<1>6. \A k \in DOMAIN s : k \in DOMAIN w \/ k = Len(w) + 1
  BY <1>4
<1>7. \A j, k \in DOMAIN s : s[j].url = s[k].url => j = k
  BY <1>2, <1>4, <1>6 DEF Kept
<1>8. \A k \in DOMAIN s : \/ s[k] = robots
                          \/ s[k].url # robots.url /\ \E i \in DOMAIN cache : s[k] = cache[i]
  BY <1>2, <1>4, <1>6 DEF Kept
<1>9. Grown(s, robots)
  BY <1>4, <1>5, <1>7, <1>8 DEF Grown
<1> QED
  BY <1>9 DEF s, w

LEMMA PutLastGrows ==
  ASSUME Types, CachedOnce, NEW robots \in Copies
  PROVE  Grown(PutLast(robots), robots)
<1> DEFINE w == CacheWithout(robots.url)
           s == Append(w, robots)
<1>1. robots.url \in Urls
  BY DEF Copies
<1>2. Kept(w) /\ \A k \in DOMAIN w : w[k].url # robots.url
  BY <1>1, WithoutFacts
<1>3. w \in Seq(Copies) /\ Len(w) <= MaxCache /\ MaxCache \in Nat \ {0}
  BY <1>2, RobotsAssumption DEF Kept
<1>4. PutLast(robots) = IF Len(s) > MaxCache THEN Tail(s) ELSE s
  BY DEF PutLast
<1> HIDE DEF w
<1>5. /\ s \in Seq(Copies) /\ Len(s) = Len(w) + 1
      /\ DOMAIN s = 1 .. Len(w) + 1 /\ DOMAIN w = 1 .. Len(w) /\ Len(w) \in Nat
      /\ s[Len(w) + 1] = robots /\ \A k \in 1 .. Len(w) : s[k] = w[k]
  BY <1>3, AppendFacts
<1> HIDE DEF s
<1>6. CASE Len(s) <= MaxCache
  <2>1. Len(CacheWithout(robots.url)) < MaxCache
    BY <1>3, <1>5, <1>6 DEF w
  <2>2. Grown(s, robots)
    BY <2>1, AppendGrows DEF s, w
  <2> QED
    BY <1>3, <1>4, <1>5, <1>6, <2>2
<1>7. CASE Len(s) > MaxCache
  <2> DEFINE r == Tail(s)
  <2>1. r \in Seq(Copies) /\ Len(r) = Len(w) /\ \A k \in 1 .. Len(w) : r[k] = s[k + 1]
    BY <1>5
  <2>2. Len(w) = MaxCache
    BY <1>3, <1>5, <1>7 DEF w
  <2> HIDE DEF r
  <2>3. DOMAIN r = 1 .. Len(w)
    BY <1>5, <2>1
  <2>4. \A k \in DOMAIN r : IF k = Len(w) THEN r[k] = robots
                            ELSE k + 1 \in DOMAIN w /\ r[k] = w[k + 1]
    BY <1>5, <2>1, <2>3
  <2>5. \A j, k \in DOMAIN r : r[j].url = r[k].url => j = k
    <3>1. TAKE j, k \in DOMAIN r
    <3>2. j \in Nat /\ k \in Nat
      BY <2>3
    <3> QED
      BY <1>2, <2>4, <3>2 DEF Kept
  <2>6. \A k \in DOMAIN r :
          \/ r[k] = robots
          \/ r[k].url # robots.url /\ \E i \in DOMAIN cache : r[k] = cache[i]
    BY <1>2, <2>4 DEF Kept
  <2>8. Grown(r, robots)
    BY <1>3, <2>1, <2>2, <2>5, <2>6 DEF Grown
  <2> QED
    BY <1>4, <1>7, <2>8 DEF r
<1>8. Len(s) <= MaxCache \/ Len(s) > MaxCache
  BY <1>3, <1>5
<1> QED
  BY <1>6, <1>7, <1>8

-----------------------------------------------------------------------------
(* Types *)

LEMMA CallFacts ==
  ASSUME Types
  PROVE  \A t \in Tasks : pc[t] # "idle" =>
           call[t] # None /\ call[t] \in Calls /\ Url(t) = call[t].url /\ Url(t) \in Urls
BY DEF Types, TaskTypes, Url, Calls

LEMMA FoundFacts ==
  ASSUME Types, NEW u \in Urls, NEW doc \in Found(u)
  PROVE  \/ doc = None /\ docs[u] = <<>>
         \/ /\ doc # None /\ doc \in Documents /\ docs[u] # <<>>
            /\ doc.place \in DOMAIN docs[u]
            /\ doc.file = docs[u][doc.place].file /\ doc.updated = docs[u][doc.place].updated
<1>1. docs[u] \in Seq([file : Nat, updated : Nat])
  BY DEF Types, DocsTypes
<1>2. CASE docs[u] = <<>>
  BY <1>2 DEF Found
<1>3. CASE docs[u] # <<>>
  <2>1. PICK i \in DOMAIN docs[u] :
          doc = [place |-> i, file |-> docs[u][i].file, updated |-> docs[u][i].updated]
    BY <1>3 DEF Found
  <2>2. i \in Nat /\ docs[u][i] \in [file : Nat, updated : Nat]
    BY <1>1, SeqElement
  <2>3. doc \in Documents
    BY <2>1, <2>2 DEF Documents
  <2> QED
    BY <1>3, <2>1, <2>3, RobotsAssumption
<1> QED
  BY <1>2, <1>3

LEMMA RobotsFacts ==
  ASSUME Types, NEW t \in Tasks, pc[t] # "idle"
  PROVE  /\ Robots(call[t]) \in Copies /\ Robots(call[t]).url = Url(t)
         /\ IF call[t].doc = None
              THEN Robots(call[t]).file = call[t].file /\ Robots(call[t]).updated = call[t].stamp
              ELSE /\ Robots(call[t]).file = call[t].doc.file
                   /\ Robots(call[t]).updated = call[t].doc.updated
BY CallFacts DEF Robots, Copies, Calls, Documents

(* The documents of a URL when a task has saved its own.                   *)
DocsAfter(t) ==
  IF call[t].doc = None THEN Append(docs[Url(t)], Saved(call[t]))
  ELSE [docs[Url(t)] EXCEPT ![call[t].doc.place] = Saved(call[t])]

SavedFits(t) ==
  /\ docs' = [docs EXCEPT ![Url(t)] = DocsAfter(t)] /\ Url(t) \in Urls
  /\ DocsAfter(t) \in Seq([file : Nat, updated : Nat])
  /\ DocsAfter(t) # <<>> /\ DOMAIN docs[Url(t)] \subseteq DOMAIN DocsAfter(t)
  /\ DOMAIN docs[Url(t)] = 1 .. Len(docs[Url(t)]) /\ Len(docs[Url(t)]) \in Nat
  /\ IF call[t].doc = None
      THEN /\ DOMAIN DocsAfter(t) = 1 .. Len(docs[Url(t)]) + 1
           /\ DocsAfter(t)[Len(docs[Url(t)]) + 1] = Saved(call[t])
           /\ \A k \in DOMAIN docs[Url(t)] : DocsAfter(t)[k] = docs[Url(t)][k]
      ELSE /\ call[t].doc.place \in DOMAIN docs[Url(t)]
           /\ DOMAIN DocsAfter(t) = DOMAIN docs[Url(t)]
           /\ \A k \in DOMAIN docs[Url(t)] :
                DocsAfter(t)[k] = IF k = call[t].doc.place THEN Saved(call[t]) ELSE docs[Url(t)][k]

LEMMA SavedFacts ==
  ASSUME Types, CallsFit, NEW t \in Tasks, Save(t)
  PROVE  SavedFits(t)
<1>1. call[t] # None /\ call[t] \in Calls /\ Url(t) = call[t].url /\ Url(t) \in Urls
  BY CallFacts DEF Save
<1> DEFINE d == docs[Url(t)]
           D == [file : Nat, updated : Nat]
           c == call[t]
<1>2. d \in Seq(D)
  BY <1>1 DEF Types, DocsTypes
<1>3. c.doc # None => c.doc.place \in DOMAIN d
  BY <1>1 DEF CallsFit, Save, Busy
<1>4. Saved(c) \in D
  <2>1. c.doc # None => docs[c.url][c.doc.place] \in D
    BY <1>1, <1>2, <1>3, SeqElement
  <2> QED
    BY <1>1, <2>1 DEF Saved, Calls
<1>5. docs' = [docs EXCEPT ![Url(t)] = DocsAfter(t)]
  BY <1>1 DEF Save, DocsAfter
<1>6. CASE c.doc = None
  <2>1. DocsAfter(t) = Append(d, Saved(c))
    BY <1>6 DEF DocsAfter
  <2> HIDE DEF d, D, c
  <2>2. /\ DocsAfter(t) \in Seq(D)
        /\ DOMAIN DocsAfter(t) = 1 .. Len(d) + 1 /\ DOMAIN d = 1 .. Len(d) /\ Len(d) \in Nat
        /\ DocsAfter(t)[Len(d) + 1] = Saved(c)
        /\ \A k \in 1 .. Len(d) : DocsAfter(t)[k] = d[k]
    BY <1>2, <1>4, <2>1, AppendFacts
  <2>3. DocsAfter(t) # <<>> /\ DOMAIN d \subseteq DOMAIN DocsAfter(t)
    BY <2>2
  <2> QED
    BY <1>1, <1>5, <1>6, <2>2, <2>3 DEF SavedFits, d, D, c
<1>7. CASE c.doc # None
  <2>1. DocsAfter(t) = [d EXCEPT ![c.doc.place] = Saved(c)]
    BY <1>7 DEF DocsAfter
  <2> HIDE DEF d, D, c
  <2>2. /\ DocsAfter(t) \in Seq(D) /\ DocsAfter(t) # <<>>
        /\ DOMAIN DocsAfter(t) = DOMAIN d /\ DOMAIN d = 1 .. Len(d) /\ Len(d) \in Nat
        /\ \A k \in DOMAIN d : DocsAfter(t)[k] = IF k = c.doc.place THEN Saved(c) ELSE d[k]
    BY <1>2, <1>3, <1>4, <1>7, <2>1
  <2> QED
    BY <1>1, <1>3, <1>5, <1>7, <2>2 DEF SavedFits, d, D, c
<1> QED
  BY <1>6, <1>7

LEMMA TypesInit == Init => Types /\ CachedOnce
BY RobotsAssumption DEF Init, Types, WorldTypes, DocsTypes, CacheTypes, SetTypes, NumberTypes, TaskTypes,
                        CachedOnce, Places

(* What a step does to the cache: only the end of a fetch adds a copy.     *)
LEMMA RequestKeeps ==
  ASSUME Types, CachedOnce, NEW t \in Tasks, NEW u \in Urls, Request(t, u)
  PROVE  Kept(cache')
<1>1. CASE cache' = CacheWithout(u)
  BY <1>1, WithoutFacts
<1>2. ASSUME NEW i \in Cached(u), cache' = Append(CacheWithout(u), cache[i]) PROVE Kept(cache')
  <2>1. i \in DOMAIN cache /\ cache[i] \in Copies /\ cache[i].url = u
    BY <1>2 DEF Cached, Types, CacheTypes
  <2>2. /\ Kept(CacheWithout(u)) /\ Len(CacheWithout(u)) < Len(cache) /\ Len(cache) <= MaxCache
        /\ Len(cache) \in Nat /\ MaxCache \in Nat
    BY <1>2, WithoutFacts, RobotsAssumption DEF Types, CacheTypes
  <2>3. Len(CacheWithout(u)) < MaxCache
    BY <2>2 DEF Kept
  <2>4. Grown(cache', cache[i])
    BY <1>2, <2>1, <2>3, AppendGrows
  <2> QED
    BY <2>1, <2>4 DEF Grown, Kept
<1> QED
  BY <1>1, <1>2 DEF Request

LEMMA FinishGrows ==
  ASSUME Types, CachedOnce, NEW t \in Tasks, Finish(t)
  PROVE  Grown(cache', Robots(call[t]))
<1>1. Robots(call[t]) \in Copies
  BY RobotsFacts DEF Finish
<1> QED
  BY <1>1, PutLastGrows DEF Finish

CacheStep == Kept(cache') \/ \E t \in Tasks : Finish(t) /\ Grown(cache', Robots(call[t]))

LEMMA CacheSteps == Types /\ CachedOnce /\ [Next]_vars => CacheStep
<1> SUFFICES ASSUME Types, CachedOnce, [Next]_vars PROVE CacheStep
  OBVIOUS
<1>1. CASE cache' = cache
  BY <1>1 DEF CacheStep, Kept, Types, CacheTypes, CachedOnce
<1>2. CASE cache' = <<>>
  BY <1>2, RobotsAssumption DEF CacheStep, Kept
<1> QED
  BY <1>1, <1>2, RequestKeeps, FinishGrows
     DEF CacheStep, Next, vars, Tick, Kill, Publish, PageStarts, PageEnds, Step, WakeUp,
         ReadDocument, Acquire, Download, Save, Interrupt

LEMMA CacheTypeStep == Types /\ CachedOnce /\ [Next]_vars => CacheTypes' /\ CachedOnce'
BY CacheSteps DEF CacheStep, CacheTypes, CachedOnce, Kept, Grown

LEMMA TaskStepsLeaveWorld ==
  ASSUME NEW t \in Tasks
  PROVE  /\ Step(t) \/ Acquire(t) \/ Interrupt(t) => UNCHANGED worldVars
         /\ \A u \in Urls : Request(t, u) => UNCHANGED worldVars
BY DEF Step, WakeUp, ReadDocument, Acquire, Download, Save, Finish, Interrupt, Request

LEMMA WorldTypeStep == Types /\ [Next]_vars => WorldTypes'
<1> SUFFICES ASSUME WorldTypes, [Next]_vars PROVE WorldTypes'
  BY DEF Types
<1>1. CASE Tick \/ Kill \/ UNCHANGED vars \/ \E u \in Urls : Publish(u)
  BY <1>1 DEF WorldTypes, Tick, Kill, Publish, vars, worldVars
<1>2. CASE UNCHANGED worldVars
  BY <1>2 DEF WorldTypes, worldVars
<1> QED
  BY <1>1, <1>2, TaskStepsLeaveWorld DEF Next, PageStarts, PageEnds

LEMMA DocsTypeStep == Types /\ CallsFit /\ [Next]_vars => DocsTypes'
<1> SUFFICES ASSUME Types, CallsFit, [Next]_vars PROVE DocsTypes'
  OBVIOUS
<1>1. ASSUME NEW t \in Tasks, Save(t) PROVE DocsTypes'
  BY <1>1, SavedFacts DEF SavedFits, Types, DocsTypes
<1>2. CASE UNCHANGED docs
  BY <1>2 DEF Types, DocsTypes
<1> QED
  BY <1>1, <1>2 DEF Next, Tick, Kill, Publish, PageStarts, PageEnds, Request, Step, WakeUp,
                    ReadDocument, Acquire, Download, Finish, Interrupt, vars

LEMMA SharedTypeStep == Types /\ [Next]_vars => SetTypes' /\ NumberTypes'
<1> SUFFICES ASSUME Types, [Next]_vars PROVE SetTypes' /\ NumberTypes'
  OBVIOUS
<1>1. \A i \in DOMAIN cache : cache[i] \in Copies
  BY SeqElement DEF Types, CacheTypes
<1>2. ASSUME NEW t \in Tasks, NEW u \in Urls, Request(t, u) PROVE SetTypes' /\ NumberTypes'
  BY <1>1, <1>2 DEF Types, SetTypes, NumberTypes, Request, Answer, StartFetch, Cached, Copies
<1>3. ASSUME NEW t \in Tasks, WakeUp(t) PROVE SetTypes' /\ NumberTypes'
  <2>1. Url(t) \in Urls
    BY <1>3, CallFacts DEF WakeUp
  <2> QED
    BY <1>1, <1>3, <2>1 DEF Types, SetTypes, NumberTypes, WakeUp, Answer, StartFetch, Cached, Copies
<1>4. ASSUME NEW t \in Tasks, Finish(t) PROVE SetTypes' /\ NumberTypes'
  <2>1. Url(t) \in Urls /\ Robots(call[t]).url = Url(t) /\ Robots(call[t]).file \in Nat
    BY <1>4, CallFacts, RobotsFacts DEF Finish, Copies
  <2> QED
    BY <1>4, <2>1 DEF Types, SetTypes, NumberTypes, Finish, Limited
<1>5. ASSUME NEW t \in Tasks, Interrupt(t) PROVE SetTypes' /\ NumberTypes'
  <2>1. Url(t) \in Urls
    BY <1>5, CallFacts DEF Interrupt, Idle
  <2> QED
    BY <1>5, <2>1 DEF Types, SetTypes, NumberTypes, Interrupt
<1>6. ASSUME NEW t \in Tasks, ReadDocument(t) \/ Acquire(t) \/ Download(t) \/ Save(t)
      PROVE  SetTypes' /\ NumberTypes'
  BY <1>6 DEF Types, SetTypes, NumberTypes, ReadDocument, Acquire, Download, Save, historyVars
<1>7. ASSUME Tick \/ Kill \/ UNCHANGED vars \/ \E u \in Urls : Publish(u)
      PROVE  SetTypes' /\ NumberTypes'
  BY <1>7, RobotsAssumption
     DEF Types, SetTypes, NumberTypes, Tick, Kill, Publish, vars, historyVars
<1>8. CASE PageStarts \/ PageEnds
  <2>1. pages' \in 0..Permits
    <3>1. Cardinality({t \in Tasks : pc[t] = "network"}) \in Nat
      BY RobotsAssumption, FS_Subset, FS_CardinalityType
    <3> QED
      BY <1>8, <3>1, RobotsAssumption DEF PageStarts, PageEnds, PermitsFree, Types, NumberTypes
  <2> QED
    BY <1>8, <2>1 DEF Types, SetTypes, NumberTypes, PageStarts, PageEnds, historyVars
<1> QED
  BY <1>2, <1>3, <1>4, <1>5, <1>6, <1>7, <1>8 DEF Next, Step

(* A task goes to another place with another call.                         *)
LEMMA TaskMoves ==
  ASSUME TaskTypes, NEW t \in Tasks, NEW place \in Places, NEW c \in Calls \cup {None},
         place = "idle" <=> c = None,
         pc' = [pc EXCEPT ![t] = place], call' = [call EXCEPT ![t] = c]
  PROVE  TaskTypes'
BY DEF TaskTypes

LEMMA StartFetchCall ==
  ASSUME Types, NEW u \in Urls
  PROVE  /\ Call(u) \in Calls /\ [Call(u) EXCEPT !.stamp = now] \in Calls
         /\ Call(u) # None /\ [Call(u) EXCEPT !.stamp = now] # None
BY RobotsAssumption DEF Call, Calls, Types, WorldTypes

LEMMA TaskTypeStep == Types /\ [Next]_vars => TaskTypes'
<1> SUFFICES ASSUME Types, [Next]_vars PROVE TaskTypes'
  OBVIOUS
<1> USE DEF Types
<1>1. CASE Tick \/ Kill \/ PageStarts \/ PageEnds \/ UNCHANGED vars
  BY <1>1 DEF Tick, Kill, PageStarts, PageEnds, vars, TaskTypes, Places
<1>2. ASSUME NEW u \in Urls, Publish(u) PROVE TaskTypes'
  BY <1>2 DEF Publish, TaskTypes
<1>3. ASSUME NEW t \in Tasks, NEW u \in Urls, Request(t, u) PROVE TaskTypes'
  <2>1. CASE pc' = [pc EXCEPT ![t] = "idle"] /\ call' = [call EXCEPT ![t] = None]
    BY <2>1, TaskMoves DEF Places
  <2>2. CASE pc' = [pc EXCEPT ![t] = "waiting"] /\ call' = [call EXCEPT ![t] = Call(u)]
    BY <2>2, TaskMoves, StartFetchCall DEF Places
  <2>3. CASE pc' = [pc EXCEPT ![t] = "database"] /\ StartFetch(t, u)
    BY <2>3, TaskMoves, StartFetchCall DEF Places, Busy, StartFetch
  <2> QED
    BY <1>3, <2>1, <2>2, <2>3 DEF Request, Answer
<1>4. ASSUME NEW t \in Tasks, WakeUp(t) PROVE TaskTypes'
  <2>1. CASE pc' = [pc EXCEPT ![t] = "idle"] /\ call' = [call EXCEPT ![t] = None]
    BY <2>1, TaskMoves DEF Places
  <2>2. CASE /\ StartFetch(t, Url(t))
             /\ pc' = [s \in Tasks |-> IF s = t THEN "database"
                                        ELSE IF s \in At("waiting", Url(t)) THEN "stuck" ELSE pc[s]]
    <3>1. Url(t) \in Urls
      BY <1>4, CallFacts DEF WakeUp
    <3>2. [Call(Url(t)) EXCEPT !.stamp = now] \in Calls
      BY <3>1, StartFetchCall
    <3>3. [Call(Url(t)) EXCEPT !.stamp = now] # None
      BY <3>1, StartFetchCall
    <3> QED
      BY <2>2, <3>2, <3>3 DEF StartFetch, TaskTypes, Places, Busy, At
  <2> QED
    BY <1>4, <2>1, <2>2 DEF WakeUp, Answer
<1>5. ASSUME NEW t \in Tasks, ReadDocument(t) PROVE TaskTypes'
  <2>1. call[t] # None /\ call[t] \in Calls /\ Url(t) \in Urls
    BY <1>5, CallFacts DEF ReadDocument
  <2>2. PICK doc \in Found(Url(t)) :
          /\ call' = [call EXCEPT ![t] = [call[t] EXCEPT !.doc = doc]]
          /\ pc' = [pc EXCEPT ![t] = "permit"] \/ pc' = [pc EXCEPT ![t] = "saving"]
    BY <1>5 DEF ReadDocument
  <2>3. [call[t] EXCEPT !.doc = doc] \in Calls
    BY <2>1, FoundFacts DEF Calls
  <2> QED
    BY <2>2, <2>3, TaskMoves, RobotsAssumption DEF Places, Busy
<1>6. ASSUME NEW t \in Tasks, Download(t) PROVE TaskTypes'
  <2>1. call[t] # None /\ call[t] \in Calls /\ Url(t) \in Urls
    BY <1>6, CallFacts DEF Download
  <2>2. PICK got \in {site[Url(t)], 0} : call' = [call EXCEPT ![t] = [call[t] EXCEPT !.file = got]]
    BY <1>6 DEF Download
  <2>3. [call[t] EXCEPT !.file = got] \in Calls
    BY <2>1, <2>2 DEF Calls, WorldTypes
  <2> QED
    BY <1>6, <2>2, <2>3, TaskMoves, RobotsAssumption DEF Download, Places, Busy
<1>7. ASSUME NEW t \in Tasks, Acquire(t) \/ Save(t) PROVE TaskTypes'
  BY <1>7 DEF Acquire, Save, TaskTypes, Places, Busy
<1>8. ASSUME NEW t \in Tasks, Finish(t) PROVE TaskTypes'
  BY <1>8 DEF Finish, Woken, TaskTypes, Places, At
<1>9. ASSUME NEW t \in Tasks, Interrupt(t) PROVE TaskTypes'
  BY <1>9, TaskMoves DEF Interrupt, Places
<1> QED
  BY <1>1, <1>2, <1>3, <1>4, <1>5, <1>6, <1>7, <1>8, <1>9 DEF Next, Step

LEMMA TypesStep == Types /\ CachedOnce /\ CallsFit /\ [Next]_vars => Types' /\ CachedOnce'
BY CacheTypeStep, WorldTypeStep, DocsTypeStep, SharedTypeStep, TaskTypeStep DEF Types

-----------------------------------------------------------------------------
(* Documents stay where they are *)

LEMMA DocsGrow ==
  Types /\ CallsFit /\ [Next]_vars =>
    \A u \in Urls : /\ DOMAIN docs[u] \subseteq DOMAIN docs'[u]
                    /\ docs[u] # <<>> => docs'[u] # <<>>
<1> SUFFICES ASSUME Types, CallsFit, [Next]_vars, NEW u \in Urls
             PROVE  /\ DOMAIN docs[u] \subseteq DOMAIN docs'[u]
                    /\ docs[u] # <<>> => docs'[u] # <<>>
  OBVIOUS
<1>1. ASSUME NEW t \in Tasks, Save(t)
      PROVE  DOMAIN docs[u] \subseteq DOMAIN docs'[u] /\ (docs[u] # <<>> => docs'[u] # <<>>)
  <2>1. SavedFits(t)
    BY <1>1, SavedFacts
  <2> QED
    BY <2>1 DEF SavedFits, Types, DocsTypes
<1>2. CASE UNCHANGED docs
  BY <1>2
<1> QED
  BY <1>1, <1>2 DEF Next, Tick, Kill, Publish, PageStarts, PageEnds, Request, Step, WakeUp,
                    ReadDocument, Acquire, Download, Finish, Interrupt, vars

(* What one task's call says of the table.                                 *)
CallFits(t) ==
  /\ pc[t] \in Busy /\ call[t].doc # None => call[t].doc.place \in DOMAIN docs[call[t].url]
  /\ pc[t] = "caching" => docs[call[t].url] # <<>>

LEMMA CallsFitStep == Types /\ CallsFit /\ [Next]_vars => CallsFit'
<1> SUFFICES ASSUME Types, CallsFit, [Next]_vars, NEW s \in Tasks PROVE CallFits(s)'
  BY DEF CallsFit, CallFits
<1>0. CallFits(s)
  BY DEF CallsFit, CallFits
<1>1. CASE call'[s] = call[s] /\ pc'[s] = pc[s]
  BY <1>0, <1>1, DocsGrow, CallFacts DEF CallFits, Busy
<1>2. CASE pc'[s] \notin Busy
  BY <1>2 DEF CallFits, Busy
<1>3. ASSUME NEW u \in Urls, pc'[s] = "database", call'[s] = [Call(u) EXCEPT !.stamp = now]
      PROVE  CallFits(s)'
  BY <1>3 DEF CallFits, Call
<1>4. CASE ReadDocument(s)
  <2>1. call[s] # None /\ call[s] \in Calls /\ Url(s) = call[s].url /\ Url(s) \in Urls
    BY <1>4, CallFacts DEF ReadDocument
  <2>2. PICK doc \in Found(Url(s)) : call' = [call EXCEPT ![s] = [call[s] EXCEPT !.doc = doc]]
    BY <1>4 DEF ReadDocument
  <2>3. call'[s].doc = doc /\ call'[s].url = Url(s) /\ docs' = docs
    BY <1>4, <2>1, <2>2 DEF ReadDocument, Types, TaskTypes, Calls
  <2>4. pc'[s] # "caching"
    BY <1>4 DEF ReadDocument, Types, TaskTypes
  <2> QED
    BY <2>1, <2>3, <2>4, FoundFacts DEF CallFits
<1>5. CASE Download(s)
  <2>1. call[s] # None /\ call[s] \in Calls /\ Url(s) = call[s].url /\ Url(s) \in Urls
    BY <1>5, CallFacts DEF Download
  <2>2. PICK got : call' = [call EXCEPT ![s] = [call[s] EXCEPT !.file = got]]
    BY <1>5 DEF Download
  <2>3. call'[s].doc = call[s].doc /\ call'[s].url = call[s].url
    BY <2>1, <2>2 DEF Types, TaskTypes, Calls
  <2>4. pc'[s] = "saving" /\ pc[s] = "network" /\ docs' = docs
    BY <1>5 DEF Download, Types, TaskTypes
  <2> QED
    BY <1>0, <2>3, <2>4 DEF CallFits, Busy
<1>6. CASE Save(s)
  <2>1. SavedFits(s) /\ Url(s) = call[s].url
    BY <1>6, SavedFacts, CallFacts DEF Save
  <2>2. call'[s] = call[s] /\ pc'[s] = "caching" /\ pc[s] = "saving"
    BY <1>6 DEF Save, Types, TaskTypes
  <2> QED
    BY <1>0, <2>1, <2>2 DEF CallFits, SavedFits, Types, DocsTypes, Busy
<1>7. ASSUME NEW t \in Tasks, NEW u \in Urls, Request(t, u) PROVE CallFits(s)'
  BY <1>1, <1>2, <1>3, <1>7 DEF Request, Answer, StartFetch, Types, TaskTypes, Busy
<1>8. ASSUME NEW t \in Tasks, WakeUp(t) PROVE CallFits(s)'
  <2>1. Url(t) \in Urls
    BY <1>8, CallFacts DEF WakeUp
  <2> QED
    BY <1>1, <1>2, <1>3, <1>8, <2>1 DEF WakeUp, Answer, StartFetch, Types, TaskTypes, Busy, At
<1>9. ASSUME NEW t \in Tasks, Finish(t) PROVE CallFits(s)'
  BY <1>1, <1>2, <1>9 DEF Finish, Woken, Types, TaskTypes, Busy, At
<1>10. ASSUME NEW t \in Tasks, ReadDocument(t) \/ Download(t) \/ Save(t) \/ Interrupt(t)
       PROVE  CallFits(s)'
  BY <1>1, <1>2, <1>4, <1>5, <1>6, <1>10
     DEF ReadDocument, Download, Save, Interrupt, Types, TaskTypes, Busy
<1>12. ASSUME NEW t \in Tasks, Acquire(t) PROVE CallFits(s)'
  BY <1>0, <1>12 DEF Acquire, CallFits, Types, TaskTypes, Busy
<1>11. CASE Tick \/ Kill \/ PageStarts \/ PageEnds \/ UNCHANGED vars \/ \E u \in Urls : Publish(u)
  BY <1>1, <1>2, <1>11 DEF Tick, Kill, PageStarts, PageEnds, Publish, vars, Busy
<1> QED
  BY <1>7, <1>8, <1>9, <1>10, <1>11, <1>12 DEF Next, Step

LEMMA CacheFitsStep == Types /\ CachedOnce /\ CallsFit /\ CacheFits /\ [Next]_vars => CacheFits'
<1> SUFFICES ASSUME Types, CachedOnce, CallsFit, CacheFits, [Next]_vars, NEW k \in DOMAIN cache'
             PROVE  docs'[cache'[k].url] # <<>>
  BY DEF CacheFits
<1>1. ASSUME NEW i \in DOMAIN cache, cache'[k] = cache[i] PROVE docs'[cache'[k].url] # <<>>
  <2>1. cache[i] \in Copies
    BY SeqElement DEF Types, CacheTypes
  <2> QED
    BY <1>1, <2>1, DocsGrow DEF CacheFits, Copies
<1>2. ASSUME NEW t \in Tasks, Finish(t), cache'[k] = Robots(call[t])
      PROVE  docs'[cache'[k].url] # <<>>
  <2>1. pc[t] = "caching" /\ Robots(call[t]).url = Url(t) /\ Url(t) \in Urls /\ docs' = docs
    BY <1>2, RobotsFacts, CallFacts DEF Finish
  <2> QED
    BY <1>2, <2>1, CallFacts DEF CallsFit
<1> QED
  BY <1>1, <1>2, CacheSteps DEF CacheStep, Kept, Grown

-----------------------------------------------------------------------------
(* Bounds *)

LEMMA BoundedInit == Init => Bounded
BY RobotsAssumption
   DEF Init, Bounded, WorldBounded, UsedBounded, DocsBounded, CacheBounded, CallBounded

LEMMA WorldGrows ==
  Types /\ [Next]_vars => maxAge' = maxAge /\ now <= now' /\ \A u \in Urls : site[u] <= site'[u]
<1> SUFFICES ASSUME WorldTypes, [Next]_vars
             PROVE  maxAge' = maxAge /\ now <= now' /\ \A u \in Urls : site[u] <= site'[u]
  BY DEF Types
<1>1. CASE Tick \/ Kill \/ UNCHANGED vars \/ \E u \in Urls : Publish(u)
  BY <1>1 DEF WorldTypes, Tick, Kill, Publish, vars, worldVars
<1>2. CASE UNCHANGED worldVars
  BY <1>2 DEF WorldTypes, worldVars
<1> QED
  BY <1>1, <1>2, TaskStepsLeaveWorld DEF Next, PageStarts, PageEnds

LEMMA WorldBoundedStep == Types /\ Bounded /\ [Next]_vars => WorldBounded'
<1> SUFFICES ASSUME Types, WorldBounded, [Next]_vars PROVE WorldBounded'
  BY DEF Bounded
<1>0. /\ now \in Nat /\ MaxTime[maxAge] \in Nat /\ failures \in Nat /\ MaxFailures \in Nat
      /\ \A u \in Urls : site[u] \in Nat /\ MaxVersion[u] \in Nat
  BY RobotsAssumption DEF Types, WorldTypes, NumberTypes
<1>1. CASE Tick \/ UNCHANGED vars
  BY <1>0, <1>1 DEF WorldBounded, Tick, vars, worldVars, historyVars
<1>5. CASE Kill
  BY <1>0, <1>5 DEF WorldBounded, Kill, worldVars
<1>6. ASSUME NEW v \in Urls, Publish(v) PROVE WorldBounded'
  BY <1>0, <1>6 DEF Types, WorldTypes, WorldBounded, Publish, historyVars
<1>2. ASSUME NEW t \in Tasks, NEW u \in Urls, Request(t, u) PROVE WorldBounded'
  BY <1>2 DEF Request, WorldBounded, worldVars
<1>3. ASSUME PageStarts \/ PageEnds \/ \E t \in Tasks : Step(t) \/ Acquire(t) PROVE WorldBounded'
  BY <1>3 DEF PageStarts, PageEnds, Acquire, Step, WakeUp, ReadDocument, Download, Save, Finish,
              WorldBounded, worldVars, historyVars
<1>4. ASSUME NEW t \in Tasks, Interrupt(t) PROVE WorldBounded'
  BY <1>4, RobotsAssumption DEF Interrupt, WorldBounded, worldVars, Types, NumberTypes
<1> QED
  BY <1>1, <1>2, <1>3, <1>4, <1>5, <1>6 DEF Next

(* What is within bounds stays so.                                         *)
LEMMA WithinStays ==
  ASSUME Types, [Next]_vars, NEW u \in Urls, NEW robots,
         robots.file \in Nat, robots.updated \in Nat, Within(robots, u)
  PROVE  robots.file <= site'[u] /\ robots.updated <= now'
<1>1. now <= now' /\ site[u] <= site'[u]
  BY WorldGrows
<1>2. now \in Nat /\ now' \in Nat /\ site[u] \in Nat /\ site'[u] \in Nat
  BY WorldTypeStep DEF Types, WorldTypes
<1> QED
  BY <1>1, <1>2 DEF Within

(* The copy that a fetch makes, and the document it saves.                 *)
LEMMA RobotsWithin ==
  ASSUME Types, Bounded, NEW t \in Tasks, pc[t] # "idle"
  PROVE  Within(Robots(call[t]), Url(t))
BY RobotsFacts, CallFacts DEF Bounded, CallBounded, Within

LEMMA SavedWithin ==
  ASSUME Types, Bounded, CallsFit, NEW t \in Tasks, Save(t)
  PROVE  Saved(call[t]).file <= site[Url(t)] /\ Saved(call[t]).updated <= now
<1>1. call[t] # None /\ Url(t) = call[t].url /\ Url(t) \in Urls
  BY CallFacts DEF Save
<1>2. SavedFits(t)
  BY SavedFacts
<1>3. call[t].doc # None => Within(docs[Url(t)][call[t].doc.place], Url(t))
  BY <1>1, <1>2 DEF SavedFits, Bounded, DocsBounded
<1>4. call[t].stamp <= now /\ call[t].file <= site[Url(t)]
  BY <1>1 DEF Bounded, CallBounded
<1> QED
  BY <1>1, <1>3, <1>4 DEF Saved, Within

LEMMA DocsBoundedStep == Types /\ CallsFit /\ Bounded /\ [Next]_vars => DocsBounded'
<1> SUFFICES ASSUME Types, CallsFit, Bounded, [Next]_vars,
                    NEW u \in Urls, NEW i \in DOMAIN docs'[u]
             PROVE  docs'[u][i].file <= site'[u] /\ docs'[u][i].updated <= now'
  BY DEF DocsBounded, Within
<1>1. ASSUME i \in DOMAIN docs[u], docs'[u][i] = docs[u][i]
      PROVE  docs'[u][i].file <= site'[u] /\ docs'[u][i].updated <= now'
  <2>1. docs[u][i] \in [file : Nat, updated : Nat]
    BY <1>1, SeqElement DEF Types, DocsTypes
  <2>2. Within(docs[u][i], u)
    BY <1>1 DEF Bounded, DocsBounded
  <2> QED
    BY <1>1, <2>1, <2>2, WithinStays
<1>2. ASSUME NEW t \in Tasks, Save(t)
      PROVE  docs'[u][i].file <= site'[u] /\ docs'[u][i].updated <= now'
  <2>1. SavedFits(t) /\ Saved(call[t]).file <= site[Url(t)] /\ Saved(call[t]).updated <= now
    BY <1>2, SavedFacts, SavedWithin
  <2>2. CASE docs'[u][i] = Saved(call[t]) /\ u = Url(t)
    BY <1>2, <2>1, <2>2 DEF Save, worldVars
  <2>3. CASE u # Url(t)
    BY <1>1, <2>1, <2>3 DEF SavedFits, Types, DocsTypes
  <2>4. CASE u = Url(t)
    <3>1. docs'[u] = DocsAfter(t)
      BY <2>1, <2>4 DEF SavedFits, Types, DocsTypes
    <3>2. \A k \in DOMAIN DocsAfter(t) :
            \/ DocsAfter(t)[k] = Saved(call[t])
            \/ k \in DOMAIN docs[Url(t)] /\ DocsAfter(t)[k] = docs[Url(t)][k]
      <4> DEFINE d == docs[Url(t)]
                 after == DocsAfter(t)
      <4>1. CASE call[t].doc = None
        <5>1. /\ DOMAIN after = 1 .. Len(d) + 1 /\ DOMAIN d = 1 .. Len(d) /\ Len(d) \in Nat
              /\ after[Len(d) + 1] = Saved(call[t]) /\ \A k \in DOMAIN d : after[k] = d[k]
          BY <2>1, <4>1 DEF SavedFits
        <5> HIDE DEF d, after
        <5>2. \A k \in DOMAIN after : k \in DOMAIN d \/ k = Len(d) + 1
          BY <5>1
        <5>3. \A k \in DOMAIN after : after[k] = Saved(call[t]) \/ (k \in DOMAIN d /\ after[k] = d[k])
          BY <5>1, <5>2
        <5> QED
          BY <5>3 DEF d, after
      <4>2. CASE call[t].doc # None
        BY <2>1, <4>2 DEF SavedFits
      <4> QED
        BY <4>1, <4>2
    <3> QED
      BY <1>1, <2>2, <2>4, <3>1, <3>2
  <2> QED
    BY <2>3, <2>4
<1>3. CASE UNCHANGED docs
  BY <1>1, <1>3
<1> QED
  BY <1>2, <1>3 DEF Next, Tick, Kill, Publish, PageStarts, PageEnds, Request, Step, WakeUp,
                    ReadDocument, Acquire, Download, Finish, Interrupt, vars

LEMMA CacheBoundedStep == Types /\ CachedOnce /\ Bounded /\ [Next]_vars => CacheBounded'
<1> SUFFICES ASSUME Types, CachedOnce, Bounded, [Next]_vars, NEW k \in DOMAIN cache'
             PROVE  /\ cache'[k].file <= site'[cache'[k].url]
                    /\ cache'[k].updated <= now'
  BY DEF CacheBounded, Within
<1>1. ASSUME NEW copy \in Copies, cache'[k] = copy, Within(copy, copy.url)
      PROVE  cache'[k].file <= site'[cache'[k].url] /\ cache'[k].updated <= now'
  BY <1>1, WithinStays DEF Copies
<1>2. ASSUME NEW i \in DOMAIN cache, cache'[k] = cache[i]
      PROVE  cache'[k].file <= site'[cache'[k].url] /\ cache'[k].updated <= now'
  <2>1. cache[i] \in Copies
    BY SeqElement DEF Types, CacheTypes
  <2> QED
    BY <1>1, <1>2, <2>1 DEF Bounded, CacheBounded
<1>3. ASSUME NEW t \in Tasks, Finish(t), cache'[k] = Robots(call[t])
      PROVE  cache'[k].file <= site'[cache'[k].url] /\ cache'[k].updated <= now'
  BY <1>1, <1>3, RobotsFacts, RobotsWithin DEF Finish
<1> QED
  BY <1>2, <1>3, CacheSteps DEF CacheStep, Kept, Grown

LEMMA UsedBoundedStep == Types /\ CachedOnce /\ Bounded /\ [Next]_vars => UsedBounded'
<1> SUFFICES ASSUME Types, Bounded, [Next]_vars PROVE UsedBounded'
  OBVIOUS
<1>1. /\ UsedBounded /\ NumberTypes /\ WorldTypes /\ WorldTypes'
      /\ \A u \in Urls : site[u] <= site'[u]
  BY WorldGrows, WorldTypeStep DEF Types, Bounded
<1>2. \A i \in DOMAIN cache : cache[i] \in Copies /\ Within(cache[i], cache[i].url)
  BY SeqElement DEF Types, CacheTypes, Bounded, CacheBounded
<1>3. ASSUME NEW t \in Tasks, NEW u \in Urls, Request(t, u) PROVE UsedBounded'
  BY <1>1, <1>2, <1>3 DEF UsedBounded, NumberTypes, WorldTypes, Request, Answer, Cached, Within, Copies,
     worldVars
<1>4. ASSUME NEW t \in Tasks, WakeUp(t) PROVE UsedBounded'
  BY <1>1, <1>2, <1>4 DEF UsedBounded, NumberTypes, WorldTypes, WakeUp, Answer, Cached, Within, Copies,
     worldVars
<1>5. ASSUME NEW t \in Tasks, Finish(t) PROVE UsedBounded'
  <2>1. /\ Url(t) \in Urls /\ Robots(call[t]).url = Url(t) /\ Robots(call[t]).file \in Nat
        /\ Robots(call[t]).file <= site[Url(t)]
    BY <1>5, CallFacts, RobotsFacts, RobotsWithin DEF Finish, Copies, Within
  <2> QED
    BY <1>1, <1>5, <2>1 DEF UsedBounded, NumberTypes, WorldTypes, Finish, Limited, worldVars
<1>6. ASSUME \/ PageStarts \/ PageEnds
             \/ \E t \in Tasks : ReadDocument(t) \/ Acquire(t) \/ Download(t) \/ Save(t) \/ Interrupt(t)
      PROVE  UsedBounded'
  BY <1>1, <1>6 DEF UsedBounded, PageStarts, PageEnds, ReadDocument, Acquire, Download, Save,
                    Interrupt, worldVars, historyVars
<1>7. CASE Tick \/ Kill \/ UNCHANGED vars \/ \E u \in Urls : Publish(u)
  BY <1>1, <1>7 DEF UsedBounded, NumberTypes, WorldTypes, Tick, Kill, Publish, vars, worldVars,
     historyVars
<1> QED
  BY <1>3, <1>4, <1>5, <1>6, <1>7 DEF Next, Step

LEMMA CallBoundedStep ==
  Types /\ CallsFit /\ Bounded /\ [Next]_vars => \A s \in Tasks : CallBounded(s)'
<1> SUFFICES ASSUME Types, CallsFit, Bounded, [Next]_vars, NEW s \in Tasks PROVE CallBounded(s)'
  OBVIOUS
<1>0. /\ WorldTypes' /\ WorldTypes /\ now <= now'
      /\ \A u \in Urls : site[u] <= site'[u]
  BY WorldGrows, WorldTypeStep DEF Types
<1>1. CASE call'[s] = call[s]
  <2>1. SUFFICES ASSUME call[s] # None PROVE CallBounded(s)'
    BY <1>1 DEF CallBounded
  <2>2. call[s] \in Calls /\ CallBounded(s)
    BY <2>1 DEF Types, TaskTypes, Bounded
  <2> QED
    BY <1>0, <1>1, <2>1, <2>2 DEF CallBounded, Calls, Documents, Within, WorldTypes
<1>2. CASE call'[s] = None
  BY <1>2 DEF CallBounded
<1>3. ASSUME NEW u \in Urls, call'[s] = Call(u) \/ call'[s] = [Call(u) EXCEPT !.stamp = now]
      PROVE  CallBounded(s)'
  BY <1>0, <1>3 DEF Call, CallBounded, WorldTypes
<1>4. ASSUME pc[s] # "idle", NEW c \in Calls, call'[s] = c, c.stamp = call[s].stamp, c.url = call[s].url,
             UNCHANGED worldVars,
             c.file <= site[Url(s)], c.doc # None => Within(c.doc, Url(s))
      PROVE  CallBounded(s)'
  <2>1. call[s] # None /\ Url(s) = call[s].url /\ CallBounded(s)
    BY <1>4, CallFacts DEF Bounded
  <2> QED
    BY <1>4, <2>1 DEF CallBounded, Within, worldVars
<1>5. CASE ReadDocument(s)
  <2>1. call[s] # None /\ call[s] \in Calls /\ Url(s) = call[s].url /\ Url(s) \in Urls /\ CallBounded(s)
    BY <1>5, CallFacts DEF ReadDocument, Bounded
  <2>2. PICK doc \in Found(Url(s)) : call' = [call EXCEPT ![s] = [call[s] EXCEPT !.doc = doc]]
    BY <1>5 DEF ReadDocument
  <2>3. doc # None => Within(doc, Url(s))
    BY <2>1, FoundFacts DEF Bounded, DocsBounded, Within
  <2>4. call'[s] = [call[s] EXCEPT !.doc = doc] /\ [call[s] EXCEPT !.doc = doc] \in Calls
    BY <2>1, <2>2, FoundFacts DEF Types, TaskTypes, Calls
  <2> QED
    BY <1>4, <1>5, <2>1, <2>3, <2>4 DEF ReadDocument, CallBounded, Calls
<1>6. CASE Download(s)
  <2>1. call[s] # None /\ call[s] \in Calls /\ Url(s) = call[s].url /\ Url(s) \in Urls /\ CallBounded(s)
    BY <1>6, CallFacts DEF Download, Bounded
  <2>2. PICK got \in {site[Url(s)], 0} :
          call' = [call EXCEPT ![s] = [call[s] EXCEPT !.file = got]]
    BY <1>6 DEF Download
  <2>3. got \in Nat /\ got <= site[Url(s)]
    BY <1>0, <2>1, <2>2 DEF WorldTypes
  <2>4. call'[s] = [call[s] EXCEPT !.file = got] /\ [call[s] EXCEPT !.file = got] \in Calls
    BY <2>1, <2>2, <2>3 DEF Types, TaskTypes, Calls
  <2> QED
    BY <1>4, <1>6, <2>1, <2>3, <2>4 DEF Download, CallBounded, Calls
<1>7. ASSUME NEW t \in Tasks, NEW u \in Urls, Request(t, u) PROVE CallBounded(s)'
  BY <1>1, <1>2, <1>3, <1>7 DEF Request, Answer, StartFetch, Types, TaskTypes
<1>8. ASSUME NEW t \in Tasks, WakeUp(t) PROVE CallBounded(s)'
  <2>1. Url(t) \in Urls
    BY <1>8, CallFacts DEF WakeUp
  <2> QED
    BY <1>1, <1>2, <1>3, <1>8, <2>1 DEF WakeUp, Answer, StartFetch, Types, TaskTypes
<1>9. ASSUME NEW t \in Tasks, ReadDocument(t) \/ Download(t) \/ Save(t) \/ Finish(t) \/ Interrupt(t)
      PROVE  CallBounded(s)'
  BY <1>1, <1>2, <1>5, <1>6, <1>9
     DEF ReadDocument, Download, Save, Finish, Interrupt, Types, TaskTypes
<1>10. ASSUME \/ Tick \/ Kill \/ PageStarts \/ PageEnds \/ UNCHANGED vars
              \/ (\E u \in Urls : Publish(u)) \/ \E t \in Tasks : Acquire(t)
       PROVE  CallBounded(s)'
  BY <1>1, <1>2, <1>10 DEF Tick, Kill, PageStarts, PageEnds, Publish, Acquire, vars
<1> QED
  BY <1>7, <1>8, <1>9, <1>10 DEF Next, Step

LEMMA BoundedStep == Types /\ CachedOnce /\ CallsFit /\ Bounded /\ [Next]_vars => Bounded'
BY WorldBoundedStep, UsedBoundedStep, DocsBoundedStep, CacheBoundedStep, CallBoundedStep DEF Bounded

-----------------------------------------------------------------------------
(* One fetch per file *)

(* Those who fetch a file stay among themselves.                           *)
UrlOf(c) == IF c = None THEN None ELSE c.url

OthersStay(t) ==
  \A r \in Tasks : r # t => call'[r] = call[r] /\ (pc'[r] \in Busy <=> pc[r] \in Busy)

LEMMA OthersDoStay ==
  ASSUME Types, NEW t \in Tasks,
         Step(t) \/ Acquire(t) \/ Interrupt(t) \/ \E u \in Urls : Request(t, u)
  PROVE  OthersStay(t)
<1>1. CASE WakeUp(t)
  BY <1>1 DEF WakeUp, Answer, StartFetch, Types, TaskTypes, OthersStay, Busy, At
<1>2. CASE Finish(t)
  BY <1>2 DEF Finish, Woken, Types, TaskTypes, OthersStay, Busy, At
<1>3. CASE ReadDocument(t) \/ Acquire(t) \/ Download(t) \/ Save(t) \/ Interrupt(t)
  BY <1>3 DEF ReadDocument, Acquire, Download, Save, Interrupt, Types, TaskTypes, OthersStay, Busy
<1>4. ASSUME NEW u \in Urls, Request(t, u) PROVE OthersStay(t)
  BY <1>4 DEF Request, Answer, StartFetch, Types, TaskTypes, OthersStay, Busy
<1> QED
  BY <1>1, <1>2, <1>3, <1>4 DEF Step

(* While no copy of a file is added, none is there.                        *)
NotIn(copies, u) == \A i \in DOMAIN copies : copies[i].url # u

LEMMA StillNotCached ==
  ASSUME NEW u, NotIn(cache, u),
         Kept(cache') \/ \E robots : robots.url # u /\ Grown(cache', robots)
  PROVE  NotIn(cache', u)
BY DEF NotIn, Kept, Grown

LEMMA OneFetchStep == Types /\ CachedOnce /\ OneFetch /\ [Next]_vars => OneFetch'
<1> SUFFICES ASSUME Types, CachedOnce, OneFetch, [Next]_vars, NEW s \in Tasks,
                    pc'[s] \in Busy, UrlOf(call'[s]) \notin raced'
             PROVE  /\ \A r \in Tasks : pc'[r] \in Busy /\ UrlOf(call'[r]) = UrlOf(call'[s]) => r = s
                    /\ UrlOf(call'[s]) \in fetching'
                    /\ NotIn(cache', UrlOf(call'[s]))
  BY DEF OneFetch, Fetchers, Cached, NotIn, Url, UrlOf
<1> DEFINE AloneNow == /\ \A r \in Tasks : pc'[r] \in Busy /\ UrlOf(call'[r]) = UrlOf(call'[s]) => r = s
                       /\ UrlOf(call'[s]) \in fetching'
                       /\ NotIn(cache', UrlOf(call'[s]))
<1>0. \A r \in Tasks : pc[r] \in Busy /\ UrlOf(call[r]) \notin raced =>
        /\ \A q \in Tasks : pc[q] \in Busy /\ UrlOf(call[q]) = UrlOf(call[r]) => q = r
        /\ UrlOf(call[r]) \in fetching /\ NotIn(cache, UrlOf(call[r]))
  BY DEF OneFetch, Fetchers, Cached, NotIn, Url, UrlOf
<1>1. ASSUME NEW t \in Tasks, NEW u \in Urls, Request(t, u) PROVE AloneNow
  <2>1. OthersStay(t) /\ Kept(cache') /\ raced' = raced /\ raced = {} /\ fetching \subseteq fetching'
    BY <1>1, OthersDoStay, RequestKeeps DEF Request, StartFetch, Calm
  <2>2. CASE pc'[t] \notin Busy
    BY <1>0, <2>1, <2>2, StillNotCached DEF OthersStay
  <2>3. CASE pc'[t] \in Busy
    <3>1. /\ u \notin fetching /\ fetching' = fetching \cup {u} /\ UrlOf(call'[t]) = u
          /\ cache' = CacheWithout(u)
      BY <1>1, <2>3, StartFetchCall DEF Request, Answer, StartFetch, Types, TaskTypes, Busy, Url, UrlOf, Call
    <3>2. NotIn(cache', u)
      BY <3>1, WithoutFacts DEF NotIn
    <3>3. \A r \in Tasks : pc[r] \in Busy => UrlOf(call[r]) # u
      BY <1>0, <2>1, <3>1
    <3> QED
      BY <1>0, <2>1, <3>1, <3>2, <3>3, StillNotCached DEF OthersStay
  <2> QED
    BY <2>2, <2>3
<1>2. ASSUME NEW t \in Tasks, WakeUp(t) PROVE AloneNow
  <2>1. /\ OthersStay(t) /\ cache' = cache /\ raced \subseteq raced' /\ fetching \subseteq fetching'
        /\ pc[t] \notin Busy
    BY <1>2, OthersDoStay DEF Step, WakeUp, StartFetch, Busy
  <2>2. CASE pc'[t] \notin Busy
    BY <1>0, <2>1, <2>2 DEF OthersStay
  <2>3. CASE pc'[t] \in Busy
    <3> DEFINE u == Url(t)
    <3>1. u \in Urls
      BY <1>2, CallFacts DEF WakeUp
    <3>2. /\ NotIn(cache, u) /\ fetching' = fetching \cup {u} /\ UrlOf(call'[t]) = u
          /\ raced' = raced \cup ({u} \cap fetching)
      BY <1>2, <2>3, <3>1, StartFetchCall DEF WakeUp, Answer, StartFetch, Types, TaskTypes, Busy, Url, UrlOf, Call, Cached, NotIn
    <3> HIDE DEF u
    <3>3. u \notin raced' => \A r \in Tasks : pc[r] \in Busy => UrlOf(call[r]) # u
      BY <1>0, <3>2
    <3> QED
      BY <1>0, <2>1, <3>2, <3>3 DEF OthersStay
  <2> QED
    BY <2>2, <2>3
<1>3. ASSUME NEW t \in Tasks, Finish(t) PROVE AloneNow
  <2>1. /\ OthersStay(t) /\ raced' = raced /\ fetching' = fetching \ {UrlOf(call[t])}
        /\ pc[t] \in Busy /\ pc'[t] \notin Busy
    BY <1>3, OthersDoStay DEF Step, Finish, Woken, Busy, Types, TaskTypes, Url, UrlOf
  <2>2. Grown(cache', Robots(call[t])) /\ Robots(call[t]).url = UrlOf(call[t])
    BY <1>3, FinishGrows, RobotsFacts DEF Finish, Url, UrlOf
  <2>3. s # t /\ pc[s] \in Busy /\ UrlOf(call'[s]) = UrlOf(call[s]) /\ UrlOf(call[s]) # UrlOf(call[t])
    BY <1>0, <2>1 DEF OthersStay
  <2> QED
    BY <1>0, <2>1, <2>2, <2>3, StillNotCached DEF OthersStay
<1>4. ASSUME NEW t \in Tasks, ReadDocument(t) \/ Acquire(t) \/ Download(t) \/ Save(t) PROVE AloneNow
  <2>1. OthersStay(t) /\ UNCHANGED <<raced, fetching, cache>> /\ pc[t] \in Busy
    BY <1>4, OthersDoStay DEF Step, ReadDocument, Acquire, Download, Save, Busy, historyVars
  <2>2. call[t] # None /\ call[t] \in Calls /\ call' \in [Tasks -> Calls \cup {None}]
    BY <1>4, CallFacts, TaskTypeStep DEF ReadDocument, Acquire, Download, Save, TaskTypes
  <2>3. call'[t] # None /\ call'[t].url = call[t].url
    <3>1. CASE ReadDocument(t)
      <4>1. PICK doc \in Found(Url(t)) : call' = [call EXCEPT ![t] = [call[t] EXCEPT !.doc = doc]]
        BY <3>1 DEF ReadDocument
      <4>2. call'[t] = [call[t] EXCEPT !.doc = doc]
        BY <4>1 DEF Types, TaskTypes
      <4>3. [call[t] EXCEPT !.doc = doc] \in Calls
        BY <2>2, <3>1, FoundFacts, CallFacts DEF Calls, ReadDocument
      <4> QED
        BY <2>2, <4>2, <4>3, RobotsAssumption DEF Calls
    <3>2. CASE Download(t)
      <4>1. PICK got \in {site[Url(t)], 0} : call' = [call EXCEPT ![t] = [call[t] EXCEPT !.file = got]]
        BY <3>2 DEF Download
      <4>2. call'[t] = [call[t] EXCEPT !.file = got]
        BY <4>1 DEF Types, TaskTypes
      <4>3. [call[t] EXCEPT !.file = got] \in Calls
        BY <2>2, <3>2, <4>1, CallFacts DEF Calls, Download, Types, WorldTypes
      <4> QED
        BY <2>2, <4>2, <4>3, RobotsAssumption DEF Calls
    <3>3. CASE Acquire(t) \/ Save(t)
      BY <2>2, <3>3 DEF Acquire, Save
    <3> QED
      BY <1>4, <3>1, <3>2, <3>3
  <2>4. UrlOf(call'[t]) = UrlOf(call[t])
    BY <2>2, <2>3 DEF UrlOf
  <2> QED
    BY <1>0, <2>1, <2>4 DEF OthersStay
<1>5. ASSUME NEW t \in Tasks, Interrupt(t) PROVE AloneNow
  <2>1. OthersStay(t) /\ UNCHANGED <<raced, fetching, cache>> /\ pc'[t] \notin Busy
    BY <1>5, OthersDoStay DEF Interrupt, Busy, Types, TaskTypes
  <2> QED
    BY <1>0, <2>1 DEF OthersStay
<1>6. CASE Kill
  BY <1>6 DEF Kill, Busy
<1>7. CASE Tick \/ PageStarts \/ PageEnds \/ UNCHANGED vars \/ \E u \in Urls : Publish(u)
  <2>1. UNCHANGED <<pc, call, raced, fetching, cache>>
    BY <1>7 DEF Tick, PageStarts, PageEnds, Publish, vars, historyVars
  <2> QED
    BY <1>0, <2>1
<1> QED
  BY <1>1, <1>2, <1>3, <1>4, <1>5, <1>6, <1>7 DEF Next, Step

-----------------------------------------------------------------------------
(* Versions go up *)

LEMMA Numbers ==
  ASSUME Types
  PROVE  /\ \A u \in Urls :
              /\ used[u] \in Nat /\ limit[u] \in Nat /\ site[u] \in Nat
              /\ Len(docs[u]) \in Nat /\ DOMAIN docs[u] = 1 .. Len(docs[u])
              /\ docs[u] # <<>> => 1 \in DOMAIN docs[u] /\ Len(docs[u]) >= 1
              /\ \A i \in DOMAIN docs[u] : docs[u][i].file \in Nat /\ docs[u][i].updated \in Nat
         /\ \A i \in DOMAIN cache : cache[i].file \in Nat /\ cache[i].url \in Urls
<1>1. ASSUME NEW u \in Urls
      PROVE  /\ used[u] \in Nat /\ limit[u] \in Nat /\ site[u] \in Nat
             /\ Len(docs[u]) \in Nat /\ DOMAIN docs[u] = 1 .. Len(docs[u])
             /\ docs[u] # <<>> => 1 \in DOMAIN docs[u] /\ Len(docs[u]) >= 1
             /\ \A i \in DOMAIN docs[u] : docs[u][i].file \in Nat /\ docs[u][i].updated \in Nat
  <2>1. docs[u] \in Seq([file : Nat, updated : Nat])
    BY DEF Types, DocsTypes
  <2>2. \A i \in DOMAIN docs[u] : docs[u][i] \in [file : Nat, updated : Nat]
    BY <2>1, SeqElement
  <2>3. /\ Len(docs[u]) \in Nat /\ DOMAIN docs[u] = 1 .. Len(docs[u])
        /\ docs[u] # <<>> => Len(docs[u]) >= 1
    BY <2>1
  <2>4. docs[u] # <<>> => 1 \in DOMAIN docs[u]
    BY <2>3
  <2> QED
    BY <2>2, <2>3, <2>4 DEF Types, NumberTypes, WorldTypes
<1>2. \A i \in DOMAIN cache : cache[i] \in Copies
  BY SeqElement DEF Types, CacheTypes
<1> QED
  BY <1>1, <1>2 DEF Copies

(* The file that an answer, or a finished fetch, uses.                     *)
LEMMA AnsweredUpwards ==
  ASSUME Types, CachedOnce, CacheFits, Upwards, Kept(cache'), UNCHANGED <<docs, limit, raced>>,
         NEW i \in DOMAIN cache, used' = [used EXCEPT ![cache[i].url] = cache[i].file]
  PROVE  Upwards' /\ \A u \in Urls \ raced : used[u] <= used'[u]
<1> SUFFICES ASSUME NEW u \in Urls \ raced PROVE UpwardsAt(u)' /\ used[u] <= used'[u]
  BY DEF Upwards
<1>1. UpwardsAt(u)
  BY DEF Upwards
<1>2. CASE u # cache[i].url
  <2>1. used'[u] = used[u]
    BY <1>2 DEF Types, NumberTypes
  <2> QED
    BY <1>1, <2>1, Numbers DEF UpwardsAt, Cached, Kept
<1>3. CASE u = cache[i].url
  <2>1. used'[u] = cache[i].file
    BY <1>3 DEF Types, NumberTypes
  <2>2. \A k \in DOMAIN cache' : cache'[k].url = u => cache'[k] = cache[i]
    BY <1>3 DEF Kept, CachedOnce
  <2>3. docs[u] # <<>> /\ used[u] <= cache[i].file /\ cache[i].file <= docs[u][1].file
    BY <1>1, <1>3 DEF CacheFits, UpwardsAt, Cached
  <2> QED
    BY <1>1, <2>1, <2>2, <2>3, Numbers DEF UpwardsAt, Cached
<1> QED
  BY <1>2, <1>3

LEMMA KeptUpwards ==
  ASSUME Types, CacheFits, Upwards, Kept(cache'), UNCHANGED <<docs, used>>, raced \subseteq raced',
         limit' = limit \/ limit' = [u \in Urls |-> 0]
  PROVE  Upwards'
<1> SUFFICES ASSUME NEW u \in Urls \ raced' PROVE UpwardsAt(u)'
  BY DEF Upwards
<1>1. UpwardsAt(u)
  BY DEF Upwards
<1>2. limit'[u] <= used[u]
  BY <1>1, Numbers DEF UpwardsAt
<1> QED
  BY <1>1, <1>2, Numbers DEF UpwardsAt, Cached, Kept

LEMMA FetchUp ==
  ASSUME Types, CallsFit, Bounded, OneFetch, Upwards, CallsUpwards,
         NEW t \in Tasks, pc[t] \in Busy, Url(t) \notin raced
  PROVE  /\ call[t] # None /\ call[t] \in Calls /\ Url(t) \in Urls /\ Url(t) = call[t].url
         /\ UpwardsIn(call[t], pc[t], docs[Url(t)], used[Url(t)], maxAge) /\ UpwardsAt(Url(t))
         /\ Url(t) \in fetching /\ NotIn(cache, Url(t))
         /\ \A r \in Tasks : pc[r] \in Busy /\ UrlOf(call[r]) = Url(t) => r = t
         /\ call[t].doc # None => call[t].doc.place = 1 /\ docs[Url(t)] # <<>>
<1>1. call[t] # None /\ call[t] \in Calls /\ Url(t) \in Urls /\ Url(t) = call[t].url
  BY CallFacts DEF Busy
<1>2. UpwardsIn(call[t], pc[t], docs[Url(t)], used[Url(t)], maxAge) /\ UpwardsAt(Url(t))
  BY <1>1 DEF Upwards, CallsUpwards
<1>3. /\ Url(t) \in fetching /\ NotIn(cache, Url(t))
      /\ \A r \in Tasks : pc[r] \in Busy /\ UrlOf(call[r]) = Url(t) => r = t
  BY DEF OneFetch, NotIn, Fetchers, Cached, Url, UrlOf
<1>4. call[t].doc # None => call[t].doc.place = 1 /\ docs[Url(t)] # <<>>
  <2>1. SUFFICES ASSUME call[t].doc # None
                 PROVE  call[t].doc.place = 1 /\ docs[Url(t)] # <<>>
    OBVIOUS
  <2>2. call[t].doc.place \in DOMAIN docs[Url(t)]
    BY <1>1, <2>1 DEF CallsFit
  <2>3. DOMAIN docs[Url(t)] = 1 .. Len(docs[Url(t)]) /\ Len(docs[Url(t)]) \in Nat
        /\ Len(docs[Url(t)]) <= 1
    BY <1>1, <1>2, Numbers DEF UpwardsAt
  <2>4. call[t].doc.place = 1
    BY <2>2, <2>3
  <2> QED
    BY <2>2, <2>3, <2>4
<1> QED
  BY <1>1, <1>2, <1>3, <1>4

LEMMA OnlyOne == ASSUME NEW n \in Nat, n >= 1, n <= 1 PROVE n = 1
OBVIOUS

LEMMA UpToOne == ASSUME NEW n \in Nat, 1 .. n = 1 .. 1 PROVE n = 1
<1>1. 1 \in 1 .. n
  OBVIOUS
<1>2. n \in 1 .. n
  BY <1>1
<1> QED
  BY <1>2

(* The document that a fetch saves is the only one, and its file no older. *)
LEMMA SavedUp ==
  ASSUME Types, CallsFit, Bounded, OneFetch, Upwards, CallsUpwards,
         NEW t \in Tasks, Save(t), Url(t) \notin raced
  PROVE  /\ Len(docs'[Url(t)]) = 1 /\ docs'[Url(t)] # <<>>
         /\ docs'[Url(t)][1].file \in Nat
         /\ IF call[t].doc = None
              THEN docs[Url(t)] = <<>> /\ docs'[Url(t)][1].file = call[t].file
              ELSE docs[Url(t)] # <<>> /\ docs[Url(t)][1].file <= docs'[Url(t)][1].file
         /\ \A u \in Urls \ {Url(t)} : docs'[u] = docs[u]
<1> DEFINE u == Url(t)
           c == call[t]
<1>1. /\ c # None /\ c \in Calls /\ u \in Urls /\ u = c.url /\ UpwardsIn(c, "saving", docs[u], used[u], maxAge) /\ UpwardsAt(u)
      /\ c.doc # None => c.doc.place = 1 /\ docs[u] # <<>>
  BY FetchUp DEF Save, Busy
<1>2. SavedFits(t)
  BY SavedFacts
<1>3. docs'[u] = DocsAfter(t) /\ \A v \in Urls \ {u} : docs'[v] = docs[v]
  BY <1>2 DEF SavedFits, Types, DocsTypes
<1>4. DocsTypes'
  BY DocsTypeStep, <1>3 DEF Next, Step
<1>5. Len(docs'[u]) \in Nat /\ DOMAIN docs'[u] = 1 .. Len(docs'[u])
  BY <1>1, <1>4 DEF DocsTypes
<1>6. docs'[u] # <<>>
  BY <1>2, <1>3 DEF SavedFits
<1>7. /\ Len(docs[u]) \in Nat /\ (docs[u] # <<>> => 1 \in DOMAIN docs[u] /\ Len(docs[u]) >= 1)
      /\ \A i \in DOMAIN docs[u] : docs[u][i].file \in Nat
  BY <1>1, Numbers
<1>8. CASE c.doc = None
  <2>1. docs[u] = <<>>
    BY <1>1, <1>8 DEF UpwardsIn
  <2>2. DOMAIN docs'[u] = 1 .. 1 /\ docs'[u][1] = Saved(c)
    BY <1>2, <1>3, <1>8, <2>1 DEF SavedFits
  <2>3. Len(docs'[u]) = 1
    BY <1>5, <2>2, UpToOne
  <2>4. Saved(c).file = c.file /\ c.file \in Nat
    BY <1>1, <1>8 DEF Saved, Calls
  <2> QED
    BY <1>3, <1>8, <1>6, <2>1, <2>2, <2>3, <2>4
<1>9. CASE c.doc # None
  <2>1. /\ docs[u] # <<>> /\ Len(docs[u]) = 1 /\ docs[u][1].file \in Nat /\ 1 \in DOMAIN docs[u]
    <3>1. docs[u] # <<>>
      BY <1>1, <1>9
    <3>2. Len(docs[u]) <= 1
      BY <1>1 DEF UpwardsAt
    <3>3. Len(docs[u]) \in Nat /\ Len(docs[u]) >= 1 /\ 1 \in DOMAIN docs[u]
      BY <1>7, <3>1
    <3>4. Len(docs[u]) = 1
      BY <3>2, <3>3, OnlyOne
    <3> QED
      BY <1>7, <3>1, <3>3, <3>4
  <2>2. DOMAIN docs'[u] = 1 .. 1 /\ docs'[u][1] = Saved(c)
    BY <1>1, <1>2, <1>3, <1>9, <2>1 DEF SavedFits
  <2>3. Len(docs'[u]) = 1
    BY <1>5, <2>2, UpToOne
  <2>4. Saved(c).file = (IF c.file = 0 THEN docs[u][1].file ELSE c.file) /\ c.file \in Nat
    BY <1>1, <1>9 DEF Saved, Calls
  <2>5. c.file # 0 => docs[u][1].file <= c.file
    BY <1>1, <2>1 DEF UpwardsIn
  <2> QED
    BY <1>3, <1>9, <1>6, <2>1, <2>2, <2>3, <2>4, <2>5
<1> QED
  BY <1>8, <1>9

(* What goes up in a step.                                                 *)
GoesUp ==
  \A u \in Urls \ raced' : used[u] <= used'[u] /\ (limit[u] <= limit'[u] \/ limit'[u] = 0)

LEMMA UpwardsStep == Inv /\ [Next]_vars => Upwards' /\ GoesUp
<1> SUFFICES ASSUME Inv, [Next]_vars PROVE Upwards' /\ GoesUp
  OBVIOUS
<1> USE DEF Inv
<1>0. Kept(cache) /\ Kept(<<>>)
  BY RobotsAssumption DEF Kept, Types, CacheTypes, CachedOnce
<1>1. ASSUME Kept(cache'), UNCHANGED <<docs, used, raced>>,
             limit' = limit \/ limit' = [u \in Urls |-> 0]
      PROVE  Upwards' /\ GoesUp
  BY <1>1, KeptUpwards, Numbers DEF GoesUp
<1>2. ASSUME NEW i \in DOMAIN cache, used' = [used EXCEPT ![cache[i].url] = cache[i].file],
             Kept(cache'), UNCHANGED <<docs, limit, raced>>
      PROVE  Upwards' /\ GoesUp
  <2>1. Upwards' /\ \A u \in Urls \ raced : used[u] <= used'[u]
    BY <1>2, AnsweredUpwards
  <2> QED
    BY <1>2, <2>1, Numbers DEF GoesUp
<1>3. ASSUME NEW t \in Tasks, NEW u \in Urls, Request(t, u) PROVE Upwards' /\ GoesUp
  <2>1. Kept(cache') /\ UNCHANGED <<docs, limit, raced>>
    BY <1>3, RequestKeeps DEF Request
  <2>2. \/ used' = used
        \/ \E i \in DOMAIN cache : used' = [used EXCEPT ![cache[i].url] = cache[i].file]
    BY <1>3 DEF Request, Answer, Cached
  <2> QED
    BY <1>1, <1>2, <2>1, <2>2
<1>4. ASSUME NEW t \in Tasks, WakeUp(t) PROVE Upwards' /\ GoesUp
  <2>1. Kept(cache') /\ UNCHANGED <<docs, limit>>
    BY <1>0, <1>4 DEF WakeUp
  <2>2. CASE used' = used /\ raced \subseteq raced'
    BY <2>1, <2>2, KeptUpwards, Numbers DEF GoesUp
  <2>3. CASE /\ raced' = raced
             /\ \E i \in DOMAIN cache : used' = [used EXCEPT ![cache[i].url] = cache[i].file]
    BY <1>2, <2>1, <2>3
  <2> QED
    BY <1>4, <2>2, <2>3 DEF WakeUp, Answer, Cached
<1>5. ASSUME NEW t \in Tasks, ReadDocument(t) \/ Acquire(t) \/ Download(t) \/ Interrupt(t)
      PROVE  Upwards' /\ GoesUp
  BY <1>0, <1>1, <1>5 DEF ReadDocument, Acquire, Download, Interrupt, historyVars
<1>6. CASE Tick \/ PageStarts \/ PageEnds \/ UNCHANGED vars \/ \E u \in Urls : Publish(u)
  BY <1>0, <1>1, <1>6 DEF Tick, PageStarts, PageEnds, Publish, vars, historyVars
<1>7. CASE Kill
  BY <1>0, <1>1, <1>7 DEF Kill
<1>8. ASSUME NEW t \in Tasks, Save(t) PROVE Upwards' /\ GoesUp
  <2>1. UNCHANGED <<cache, limit, used, raced>>
    BY <1>8 DEF Save, historyVars
  <2>2. GoesUp
    BY <2>1, Numbers DEF GoesUp
  <2>3. SUFFICES ASSUME NEW u \in Urls \ raced PROVE UpwardsAt(u)'
    BY <2>1, <2>2 DEF Upwards
  <2>4. UpwardsAt(u)
    BY DEF Upwards
  <2>5. CASE u # Url(t)
    <3>1. docs'[u] = docs[u]
      BY <1>8, <2>5, SavedFacts DEF SavedFits, Types, DocsTypes
    <3> QED
      BY <2>1, <2>4, <3>1 DEF UpwardsAt, Cached
  <2>6. CASE u = Url(t)
    <3>1. /\ Len(docs'[u]) = 1 /\ docs'[u] # <<>> /\ docs'[u][1].file \in Nat
          /\ docs[u] # <<>> => docs[u][1].file <= docs'[u][1].file
      BY <1>8, <2>6, SavedUp
    <3>2. NotIn(cache, u)
      BY <1>8, <2>6, FetchUp DEF Save, Busy
    <3>3. docs[u] # <<>> => docs[u][1].file \in Nat
      BY Numbers
    <3>4. used[u] \in Nat /\ limit[u] <= used[u]
          /\ (IF docs[u] = <<>> THEN used[u] = 0 ELSE used[u] <= docs[u][1].file)
      BY <2>4, Numbers DEF UpwardsAt
    <3>5. used[u] <= docs'[u][1].file
      BY <3>1, <3>3, <3>4
    <3> QED
      BY <2>1, <3>1, <3>2, <3>4, <3>5 DEF UpwardsAt, Cached, NotIn
  <2> QED
    BY <2>5, <2>6
<1>9. ASSUME NEW t \in Tasks, Finish(t) PROVE Upwards' /\ GoesUp
  <2> DEFINE robots == Robots(call[t])
             w == Url(t)
  <2>1. /\ Grown(cache', robots) /\ robots \in Copies /\ robots.url = w /\ w \in Urls
        /\ UNCHANGED <<docs, raced>>
    BY <1>9, FinishGrows, RobotsFacts, CallFacts DEF Finish
  <2>2. SUFFICES ASSUME NEW u \in Urls \ raced
                 PROVE  /\ UpwardsAt(u)' /\ used[u] <= used'[u]
                        /\ limit[u] <= limit'[u] \/ limit'[u] = 0
    BY <2>1 DEF Upwards, GoesUp
  <2>3. UpwardsAt(u)
    BY DEF Upwards
  <2>4. CASE u # w
    <3>1. used'[u] = used[u] /\ limit'[u] = limit[u]
      BY <1>9, <2>1, <2>4 DEF Finish, Limited, Types, NumberTypes
    <3> QED
      BY <2>1, <2>3, <2>4, <3>1, Numbers DEF UpwardsAt, Cached, Grown
  <2>5. CASE u = w
    <3>1. /\ UpwardsIn(call[t], "caching", docs[u], used[u], maxAge) /\ u \in fetching /\ NotIn(cache, u)
          /\ call[t].doc # None => docs[u] # <<>>
      BY <1>9, <2>5, FetchUp DEF Finish, Busy
    <3>2. used'[u] = robots.file /\ limit'[u] \in {robots.file, limit[u]}
      BY <1>9, <2>1, <2>5, <3>1 DEF Finish, Limited, Types, NumberTypes
    <3>3. docs[u] # <<>>
      BY <1>9, <2>5, CallFacts DEF Finish, CallsFit
    <3>4. used[u] <= robots.file /\ robots.file <= docs[u][1].file
      <4>1. CASE call[t].doc = None
        <5>1. robots.file = call[t].file /\ robots.file \in Nat /\ used[u] = 0
              /\ call[t].file <= docs[u][1].file
          BY <1>9, <2>1, <3>1, <4>1, RobotsFacts DEF Finish, UpwardsIn, Copies
        <5> QED
          BY <5>1
      <4>2. CASE call[t].doc # None
        BY <1>9, <3>1, <4>2, RobotsFacts DEF Finish, UpwardsIn
      <4> QED
        BY <4>1, <4>2
    <3>5. \A k \in DOMAIN cache' : cache'[k].url = u => cache'[k] = robots
      BY <2>1, <2>5 DEF Grown
    <3>6. used[u] \in Nat /\ limit[u] \in Nat /\ limit[u] <= used[u] /\ Len(docs[u]) <= 1
          /\ robots.file \in Nat
      BY <2>1, <2>3, Numbers DEF UpwardsAt, Copies
    <3> HIDE DEF robots
    <3>7. limit'[u] <= robots.file /\ limit[u] <= limit'[u]
      BY <3>2, <3>4, <3>6
    <3> QED
      BY <2>1, <3>2, <3>3, <3>4, <3>5, <3>6, <3>7 DEF UpwardsAt, Cached
  <2> QED
    BY <2>4, <2>5
<1> QED
  BY <1>3, <1>4, <1>5, <1>6, <1>7, <1>8, <1>9 DEF Next, Step

LEMMA PartOfDay == ASSUME NEW n \in Nat PROVE Seconds(n) <= n
<1>1. Day \in Nat /\ Day > 0
  BY RobotsAssumption
<1> QED
  BY <1>1 DEF Seconds

(* The call of one task.                                                   *)
CallUpwards(s) ==
  pc[s] \in Busy /\ UrlOf(call[s]) \notin raced =>
    UpwardsIn(call[s], pc[s], docs[UrlOf(call[s])], used[UrlOf(call[s])], maxAge)

LEMMA CallsUpwardsIs == CallsUpwards <=> \A s \in Tasks : CallUpwards(s)
BY DEF CallsUpwards, CallUpwards, Url, UrlOf

(* A fetch that stays where it is, while others do what they do.           *)
LEMMA StillUpwards ==
  ASSUME NEW s \in Tasks, CallUpwards(s), UNCHANGED maxAge, call'[s] = call[s], raced \subseteq raced',
         pc[s] \in Busy => pc'[s] = pc[s],
         pc'[s] \in Busy => pc[s] \in Busy,
         pc[s] \in Busy /\ UrlOf(call[s]) \notin raced' =>
           /\ docs'[UrlOf(call[s])] = docs[UrlOf(call[s])]
           /\ used'[UrlOf(call[s])] = used[UrlOf(call[s])]
  PROVE  CallUpwards(s)'
BY DEF CallUpwards, UpwardsIn

LEMMA CallsUpwardsStep == Inv /\ [Next]_vars => CallsUpwards'
<1> SUFFICES ASSUME Inv, [Next]_vars, NEW s \in Tasks PROVE CallUpwards(s)'
  BY DEF CallsUpwards, CallUpwards, UpwardsIn, Url, UrlOf
<1> USE DEF Inv
<1>0. CallUpwards(s) /\ maxAge' = maxAge
  BY CallsUpwardsIs, WorldGrows
<1>1. CASE pc'[s] \notin Busy
  BY <1>1 DEF CallUpwards
<1>2. CASE call'[s] = call[s] /\ pc'[s] = pc[s] /\ UNCHANGED <<docs, used, raced>>
  BY <1>0, <1>2, StillUpwards
<1>3. ASSUME NEW u \in Urls, pc'[s] = "database", call'[s] = [Call(u) EXCEPT !.stamp = now],
             UNCHANGED docs
      PROVE  CallUpwards(s)'
  <2>1. UrlOf(call'[s]) = u
    BY <1>3, StartFetchCall DEF UrlOf, Call
  <2>2. docs[u] # <<>> => docs[u][1].updated <= now
    BY Numbers DEF Bounded, DocsBounded, Within
  <2> QED
    BY <1>3, <2>1, <2>2 DEF CallUpwards, UpwardsIn, Call
<1>4. ASSUME NEW t \in Tasks, NEW u \in Urls, Request(t, u) PROVE CallUpwards(s)'
  <2>1. UNCHANGED <<docs, raced>>
    BY <1>4 DEF Request
  <2>2. CASE s = t
    BY <1>1, <1>3, <1>4, <2>1, <2>2 DEF Request, Answer, StartFetch, Types, TaskTypes, Busy
  <2>3. CASE s # t
    <3>1. call'[s] = call[s] /\ pc'[s] = pc[s]
      BY <1>4, <2>3 DEF Request, Answer, StartFetch, Types, TaskTypes
    <3>2. pc[s] \in Busy /\ UrlOf(call[s]) \notin raced => used'[UrlOf(call[s])] = used[UrlOf(call[s])]
      BY <1>4, FetchUp DEF Request, Answer, Cached, NotIn, Url, UrlOf, Types, NumberTypes
    <3> QED
      BY <1>0, <2>1, <3>1, <3>2, StillUpwards
  <2> QED
    BY <2>2, <2>3
<1>5. ASSUME NEW t \in Tasks, WakeUp(t) PROVE CallUpwards(s)'
  <2>1. docs' = docs /\ raced \subseteq raced'
    BY <1>5 DEF WakeUp
  <2>2. CASE s = t
    BY <1>1, <1>3, <1>5, <2>1, <2>2, CallFacts DEF WakeUp, Answer, StartFetch, Types, TaskTypes, Busy
  <2>3. CASE s # t
    <3>1. call'[s] = call[s] /\ (pc'[s] = pc[s] \/ (pc[s] \notin Busy /\ pc'[s] \notin Busy))
      BY <1>5, <2>3 DEF WakeUp, Answer, StartFetch, Types, TaskTypes, Busy, At
    <3>2. pc[s] \in Busy /\ UrlOf(call[s]) \notin raced => used'[UrlOf(call[s])] = used[UrlOf(call[s])]
      BY <1>5, FetchUp DEF WakeUp, Answer, Cached, NotIn, Url, UrlOf, Types, NumberTypes
    <3> QED
      BY <1>0, <2>1, <3>1, <3>2, StillUpwards
  <2> QED
    BY <2>2, <2>3
<1>6. ASSUME NEW t \in Tasks, ReadDocument(t) PROVE CallUpwards(s)'
  <2>1. UNCHANGED <<docs, used, raced>>
    BY <1>6 DEF ReadDocument, historyVars
  <2>2. CASE s # t
    BY <1>2, <1>6, <2>1, <2>2 DEF ReadDocument, Types, TaskTypes
  <2>3. CASE s = t
    <3> DEFINE u == Url(t)
    <3>1. call[t] # None /\ call[t] \in Calls /\ u \in Urls /\ u = call[t].url
      BY <1>6, CallFacts DEF ReadDocument
    <3>2. PICK doc \in Found(u) :
            /\ call' = [call EXCEPT ![t] = [call[t] EXCEPT !.doc = doc]]
            /\ pc' = [pc EXCEPT ![t] =
                        IF doc = None THEN "permit"
                        ELSE IF Seconds(call[t].stamp - doc.updated) > maxAge THEN "permit"
                        ELSE "saving"]
      BY <1>6 DEF ReadDocument
    <3> DEFINE c == [call[t] EXCEPT !.doc = doc]
    <3>3. call'[t] = c /\ c.doc = doc /\ c.file = call[t].file /\ c.url = u /\ c \in Calls
      BY <3>1, <3>2, FoundFacts DEF Types, TaskTypes, Calls
    <3>4. UrlOf(call'[t]) = u
      BY <3>3, RobotsAssumption DEF UrlOf
    <3>5. SUFFICES ASSUME u \notin raced PROVE UpwardsIn(c, pc'[t], docs'[u], used'[u], maxAge')
      BY <2>1, <2>3, <3>3, <3>4 DEF CallUpwards
    <3>6. UpwardsIn(call[t], "database", docs[u], used[u], maxAge) /\ UpwardsAt(u)
      BY <1>6, <3>5, FetchUp DEF ReadDocument, Busy
    <3>7. CASE doc = None
      <4>1. docs[u] = <<>>
        BY <3>1, <3>7, FoundFacts
      <4>2. pc'[t] = "permit"
        BY <3>2, <3>7 DEF Types, TaskTypes
      <4> QED
        BY <2>1, <3>3, <3>6, <3>7, <4>1, <4>2 DEF UpwardsIn, UpwardsAt
    <3>8. CASE doc # None
      <4>1. /\ doc \in Documents /\ docs[u] # <<>> /\ doc.place \in DOMAIN docs[u]
            /\ doc.file = docs[u][doc.place].file /\ doc.updated = docs[u][doc.place].updated
        BY <3>1, <3>8, FoundFacts
      <4>2. /\ Len(docs[u]) \in Nat /\ DOMAIN docs[u] = 1 .. Len(docs[u]) /\ Len(docs[u]) <= 1
            /\ used[u] \in Nat /\ used[u] <= docs[u][1].file /\ docs[u][1].file \in Nat
        BY <3>1, <3>6, <4>1, Numbers DEF UpwardsAt
      <4>3. doc.place = 1
        BY <4>1, <4>2
      <4>4. pc'[t] = "permit" => call[t].stamp > docs[u][1].updated + maxAge
        <5>1. SUFFICES ASSUME Seconds(call[t].stamp - doc.updated) > maxAge
                       PROVE  call[t].stamp > doc.updated + maxAge
          BY <3>2, <3>8, <4>1, <4>3 DEF Types, TaskTypes
        <5>2. doc.updated <= call[t].stamp
          BY <3>6, <4>1, <4>3 DEF UpwardsIn
        <5>3. /\ call[t].stamp \in Nat /\ doc.updated \in Nat
              /\ maxAge \in Nat /\ Day \in Nat \ {0}
          BY <3>1, <4>1, RobotsAssumption DEF Calls, Documents, Types, WorldTypes
        <5>4. call[t].stamp - doc.updated \in Nat
          BY <5>2, <5>3
        <5>5. Seconds(call[t].stamp - doc.updated) <= call[t].stamp - doc.updated
          BY <5>3, <5>4, PartOfDay
        <5>6. Seconds(call[t].stamp - doc.updated) \in Nat
          BY <5>3, <5>4 DEF Seconds
        <5> QED
          BY <5>1, <5>3, <5>4, <5>5, <5>6
      <4>5. pc'[t] \in {"permit", "saving"}
        BY <3>2 DEF Types, TaskTypes
      <4>6. doc.file <= docs[u][1].file /\ used[u] <= doc.file
        BY <4>1, <4>2, <4>3
      <4>7. call[t].file = 0
        BY <3>6 DEF UpwardsIn
      <4> QED
        BY <1>0, <2>1, <3>3, <3>8, <4>1, <4>4, <4>5, <4>6, <4>7 DEF UpwardsIn
    <3> QED
      BY <3>7, <3>8
  <2> QED
    BY <2>2, <2>3
<1>7. ASSUME NEW t \in Tasks, Download(t) PROVE CallUpwards(s)'
  <2>1. UNCHANGED <<docs, used, raced>>
    BY <1>7 DEF Download, historyVars
  <2>2. CASE s # t
    BY <1>2, <1>7, <2>1, <2>2 DEF Download, Types, TaskTypes
  <2>3. CASE s = t
    <3> DEFINE u == Url(t)
    <3>1. call[t] # None /\ call[t] \in Calls /\ u \in Urls /\ u = call[t].url
      BY <1>7, CallFacts DEF Download
    <3>2. PICK got \in {site[u], 0} : call' = [call EXCEPT ![t] = [call[t] EXCEPT !.file = got]]
      BY <1>7 DEF Download
    <3> DEFINE c == [call[t] EXCEPT !.file = got]
    <3>3. call'[t] = c /\ c.doc = call[t].doc /\ c.file = got /\ c.url = u /\ c \in Calls
      BY <3>1, <3>2 DEF Types, TaskTypes, WorldTypes, Calls
    <3>4. UrlOf(call'[t]) = u
      BY <3>3, RobotsAssumption DEF UrlOf
    <3>5. SUFFICES ASSUME u \notin raced PROVE UpwardsIn(c, pc'[t], docs'[u], used'[u], maxAge')
      BY <2>1, <2>3, <3>3, <3>4 DEF CallUpwards
    <3>6. UpwardsIn(call[t], "network", docs[u], used[u], maxAge)
      BY <1>7, <3>5, FetchUp DEF Download, Busy
    <3>7. pc'[t] = "saving"
      BY <1>7 DEF Download, Types, TaskTypes
    <3>8. docs[u] # <<>> => docs[u][1].file <= site[u]
      BY <3>1, Numbers DEF Bounded, DocsBounded, Within
    <3> QED
      BY <2>1, <3>2, <3>3, <3>6, <3>7, <3>8 DEF UpwardsIn
  <2> QED
    BY <2>2, <2>3
<1>8. ASSUME NEW t \in Tasks, Save(t) PROVE CallUpwards(s)'
  <2>1. UNCHANGED <<used, raced, call>>
    BY <1>8 DEF Save, historyVars
  <2>2. CASE s # t
    <3>1. pc'[s] = pc[s]
      BY <1>8, <2>2 DEF Save, Types, TaskTypes
    <3>2. pc[s] \in Busy /\ UrlOf(call[s]) \notin raced => docs'[UrlOf(call[s])] = docs[UrlOf(call[s])]
      <4>1. SUFFICES ASSUME pc[s] \in Busy, UrlOf(call[s]) \notin raced
                     PROVE  docs'[UrlOf(call[s])] = docs[UrlOf(call[s])]
        OBVIOUS
      <4>2. UrlOf(call[s]) # UrlOf(call[t]) /\ UrlOf(call[s]) \in Urls
        BY <1>8, <2>2, <4>1, FetchUp DEF Save, Busy, Url, UrlOf
      <4>3. docs' = [docs EXCEPT ![UrlOf(call[t])] = DocsAfter(t)]
        BY <1>8, SavedFacts DEF SavedFits, Url, UrlOf
      <4> QED
        BY <4>2, <4>3 DEF Types, DocsTypes
    <3> QED
      BY <1>0, <2>1, <3>1, <3>2, StillUpwards
  <2>3. CASE s = t
    <3> DEFINE u == Url(t)
    <3>1. SUFFICES ASSUME u \notin raced PROVE UpwardsIn(call[t], pc'[t], docs'[u], used'[u], maxAge')
      BY <2>1, <2>3 DEF CallUpwards, UpwardsIn, Url, UrlOf
    <3>2. UpwardsIn(call[t], "saving", docs[u], used[u], maxAge) /\ u \in Urls /\ call[t] \in Calls
      BY <1>8, <3>1, FetchUp DEF Save, Busy
    <3>3. pc'[t] = "caching"
      BY <1>8 DEF Save, Types, TaskTypes
    <3>4. IF call[t].doc = None
            THEN docs[u] = <<>> /\ docs'[u][1].file = call[t].file
            ELSE /\ docs[u] # <<>> /\ docs[u][1].file <= docs'[u][1].file
                 /\ docs'[u][1].file \in Nat
      BY <1>8, <3>1, SavedUp
    <3>5. CASE call[t].doc = None
      <4>1. used[u] = 0 /\ call[t].file \in Nat
        BY <3>2, <3>5 DEF UpwardsIn, Calls
      <4> QED
        BY <2>1, <3>3, <3>4, <3>5, <4>1 DEF UpwardsIn
    <3>6. CASE call[t].doc # None
      <4>1. used[u] <= call[t].doc.file /\ call[t].doc.file <= docs[u][1].file
        BY <3>2, <3>6 DEF UpwardsIn
      <4>2. call[t].doc.file \in Nat /\ docs[u][1].file \in Nat
        BY <3>2, <3>4, <3>6, Numbers DEF Calls, Documents
      <4>3. call[t].doc.file <= docs'[u][1].file
        BY <3>4, <3>6, <4>1, <4>2
      <4> QED
        BY <2>1, <3>3, <3>6, <4>1, <4>3 DEF UpwardsIn
    <3> QED
      BY <3>5, <3>6
  <2> QED
    BY <2>2, <2>3
<1>9. ASSUME NEW t \in Tasks, Finish(t) PROVE CallUpwards(s)'
  <2>1. UNCHANGED <<docs, raced>>
    BY <1>9 DEF Finish
  <2>2. CASE s = t
    BY <1>1, <1>9, <2>2 DEF Finish, Woken, Types, TaskTypes, Busy
  <2>3. CASE s # t
    <3>1. call'[s] = call[s] /\ (pc'[s] = pc[s] \/ (pc[s] \notin Busy /\ pc'[s] \notin Busy))
      BY <1>9, <2>3 DEF Finish, Woken, Types, TaskTypes, Busy, At
    <3>2. pc[s] \in Busy /\ UrlOf(call[s]) \notin raced => used'[UrlOf(call[s])] = used[UrlOf(call[s])]
      <4>1. SUFFICES ASSUME pc[s] \in Busy, UrlOf(call[s]) \notin raced
                     PROVE  used'[UrlOf(call[s])] = used[UrlOf(call[s])]
        OBVIOUS
      <4>2. UrlOf(call[s]) # UrlOf(call[t])
        BY <1>9, <2>3, <4>1, FetchUp DEF Finish, Busy, Url, UrlOf
      <4>3. Url(t) = UrlOf(call[t]) /\ UrlOf(call[s]) \in Urls
        BY <4>1, CallFacts DEF Url, UrlOf, Busy
      <4> QED
        BY <1>9, <4>2, <4>3 DEF Finish, Types, NumberTypes
    <3> QED
      BY <1>0, <2>1, <3>1, <3>2, StillUpwards
  <2> QED
    BY <2>2, <2>3
<1>10. ASSUME NEW t \in Tasks, Interrupt(t) PROVE CallUpwards(s)'
  BY <1>1, <1>2, <1>10 DEF Interrupt, Types, TaskTypes, Busy
<1>11. ASSUME NEW t \in Tasks, Acquire(t) PROVE CallUpwards(s)'
  <2>1. UNCHANGED <<call, docs, used, raced>>
    BY <1>11 DEF Acquire, historyVars
  <2>2. CASE s # t
    BY <1>2, <1>11, <2>1, <2>2 DEF Acquire, Types, TaskTypes
  <2>3. CASE s = t
    <3>1. pc[s] = "permit" /\ pc'[s] = "network"
      BY <1>11, <2>3 DEF Acquire, Types, TaskTypes
    <3> QED
      BY <1>0, <2>1, <3>1 DEF CallUpwards, UpwardsIn, Busy
  <2> QED
    BY <2>2, <2>3
<1>12. CASE Tick \/ Kill \/ PageStarts \/ PageEnds \/ UNCHANGED vars \/ \E u \in Urls : Publish(u)
  BY <1>1, <1>2, <1>12 DEF Tick, Kill, PageStarts, PageEnds, Publish, vars, historyVars, Busy
<1> QED
  BY <1>4, <1>5, <1>6, <1>7, <1>8, <1>9, <1>10, <1>11, <1>12 DEF Next, Step

-----------------------------------------------------------------------------
(* The theorems *)

LEMMA InvInit == Init => Inv
<1>1. Init => CallsFit /\ CacheFits /\ OneFetch /\ CallsUpwards
  BY DEF Init, CallsFit, CacheFits, OneFetch, CallsUpwards, Busy
<1>2. Init => Upwards
  BY DEF Init, Upwards, UpwardsAt, Cached
<1> QED
  BY <1>1, <1>2, TypesInit, BoundedInit DEF Inv

LEMMA InvStep == Inv /\ [Next]_vars => Inv' /\ GoesUp
BY TypesStep, CallsFitStep, CacheFitsStep, BoundedStep, OneFetchStep, UpwardsStep, CallsUpwardsStep
   DEF Inv

LEMMA InvAlways == Spec => []Inv
BY InvInit, InvStep, PTL DEF Spec

(* Tasks that need the same robots.txt share one fetch of it, and it is    *)
(* downloaded only if the database has none, or only one that is older     *)
(* than max_age: except a file that was gone when a waiting task woke,     *)
(* while another task fetched it again.                                    *)
THEOREM NeverFetchedNeedlessly == Spec => []NoNeedlessFetch
<1>1. Inv => NoNeedlessFetch
  <2> SUFFICES ASSUME Inv, NEW u \in Urls \ raced
               PROVE  /\ Cardinality(Fetchers(u)) <= 1
                      /\ \A t \in Fetchers(u) : pc[t] \in {"permit", "network"} =>
                           \A i \in DOMAIN docs[u] : call[t].stamp > docs[u][i].updated + maxAge
    BY DEF NoNeedlessFetch
  <2>1. Cardinality(Fetchers(u)) <= 1
    <3>1. CASE Fetchers(u) = {}
      BY <3>1, FS_EmptySet
    <3>2. ASSUME NEW t \in Fetchers(u) PROVE Cardinality(Fetchers(u)) <= 1
      <4>1. Fetchers(u) = {t}
        BY <3>2 DEF Inv, OneFetch, Fetchers
      <4> QED
        BY <4>1, FS_Singleton
    <3> QED
      BY <3>1, <3>2
  <2>2. ASSUME NEW t \in Fetchers(u), pc[t] \in {"permit", "network"}, NEW i \in DOMAIN docs[u]
        PROVE  call[t].stamp > docs[u][i].updated + maxAge
    <3>1. /\ UpwardsIn(call[t], pc[t], docs[u], used[u], maxAge) /\ UpwardsAt(u)
          /\ DOMAIN docs[u] = 1 .. Len(docs[u]) /\ Len(docs[u]) \in Nat
      BY <2>2, Numbers DEF Inv, CallsUpwards, Upwards, Fetchers
    <3>2. i = 1 /\ docs[u] # <<>>
      BY <3>1 DEF UpwardsAt
    <3> QED
      BY <2>2, <3>1, <3>2 DEF UpwardsIn
  <2> QED
    BY <2>1, <2>2
<1> QED
  BY <1>1, InvAlways, PTL

(* What _cache holds is in table robots_txt, once, and no newer than there. *)
THEOREM CacheIsAlwaysSaved == Spec => []CacheIsSaved
<1>1. Inv => TypeOK
  <2> SUFFICES ASSUME Inv PROVE TypeOK
    OBVIOUS
  <2> USE DEF Inv, Types
  <2>1. /\ maxAge \in MaxAges /\ now \in 0..MaxTime[maxAge] /\ now \in Nat
        /\ failures \in 0..MaxFailures
    BY RobotsAssumption DEF WorldTypes, NumberTypes, Bounded, WorldBounded
  <2>2. ASSUME NEW u \in Urls
        PROVE  /\ site[u] \in 0..MaxVersion[u] /\ {limit[u], used[u]} \subseteq 0..site[u]
               /\ docs[u] \in Seq([file : 0..site[u], updated : 0..now])
    <3>1. site[u] \in Nat /\ MaxVersion[u] \in Nat /\ limit[u] \in Nat /\ used[u] \in Nat
      BY RobotsAssumption DEF WorldTypes, NumberTypes
    <3>2. site[u] <= MaxVersion[u] /\ limit[u] <= site[u] /\ used[u] <= site[u]
      BY DEF Bounded, WorldBounded, UsedBounded
    <3>3. docs[u] \in Seq([file : Nat, updated : Nat])
      BY DEF DocsTypes
    <3>4. \A i \in DOMAIN docs[u] : docs[u][i] \in [file : 0..site[u], updated : 0..now]
      <4>1. TAKE i \in DOMAIN docs[u]
      <4>2. docs[u][i] \in [file : Nat, updated : Nat]
        BY <3>3, SeqElement
      <4>3. Within(docs[u][i], u)
        BY DEF Bounded, DocsBounded
      <4> QED
        BY <2>1, <3>1, <4>2, <4>3 DEF Within
    <3>5. docs[u] \in Seq([file : 0..site[u], updated : 0..now])
      BY <3>3, <3>4, SeqOfElements
    <3> QED
      BY <3>1, <3>2, <3>5
  <2>3. \A robots \in ToSet(cache) : robots.file \in 0..site[robots.url] /\ robots.updated \in 0..now
    <3>1. TAKE robots \in ToSet(cache)
    <3>2. PICK i \in DOMAIN cache : robots = cache[i]
      BY DEF ToSet
    <3>3. robots \in Copies
      BY <3>2, SeqElement DEF CacheTypes
    <3>4. Within(robots, robots.url)
      BY <3>2 DEF Bounded, CacheBounded
    <3> QED
      BY <2>1, <3>3, <3>4 DEF Within, Copies, WorldTypes
  <2>4. /\ pc \in [Tasks -> Busy \cup {"idle", "waiting", "woken", "stuck"}]
        /\ \A t \in Tasks : Idle(t) <=> call[t] = None
    BY DEF TaskTypes, Places, Idle
  <2> QED
    BY <2>1, <2>2, <2>3, <2>4 DEF TypeOK, CacheTypes, SetTypes, NumberTypes
<1>2. Inv => CacheIsSaved
  <2> SUFFICES ASSUME Inv, NEW i \in DOMAIN cache
               PROVE  /\ Cached(cache[i].url) = {i} /\ docs[cache[i].url] # <<>>
                      /\ \/ cache[i].url \in raced
                         \/ cache[i].file <= docs[cache[i].url][1].file
    BY <1>1 DEF CacheIsSaved
  <2>1. Cached(cache[i].url) = {i}
    BY DEF Inv, CachedOnce, Cached
  <2>2. cache[i].url \in Urls
    BY Numbers DEF Inv
  <2> QED
    BY <2>1, <2>2 DEF Inv, CacheFits, Upwards, UpwardsAt
<1> QED
  BY <1>2, InvAlways, PTL

(* Neither the version that answers use nor the one whose delay is told to *)
(* the rate limiter goes back.                                             *)
THEOREM AnswersGoUp == Spec => NeverGoesBack
<1>1. Inv /\ [Next]_vars =>
        [\A u \in Urls : u \notin raced' =>
           used'[u] >= used[u] /\ (limit'[u] >= limit[u] \/ limit'[u] = 0)]_vars
  BY InvStep DEF GoesUp
<1> QED
  BY <1>1, InvAlways, PTL DEF Spec, NeverGoesBack

-----------------------------------------------------------------------------
(* The rules of a policy *)

(* Each rule but the last selects.                                         *)
Valid(rules) ==
  \A i \in DOMAIN rules : IF i = Len(rules) THEN IsDefault(rules[i]) ELSE Selects(rules[i])

(* The place where the reading from the end stops for good.                *)
Decides(rules, subject, m) ==
  /\ m \in DOMAIN rules
  /\ m = Len(rules) \/ Exception(rules[m], subject)
  /\ \A i \in DOMAIN rules : i < m => ~Exception(rules[i], subject)

LEMMA OneDecides ==
  ASSUME NEW S, NEW rules \in Seq(S), rules # <<>>, NEW subject
  PROVE  \E m \in DOMAIN rules : Decides(rules, subject, m)
<1> DEFINE Stops == {m \in DOMAIN rules : m = Len(rules) \/ Exception(rules[m], subject)}
<1>1. DOMAIN rules = 1..Len(rules) /\ Len(rules) \in Nat \ {0}
  OBVIOUS
<1>2. Stops \in SUBSET Nat /\ Stops # {}
  BY <1>1
<1>3. PICK m \in Stops : \A n \in Stops : m <= n
  BY <1>2, LeastNatural
<1>4. \A i \in DOMAIN rules : i < m => ~Exception(rules[i], subject)
  BY <1>1, <1>2, <1>3
<1> QED BY <1>3, <1>4 DEF Decides

(* The function in Meaning has at 1 the place that decides.                *)
LEMMA ReadingStops ==
  ASSUME NEW S, NEW rules \in Seq(S), NEW subject, NEW m, Decides(rules, subject, m)
  PROVE  (CHOOSE from : from = [i \in DOMAIN rules |->
             IF i = Len(rules) \/ Exception(rules[i], subject) THEN i ELSE from[i + 1]])[1] = m
<1> DEFINE Reads(from) ==
             from = [i \in DOMAIN rules |->
                       IF i = Len(rules) \/ Exception(rules[i], subject) THEN i ELSE from[i + 1]]
           Stops(i, k) == /\ k \in DOMAIN rules /\ i <= k
                          /\ k = Len(rules) \/ Exception(rules[k], subject)
                          /\ \A j \in DOMAIN rules : i <= j /\ j < k => ~Exception(rules[j], subject)
<1>1. DOMAIN rules = 1..Len(rules) /\ Len(rules) \in Nat /\ m \in 1..Len(rules)
  BY DEF Decides
<1>2. \A i \in DOMAIN rules : \E k : Stops(i, k)
  <2>1. TAKE i \in DOMAIN rules
  <2> DEFINE Later == {k \in DOMAIN rules : i <= k /\ (k = Len(rules) \/ Exception(rules[k], subject))}
  <2>2. Later \in SUBSET Nat /\ Len(rules) \in Later
    BY <1>1
  <2>3. PICK k \in Later : \A n \in Later : k <= n
    BY <2>2, LeastNatural
  <2>4. \A j \in DOMAIN rules : i <= j /\ j < k => ~Exception(rules[j], subject)
    BY <1>1, <2>2, <2>3
  <2> QED BY <2>3, <2>4
<1>3. \A i \in DOMAIN rules : \A k, l : Stops(i, k) /\ Stops(i, l) => k = l
  BY <1>1
<1> DEFINE stop == [i \in DOMAIN rules |-> CHOOSE k : Stops(i, k)]
<1>4. \A i \in DOMAIN rules : Stops(i, stop[i])
  BY <1>2
<1>10. DOMAIN stop = DOMAIN rules /\ stop = [i \in DOMAIN rules |-> stop[i]]
  OBVIOUS
<1> HIDE DEF stop
<1>5. ASSUME NEW i \in DOMAIN rules
      PROVE  stop[i] = IF i = Len(rules) \/ Exception(rules[i], subject) THEN i ELSE stop[i + 1]
  <2>1. CASE i = Len(rules) \/ Exception(rules[i], subject)
    <3>1. Stops(i, i)
      BY <1>1, <2>1
    <3> QED BY <1>3, <1>4, <2>1, <3>1
  <2>2. CASE ~(i = Len(rules) \/ Exception(rules[i], subject))
    <3>1. i + 1 \in DOMAIN rules
      BY <1>1, <2>2
    <3>2. Stops(i + 1, stop[i + 1])
      BY <1>4, <3>1
    <3>3. \A j \in DOMAIN rules : i <= j => j = i \/ i + 1 <= j
      BY <1>1
    <3>4. Stops(i, stop[i + 1])
      BY <1>1, <2>2, <3>2, <3>3
    <3> QED BY <1>3, <1>4, <2>2, <3>4
  <2> QED BY <2>1, <2>2
<1>6. Reads(stop)
  BY <1>5, <1>10
<1>7. PICK from : from = (CHOOSE f : Reads(f))
  OBVIOUS
<1>8. Reads(from)
  BY <1>6, <1>7
<1>9. \A i \in DOMAIN rules : i <= m => from[i] = m
  <2> DEFINE Bad_ == {n \in Nat : n <= m - 1 /\ from[m - n] # m}
  <2>1. SUFFICES ASSUME Bad_ # {} PROVE FALSE
    <3>1. \A i \in DOMAIN rules : i <= m => m - i \in Nat /\ m - i <= m - 1 /\ m - (m - i) = i
      BY <1>1
    <3> QED BY <3>1
  <2>2. PICK n \in Bad_ : \A k \in Bad_ : n <= k
    BY <2>1, LeastNatural
  <2>3. m - n \in DOMAIN rules /\ m - n \in Nat
    BY <1>1, <2>2
  <2>4. from[m - n] = IF m - n = Len(rules) \/ Exception(rules[m - n], subject)
                      THEN m - n ELSE from[m - n + 1]
    BY <1>8, <2>3
  <2>5. CASE n = 0
    BY <1>1, <2>2, <2>4, <2>5 DEF Decides
  <2>6. CASE n # 0
    <3>1. n - 1 \in Nat /\ n - 1 \notin Bad_ /\ n - 1 <= m - 1
      BY <1>1, <2>2, <2>6
    <3>2. from[m - (n - 1)] = m
      BY <3>1
    <3>3. m - n < m /\ m - n # Len(rules) /\ m - (n - 1) = m - n + 1
      BY <1>1, <2>2, <2>6
    <3>4. ~Exception(rules[m - n], subject)
      BY <2>3, <3>3 DEF Decides
    <3> QED BY <2>2, <2>4, <3>2, <3>3, <3>4
  <2> QED BY <2>5, <2>6
<1>11. 1 \in DOMAIN rules /\ 1 <= m
  BY <1>1
<1> QED BY <1>7, <1>9, <1>11

LEMMA ListsAreSequences ==
  ASSUME NEW Rules, NEW given \in ListsOf(Rules)
  PROVE  given \in Seq(Rules)
<1>1. PICK n \in 0..MaxRules : given \in [1..n -> Rules]
  BY DEF ListsOf
<1>2. n \in Nat
  BY <1>1, PolicyAssumption
<1> QED BY <1>1, <1>2

LEMMA ListElement ==
  ASSUME NEW Rules, NEW given \in ListsOf(Rules), NEW i \in DOMAIN given
  PROVE  given[i] \in Rules
BY DEF ListsOf

(* The loop over the rules stops where the reading from the end does.      *)
LEMMA LoopStops ==
  ASSUME NEW S, NEW rules \in Seq(S), Valid(rules), NEW subject, NEW m, Decides(rules, subject, m),
         \A i \in DOMAIN rules : rules[i].match \in Matches
  PROVE  First({i \in DOMAIN rules : Applies(rules[i], subject)}) = m
<1> DEFINE hits == {i \in DOMAIN rules : Applies(rules[i], subject)}
<1>1. DOMAIN rules = 1..Len(rules) /\ Len(rules) \in Nat /\ m \in 1..Len(rules)
  BY DEF Decides
<1>2. ASSUME NEW i \in DOMAIN rules, i # Len(rules)
      PROVE  Applies(rules[i], subject) <=> Exception(rules[i], subject)
  <2>1. rules[i].pattern # Missing /\ rules[i].match \in {"MATCHES", "DOES_NOT_MATCH"}
    BY <1>2 DEF Valid, Selects, Matches
  <2>2. (rules[i].match # "DOES_NOT_MATCH") = (rules[i].match = "MATCHES")
    BY <2>1
  <2> QED BY <2>1, <2>2 DEF Applies, Exception
<1>3. Applies(rules[Len(rules)], subject)
  BY <1>1 DEF Valid, IsDefault, Applies
<1>4. m \in hits
  BY <1>1, <1>2, <1>3 DEF Decides
<1>5. \A i \in hits : m <= i
  <2>1. SUFFICES ASSUME NEW i \in hits, i < m PROVE FALSE
    BY <1>1
  <2>2. i # Len(rules)
    BY <1>1, <2>1
  <2> QED BY <1>2, <2>1, <2>2 DEF Decides
<1>6. \A i \in hits : (\A j \in hits : i <= j) => i = m
  BY <1>1, <1>4, <1>5
<1> HIDE DEF hits
<1>7. First(hits) = m
  BY <1>4, <1>5, <1>6 DEF First
<1> QED BY <1>7 DEF hits

LEMMA SavesCorrect == SavesAsRuled
<1> SUFFICES ASSUME NEW given \in MimeTypeLists, MimeTypeRulesOK(given)
             PROVE  \A s \in Subjects : ShouldSave(given, s) =
                      IF given = <<>> THEN Missing ELSE Meaning(given, s, LAMBDA rule : rule.save)
  BY DEF SavesAsRuled, RulesDecide
<1>2. given # <<>> /\ Valid(given)
  BY DEF MimeTypeRulesOK, Valid
<1> DEFINE R == [pattern : Patterns, match : Matches, save : BOOLEAN \cup {Missing}]
<1>3. given \in Seq(R)
  BY ListsAreSequences DEF MimeTypeLists
<1>4. \A i \in DOMAIN given : given[i].match \in Matches /\ given[i].save \in BOOLEAN
  <2>1. ASSUME NEW i \in DOMAIN given PROVE given[i] \in R
    BY ListElement DEF MimeTypeLists
  <2> QED BY <2>1 DEF MimeTypeRulesOK
<1>5. ASSUME NEW s \in Subjects
      PROVE  ShouldSave(given, s) = Meaning(given, s, LAMBDA rule : rule.save)
  <2>1. PICK m \in DOMAIN given : Decides(given, s, m)
    BY <1>2, <1>3, OneDecides
  <2> DEFINE hits == {i \in DOMAIN given : Applies(given[i], s)}
  <2>2. First(hits) = m
    BY <1>2, <1>3, <1>4, <2>1, LoopStops
  <2>3. hits # {}
    <3>1. Len(given) \in DOMAIN given
      BY <1>2, <1>3
    <3> QED BY <1>2, <3>1 DEF Valid, IsDefault, Applies
  <2>4. ShouldSave(given, s) = given[m].save
    <3>1. ShouldSave(given, s) = (hits # {} /\ given[First(hits)].save)
      BY DEF ShouldSave
    <3> QED BY <1>4, <2>1, <2>2, <2>3, <3>1
  <2>5. Meaning(given, s, LAMBDA rule : rule.save) = given[m].save
    BY <1>3, <2>1, ReadingStops DEF Meaning
  <2> QED BY <2>4, <2>5
<1> QED BY <1>2, <1>5

LEMMA ProxiesCorrect == ProxiesAsRuled
<1> SUFFICES ASSUME NEW given \in ProxyLists, ProxyRulesOK(given)
             PROVE  \A s \in Subjects : GetProxyUrl(given, s) =
                      IF given = <<>> THEN Missing
                      ELSE Meaning(given, s, LAMBDA rule : rule.proxy_url)
  BY DEF ProxiesAsRuled, RulesDecide
<1> DEFINE R == [pattern : Patterns, match : Matches, proxy_url : Proxies \cup {Missing, Bad}]
<1>2. given \in Seq(R)
  BY ListsAreSequences DEF ProxyLists
<1>3. DOMAIN given = 1..Len(given) /\ Len(given) \in Nat
  BY <1>2
<1>4. ASSUME NEW i \in DOMAIN given
      PROVE  IF i = Len(given) THEN given[i].pattern = Missing
             ELSE /\ given[i].pattern # Missing /\ given[i].match \in {"MATCHES", "DOES_NOT_MATCH"}
                  /\ given[i].proxy_url # Missing
  <2>1. given[i] \in R
    BY ListElement DEF ProxyLists
  <2> QED BY <2>1 DEF ProxyRulesOK, Selects, IsDefault, Matches
<1>5. ASSUME NEW s \in Subjects
      PROVE  GetProxyUrl(given, s) =
               IF given = <<>> THEN Missing ELSE Meaning(given, s, LAMBDA rule : rule.proxy_url)
  <2> DEFINE hits == {i \in DOMAIN given :
                        IF given[i].pattern = Missing THEN given[i].proxy_url # Missing
                        ELSE (s \in given[i].pattern) = (given[i].match = "MATCHES")}
  <2>1. GetProxyUrl(given, s) = IF hits = {} THEN Missing ELSE given[First(hits)].proxy_url
    BY DEF GetProxyUrl
  <2>2. CASE given = <<>>
    <3>1. hits = {}
      BY <2>2
    <3> QED BY <2>1, <2>2, <3>1
  <2>3. CASE given # <<>>
    <3>1. PICK m \in DOMAIN given : Decides(given, s, m)
      BY <1>2, <2>3, OneDecides
    <3>2. Meaning(given, s, LAMBDA rule : rule.proxy_url) = given[m].proxy_url
      BY <1>2, <3>1, ReadingStops DEF Meaning
    <3>3. ASSUME NEW i \in DOMAIN given, i # Len(given)
          PROVE  i \in hits <=> Exception(given[i], s)
      BY <1>4, <3>3 DEF Exception
    <3>4. Len(given) \in hits <=> given[Len(given)].proxy_url # Missing
      <4>1. Len(given) \in DOMAIN given
        BY <1>3, <2>3
      <4> QED BY <1>4, <4>1
    <3>5. \A i \in hits : m <= i
      <4>1. SUFFICES ASSUME NEW i \in hits, i < m PROVE FALSE
        BY <1>3, <3>1
      <4>2. i # Len(given)
        BY <1>3, <3>1, <4>1
      <4> QED BY <3>1, <3>3, <4>1, <4>2 DEF Decides
    <3>6. CASE m \in hits
      <4>1. \A i \in hits : (\A j \in hits : i <= j) => i = m
        BY <1>3, <3>5, <3>6
      <4> HIDE DEF hits
      <4>2. First(hits) = m
        BY <3>5, <3>6, <4>1 DEF First
      <4> QED BY <2>1, <2>3, <3>2, <3>6, <4>2
    <3>7. CASE m \notin hits
      <4>1. m = Len(given) /\ given[m].proxy_url = Missing
        BY <3>1, <3>3, <3>4, <3>7 DEF Decides
      <4>2. hits = {}
        <5>1. \A i \in hits : i \in 1..Len(given) /\ m <= i
          BY <1>3, <3>5
        <5>2. \A i \in hits : i = m
          BY <1>3, <4>1, <5>1
        <5> QED BY <3>7, <5>2
      <4> HIDE DEF hits
      <4> QED BY <2>1, <2>3, <3>2, <4>1, <4>2
    <3> QED BY <3>6, <3>7
  <2> QED BY <2>2, <2>3
<1> QED BY <1>5

(* The cost of a link is what the rule says that decides.                  *)
LEMMA CostIs ==
  ASSUME NEW given \in UrlLists, UrlRulesOK(given), NEW c, NEW s
  PROVE  \E m \in DOMAIN given : Decides(given, s, m) /\ GetCost(given, c, s) = Cost(given[m], c)
<1> DEFINE R == [pattern : Patterns, match : Matches, action : {Missing, "ADD", "MULTIPLY"},
                 amount : Amounts \cup {Missing}]
           hits == {i \in DOMAIN given : Applies(given[i], s)}
<1>1. given \in Seq(R)
  BY ListsAreSequences DEF UrlLists
<1>2. given # <<>> /\ Valid(given)
  BY DEF UrlRulesOK, Valid
<1>3. ASSUME NEW i \in DOMAIN given PROVE given[i].match \in Matches
  <2>1. given[i] \in R
    BY ListElement DEF UrlLists
  <2> QED BY <2>1
<1>4. PICK m \in DOMAIN given : Decides(given, s, m)
  BY <1>1, <1>2, OneDecides
<1>5. First(hits) = m
  BY <1>1, <1>2, <1>3, <1>4, LoopStops
<1>6. hits \cup {Len(given)} = hits
  <2>1. Len(given) \in DOMAIN given
    BY <1>1, <1>2
  <2> QED BY <1>2, <2>1 DEF Valid, IsDefault, Applies
<1>7. GetCost(given, c, s) = Cost(given[First(hits \cup {Len(given)})], c)
  BY DEF GetCost
<1> HIDE DEF hits
<1> QED BY <1>4, <1>5, <1>6, <1>7

LEMMA CostsCorrect == CostsAsRuled
<1> SUFFICES ASSUME NEW c \in Amounts, NEW given \in UrlLists, UrlRulesOK(given)
             PROVE  \A s \in Subjects : GetCost(given, c, s) =
                      IF given = <<>> THEN Missing
                      ELSE Meaning(given, s, LAMBDA rule :
                             IF rule.action = "ADD" THEN c + rule.amount ELSE c * rule.amount)
  BY DEF CostsAsRuled, RulesDecide
<1>2. given # <<>>
  BY DEF UrlRulesOK
<1>3. ASSUME NEW s \in Subjects
      PROVE  GetCost(given, c, s) =
               Meaning(given, s, LAMBDA rule :
                         IF rule.action = "ADD" THEN c + rule.amount ELSE c * rule.amount)
  <2>1. PICK m \in DOMAIN given : Decides(given, s, m) /\ GetCost(given, c, s) = Cost(given[m], c)
    BY CostIs
  <2>2. given \in Seq([pattern : Patterns, match : Matches, action : {Missing, "ADD", "MULTIPLY"},
                       amount : Amounts \cup {Missing}])
    BY ListsAreSequences DEF UrlLists
  <2> QED BY <2>1, <2>2, ReadingStops DEF Meaning, Cost
<1> QED BY <1>2, <1>3

LEMMA GrowsByOne ==
  ASSUME NEW rule, Grows(rule), rule.amount \in Int, NEW c \in Int, c >= 1
  PROVE  Cost(rule, c) \in Int /\ Cost(rule, c) >= c + 1
<1>1. CASE rule.action = "ADD"
  BY <1>1 DEF Grows, Cost
<1>2. CASE rule.action # "ADD"
  <2>1. rule.amount >= 2 /\ Cost(rule, c) = c * rule.amount
    BY <1>2 DEF Grows, Cost
  <2>2. c * rule.amount \in Int /\ c * rule.amount >= c + 1
    <3>1. PICK a \in Int : a = rule.amount
      OBVIOUS
    <3>2. a >= 2
      BY <2>1, <3>1
    <3>3. c * a \in Int /\ c * a >= c * 2
      BY <3>2
    <3> QED BY <3>1, <3>3
  <2> QED BY <2>1, <2>2
<1> QED BY <1>1, <1>2

(* A path of the maximum's length costs more than the maximum.             *)
LEMMA DepthBounded == CostBoundsDepth
<1> SUFFICES ASSUME NEW rules \in UrlLists, UrlRulesOK(rules), \A i \in DOMAIN rules : Grows(rules[i]),
                    NEW maxCost \in Amounts, maxCost > 0, NEW path \in [1..maxCost -> Subjects],
                    NEW cost, cost = CHOOSE f : f = [n \in 0..maxCost |->
                                       IF n = 0 THEN 1 ELSE GetCost(rules, f[n - 1], path[n])]
             PROVE  \E n \in 1..maxCost : ~IsFollowed(maxCost, cost[n])
  BY DEF CostBoundsDepth
<1> DEFINE Dear == {c \in Int : c >= 1}
<1>1. maxCost \in Nat \ {0} /\ maxCost # Missing
  BY PolicyAssumption
<1>2. ASSUME NEW c \in Dear, NEW s PROVE GetCost(rules, c, s) \in Dear /\ GetCost(rules, c, s) >= c + 1
  <2>1. PICK m \in DOMAIN rules : GetCost(rules, c, s) = Cost(rules[m], c)
    BY CostIs
  <2>2. rules[m] \in [pattern : Patterns, match : Matches, action : {Missing, "ADD", "MULTIPLY"},
                      amount : Amounts \cup {Missing}]
    BY ListElement DEF UrlLists
  <2>3. rules[m].amount \in Int
    BY <2>2, PolicyAssumption DEF UrlRulesOK
  <2> QED BY <2>1, <2>3, GrowsByOne
<1> DEFINE step == [n \in 1..maxCost |-> [c \in Dear |-> GetCost(rules, c, path[n])]]
<1>3. step \in [1..maxCost -> [Dear -> Dear]]
  BY <1>2
<1>4. PICK f : Iterates(f, Dear, maxCost, 1, step)
  <2>1. 1 \in Dear /\ maxCost \in Nat
    BY <1>1
  <2> HIDE DEF step, Dear
  <2> QED BY <1>3, <2>1, IterationExists
<1>5. \A n \in 1..maxCost : step[n][f[n - 1]] = GetCost(rules, f[n - 1], path[n])
  <2>1. TAKE n \in 1..maxCost
  <2>2. n - 1 \in 0..maxCost
    BY <1>1
  <2>3. f[n - 1] \in Dear
    BY <1>4, <2>2 DEF Iterates
  <2> QED BY <2>3
<1>6. f = [n \in 0..maxCost |-> IF n = 0 THEN 1 ELSE GetCost(rules, f[n - 1], path[n])]
  <2>1. \A n \in 0..maxCost : n # 0 => n \in 1..maxCost
    BY <1>1
  <2> HIDE DEF step
  <2> QED BY <1>4, <1>5, <2>1 DEF Iterates
<1>7. cost = [n \in 0..maxCost |-> IF n = 0 THEN 1 ELSE GetCost(rules, cost[n - 1], path[n])]
  BY <1>6
<1>8. \A n \in 0..maxCost : cost[n] \in Dear /\ cost[n] >= n + 1
  <2> DEFINE Cheap == {n \in Nat : n <= maxCost /\ ~(cost[n] \in Dear /\ cost[n] >= n + 1)}
  <2>1. SUFFICES ASSUME Cheap # {} PROVE FALSE
    <3>1. \A n \in 0..maxCost : n \in Nat /\ n <= maxCost
      BY <1>1
    <3>2. \A n \in 0..maxCost : n \notin Cheap => cost[n] \in Dear /\ cost[n] >= n + 1
      BY <3>1
    <3> HIDE DEF Cheap
    <3> QED BY <3>2
  <2>2. PICK n \in Cheap : \A k \in Cheap : n <= k
    BY <2>1, LeastNatural
  <2>3. n \in 0..maxCost
    BY <1>1, <2>2
  <2>4. cost[n] = IF n = 0 THEN 1 ELSE GetCost(rules, cost[n - 1], path[n])
    BY <1>7, <2>3
  <2>5. n # 0
    BY <2>2, <2>4
  <2>6. n - 1 \in Nat /\ n - 1 \notin Cheap /\ n - 1 <= maxCost
    BY <1>1, <2>2, <2>5
  <2>7. cost[n - 1] \in Dear /\ cost[n - 1] >= n
    BY <2>6
  <2>8. cost[n] \in Dear /\ cost[n] >= cost[n - 1] + 1
    BY <1>2, <2>4, <2>5, <2>7
  <2> QED BY <2>2, <2>7, <2>8
<1>9. maxCost \in 1..maxCost /\ cost[maxCost] > maxCost
  <2>1. maxCost \in 0..maxCost /\ maxCost \in 1..maxCost
    BY <1>1
  <2>2. cost[maxCost] \in Int /\ cost[maxCost] >= maxCost + 1
    BY <1>8, <2>1
  <2> QED BY <1>1, <2>1, <2>2
<1> QED BY <1>1, <1>9 DEF IsFollowed, ExceedsMaxCost

(* Whatever valid rules a policy has, as many as a client likes, the first *)
(* that applies decides, and a maximum cost bounds the depth of a crawl    *)
(* (should_save, get_proxy_url, get_cost and exceeds_max_cost).            *)
THEOREM PolicyCorrect == DecidesAsRuled
BY SavesCorrect, ProxiesCorrect, CostsCorrect, DepthBounded DEF DecidesAsRuled
=============================================================================
