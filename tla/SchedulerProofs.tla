--------------------------- MODULE SchedulerProofs ---------------------------
(* Theorems about Scheduler, for all schedules, intervals, numbers of jobs *)
(* and of requests, times and sizes of the state channel.                  *)
EXTENDS Scheduler, ScheduleDatesProofs, DequeLemmas, FiniteSetTheorems, TLAPS

-----------------------------------------------------------------------------
(* The invariant: what is said of every schedule *)

(* The schedule task works on a schedule only when all are loaded.         *)
TaskFits ==
  /\ task.at \in {"looking", "sleeping"} => task.event = None
  /\ task.at \in {"cancelling", "creating", "inserted"} =>
       task.event # None /\ task.started # None /\ task.started <= now
  /\ task.at = "cancelling" => task.old # None /\ jobs[task.old].schedule = task.event.schedule
  /\ task.at = "inserted" =>
       jobs # <<>> /\ jobs[Len(jobs)].schedule = task.event.schedule
         /\ jobs[Len(jobs)].task = "idle" /\ jobs[Len(jobs)].state \in {"pending", "cancelled"}
  /\ loading # {} => task.at = "looking" /\ \A s \in Schedules : running[s] = None

(* A job began before it finished, and both are past.                      *)
JobsFit ==
  \A j \in JobIds :
    /\ jobs[j].started <= now
    /\ jobs[j].completed # None => jobs[j].started <= jobs[j].completed /\ jobs[j].completed <= now
    /\ jobs[j].state \in FinishedStates => jobs[j].completed # None

(* What a message says is past, and of the job's schedule, or of none.     *)
MessagesFit ==
  \A k \in DOMAIN channel :
    /\ channel[k].time <= now
    /\ channel[k].schedule \in {None, jobs[channel[k].job].schedule}

RunningFits == \A s \in Schedules : running[s] # None => jobs[running[s]].schedule = s

ApiFits ==
  /\ api.at # "idle" => api.schedule \in Schedules
  /\ \A s \in Schedules : api.at = "adding" /\ api.schedule = s /\ JobsOf(s) = {} => api.count = 0

DocsFit ==
  /\ \A d, e \in loading : d.schedule = e.schedule => d = e
  /\ \A d \in loading :
       /\ d.latest = None <=> JobsOf(d.schedule) = {}
       /\ d.latest # None /\ d.latest.state \in FinishedStates => d.latest.completed # None

-----------------------------------------------------------------------------
(* What is said of a schedule that the scheduler has not lost track of *)

(* The four kinds of causes of its next run.                               *)
Due(s, k) == events[k].schedule = s
Tells(s, k) == channel[k].schedule = s /\ NextDue(channel[k]) # None
HasEvent(s) == \E k \in DOMAIN events : Due(s, k)
HasJob(s) == \E j \in JobsOf(s) : WillReport(j)
HasMessage(s) == \E k \in DOMAIN channel : Tells(s, k)

OneEvent(s) == \A k, l \in DOMAIN events : Due(s, k) /\ Due(s, l) => k = l
OneJob(s) == \A i, j \in JobsOf(s) : WillReport(i) /\ WillReport(j) => i = j
OneMessage(s) == \A k, l \in DOMAIN channel : Tells(s, k) /\ Tells(s, l) => k = l

AtMostOne(s) ==
  /\ OneEvent(s) /\ OneJob(s) /\ OneMessage(s)
  /\ HasEvent(s) => ~Starting(s) /\ ~HasJob(s) /\ ~HasMessage(s)
  /\ Starting(s) => ~HasJob(s) /\ ~HasMessage(s)
  /\ HasJob(s) => ~HasMessage(s)
AtLeastOne(s) == HasEvent(s) \/ Starting(s) \/ HasJob(s) \/ HasMessage(s)

(* The times that the next run has to keep the distance from.              *)
Since(s, j) == IF Regular(s) THEN jobs[j].started ELSE jobs[j].completed
Reached(s, time) ==
  \A j \in JobsOf(s) : Since(s, j) # None /\ time >= Since(s, j) + Interval[s]

(* A job that makes no event any more, and messages that make none.        *)
Settled(j) ==
  jobs[j].completed # None /\ jobs[j].task = "idle" /\ jobs[j].state \in FinishedStates
AllSettled(s) == \A j \in JobsOf(s) : Settled(j)
Silent(s) == \A k \in DOMAIN channel : channel[k].schedule # s

(* The jobs that may run and are not cancelled, now or when they begin to. *)
Awake(s) == {j \in JobsOf(s) : \/ jobs[j].task = "ready"
                               \/ jobs[j].task = "running" /\ jobs[j].state # "cancelled"}

Distant(s) ==
  \A i, k \in JobsOf(s) :
    i < k => Since(s, i) # None /\ jobs[k].started >= Since(s, i) + Interval[s]
EventFits(s) == \A k \in DOMAIN events : Due(s, k) => Reached(s, events[k].due)
StartFits(s) ==
  task.at \in {"cancelling", "creating"} /\ Starting(s) => Reached(s, task.started)

RegularFits(s) ==
  /\ \A k \in DOMAIN channel : channel[k].schedule = s =>
       /\ channel[k].state \in {"running", "completed"}
       /\ channel[k].state = "running" => \A j \in JobsOf(s) : jobs[j].started <= channel[k].time
       /\ channel[k].state = "completed" => jobs[channel[k].job].task = "idle"
       /\ Starting(s) /\ task.at = "inserted" => channel[k].job # Len(jobs)
  /\ \A d \in loading : d.schedule = s =>
       /\ ~HasJob(s) /\ ~HasMessage(s)
       /\ \A j \in JobsOf(s) : d.latest # None /\ jobs[j].started <= d.latest.started

(* Each instance is the one that the scheduler will cancel.                *)
InstanceFits(s) ==
  /\ \A j \in Awake(s) : j = running[s]
  /\ Starting(s) /\ task.at = "cancelling" => \A j \in Awake(s) : j = task.old
  /\ Starting(s) /\ task.at # "cancelling" => Awake(s) = {}
  /\ \A k \in DOMAIN channel : channel[k].schedule = s /\ channel[k].state = "running" =>
       \A j \in Awake(s) : j = channel[k].job

(* The job that is in the table, but has no task yet.                      *)
Inserted(s, j) ==
  /\ Starting(s) /\ task.at = "inserted" /\ j = Len(jobs)
  /\ jobs[j].state = "pending" /\ jobs[j].completed = None

OtherFits(s) ==
  /\ HasEvent(s) => AllSettled(s) /\ Silent(s) /\ running[s] = None
  /\ Starting(s) => /\ Silent(s) /\ task.at # "cancelling"
                    /\ \A j \in JobsOf(s) : IF j = Len(jobs) /\ task.at = "inserted"
                                           THEN Inserted(s, j) ELSE Settled(j)
  /\ \A j \in JobsOf(s) : Settled(j) \/ (WillReport(j) /\ jobs[j].completed = None) \/ Inserted(s, j)
  /\ \A k \in DOMAIN channel : channel[k].schedule = s =>
       /\ Tells(s, k) =>
            /\ \A j \in JobsOf(s) : Settled(j) /\ jobs[j].completed <= channel[k].time
            /\ \A l \in DOMAIN channel : l > k => channel[l].schedule # s
       /\ ~Tells(s, k) => HasJob(s) \/ \E l \in DOMAIN channel : l > k /\ Tells(s, l)
  /\ \A d \in loading : d.schedule = s /\ d.latest # None =>
       IF d.latest.state \in FinishedStates
       THEN /\ AllSettled(s) /\ Silent(s)
            /\ \A j \in JobsOf(s) : jobs[j].completed <= d.latest.completed
       ELSE HasJob(s) \/ HasMessage(s)

ScheduleInv(s) ==
  /\ AtMostOne(s) /\ (s \in schedules => AtLeastOne(s))
  /\ Distant(s) /\ EventFits(s) /\ StartFits(s)
  /\ Regular(s) => RegularFits(s) /\ (s \notin mistaken => InstanceFits(s))
  /\ ~Regular(s) => OtherFits(s)

(* Every due event belongs to a schedule that the scheduler uses, and it   *)
(* uses those that are enabled, that a request is at, or that were revived.*)
EventsInUse == \A k \in DOMAIN events : events[k].schedule \in schedules

UsedFits ==
  /\ \A s \in schedules : table[s] = "enabled" \/ api.schedule = s \/ s \in revived
  /\ api.at \in {"reading", "adding"} \/ (api.at = "saved" /\ api.enabled) =>
       table[api.schedule] = "enabled"

(* What is said of the whole, which holds by itself, and of each schedule.  *)
Whole == /\ TypeOK /\ EventsInUse /\ UsedFits
         /\ TaskFits /\ JobsFit /\ MessagesFit /\ RunningFits /\ ApiFits /\ DocsFit

Inv == Whole /\ \A s \in Schedules \ disturbed : ScheduleInv(s)

-----------------------------------------------------------------------------
(* The list of events *)

(* What the recursive function in HeapPush says of its value at p.         *)
RiseAt(rise, p, new, e) ==
  IF p > 1 /\ new[p \div 2].due > e.due
  THEN [rise[p \div 2] EXCEPT ![p] = new[p \div 2]]
  ELSE [new EXCEPT ![p] = e]

LEMMA Half ==
  ASSUME NEW p \in Nat, p > 1
  PROVE  p \div 2 \in Nat /\ p \div 2 >= 1 /\ p \div 2 < p
  BY SMT

LEMMA RiseExists ==
  ASSUME NEW new \in Seq(Events), NEW e
  PROVE  \E rise : rise = [p \in 1 .. Len(new) |-> RiseAt(rise, p, new, e)]
<1>0. PICK n \in Nat : n = Len(new)
  OBVIOUS
<1> DEFINE Solved(m) == \E rise : rise = [p \in 1 .. m |-> RiseAt(rise, p, new, e)]
           Bad == {m \in Nat : m <= n /\ ~ Solved(m)}
<1>1. SUFFICES ASSUME Bad # {} PROVE FALSE
  BY <1>0
<1>2. PICK m \in Bad : \A k \in Bad : m <= k
  BY <1>1, LeastNatural
<1>3. CASE m = 0
  <2>1. [p \in 1 .. 0 |-> <<>>] = [p \in 1 .. 0 |-> RiseAt([k \in 1 .. 0 |-> <<>>], p, new, e)]
    OBVIOUS
  <2>2. Solved(0)
    BY <2>1
  <2> QED
    BY <1>2, <1>3, <2>2
<1>4. CASE m # 0
  <2>1. m - 1 \in Nat /\ m - 1 \notin Bad /\ m <= n /\ m \in Nat
    BY <1>2, <1>4
  <2>2. PICK rise : rise = [p \in 1 .. (m - 1) |-> RiseAt(rise, p, new, e)]
    BY <2>1
  <2>3. PICK longer : longer = [p \in 1 .. m |-> RiseAt(rise, p, new, e)]
    OBVIOUS
  <2>4. \A p \in 1 .. (m - 1) : longer[p] = rise[p]
    <3>1. TAKE p \in 1 .. (m - 1)
    <3>2. p \in 1 .. m
      BY <2>1
    <3>3. longer[p] = RiseAt(rise, p, new, e)
      BY <2>3, <3>2, Zenon
    <3>4. rise[p] = RiseAt(rise, p, new, e)
      BY <2>2, <3>1, Zenon
    <3> QED BY <3>3, <3>4
  <2>5. \A p \in 1 .. m : RiseAt(rise, p, new, e) = RiseAt(longer, p, new, e)
    <3>1. TAKE p \in 1 .. m
    <3>2. CASE p > 1
      <4>1. p \div 2 \in 1 .. (m - 1)
        BY <2>1, <3>2, Half
      <4>2. longer[p \div 2] = rise[p \div 2]
        BY <2>4, <4>1, Zenon
      <4> QED BY <4>2, Zenon DEF RiseAt
    <3>3. CASE ~ (p > 1)
      BY <3>3, Zenon DEF RiseAt
    <3> QED BY <3>2, <3>3
  <2>6. longer = [p \in 1 .. m |-> RiseAt(longer, p, new, e)]
    BY <2>3, <2>5
  <2> QED
    BY <2>6, <1>2
<1> QED
  BY <1>3, <1>4

(* The list s is the list new with e in the place p, up to the order: from *)
(* tells for each place of s which it was, and is the same beyond p.       *)
Rises(from, s, p, new, e) ==
  /\ s \in Seq(Events) /\ Len(s) = Len(new)
  /\ from \in [1 .. Len(new) -> 1 .. Len(new)]
  /\ \A q, r \in 1 .. Len(new) : from[q] = from[r] => q = r
  /\ \A r \in 1 .. Len(new) : \E q \in 1 .. Len(new) : from[q] = r
  /\ \A q \in 1 .. Len(new) : q > p => from[q] = q
  /\ \A q \in 1 .. Len(new) : s[q] = IF from[q] = p THEN e ELSE new[from[q]]

LEMMA RisesAtOnce ==
  ASSUME NEW new \in Seq(Events), NEW e \in Events, NEW p \in 1 .. Len(new)
  PROVE  \E from : Rises(from, [new EXCEPT ![p] = e], p, new, e)
<1>1. PICK from : from = [q \in 1 .. Len(new) |-> q]
  OBVIOUS
<1>2. PICK s : s = [new EXCEPT ![p] = e]
  OBVIOUS
<1>3. s \in Seq(Events) /\ Len(s) = Len(new)
  BY <1>2
<1>4. \A q \in 1 .. Len(new) : s[q] = IF q = p THEN e ELSE new[q]
  BY <1>2
<1>5. Rises(from, s, p, new, e)
  BY <1>1, <1>3, <1>4 DEF Rises
<1> QED BY <1>2, <1>5

LEMMA RisesFurther ==
  ASSUME NEW new \in Seq(Events), NEW e \in Events, NEW p \in 1 .. Len(new),
         NEW h \in 1 .. Len(new), h < p, NEW above, NEW lower, Rises(above, lower, h, new, e)
  PROVE  \E from : Rises(from, [lower EXCEPT ![p] = new[h]], p, new, e)
<1>1. PICK n \in Nat : n = Len(new)
  OBVIOUS
<1>2. PICK from : from = [q \in 1 .. n |-> IF q = p THEN h ELSE IF above[q] = h THEN p ELSE above[q]]
  OBVIOUS
<1>3. PICK s : s = [lower EXCEPT ![p] = new[h]]
  OBVIOUS
<1>4. /\ lower \in Seq(Events) /\ Len(lower) = n
      /\ above \in [1 .. n -> 1 .. n]
      /\ \A q, r \in 1 .. n : above[q] = above[r] => q = r
      /\ \A r \in 1 .. n : \E q \in 1 .. n : above[q] = r
      /\ \A q \in 1 .. n : q > h => above[q] = q
      /\ \A q \in 1 .. n : lower[q] = IF above[q] = h THEN e ELSE new[above[q]]
  BY <1>1 DEF Rises
<1>5. p \in 1 .. n /\ h \in 1 .. n /\ p \in Nat /\ h \in Nat
  BY <1>1
<1>6. above[p] = p
  BY <1>4, <1>5
<1>7. new[h] \in Events
  BY <1>1, <1>5
<1>8. s \in Seq(Events) /\ Len(s) = n
  <2>1. p \in 1 .. Len(lower)
    BY <1>4, <1>5
  <2> QED BY <2>1, <1>3, <1>4, <1>7
<1>9. \A q \in 1 .. n : s[q] = IF q = p THEN new[h] ELSE lower[q]
  BY <1>3, <1>4
<1>10. from \in [1 .. n -> 1 .. n]
  BY <1>2, <1>4, <1>5
<1>11. \A q \in 1 .. n : from[q] = IF q = p THEN h ELSE IF above[q] = h THEN p ELSE above[q]
  BY <1>2
<1>12. \A q \in 1 .. n : q # p => above[q] # p
  BY <1>4, <1>5, <1>6
<1>13. \A q, r \in 1 .. n : from[q] = from[r] => q = r
  <2>1. SUFFICES ASSUME NEW q \in 1 .. n, NEW r \in 1 .. n, from[q] = from[r]
                 PROVE  q = r
    OBVIOUS
  <2>2. /\ from[q] = IF q = p THEN h ELSE IF above[q] = h THEN p ELSE above[q]
        /\ from[r] = IF r = p THEN h ELSE IF above[r] = h THEN p ELSE above[r]
        /\ above[q] = above[r] => q = r
        /\ q # p => above[q] # p
        /\ r # p => above[r] # p
    BY <1>4, <1>11, <1>12
  <2> QED BY <2>1, <2>2
<1>14. \A r \in 1 .. n : \E q \in 1 .. n : from[q] = r
  <2>1. TAKE r \in 1 .. n
  <2>2. CASE r = h
    BY <2>2, <1>5, <1>11
  <2>3. CASE r = p
    <3>1. PICK q \in 1 .. n : above[q] = h
      BY <1>4, <1>5
    <3> QED BY <3>1, <2>3, <1>5, <1>6, <1>11
  <2>4. CASE r # h /\ r # p
    <3>1. PICK q \in 1 .. n : above[q] = r
      BY <1>4
    <3> QED BY <3>1, <2>4, <1>6, <1>11
  <2> QED BY <2>2, <2>3, <2>4
<1>15. \A q \in 1 .. n : q > p => from[q] = q
  <2>1. SUFFICES ASSUME NEW q \in 1 .. n, q > p
                 PROVE  from[q] = q
    OBVIOUS
  <2>2. q # p /\ q > h /\ q # h
    BY <1>5, <2>1
  <2> QED BY <1>4, <1>11, <2>2
<1>16. \A q \in 1 .. n : s[q] = IF from[q] = p THEN e ELSE new[from[q]]
  <2>1. TAKE q \in 1 .. n
  <2>2. CASE q = p
    BY <2>2, <1>5, <1>9, <1>11
  <2>3. CASE q # p
    <3>1. s[q] = IF above[q] = h THEN e ELSE new[above[q]]
      BY <2>3, <1>4, <1>9
    <3>2. from[q] = IF above[q] = h THEN p ELSE above[q]
      BY <2>3, <1>11
    <3>3. above[q] # p
      BY <2>3, <1>12
    <3> QED BY <3>1, <3>2, <3>3
  <2> QED BY <2>2, <2>3
<1>17. Rises(from, s, p, new, e)
  BY <1>1, <1>8, <1>10, <1>13, <1>14, <1>15, <1>16 DEF Rises
<1> QED BY <1>3, <1>17

(* heappush adds the event and loses none, wherever it comes to lie.       *)
LEMMA HeapPushPermutes ==
  ASSUME NEW heap \in Seq(Events), NEW e \in Events
  PROVE  \E from : Rises(from, HeapPush(heap, e), Len(heap) + 1, Append(heap, e), e)
<1>1. PICK new : new = Append(heap, e)
  OBVIOUS
<1>2. PICK n \in Nat : n = Len(heap) + 1
  OBVIOUS
<1>3. new \in Seq(Events) /\ Len(new) = n /\ n >= 1
  BY <1>1, <1>2
<1> DEFINE rise == CHOOSE f : f = [p \in 1 .. Len(new) |-> RiseAt(f, p, new, e)]
<1>4. rise = [p \in 1 .. Len(new) |-> RiseAt(rise, p, new, e)]
  <2>1. \E f : f = [p \in 1 .. Len(new) |-> RiseAt(f, p, new, e)]
    BY <1>3, RiseExists
  <2> QED BY <2>1, Zenon
<1>5. HeapPush(heap, e) = rise[Len(new)]
  BY <1>1, Zenon DEF HeapPush, RiseAt
<1> HIDE DEF rise
<1> DEFINE Good(p) == \E from : Rises(from, rise[p], p, new, e)
           Bad == {p \in Nat : p >= 1 /\ p <= n /\ ~ Good(p)}
<1>6. Bad = {}
  <2>1. SUFFICES ASSUME Bad # {} PROVE FALSE
    OBVIOUS
  <2>2. PICK p \in Bad : \A q \in Bad : p <= q
    BY <2>1, LeastNatural
  <2>3. p \in 1 .. n /\ p \in Nat
    BY <2>2
  <2>4. rise[p] = RiseAt(rise, p, new, e)
    BY <1>3, <1>4, <2>3
  <2>5. CASE p > 1 /\ new[p \div 2].due > e.due
    <3>1. PICK h \in Nat : h = p \div 2
      BY <2>3, <2>5, Half
    <3>2. h \in 1 .. n /\ h < p
      BY <2>3, <2>5, <3>1, Half
    <3>3. Good(h)
      BY <2>2, <2>3, <3>2
    <3>4. rise[p] = [rise[h] EXCEPT ![p] = new[h]]
      BY <2>4, <2>5, <3>1, Zenon DEF RiseAt
    <3>5. PICK above : Rises(above, rise[h], h, new, e)
      BY <3>3
    <3>6. PICK lower : lower = rise[h]
      OBVIOUS
    <3>7. Rises(above, lower, h, new, e)
      BY <3>5, <3>6
    <3>8. \E from : Rises(from, [lower EXCEPT ![p] = new[h]], p, new, e)
      BY <1>3, <2>3, <3>2, <3>7, RisesFurther
    <3>9. Good(p)
      BY <3>4, <3>6, <3>8
    <3> QED BY <2>2, <3>9
  <2>6. CASE ~ (p > 1 /\ new[p \div 2].due > e.due)
    <3>1. rise[p] = [new EXCEPT ![p] = e]
      BY <2>4, <2>6, Zenon DEF RiseAt
    <3>2. \E from : Rises(from, [new EXCEPT ![p] = e], p, new, e)
      BY <1>3, <2>3, RisesAtOnce
    <3>3. Good(p)
      BY <3>1, <3>2
    <3> QED BY <2>2, <3>3
  <2> QED BY <2>5, <2>6
<1>7. Good(n)
  BY <1>3, <1>6
<1> QED
  BY <1>1, <1>2, <1>3, <1>5, <1>7

(* The items of a list, and that at most one of them is of a schedule.     *)
ItemsOf(list) == {list[k] : k \in DOMAIN list}
Once(list, s) ==
  \A k, l \in DOMAIN list : list[k].schedule = s /\ list[l].schedule = s => k = l

LEMMA PushItems ==
  ASSUME NEW heap \in Seq(Events), NEW e \in Events
  PROVE  /\ HeapPush(heap, e) \in Seq(Events)
         /\ ItemsOf(HeapPush(heap, e)) = ItemsOf(heap) \cup {e}
         /\ \A s : Once(heap, s) /\ (e.schedule = s => \A x \in ItemsOf(heap) : x.schedule # s)
                     => Once(HeapPush(heap, e), s)
<1>1. PICK new : new = Append(heap, e)
  OBVIOUS
<1>2. PICK n \in Nat : n = Len(heap)
  OBVIOUS
<1>3. PICK after : after = HeapPush(heap, e)
  OBVIOUS
<1>4. PICK from : Rises(from, after, n + 1, new, e)
  BY <1>1, <1>2, <1>3, HeapPushPermutes
<1>5. /\ new \in Seq(Events) /\ Len(new) = n + 1 /\ new[n + 1] = e
      /\ \A k \in 1 .. n : new[k] = heap[k]
  BY <1>1, <1>2
<1>6. /\ after \in Seq(Events) /\ Len(after) = n + 1
      /\ from \in [1 .. n + 1 -> 1 .. n + 1]
      /\ \A q, r \in 1 .. n + 1 : from[q] = from[r] => q = r
      /\ \A r \in 1 .. n + 1 : \E q \in 1 .. n + 1 : from[q] = r
  BY <1>4, <1>5 DEF Rises
<1>7. \A q \in 1 .. n + 1 : after[q] = new[from[q]]
  BY <1>4, <1>5, <1>6 DEF Rises
<1>8. DOMAIN after = 1 .. n + 1 /\ DOMAIN heap = 1 .. n
  BY <1>2, <1>6
<1>9. ItemsOf(after) \subseteq ItemsOf(heap) \cup {e}
  <2>1. SUFFICES ASSUME NEW q \in 1 .. n + 1 PROVE after[q] \in ItemsOf(heap) \cup {e}
    BY <1>8 DEF ItemsOf
  <2>2. from[q] \in 1 .. n + 1
    BY <1>6
  <2>3. CASE from[q] = n + 1
    BY <2>3, <1>5, <1>7
  <2>4. CASE from[q] # n + 1
    <3>1. from[q] \in 1 .. n
      BY <2>2, <2>4
    <3> QED BY <3>1, <1>5, <1>7, <1>8 DEF ItemsOf
  <2> QED BY <2>3, <2>4
<1>10. ItemsOf(heap) \cup {e} \subseteq ItemsOf(after)
  <2>1. ASSUME NEW r \in 1 .. n + 1 PROVE new[r] \in ItemsOf(after)
    <3>1. PICK q \in 1 .. n + 1 : from[q] = r
      BY <1>6
    <3> QED BY <3>1, <1>7, <1>8 DEF ItemsOf
  <2>2. \A k \in 1 .. n : k \in 1 .. n + 1
    OBVIOUS
  <2>3. n + 1 \in 1 .. n + 1
    OBVIOUS
  <2> QED BY <2>1, <2>2, <2>3, <1>5, <1>8 DEF ItemsOf
<1>11. ASSUME NEW s, Once(heap, s), e.schedule = s => \A x \in ItemsOf(heap) : x.schedule # s
       PROVE  Once(after, s)
  <2>1. \A k, l \in 1 .. n + 1 : new[k].schedule = s /\ new[l].schedule = s => k = l
    <3>1. SUFFICES ASSUME NEW k \in 1 .. n + 1, NEW l \in 1 .. n + 1,
                          new[k].schedule = s, new[l].schedule = s
                   PROVE  k = l
      OBVIOUS
    <3>2. (k = n + 1 \/ k \in 1 .. n) /\ (l = n + 1 \/ l \in 1 .. n)
      OBVIOUS
    <3>3. \A i \in 1 .. n : e.schedule = s => heap[i].schedule # s
      BY <1>8, <1>11 DEF ItemsOf
    <3>4. k \in 1 .. n /\ l \in 1 .. n => k = l
      BY <1>5, <1>8, <1>11, <3>1 DEF Once
    <3> QED BY <1>5, <3>1, <3>2, <3>3, <3>4
  <2>2. SUFFICES ASSUME NEW q \in 1 .. n + 1, NEW r \in 1 .. n + 1,
                        after[q].schedule = s, after[r].schedule = s
                 PROVE  q = r
    BY <1>8, Zenon DEF Once
  <2>3. from[q] \in 1 .. n + 1 /\ from[r] \in 1 .. n + 1
    BY <1>6
  <2>4. new[from[q]].schedule = s /\ new[from[r]].schedule = s
    BY <1>7, <2>2
  <2>5. from[q] = from[r]
    BY <2>1, <2>3, <2>4
  <2> QED BY <1>6, <2>5
<1> QED BY <1>3, <1>6, <1>9, <1>10, <1>11

LEMMA TailItems ==
  ASSUME NEW S, NEW list \in Seq(S), list # <<>>
  PROVE  /\ Tail(list) \in Seq(S) /\ Head(list) \in S
         /\ ItemsOf(list) = ItemsOf(Tail(list)) \cup {Head(list)}
         /\ \A s : Once(list, s) => Once(Tail(list), s)
         /\ Once(list, Head(list).schedule) =>
              \A x \in ItemsOf(Tail(list)) : x.schedule # Head(list).schedule
<1>1. PICK n \in Nat : n + 1 = Len(list)
  OBVIOUS
<1>2. PICK tail : tail = Tail(list)
  OBVIOUS
<1>3. /\ tail \in Seq(S) /\ Len(tail) = n /\ Head(list) = list[1]
      /\ \A k \in 1 .. n : tail[k] = list[k + 1]
  BY <1>1, <1>2
<1>4. DOMAIN tail = 1 .. n /\ DOMAIN list = 1 .. n + 1
  BY <1>1, <1>3
<1>5. \A k \in 1 .. n + 1 : k = 1 \/ k - 1 \in 1 .. n
  OBVIOUS
<1>6. \A k \in 1 .. n : k + 1 \in 1 .. n + 1 /\ k + 1 # 1
  OBVIOUS
<1>7. 1 \in 1 .. n + 1
  OBVIOUS
<1>8. ItemsOf(list) = ItemsOf(tail) \cup {list[1]}
  <2>1. ASSUME NEW k \in 1 .. n + 1 PROVE list[k] \in ItemsOf(tail) \cup {list[1]}
    <3>1. CASE k = 1
      BY <3>1
    <3>2. CASE k # 1
      <4>1. k - 1 \in 1 .. n /\ tail[k - 1] = list[(k - 1) + 1] /\ (k - 1) + 1 = k
        BY <1>3, <1>5, <3>2
      <4> QED BY <4>1, <1>4 DEF ItemsOf
    <3> QED BY <3>1, <3>2
  <2>2. \A k \in 1 .. n : tail[k] \in ItemsOf(list)
    BY <1>3, <1>4, <1>6 DEF ItemsOf
  <2>3. list[1] \in ItemsOf(list)
    BY <1>4, <1>7 DEF ItemsOf
  <2>4. ItemsOf(list) \subseteq ItemsOf(tail) \cup {list[1]}
    BY <2>1, <1>4 DEF ItemsOf
  <2>5. ItemsOf(tail) \subseteq ItemsOf(list)
    BY <2>2, <1>4 DEF ItemsOf
  <2> QED BY <2>3, <2>4, <2>5
<1>9. ASSUME NEW s, Once(list, s) PROVE Once(tail, s)
  <2>1. SUFFICES ASSUME NEW k \in 1 .. n, NEW l \in 1 .. n, tail[k].schedule = s, tail[l].schedule = s
                 PROVE  k = l
    BY <1>4 DEF Once
  <2>2. k + 1 = l + 1
    BY <1>3, <1>4, <1>6, <1>9, <2>1 DEF Once
  <2> QED BY <2>2
<1>10. ASSUME Once(list, list[1].schedule)
       PROVE  \A x \in ItemsOf(tail) : x.schedule # list[1].schedule
  <2>1. \A k \in 1 .. n : tail[k].schedule # list[1].schedule
    BY <1>3, <1>4, <1>6, <1>7, <1>10 DEF Once
  <2> QED BY <2>1, <1>4 DEF ItemsOf
<1>11. list[1] \in S
  BY <1>1, <1>7
<1> QED BY <1>2, <1>3, <1>8, <1>9, <1>10, <1>11

LEMMA WithoutItems ==
  ASSUME NEW S, NEW list \in Seq(S), NEW drop
  PROVE  /\ Without(list, drop) \in Seq(S)
         /\ ItemsOf(Without(list, drop)) = ItemsOf(list) \ drop
         /\ \A s : Once(list, s) => Once(Without(list, drop), s)
<1>1. PICK after : after = Without(list, drop)
  OBVIOUS
<1>2. PICK n \in Nat : n = Len(list)
  OBVIOUS
<1>3. after \in Seq(S)
  BY <1>1, WithoutKeepsItems
<1>4. PICK m \in Nat : m = Len(after)
  BY <1>3
<1>5. \A k \in 1 .. m : after[k] \notin drop /\ \E i \in 1 .. n : after[k] = list[i]
  BY <1>1, <1>2, <1>4, WithoutKeepsItems
<1>6. \E from : Embeds(from, after, n, list, drop)
  BY <1>1, <1>2, WithoutEmbeds
<1>7. PICK from : Embeds(from, after, n, list, drop)
  BY <1>6
<1>8. /\ from \in [1 .. m -> 1 .. n]
      /\ \A k \in 1 .. m : after[k] = list[from[k]]
      /\ \A k, l \in 1 .. m : k < l => from[k] < from[l]
      /\ \A i \in 1 .. n : list[i] \notin drop => \E k \in 1 .. m : from[k] = i
  BY <1>4, <1>7 DEF Embeds
<1>9. DOMAIN list = 1 .. n /\ DOMAIN after = 1 .. m
  BY <1>2, <1>3, <1>4
<1>10. ItemsOf(after) \subseteq ItemsOf(list) \ drop
  BY <1>5, <1>9 DEF ItemsOf
<1>11. \A i \in 1 .. n : list[i] \notin drop => list[i] \in ItemsOf(after)
  BY <1>8, <1>9 DEF ItemsOf
<1>12. ItemsOf(list) \ drop \subseteq ItemsOf(after)
  BY <1>9, <1>11 DEF ItemsOf
<1>13. ASSUME NEW s, Once(list, s) PROVE Once(after, s)
  <2>1. SUFFICES ASSUME NEW k \in 1 .. m, NEW l \in 1 .. m, after[k].schedule = s, after[l].schedule = s
                 PROVE  k = l
    BY <1>9 DEF Once
  <2>2. from[k] = from[l] /\ from[k] \in 1 .. n
    BY <1>8, <1>9, <1>13, <2>1 DEF Once
  <2>3. ~ (k < l) /\ ~ (l < k)
    BY <1>8, <2>2
  <2> QED BY <2>3
<1> QED BY <1>1, <1>3, <1>10, <1>12, <1>13

-----------------------------------------------------------------------------
(* Types: what an action does to the jobs and to the channel *)

(* A job changes, but not what it is a job of, nor when it began.          *)
OneChanges(j) ==
  /\ jobs' \in Seq(Rows) /\ Len(jobs') = Len(jobs)
  /\ \A i \in JobIds : i # j => jobs'[i] = jobs[i]
  /\ jobs'[j].schedule = jobs[j].schedule /\ jobs'[j].started = jobs[j].started

LEMMA RowsAre ==
  ASSUME TypeOK, NEW j \in JobIds
  PROVE  /\ jobs[j] \in Rows /\ jobs[j].schedule \in Schedules /\ jobs[j].state \in States
         /\ jobs[j].started \in Nat /\ jobs[j].completed \in Nat \cup {None}
         /\ jobs[j].task \in {"idle", "ready", "running"}
         /\ jobs[j] = [schedule |-> jobs[j].schedule, state |-> jobs[j].state,
                       started |-> jobs[j].started, completed |-> jobs[j].completed,
                       task |-> jobs[j].task]
<1>1. jobs[j] \in Rows
  BY DEF TypeOK, JobIds
<1> QED BY <1>1 DEF Rows

LEMMA SendFacts ==
  ASSUME TypeOK, NEW s \in Schedules \cup {None}, NEW j \in JobIds, NEW state \in States,
         NEW upset \in SUBSET Schedules, Send(s, j, state, upset)
  PROVE  /\ disturbed \cup upset \subseteq disturbed' /\ disturbed' \subseteq Schedules
         /\ channel' \in Seq([schedule : Schedules \cup {None}, job : JobIds, state : States,
                              time : 0 .. MaxTime])
         /\ Len(channel') <= ChannelSize
         /\ \/ channel' = Append(channel, [schedule |-> s, job |-> j, state |-> state, time |-> now])
            \/ channel' = channel /\ s \in disturbed' \cup {None}
<1>1. PICK m : m = [schedule |-> s, job |-> j, state |-> state, time |-> now]
  OBVIOUS
<1>2. PICK M : M = [schedule : Schedules \cup {None}, job : JobIds, state : States,
                    time : 0 .. MaxTime]
  OBVIOUS
<1>3. m \in M
  BY <1>1, <1>2 DEF TypeOK
<1>4. channel \in Seq(M) /\ Len(channel) <= ChannelSize /\ disturbed \subseteq Schedules
      /\ ChannelSize \in Nat
  BY <1>2, SchedulerAssumption DEF TypeOK
<1>5. CASE Len(channel) < ChannelSize
  <2>1. channel' = Append(channel, m) /\ disturbed' = disturbed \cup upset
    BY <1>1, <1>5 DEF Send, Disturb
  <2>2. Append(channel, m) \in Seq(M) /\ Len(Append(channel, m)) <= ChannelSize
    BY <1>3, <1>4, <1>5
  <2> QED BY <2>1, <2>2, <1>1, <1>2, <1>4
<1>6. CASE ~ (Len(channel) < ChannelSize)
  <2>1. channel' = channel /\ disturbed' = disturbed \cup (upset \cup ({s} \ {None}))
    BY <1>6 DEF Send, Disturb
  <2> QED BY <2>1, <1>2, <1>4
<1> QED BY <1>5, <1>6

LEMMA JobRunsFacts ==
  ASSUME TypeOK, NEW j \in JobIds, JobRuns(j)
  PROVE  /\ OneChanges(j) /\ jobs'[j].state = "running" /\ jobs'[j].task = "running"
         /\ jobs'[j].completed = jobs[j].completed
         /\ jobs[j].task = "ready"
         /\ Send(jobs[j].schedule, j, "running", {})
<1>1. jobs \in Seq(Rows) /\ j \in 1 .. Len(jobs)
  BY DEF TypeOK, JobIds
<1>2. PICK row \in Rows : row = jobs[j]
  BY <1>1
<1>3. PICK new : new = [row EXCEPT !.state = "running", !.task = "running"]
  OBVIOUS
<1>4. new = [schedule |-> row.schedule, state |-> "running", started |-> row.started,
             completed |-> jobs[j].completed, task |-> "running"]
  BY <1>2, <1>3 DEF Rows
<1>5. now \in Nat
  BY SchedulerAssumption DEF TypeOK
<1>6. new \in Rows
  BY <1>2, <1>4, <1>5 DEF Rows, States
<1>7. jobs' = [i \in DOMAIN jobs |->
                 IF i = j THEN [jobs[j] EXCEPT !.state = "running", !.task = "running"] ELSE jobs[i]]
  BY <1>1 DEF JobRuns
<1>8. jobs' = [i \in 1 .. Len(jobs) |-> IF i = j THEN new ELSE jobs[i]]
  BY <1>1, <1>2, <1>3, <1>7
<1>9. /\ jobs' \in Seq(Rows) /\ Len(jobs') = Len(jobs) /\ jobs'[j] = new
      /\ \A i \in 1 .. Len(jobs) : i # j => jobs'[i] = jobs[i]
  BY <1>1, <1>6, <1>8
<1>10. /\ new.schedule = jobs[j].schedule /\ new.started = jobs[j].started
       /\ new.state = "running" /\ new.task = "running"
       /\ new.completed = jobs[j].completed
  BY <1>2, <1>4
<1>11. jobs[j].task = "ready" /\ Send(jobs[j].schedule, j, "running", {})
  BY DEF JobRuns
<1> QED BY <1>9, <1>10, <1>11 DEF OneChanges, JobIds

LEMMA JobEndsFacts ==
  ASSUME TypeOK, NEW j \in JobIds, JobEnds(j)
  PROVE  /\ OneChanges(j) /\ jobs'[j].state = "completed" /\ jobs'[j].task = "idle"
         /\ jobs'[j].completed = now
         /\ jobs[j].task = "running"
         /\ Send(jobs[j].schedule, j, "completed", {})
<1>1. jobs \in Seq(Rows) /\ j \in 1 .. Len(jobs)
  BY DEF TypeOK, JobIds
<1>2. PICK row \in Rows : row = jobs[j]
  BY <1>1
<1>3. PICK new : new = [row EXCEPT !.state = "completed", !.completed = now, !.task = "idle"]
  OBVIOUS
<1>4. new = [schedule |-> row.schedule, state |-> "completed", started |-> row.started,
             completed |-> now, task |-> "idle"]
  BY <1>2, <1>3 DEF Rows
<1>5. now \in Nat
  BY SchedulerAssumption DEF TypeOK
<1>6. new \in Rows
  BY <1>2, <1>4, <1>5 DEF Rows, States
<1>7. jobs' = [i \in DOMAIN jobs |->
                 IF i = j THEN [jobs[j] EXCEPT !.state = "completed", !.completed = now, !.task = "idle"] ELSE jobs[i]]
  BY <1>1 DEF JobEnds
<1>8. jobs' = [i \in 1 .. Len(jobs) |-> IF i = j THEN new ELSE jobs[i]]
  BY <1>1, <1>2, <1>3, <1>7
<1>9. /\ jobs' \in Seq(Rows) /\ Len(jobs') = Len(jobs) /\ jobs'[j] = new
      /\ \A i \in 1 .. Len(jobs) : i # j => jobs'[i] = jobs[i]
  BY <1>1, <1>6, <1>8
<1>10. /\ new.schedule = jobs[j].schedule /\ new.started = jobs[j].started
       /\ new.state = "completed" /\ new.task = "idle"
       /\ new.completed = now
  BY <1>2, <1>4
<1>11. jobs[j].task = "running" /\ Send(jobs[j].schedule, j, "completed", {})
  BY DEF JobEnds
<1> QED BY <1>9, <1>10, <1>11 DEF OneChanges, JobIds

LEMMA UserPausesFacts ==
  ASSUME TypeOK, NEW j \in JobIds, UserPauses(j)
  PROVE  /\ OneChanges(j) /\ jobs'[j].state = "paused" /\ jobs'[j].task = "idle"
         /\ jobs'[j].completed = jobs[j].completed
         /\ jobs[j].state = "running" /\ jobs[j].task = "running"
         /\ Send(jobs[j].schedule, j, "paused", {jobs[j].schedule} \cap {s \in Schedules : Regular(s)})
<1>1. jobs \in Seq(Rows) /\ j \in 1 .. Len(jobs)
  BY DEF TypeOK, JobIds
<1>2. PICK row \in Rows : row = jobs[j]
  BY <1>1
<1>3. PICK new : new = [row EXCEPT !.state = "paused", !.task = "idle"]
  OBVIOUS
<1>4. new = [schedule |-> row.schedule, state |-> "paused", started |-> row.started,
             completed |-> jobs[j].completed, task |-> "idle"]
  BY <1>2, <1>3 DEF Rows
<1>5. now \in Nat
  BY SchedulerAssumption DEF TypeOK
<1>6. new \in Rows
  BY <1>2, <1>4, <1>5 DEF Rows, States
<1>7. jobs' = [i \in DOMAIN jobs |->
                 IF i = j THEN [jobs[j] EXCEPT !.state = "paused", !.task = "idle"] ELSE jobs[i]]
  BY <1>1 DEF UserPauses
<1>8. jobs' = [i \in 1 .. Len(jobs) |-> IF i = j THEN new ELSE jobs[i]]
  BY <1>1, <1>2, <1>3, <1>7
<1>9. /\ jobs' \in Seq(Rows) /\ Len(jobs') = Len(jobs) /\ jobs'[j] = new
      /\ \A i \in 1 .. Len(jobs) : i # j => jobs'[i] = jobs[i]
  BY <1>1, <1>6, <1>8
<1>10. /\ new.schedule = jobs[j].schedule /\ new.started = jobs[j].started
       /\ new.state = "paused" /\ new.task = "idle"
       /\ new.completed = jobs[j].completed
  BY <1>2, <1>4
<1>11. jobs[j].state = "running" /\ jobs[j].task = "running" /\ Send(jobs[j].schedule, j, "paused", {jobs[j].schedule} \cap {s \in Schedules : Regular(s)})
  BY DEF UserPauses
<1> QED BY <1>9, <1>10, <1>11 DEF OneChanges, JobIds

LEMMA UserResumesFacts ==
  ASSUME TypeOK, NEW j \in JobIds, UserResumes(j)
  PROVE  /\ OneChanges(j) /\ jobs'[j].state = "running" /\ jobs'[j].task = "ready"
         /\ jobs'[j].completed = jobs[j].completed
         /\ jobs[j].state = "paused" /\ jobs[j].task = "idle"
         /\ Disturb({jobs[j].schedule} \cap {s \in Schedules : Regular(s)})
<1>1. jobs \in Seq(Rows) /\ j \in 1 .. Len(jobs)
  BY DEF TypeOK, JobIds
<1>2. PICK row \in Rows : row = jobs[j]
  BY <1>1
<1>3. PICK new : new = [row EXCEPT !.state = "running", !.task = "ready"]
  OBVIOUS
<1>4. new = [schedule |-> row.schedule, state |-> "running", started |-> row.started,
             completed |-> jobs[j].completed, task |-> "ready"]
  BY <1>2, <1>3 DEF Rows
<1>5. now \in Nat
  BY SchedulerAssumption DEF TypeOK
<1>6. new \in Rows
  BY <1>2, <1>4, <1>5 DEF Rows, States
<1>7. jobs' = [i \in DOMAIN jobs |->
                 IF i = j THEN [jobs[j] EXCEPT !.state = "running", !.task = "ready"] ELSE jobs[i]]
  BY <1>1 DEF UserResumes
<1>8. jobs' = [i \in 1 .. Len(jobs) |-> IF i = j THEN new ELSE jobs[i]]
  BY <1>1, <1>2, <1>3, <1>7
<1>9. /\ jobs' \in Seq(Rows) /\ Len(jobs') = Len(jobs) /\ jobs'[j] = new
      /\ \A i \in 1 .. Len(jobs) : i # j => jobs'[i] = jobs[i]
  BY <1>1, <1>6, <1>8
<1>10. /\ new.schedule = jobs[j].schedule /\ new.started = jobs[j].started
       /\ new.state = "running" /\ new.task = "ready"
       /\ new.completed = jobs[j].completed
  BY <1>2, <1>4
<1>11. jobs[j].state = "paused" /\ jobs[j].task = "idle" /\ Disturb({jobs[j].schedule} \cap {s \in Schedules : Regular(s)})
  BY DEF UserResumes
<1> QED BY <1>9, <1>10, <1>11 DEF OneChanges, JobIds

LEMMA CancelFacts ==
  ASSUME TypeOK, NEW j \in JobIds, NEW upset, Cancel(j, upset)
  PROVE  /\ OneChanges(j) /\ jobs'[j].state = "cancelled" /\ jobs'[j].task = jobs[j].task
         /\ jobs'[j].completed = now
         /\ Send(None, j, "cancelled", upset)
<1>1. jobs \in Seq(Rows) /\ j \in 1 .. Len(jobs)
  BY DEF TypeOK, JobIds
<1>2. PICK row \in Rows : row = jobs[j]
  BY <1>1
<1>3. PICK new : new = [row EXCEPT !.state = "cancelled", !.completed = now]
  OBVIOUS
<1>4. new = [schedule |-> row.schedule, state |-> "cancelled", started |-> row.started,
             completed |-> now, task |-> jobs[j].task]
  BY <1>2, <1>3 DEF Rows
<1>5. now \in Nat
  BY SchedulerAssumption DEF TypeOK
<1>6. new \in Rows
  BY <1>2, <1>4, <1>5 DEF Rows, States
<1>7. jobs' = [i \in DOMAIN jobs |->
                 IF i = j THEN [jobs[j] EXCEPT !.state = "cancelled", !.completed = now] ELSE jobs[i]]
  BY <1>1 DEF Cancel
<1>8. jobs' = [i \in 1 .. Len(jobs) |-> IF i = j THEN new ELSE jobs[i]]
  BY <1>1, <1>2, <1>3, <1>7
<1>9. /\ jobs' \in Seq(Rows) /\ Len(jobs') = Len(jobs) /\ jobs'[j] = new
      /\ \A i \in 1 .. Len(jobs) : i # j => jobs'[i] = jobs[i]
  BY <1>1, <1>6, <1>8
<1>10. /\ new.schedule = jobs[j].schedule /\ new.started = jobs[j].started
       /\ new.state = "cancelled" /\ new.task = jobs[j].task
       /\ new.completed = now
  BY <1>2, <1>4
<1>11. Send(None, j, "cancelled", upset)
  BY DEF Cancel
<1> QED BY <1>9, <1>10, <1>11 DEF OneChanges, JobIds

LEMMA JobCreatedFacts ==
  ASSUME TypeOK, TaskFits, JobCreated
  PROVE  /\ Len(jobs) \in JobIds /\ OneChanges(Len(jobs))
         /\ jobs'[Len(jobs)].state = jobs[Len(jobs)].state
         /\ jobs'[Len(jobs)].completed = jobs[Len(jobs)].completed
         /\ jobs'[Len(jobs)].task = "ready"
<1>1. jobs \in Seq(Rows) /\ jobs # <<>>
  BY DEF TypeOK, TaskFits, JobCreated, At
<1>2. PICK j : j = Len(jobs)
  OBVIOUS
<1>3. j \in 1 .. Len(jobs)
  BY <1>1, <1>2
<1>4. PICK row \in Rows : row = jobs[j]
  BY <1>1, <1>3
<1>5. PICK new : new = [row EXCEPT !.task = "ready"]
  OBVIOUS
<1>6. new = [schedule |-> row.schedule, state |-> row.state, started |-> row.started,
             completed |-> row.completed, task |-> "ready"]
  BY <1>4, <1>5 DEF Rows
<1>7. new \in Rows
  BY <1>4, <1>6 DEF Rows
<1>8. jobs' = [i \in DOMAIN jobs |-> IF i = j THEN [jobs[j] EXCEPT !.task = "ready"] ELSE jobs[i]]
  BY <1>1, <1>2 DEF JobCreated
<1>9. jobs' = [i \in 1 .. Len(jobs) |-> IF i = j THEN new ELSE jobs[i]]
  BY <1>1, <1>4, <1>5, <1>8
<1>10. /\ jobs' \in Seq(Rows) /\ Len(jobs') = Len(jobs) /\ jobs'[j] = new
       /\ \A i \in 1 .. Len(jobs) : i # j => jobs'[i] = jobs[i]
  BY <1>1, <1>3, <1>7, <1>9
<1> QED BY <1>2, <1>3, <1>4, <1>6, <1>10 DEF OneChanges, JobIds

LEMMA CreateJobFacts ==
  ASSUME TypeOK, TaskFits, CreateJob
  PROVE  /\ task.event \in Events /\ task.started \in 0 .. MaxTime
         /\ jobs' \in Seq(Rows) /\ Len(jobs') = Len(jobs) + 1
         /\ \A i \in JobIds : jobs'[i] = jobs[i]
         /\ jobs'[Len(jobs) + 1] = [schedule |-> task.event.schedule, state |-> "pending",
                                    started |-> task.started, completed |-> None, task |-> "idle"]
<1>1. jobs \in Seq(Rows)
  BY DEF TypeOK
<1>2. task.event \in Events \cup {None} /\ task.started \in 0 .. MaxTime \cup {None}
  BY DEF TypeOK
<1>3. task.event # None /\ task.started # None
  BY DEF TaskFits, CreateJob, At
<1>4. PICK row : row = [schedule |-> task.event.schedule, state |-> "pending",
                        started |-> task.started, completed |-> None, task |-> "idle"]
  OBVIOUS
<1>5. row \in Rows
  BY <1>2, <1>3, <1>4, SchedulerAssumption DEF Rows, Events, States
<1>6. jobs' = Append(jobs, row)
  BY <1>4 DEF CreateJob
<1>7. /\ jobs' \in Seq(Rows) /\ Len(jobs') = Len(jobs) + 1 /\ jobs'[Len(jobs) + 1] = row
      /\ \A i \in 1 .. Len(jobs) : jobs'[i] = jobs[i]
  BY <1>1, <1>5, <1>6
<1> QED BY <1>2, <1>3, <1>4, <1>7 DEF JobIds

LEMMA RestartFacts ==
  ASSUME TypeOK, Restart
  PROVE  /\ jobs' \in Seq(Rows) /\ Len(jobs') = Len(jobs)
         /\ \A j \in JobIds :
              /\ jobs'[j].schedule = jobs[j].schedule /\ jobs'[j].started = jobs[j].started
              /\ jobs'[j].completed = jobs[j].completed /\ jobs'[j].task = "idle"
              /\ jobs'[j].state = IF jobs[j].state = "running" THEN "paused" ELSE jobs[j].state
<1>1. jobs \in Seq(Rows) /\ JobIds = 1 .. Len(jobs)
  BY DEF TypeOK, JobIds
<1>2. jobs' = [j \in 1 .. Len(jobs) |->
                 [jobs[j] EXCEPT !.state = IF @ = "running" THEN "paused" ELSE @, !.task = "idle"]]
  BY <1>1 DEF Restart
<1>3. ASSUME NEW j \in JobIds
      PROVE  jobs'[j] = [schedule |-> jobs[j].schedule,
                         state |-> IF jobs[j].state = "running" THEN "paused" ELSE jobs[j].state,
                         started |-> jobs[j].started, completed |-> jobs[j].completed,
                         task |-> "idle"]
  <2>1. PICK row \in Rows : row = jobs[j]
    BY <1>1
  <2>2. jobs'[j] = [row EXCEPT !.state = IF row.state = "running" THEN "paused" ELSE row.state,
                               !.task = "idle"]
    BY <1>1, <1>2, <2>1
  <2> QED BY <2>1, <2>2 DEF Rows
<1>4. ASSUME NEW j \in JobIds PROVE jobs'[j] \in Rows
  <2>1. PICK state \in States : state = IF jobs[j].state = "running" THEN "paused" ELSE jobs[j].state
    BY RowsAre DEF States
  <2>2. jobs'[j] = [schedule |-> jobs[j].schedule, state |-> state, started |-> jobs[j].started,
                    completed |-> jobs[j].completed, task |-> "idle"]
    BY <1>3, <2>1
  <2>3. /\ jobs[j].schedule \in Schedules /\ jobs[j].started \in Nat
        /\ jobs[j].completed \in Nat \cup {None}
    BY RowsAre
  <2> QED BY <2>2, <2>3 DEF Rows
<1>5. Len(jobs) \in Nat
  BY <1>1
<1>6. jobs' \in [1 .. Len(jobs) -> Rows]
  BY <1>1, <1>2, <1>4
<1>7. jobs' \in Seq(Rows) /\ Len(jobs') = Len(jobs)
  BY <1>5, <1>6
<1>8. ASSUME NEW j \in JobIds
      PROVE  /\ jobs'[j].schedule = jobs[j].schedule /\ jobs'[j].started = jobs[j].started
             /\ jobs'[j].completed = jobs[j].completed /\ jobs'[j].task = "idle"
             /\ jobs'[j].state = IF jobs[j].state = "running" THEN "paused" ELSE jobs[j].state
  <2>1. PICK state : state = IF jobs[j].state = "running" THEN "paused" ELSE jobs[j].state
    OBVIOUS
  <2>2. PICK new : new = [schedule |-> jobs[j].schedule, state |-> state, started |-> jobs[j].started,
                          completed |-> jobs[j].completed, task |-> "idle"]
    OBVIOUS
  <2>3. jobs'[j] = new
    BY <1>3, <2>1, <2>2
  <2>4. /\ new.schedule = jobs[j].schedule /\ new.started = jobs[j].started
        /\ new.completed = jobs[j].completed /\ new.task = "idle" /\ new.state = state
    BY <2>2
  <2> QED BY <2>1, <2>3, <2>4
<1> QED BY <1>7, <1>8

(* The latest job of a schedule is the one with the greatest number.       *)
LEMMA LatestIs ==
  ASSUME TypeOK, NEW s \in Schedules
  PROVE  /\ JobsOf(s) = {} => Latest(s) = None
         /\ JobsOf(s) # {} => \E j \in JobsOf(s) : /\ Latest(s) = jobs[j]
                                                   /\ \A i \in JobsOf(s) : i <= j
<1>1. PICK n \in Nat : n = Len(jobs)
  BY DEF TypeOK
<1>2. JobsOf(s) \subseteq 1 .. n
  BY <1>1 DEF JobsOf, JobIds
<1>3. ASSUME JobsOf(s) # {}
      PROVE  \E j \in JobsOf(s) : Latest(s) = jobs[j] /\ \A i \in JobsOf(s) : i <= j
  <2>1. PICK T : T = {k \in Nat : k <= n /\ n - k \in JobsOf(s)}
    OBVIOUS
  <2>2. PICK i \in JobsOf(s) : TRUE
    BY <1>3
  <2>3. n - i \in T
    <3>1. i \in 1 .. n
      BY <1>2, <2>2
    <3>2. n - i \in Nat /\ n - i <= n /\ n - (n - i) = i
      BY <3>1
    <3> QED BY <2>1, <2>2, <3>2
  <2>4. PICK k \in T : \A l \in T : k <= l
    BY <2>1, <2>3, LeastNatural
  <2>5. PICK j : j = n - k
    OBVIOUS
  <2>6. j \in JobsOf(s)
    BY <2>1, <2>4, <2>5
  <2>7. ASSUME NEW l \in JobsOf(s) PROVE l <= j
    <3>1. l \in 1 .. n
      BY <1>2, <2>7
    <3>2. n - l \in Nat /\ n - l <= n /\ n - (n - l) = l
      BY <3>1
    <3>3. n - l \in T
      BY <2>1, <3>2
    <3>4. k <= n - l /\ k \in Nat
      BY <2>1, <2>4, <3>3
    <3> QED BY <2>5, <3>1, <3>4
  <2>8. \E m \in JobsOf(s) : \A l \in JobsOf(s) : l <= m
    BY <2>6, <2>7
  <2>9. PICK m : m = MaxOf(JobsOf(s))
    OBVIOUS
  <2>10. m \in JobsOf(s) /\ \A l \in JobsOf(s) : l <= m
    BY <2>8, <2>9 DEF MaxOf
  <2> QED BY <1>3, <2>9, <2>10 DEF Latest
<1> QED BY <1>3 DEF Latest

LEMMA AddEventFacts ==
  ASSUME TypeOK, NEW s \in Schedules, NEW due \in Nat, AddEvent(s, due)
  PROVE  /\ events' \in Seq(Events)
         /\ ItemsOf(events') = ItemsOf(events) \cup {[schedule |-> s, due |-> due]}
         /\ \A t : Once(events, t) /\ (t = s => \A x \in ItemsOf(events) : x.schedule # s)
                     => Once(events', t)
         /\ task' = IF task.at = "sleeping" THEN Looking ELSE task
<1>1. PICK e \in Events : e = [schedule |-> s, due |-> due]
  BY DEF Events
<1>2. e.schedule = s
  BY <1>1
<1>3. events' = HeapPush(events, e) /\ events \in Seq(Events)
  BY <1>1 DEF AddEvent, TypeOK
<1>4. /\ events' \in Seq(Events)
      /\ ItemsOf(events') = ItemsOf(events) \cup {e}
      /\ \A t : Once(events, t) /\ (e.schedule = t => \A x \in ItemsOf(events) : x.schedule # t)
                  => Once(events', t)
  BY <1>3, PushItems
<1> QED BY <1>1, <1>2, <1>4 DEF AddEvent

LEMMA IntervalsAre ==
  ASSUME NEW s \in Schedules
  PROVE  Interval[s] \in Nat /\ Interval[s] >= 1
  BY SchedulerAssumption

(* When a schedule is due that is loaded with its latest job, or none.     *)
LEMMA FirstDueFacts ==
  ASSUME TypeOK, DocsFit, NEW d \in loading
  PROVE  /\ d.schedule \in Schedules /\ d.latest \in Rows \cup {None}
         /\ d.latest = None => FirstDue(d.schedule, d.latest) \in Nat
         /\ d.latest # None /\ Regular(d.schedule) =>
              FirstDue(d.schedule, d.latest) = d.latest.started + Interval[d.schedule]
         /\ d.latest # None /\ ~Regular(d.schedule) =>
              IF d.latest.state \in FinishedStates
              THEN /\ d.latest.completed \in Nat
                   /\ FirstDue(d.schedule, d.latest) = d.latest.completed + Interval[d.schedule]
              ELSE FirstDue(d.schedule, d.latest) = None
         /\ FirstDue(d.schedule, d.latest) \in Nat \cup {None}
<1>1. d.schedule \in Schedules /\ d.latest \in Rows \cup {None}
  BY DEF TypeOK
<1>2. Interval[d.schedule] \in Nat /\ First \in Nat /\ now \in Nat
  BY <1>1, SchedulerAssumption, IntervalsAre DEF TypeOK
<1>3. CASE d.latest = None
  BY <1>1, <1>2, <1>3 DEF FirstDue
<1>4. CASE d.latest # None
  <2>1. d.latest.started \in Nat /\ d.latest.completed \in Nat \cup {None}
    BY <1>1, <1>4 DEF Rows
  <2>2. CASE Regular(d.schedule)
    BY <1>1, <1>2, <1>4, <2>1, <2>2 DEF FirstDue
  <2>3. CASE ~Regular(d.schedule) /\ d.latest.state \in FinishedStates
    <3>1. d.latest.completed \in Nat
      BY <1>4, <2>1, <2>3 DEF DocsFit
    <3> QED BY <1>1, <1>2, <1>4, <2>3, <3>1 DEF FirstDue
  <2>4. CASE ~Regular(d.schedule) /\ d.latest.state \notin FinishedStates
    BY <1>1, <1>4, <2>4 DEF FirstDue
  <2> QED BY <1>1, <1>4, <2>2, <2>3, <2>4
<1> QED BY <1>3, <1>4

LEMMA ListsGrow ==
  ASSUME NEW S, NEW T, S \subseteq T, NEW list \in Seq(S)
  PROVE  list \in Seq(T)
<1>1. Len(list) \in Nat /\ list \in [1 .. Len(list) -> S]
  OBVIOUS
<1>2. list \in [1 .. Len(list) -> T]
  BY <1>1
<1> QED BY <1>1, <1>2

LEMMA IdsGrow ==
  ASSUME NEW m \in Nat, NEW n \in Nat, m <= n
  PROVE  1 .. m \subseteq 1 .. n
  OBVIOUS

(* Where numbers of jobs are kept, they may be kept with more jobs.        *)
LEMMA TypesGrow ==
  ASSUME TypeOK, jobs' \in Seq(Rows), Len(jobs) <= Len(jobs'),
         running' \in [Schedules -> JobIds \cup {None}],
         task' \in [at : {"looking", "sleeping", "cancelling", "creating", "inserted", "counting"},
                    until : Nat \cup {None}, event : Events \cup {None}, old : JobIds \cup {None},
                    started : 0 .. MaxTime \cup {None}],
         channel' \in Seq([schedule : Schedules \cup {None}, job : JobIds, state : States,
                           time : 0 .. MaxTime])
  PROVE  /\ running' \in [Schedules -> JobIds' \cup {None}]
         /\ task' \in [at : {"looking", "sleeping", "cancelling", "creating", "inserted", "counting"},
                       until : Nat \cup {None}, event : Events \cup {None},
                       old : JobIds' \cup {None}, started : 0 .. MaxTime \cup {None}]
         /\ channel' \in Seq([schedule : Schedules \cup {None}, job : JobIds', state : States,
                              time : 0 .. MaxTime])
<1>1. PICK m \in Nat : m = Len(jobs)
  BY DEF TypeOK
<1>2. PICK n \in Nat : n = Len(jobs')
  OBVIOUS
<1>3. JobIds = 1 .. m /\ JobIds' = 1 .. n
  BY <1>1, <1>2 DEF JobIds
<1>4. JobIds \subseteq JobIds'
  BY <1>1, <1>2, <1>3, IdsGrow
<1>5. PICK ids : ids = JobIds'
  OBVIOUS
<1>6. running' \in [Schedules -> ids \cup {None}]
  BY <1>4, <1>5
<1>7. task' \in [at : {"looking", "sleeping", "cancelling", "creating", "inserted", "counting"},
                 until : Nat \cup {None}, event : Events \cup {None}, old : ids \cup {None},
                 started : 0 .. MaxTime \cup {None}]
  BY <1>4, <1>5
<1>8. channel' \in Seq([schedule : Schedules \cup {None}, job : ids, state : States,
                        time : 0 .. MaxTime])
  <2>1. PICK M : M = [schedule : Schedules \cup {None}, job : JobIds, state : States,
                      time : 0 .. MaxTime]
    OBVIOUS
  <2>2. PICK N : N = [schedule : Schedules \cup {None}, job : ids, state : States,
                      time : 0 .. MaxTime]
    OBVIOUS
  <2>3. M \subseteq N
    BY <1>4, <1>5, <2>1, <2>2
  <2>4. channel' \in Seq(M)
    BY <2>1
  <2> QED BY <2>2, <2>3, <2>4, ListsGrow
<1> QED BY <1>5, <1>6, <1>7, <1>8

LEMMA TypesStart ==
  ASSUME Init
  PROVE  TypeOK
<1>1. None \notin Schedules /\ \A s \in Schedules : s # None
  BY SchedulerAssumption
<1>2. Looking \in [at : {"looking", "sleeping", "cancelling", "creating", "inserted", "counting"},
                   until : Nat \cup {None}, event : Events \cup {None}, old : JobIds \cup {None},
                   started : 0 .. MaxTime \cup {None}]
  BY DEF Looking
<1>3. Idle \in [at : {"idle", "saved", "reading", "adding", "deleted"},
                schedule : Schedules \cup {None}, enabled : BOOLEAN, count : Nat]
  BY DEF Idle
<1>4. jobs \in Seq(Rows) /\ events \in Seq(Events) /\ Len(channel) <= ChannelSize
  BY SchedulerAssumption DEF Init
<1>5. channel \in Seq([schedule : Schedules \cup {None}, job : JobIds, state : States,
                       time : 0 .. MaxTime])
  BY DEF Init
<1>6. now \in 0 .. MaxTime /\ requests \in 0 .. MaxRequests
  BY SchedulerAssumption DEF Init
<1>7. running \in [Schedules -> JobIds \cup {None}]
  BY DEF Init
<1>8. loading \subseteq [schedule : Schedules, latest : Rows \cup {None}]
  BY DEF Init
<1>9. table \in [Schedules -> {"absent", "enabled", "disabled", "deleted"}]
  BY DEF Init
<1> QED BY <1>2, <1>3, <1>4, <1>5, <1>6, <1>7, <1>8, <1>9 DEF Init, TypeOK

DocSet == [schedule : Schedules, latest : Rows \cup {None}]
TaskSet(ids) ==
  [at : {"looking", "sleeping", "cancelling", "creating", "inserted", "counting"},
   until : Nat \cup {None}, event : Events \cup {None}, old : ids \cup {None},
   started : 0 .. MaxTime \cup {None}]
MessageSet(ids) ==
  [schedule : Schedules \cup {None}, job : ids, state : States, time : 0 .. MaxTime]
ApiSet == [at : {"idle", "saved", "reading", "adding", "deleted"},
           schedule : Schedules \cup {None}, enabled : BOOLEAN, count : Nat]

LEMMA TypesAre ==
  ASSUME TypeOK
  PROVE  /\ running \in [Schedules -> JobIds \cup {None}] /\ task \in TaskSet(JobIds)
         /\ channel \in Seq(MessageSet(JobIds)) /\ Len(channel) <= ChannelSize
         /\ api \in ApiSet /\ loading \subseteq DocSet
  BY DEF TypeOK, TaskSet, MessageSet, ApiSet, DocSet

LEMMA TypesTogether ==
  ASSUME TypeOK,
         now' \in 0 .. MaxTime,
         table' \in [Schedules -> {"absent", "enabled", "disabled", "deleted"}],
         policies' \subseteq Schedules,
         jobs' \in Seq(Rows) /\ Len(jobs) <= Len(jobs'),
         loading' \subseteq DocSet,
         schedules' \subseteq Schedules,
         events' \in Seq(Events),
         running' \in [Schedules -> JobIds \cup {None}],
         task' \in TaskSet(JobIds),
         channel' \in Seq(MessageSet(JobIds)) /\ Len(channel') <= ChannelSize,
         api' \in ApiSet,
         alive' \in BOOLEAN,
         requests' \in 0 .. MaxRequests,
         disturbed' \subseteq Schedules,
         mistaken' \subseteq Schedules,
         revived' \subseteq Schedules
  PROVE  TypeOK'
<1>1. /\ running' \in [Schedules -> JobIds' \cup {None}]
      /\ task' \in [at : {"looking", "sleeping", "cancelling", "creating", "inserted", "counting"},
                    until : Nat \cup {None}, event : Events \cup {None},
                    old : JobIds' \cup {None}, started : 0 .. MaxTime \cup {None}]
      /\ channel' \in Seq([schedule : Schedules \cup {None}, job : JobIds', state : States,
                           time : 0 .. MaxTime])
  BY TypesGrow DEF TaskSet, MessageSet
<1> QED BY <1>1 DEF TypeOK, ApiSet, DocSet

(* What Listen does with the first message of the channel.                 *)
ListensTo(e) ==
  /\ channel # <<>> /\ e = Head(channel) /\ channel' = Tail(channel)
  /\ e.schedule \in schedules =>
       /\ running' = [running EXCEPT ![e.schedule] =
                        IF e.state \in FinishedStates THEN None ELSE e.job]
       /\ mistaken' = IF e.state \in FinishedStates /\ running[e.schedule] \notin {None, e.job}
                      THEN mistaken \cup {e.schedule} ELSE mistaken
       /\ NextDue(e) = None => events' = events /\ task' = task
       /\ NextDue(e) # None => AddEvent(e.schedule, NextDue(e))
  /\ e.schedule \notin schedules =>
       running' = running /\ events' = events /\ task' = task /\ mistaken' = mistaken

LEMMA ListenFacts ==
  ASSUME TypeOK, Listen
  PROVE  \E e \in MessageSet(JobIds) :
           /\ ListensTo(e)
           /\ e.schedule \in schedules =>
                /\ e.schedule \in Schedules /\ NextDue(e) \in Nat \cup {None}
                /\ NextDue(e) # None => NextDue(e) = e.time + Interval[e.schedule]
<1>1. channel \in Seq(MessageSet(JobIds)) /\ channel # <<>>
  BY TypesAre DEF Listen
<1>2. PICK e \in MessageSet(JobIds) : e = Head(channel)
  BY <1>1, TailItems
<1>3. CASE e.schedule \in schedules
  <2>1. /\ running' = [running EXCEPT ![e.schedule] =
                         IF e.state \in FinishedStates THEN None ELSE e.job]
        /\ mistaken' = IF e.state \in FinishedStates /\ running[e.schedule] \notin {None, e.job}
                       THEN mistaken \cup {e.schedule} ELSE mistaken
    BY <1>2, <1>3, Zenon DEF Listen
  <2>2. NextDue(e) = None => events' = events /\ task' = task
    BY <1>2, <1>3 DEF Listen
  <2>3. NextDue(e) # None => AddEvent(e.schedule, NextDue(e))
    BY <1>2, <1>3, Zenon DEF Listen
  <2>4. ListensTo(e)
    BY <1>1, <1>2, <1>3, <2>1, <2>2, <2>3, Zenon DEF ListensTo, Listen
  <2>5. e.schedule \in Schedules /\ e.time \in Nat
    BY <1>3, SchedulerAssumption DEF MessageSet, TypeOK
  <2>6. e.time + Interval[e.schedule] \in Nat
    BY <2>5, IntervalsAre
  <2> QED BY <2>4, <2>5, <2>6 DEF NextDue
<1>4. CASE e.schedule \notin schedules
  BY <1>1, <1>2, <1>4 DEF ListensTo, Listen
<1> QED BY <1>3, <1>4

LEMMA TypesStep ==
  ASSUME TypeOK, TaskFits, ApiFits, DocsFit, Next, revived' \subseteq Schedules
  PROVE  TypeOK'
<1>1. CASE Sleep
  <2>1. task' \in TaskSet(JobIds)
    <3>1. events # <<>> => Head(events) \in Events
      BY DEF TypeOK
    <3>2. events # <<>> => Head(events).due \in Nat
      BY <3>1 DEF Events
    <3>3. task' = [Looking EXCEPT !.at = "sleeping",
                                  !.until = IF events = <<>> THEN None ELSE Head(events).due]
      BY <1>1 DEF Sleep
    <3> QED BY <3>2, <3>3 DEF TaskSet, Looking
  <2>2. UNCHANGED <<now, table, policies, jobs, loading, schedules, events, running, channel, api, alive, requests, disturbed, mistaken>>
    BY <1>1 DEF Sleep, memoryVars, databaseVars, historyVars
  <2>3. /\ now' \in 0 .. MaxTime
        /\ table' \in [Schedules -> {"absent", "enabled", "disabled", "deleted"}]
        /\ policies' \subseteq Schedules
        /\ jobs' \in Seq(Rows) /\ Len(jobs) <= Len(jobs')
        /\ loading' \subseteq DocSet
        /\ schedules' \subseteq Schedules
        /\ events' \in Seq(Events)
        /\ running' \in [Schedules -> JobIds \cup {None}]
        /\ channel' \in Seq(MessageSet(JobIds)) /\ Len(channel') <= ChannelSize
        /\ api' \in ApiSet
        /\ alive' \in BOOLEAN
        /\ requests' \in 0 .. MaxRequests
        /\ disturbed' \subseteq Schedules
        /\ mistaken' \subseteq Schedules
    BY <2>2, TypesAre DEF TypeOK
  <2> QED BY <2>1, <2>3, TypesTogether
<1>2. CASE Wake
  <2>1. task' \in TaskSet(JobIds)
    BY <1>2 DEF Wake, TaskSet, Looking
  <2>2. UNCHANGED <<now, table, policies, jobs, loading, schedules, events, running, channel, api, alive, requests, disturbed, mistaken>>
    BY <1>2 DEF Wake, memoryVars, databaseVars, historyVars
  <2>3. /\ now' \in 0 .. MaxTime
        /\ table' \in [Schedules -> {"absent", "enabled", "disabled", "deleted"}]
        /\ policies' \subseteq Schedules
        /\ jobs' \in Seq(Rows) /\ Len(jobs) <= Len(jobs')
        /\ loading' \subseteq DocSet
        /\ schedules' \subseteq Schedules
        /\ events' \in Seq(Events)
        /\ running' \in [Schedules -> JobIds \cup {None}]
        /\ channel' \in Seq(MessageSet(JobIds)) /\ Len(channel') <= ChannelSize
        /\ api' \in ApiSet
        /\ alive' \in BOOLEAN
        /\ requests' \in 0 .. MaxRequests
        /\ disturbed' \subseteq Schedules
        /\ mistaken' \subseteq Schedules
    BY <2>2, TypesAre DEF TypeOK
  <2> QED BY <2>1, <2>3, TypesTogether
<1>3. CASE JobCounted
  <2>1. task' \in TaskSet(JobIds)
    BY <1>3 DEF JobCounted, TaskSet, Looking
  <2>2. UNCHANGED <<now, table, policies, jobs, loading, schedules, events, running, channel, api, alive, requests, disturbed, mistaken>>
    BY <1>3 DEF JobCounted, memoryVars, databaseVars, historyVars
  <2>3. /\ now' \in 0 .. MaxTime
        /\ table' \in [Schedules -> {"absent", "enabled", "disabled", "deleted"}]
        /\ policies' \subseteq Schedules
        /\ jobs' \in Seq(Rows) /\ Len(jobs) <= Len(jobs')
        /\ loading' \subseteq DocSet
        /\ schedules' \subseteq Schedules
        /\ events' \in Seq(Events)
        /\ running' \in [Schedules -> JobIds \cup {None}]
        /\ channel' \in Seq(MessageSet(JobIds)) /\ Len(channel') <= ChannelSize
        /\ api' \in ApiSet
        /\ alive' \in BOOLEAN
        /\ requests' \in 0 .. MaxRequests
        /\ disturbed' \subseteq Schedules
        /\ mistaken' \subseteq Schedules
    BY <2>2, TypesAre DEF TypeOK
  <2> QED BY <2>1, <2>3, TypesTogether
<1>4. CASE PopDue
  <2>1. events' \in Seq(Events)
    BY <1>4, TailItems DEF PopDue, TypeOK
  <2>2. task' \in TaskSet(JobIds)
    <3>0. events \in Seq(Events) /\ events # <<>>
      BY <1>4 DEF PopDue, TypeOK
    <3>1. Head(events) \in Events /\ Head(events).schedule \in Schedules
      <4>1. Head(events) \in Events
        BY <3>0, TailItems
      <4> QED BY <4>1 DEF Events
    <3>2. running[Head(events).schedule] \in JobIds \cup {None} /\ now \in 0 .. MaxTime
      BY <3>1 DEF TypeOK
    <3>3. AfterPop(Head(events).schedule) \in {"cancelling", "creating"}
      BY DEF AfterPop
    <3> QED BY <1>4, <3>1, <3>2, <3>3 DEF PopDue, TaskSet
  <2>3. UNCHANGED <<now, table, policies, jobs, loading, schedules, running, channel, api, alive, requests, disturbed, mistaken>>
    BY <1>4 DEF PopDue, memoryVars, databaseVars, historyVars
  <2>4. /\ now' \in 0 .. MaxTime
        /\ table' \in [Schedules -> {"absent", "enabled", "disabled", "deleted"}]
        /\ policies' \subseteq Schedules
        /\ jobs' \in Seq(Rows) /\ Len(jobs) <= Len(jobs')
        /\ loading' \subseteq DocSet
        /\ schedules' \subseteq Schedules
        /\ running' \in [Schedules -> JobIds \cup {None}]
        /\ channel' \in Seq(MessageSet(JobIds)) /\ Len(channel') <= ChannelSize
        /\ api' \in ApiSet
        /\ alive' \in BOOLEAN
        /\ requests' \in 0 .. MaxRequests
        /\ disturbed' \subseteq Schedules
        /\ mistaken' \subseteq Schedules
    BY <2>3, TypesAre DEF TypeOK
  <2> QED BY <2>1, <2>2, <2>4, TypesTogether
<1>5. CASE CancelOld
  <2>1. task.old \in JobIds
    BY <1>5, TypesAre DEF CancelOld, At, TaskFits, TaskSet
  <2>2. OneChanges(task.old) /\ Send(None, task.old, "cancelled", {})
    BY <1>5, <2>1, CancelFacts DEF CancelOld
  <2>3. "cancelled" \in States /\ None \in Schedules \cup {None} /\ {} \in SUBSET Schedules
    BY DEF States
  <2>4. /\ disturbed' \subseteq Schedules /\ Len(channel') <= ChannelSize
        /\ channel' \in Seq(MessageSet(JobIds))
    BY <2>1, <2>2, <2>3, SendFacts DEF MessageSet
  <2>5. jobs' \in Seq(Rows) /\ Len(jobs) <= Len(jobs')
    BY <2>2 DEF OneChanges, TypeOK
  <2>6. task' \in TaskSet(JobIds)
    <3>1. task' = [task EXCEPT !.at = "creating", !.started = now] /\ now \in 0 .. MaxTime
      BY <1>5 DEF CancelOld, TypeOK
    <3> QED BY <3>1, TypesAre DEF TaskSet
  <2>7. channel' \in Seq(MessageSet(JobIds)) /\ Len(channel') <= ChannelSize
    BY <2>4
  <2>8. disturbed' \subseteq Schedules
    BY <2>4
  <2>9. UNCHANGED <<now, table, policies, loading, schedules, events, running, api, alive, requests, mistaken>>
    BY <1>5 DEF CancelOld, Cancel, memoryVars, databaseVars, historyVars
  <2>10. /\ now' \in 0 .. MaxTime
        /\ table' \in [Schedules -> {"absent", "enabled", "disabled", "deleted"}]
        /\ policies' \subseteq Schedules
        /\ loading' \subseteq DocSet
        /\ schedules' \subseteq Schedules
        /\ events' \in Seq(Events)
        /\ running' \in [Schedules -> JobIds \cup {None}]
        /\ api' \in ApiSet
        /\ alive' \in BOOLEAN
        /\ requests' \in 0 .. MaxRequests
        /\ mistaken' \subseteq Schedules
    BY <2>9, TypesAre DEF TypeOK
  <2> QED BY <2>5, <2>6, <2>7, <2>8, <2>10, TypesTogether
<1>6. CASE CreateJob
  <2>1. jobs' \in Seq(Rows) /\ Len(jobs) <= Len(jobs')
    BY <1>6, CreateJobFacts DEF TypeOK
  <2>2. task' \in TaskSet(JobIds)
    BY <1>6, TypesAre DEF CreateJob, TaskSet
  <2>3. UNCHANGED <<now, table, policies, loading, schedules, events, running, channel, api, alive, requests, disturbed, mistaken>>
    BY <1>6 DEF CreateJob, memoryVars, databaseVars, historyVars
  <2>4. /\ now' \in 0 .. MaxTime
        /\ table' \in [Schedules -> {"absent", "enabled", "disabled", "deleted"}]
        /\ policies' \subseteq Schedules
        /\ loading' \subseteq DocSet
        /\ schedules' \subseteq Schedules
        /\ events' \in Seq(Events)
        /\ running' \in [Schedules -> JobIds \cup {None}]
        /\ channel' \in Seq(MessageSet(JobIds)) /\ Len(channel') <= ChannelSize
        /\ api' \in ApiSet
        /\ alive' \in BOOLEAN
        /\ requests' \in 0 .. MaxRequests
        /\ disturbed' \subseteq Schedules
        /\ mistaken' \subseteq Schedules
    BY <2>3, TypesAre DEF TypeOK
  <2> QED BY <2>1, <2>2, <2>4, TypesTogether
<1>7. CASE CreateJobRaises
  <2>1. alive' \in BOOLEAN
    BY <1>7 DEF CreateJobRaises
  <2>2. UNCHANGED <<now, table, policies, jobs, loading, schedules, events, running, task, channel, api, requests, disturbed, mistaken>>
    BY <1>7 DEF CreateJobRaises, memoryVars, databaseVars, historyVars
  <2>3. /\ now' \in 0 .. MaxTime
        /\ table' \in [Schedules -> {"absent", "enabled", "disabled", "deleted"}]
        /\ policies' \subseteq Schedules
        /\ jobs' \in Seq(Rows) /\ Len(jobs) <= Len(jobs')
        /\ loading' \subseteq DocSet
        /\ schedules' \subseteq Schedules
        /\ events' \in Seq(Events)
        /\ running' \in [Schedules -> JobIds \cup {None}]
        /\ task' \in TaskSet(JobIds)
        /\ channel' \in Seq(MessageSet(JobIds)) /\ Len(channel') <= ChannelSize
        /\ api' \in ApiSet
        /\ requests' \in 0 .. MaxRequests
        /\ disturbed' \subseteq Schedules
        /\ mistaken' \subseteq Schedules
    BY <2>2, TypesAre DEF TypeOK
  <2> QED BY <2>1, <2>3, TypesTogether
<1>26. CASE JobCreatedRaises
  <2>1. alive' \in BOOLEAN
    BY <1>26 DEF JobCreatedRaises
  <2>2. UNCHANGED <<now, table, policies, jobs, loading, schedules, events, running, task, channel, api, requests, disturbed, mistaken>>
    BY <1>26 DEF JobCreatedRaises, memoryVars, databaseVars, historyVars
  <2>3. /\ now' \in 0 .. MaxTime
        /\ table' \in [Schedules -> {"absent", "enabled", "disabled", "deleted"}]
        /\ policies' \subseteq Schedules
        /\ jobs' \in Seq(Rows) /\ Len(jobs) <= Len(jobs')
        /\ loading' \subseteq DocSet
        /\ schedules' \subseteq Schedules
        /\ events' \in Seq(Events)
        /\ running' \in [Schedules -> JobIds \cup {None}]
        /\ task' \in TaskSet(JobIds)
        /\ channel' \in Seq(MessageSet(JobIds)) /\ Len(channel') <= ChannelSize
        /\ api' \in ApiSet
        /\ requests' \in 0 .. MaxRequests
        /\ disturbed' \subseteq Schedules
        /\ mistaken' \subseteq Schedules
    BY <2>2, TypesAre DEF TypeOK
  <2> QED BY <2>1, <2>3, TypesTogether
<1>8. CASE JobCreated
  <2>1. Len(jobs) \in JobIds /\ OneChanges(Len(jobs))
    BY <1>8, JobCreatedFacts
  <2>2. jobs' \in Seq(Rows) /\ Len(jobs) <= Len(jobs')
    BY <2>1 DEF OneChanges, TypeOK
  <2>3. running' \in [Schedules -> JobIds \cup {None}]
    BY <1>8, <2>1, TypesAre DEF JobCreated
  <2>4. task' \in TaskSet(JobIds)
    BY <1>8, TypesAre DEF JobCreated, TaskSet
  <2>5. UNCHANGED <<now, table, policies, loading, schedules, events, channel, api, alive, requests, disturbed, mistaken>>
    BY <1>8 DEF JobCreated, memoryVars, databaseVars, historyVars
  <2>6. /\ now' \in 0 .. MaxTime
        /\ table' \in [Schedules -> {"absent", "enabled", "disabled", "deleted"}]
        /\ policies' \subseteq Schedules
        /\ loading' \subseteq DocSet
        /\ schedules' \subseteq Schedules
        /\ events' \in Seq(Events)
        /\ channel' \in Seq(MessageSet(JobIds)) /\ Len(channel') <= ChannelSize
        /\ api' \in ApiSet
        /\ alive' \in BOOLEAN
        /\ requests' \in 0 .. MaxRequests
        /\ disturbed' \subseteq Schedules
        /\ mistaken' \subseteq Schedules
    BY <2>5, TypesAre DEF TypeOK
  <2> QED BY <2>2, <2>3, <2>4, <2>6, TypesTogether
<1>9. ASSUME NEW d \in loading, Load(d) PROVE TypeOK'
  <2>1. d.schedule \in Schedules /\ FirstDue(d.schedule, d.latest) \in Nat \cup {None}
    BY FirstDueFacts
  <2>2. events' \in Seq(Events) /\ task' \in TaskSet(JobIds)
    <3>1. CASE FirstDue(d.schedule, d.latest) = None
      BY <1>9, <3>1, TypesAre DEF Load, TypeOK
    <3>2. CASE FirstDue(d.schedule, d.latest) # None
      <4>1. AddEvent(d.schedule, FirstDue(d.schedule, d.latest))
        BY <1>9, <3>2 DEF Load
      <4>2. /\ events' \in Seq(Events)
            /\ task' = IF task.at = "sleeping" THEN Looking ELSE task
        BY <2>1, <3>2, <4>1, AddEventFacts
      <4> QED BY <4>2, TypesAre DEF TaskSet, Looking
    <3> QED BY <3>1, <3>2
  <2>3. loading' \subseteq DocSet
    BY <1>9, TypesAre DEF Load
  <2>4. schedules' \subseteq Schedules
    BY <1>9, <2>1 DEF Load, TypeOK
  <2>5. events' \in Seq(Events)
    BY <2>2
  <2>6. task' \in TaskSet(JobIds)
    BY <2>2
  <2>7. UNCHANGED <<now, table, policies, jobs, running, channel, api, alive, requests, disturbed, mistaken>>
    BY <1>9 DEF Load, AddEvent, memoryVars, databaseVars, historyVars
  <2>8. /\ now' \in 0 .. MaxTime
        /\ table' \in [Schedules -> {"absent", "enabled", "disabled", "deleted"}]
        /\ policies' \subseteq Schedules
        /\ jobs' \in Seq(Rows) /\ Len(jobs) <= Len(jobs')
        /\ running' \in [Schedules -> JobIds \cup {None}]
        /\ channel' \in Seq(MessageSet(JobIds)) /\ Len(channel') <= ChannelSize
        /\ api' \in ApiSet
        /\ alive' \in BOOLEAN
        /\ requests' \in 0 .. MaxRequests
        /\ disturbed' \subseteq Schedules
        /\ mistaken' \subseteq Schedules
    BY <2>7, TypesAre DEF TypeOK
  <2> QED BY <2>3, <2>4, <2>5, <2>6, <2>8, TypesTogether
<1>10. ASSUME NEW d \in loading, LoadRaises(d) PROVE TypeOK'
  <2>1. alive' \in BOOLEAN
    BY <1>10 DEF LoadRaises
  <2>2. UNCHANGED <<now, table, policies, jobs, loading, schedules, events, running, task, channel, api, requests, disturbed, mistaken>>
    BY <1>10 DEF LoadRaises, memoryVars, databaseVars, historyVars
  <2>3. /\ now' \in 0 .. MaxTime
        /\ table' \in [Schedules -> {"absent", "enabled", "disabled", "deleted"}]
        /\ policies' \subseteq Schedules
        /\ jobs' \in Seq(Rows) /\ Len(jobs) <= Len(jobs')
        /\ loading' \subseteq DocSet
        /\ schedules' \subseteq Schedules
        /\ events' \in Seq(Events)
        /\ running' \in [Schedules -> JobIds \cup {None}]
        /\ task' \in TaskSet(JobIds)
        /\ channel' \in Seq(MessageSet(JobIds)) /\ Len(channel') <= ChannelSize
        /\ api' \in ApiSet
        /\ requests' \in 0 .. MaxRequests
        /\ disturbed' \subseteq Schedules
        /\ mistaken' \subseteq Schedules
    BY <2>2, TypesAre DEF TypeOK
  <2> QED BY <2>1, <2>3, TypesTogether
<1>11. CASE Listen
  <2>1. PICK e \in MessageSet(JobIds) :
              /\ ListensTo(e)
              /\ e.schedule \in schedules => e.schedule \in Schedules /\ NextDue(e) \in Nat \cup {None}
    BY <1>11, ListenFacts
  <2>2. /\ channel' = Tail(channel) /\ channel # <<>>
        /\ channel \in Seq(MessageSet(JobIds)) /\ Len(channel) <= ChannelSize
    BY <2>1, TypesAre DEF ListensTo
  <2>3. /\ channel' \in Seq(MessageSet(JobIds)) /\ Len(channel') <= ChannelSize
    <3>1. PICK M : M = MessageSet(JobIds)
      OBVIOUS
    <3>2. channel' \in Seq(M) /\ Len(channel') <= ChannelSize
      BY <2>2, <3>1, SchedulerAssumption
    <3> QED BY <3>1, <3>2
  <2>4. running' \in [Schedules -> JobIds \cup {None}]
    <3>1. e.job \in JobIds
      BY DEF MessageSet
    <3> QED BY <2>1, <3>1, TypesAre DEF ListensTo
  <2>5. mistaken' \subseteq Schedules
    BY <2>1 DEF ListensTo, TypeOK
  <2>6. events' \in Seq(Events) /\ task' \in TaskSet(JobIds)
    <3>1. CASE events' = events /\ task' = task
      BY <3>1, TypesAre DEF TypeOK
    <3>2. CASE e.schedule \in schedules /\ NextDue(e) # None /\ AddEvent(e.schedule, NextDue(e))
      <4>1. /\ events' \in Seq(Events)
            /\ task' = IF task.at = "sleeping" THEN Looking ELSE task
        BY <2>1, <3>2, AddEventFacts
      <4> QED BY <4>1, TypesAre DEF TaskSet, Looking
    <3> QED BY <2>1, <3>1, <3>2 DEF ListensTo
  <2>7. events' \in Seq(Events)
    BY <2>6
  <2>8. running' \in [Schedules -> JobIds \cup {None}]
    BY <2>4
  <2>9. task' \in TaskSet(JobIds)
    BY <2>6
  <2>10. channel' \in Seq(MessageSet(JobIds)) /\ Len(channel') <= ChannelSize
    BY <2>3
  <2>11. mistaken' \subseteq Schedules
    BY <2>5
  <2>12. UNCHANGED <<now, table, policies, jobs, loading, schedules, api, alive, requests, disturbed>>
    BY <1>11 DEF Listen, memoryVars, databaseVars, historyVars
  <2>13. /\ now' \in 0 .. MaxTime
        /\ table' \in [Schedules -> {"absent", "enabled", "disabled", "deleted"}]
        /\ policies' \subseteq Schedules
        /\ jobs' \in Seq(Rows) /\ Len(jobs) <= Len(jobs')
        /\ loading' \subseteq DocSet
        /\ schedules' \subseteq Schedules
        /\ api' \in ApiSet
        /\ alive' \in BOOLEAN
        /\ requests' \in 0 .. MaxRequests
        /\ disturbed' \subseteq Schedules
    BY <2>12, TypesAre DEF TypeOK
  <2> QED BY <2>7, <2>8, <2>9, <2>10, <2>11, <2>13, TypesTogether
<1>12. CASE ScheduleSaved
  <2>1. schedules' \subseteq Schedules
    BY <1>12 DEF ScheduleSaved, RemoveSchedule, TypeOK
  <2>2. events' \in Seq(Events)
    <3>1. events' = Without(events, {e \in Events : e.schedule = api.schedule})
      BY <1>12 DEF ScheduleSaved, RemoveSchedule
    <3> QED BY <3>1, WithoutItems DEF TypeOK
  <2>3. api' \in ApiSet
    <3>1. [api EXCEPT !.at = "reading"] \in ApiSet /\ Idle \in ApiSet
      BY TypesAre DEF ApiSet, Idle
    <3> QED BY <1>12, <3>1 DEF ScheduleSaved, Step
  <2>4. UNCHANGED <<now, table, policies, jobs, loading, running, task, channel, alive, requests, disturbed, mistaken>>
    BY <1>12 DEF ScheduleSaved, RemoveSchedule, memoryVars, databaseVars, historyVars
  <2>5. /\ now' \in 0 .. MaxTime
        /\ table' \in [Schedules -> {"absent", "enabled", "disabled", "deleted"}]
        /\ policies' \subseteq Schedules
        /\ jobs' \in Seq(Rows) /\ Len(jobs) <= Len(jobs')
        /\ loading' \subseteq DocSet
        /\ running' \in [Schedules -> JobIds \cup {None}]
        /\ task' \in TaskSet(JobIds)
        /\ channel' \in Seq(MessageSet(JobIds)) /\ Len(channel') <= ChannelSize
        /\ alive' \in BOOLEAN
        /\ requests' \in 0 .. MaxRequests
        /\ disturbed' \subseteq Schedules
        /\ mistaken' \subseteq Schedules
    BY <2>4, TypesAre DEF TypeOK
  <2> QED BY <2>1, <2>2, <2>3, <2>5, TypesTogether
<1>13. CASE ScheduleDeleted
  <2>1. schedules' \subseteq Schedules
    BY <1>13 DEF ScheduleDeleted, RemoveSchedule, TypeOK
  <2>2. events' \in Seq(Events)
    <3>1. events' = Without(events, {e \in Events : e.schedule = api.schedule})
      BY <1>13 DEF ScheduleDeleted, RemoveSchedule
    <3> QED BY <3>1, WithoutItems DEF TypeOK
  <2>3. api' \in ApiSet
    BY <1>13 DEF ScheduleDeleted, Idle, ApiSet
  <2>4. UNCHANGED <<now, table, policies, jobs, loading, running, task, channel, alive, requests, disturbed, mistaken>>
    BY <1>13 DEF ScheduleDeleted, RemoveSchedule, memoryVars, databaseVars, historyVars
  <2>5. /\ now' \in 0 .. MaxTime
        /\ table' \in [Schedules -> {"absent", "enabled", "disabled", "deleted"}]
        /\ policies' \subseteq Schedules
        /\ jobs' \in Seq(Rows) /\ Len(jobs) <= Len(jobs')
        /\ loading' \subseteq DocSet
        /\ running' \in [Schedules -> JobIds \cup {None}]
        /\ task' \in TaskSet(JobIds)
        /\ channel' \in Seq(MessageSet(JobIds)) /\ Len(channel') <= ChannelSize
        /\ alive' \in BOOLEAN
        /\ requests' \in 0 .. MaxRequests
        /\ disturbed' \subseteq Schedules
        /\ mistaken' \subseteq Schedules
    BY <2>4, TypesAre DEF TypeOK
  <2> QED BY <2>1, <2>2, <2>3, <2>5, TypesTogether
<1>14. CASE ReadSchedule
  <2>1. api' \in ApiSet
    <3>1. PICK n \in Nat : n = Len(jobs)
      BY DEF TypeOK
    <3>2. JobsOf(api.schedule) \subseteq 1 .. n
      BY <3>1 DEF JobsOf, JobIds
    <3>3. IsFiniteSet(JobsOf(api.schedule))
      <4>1. IsFiniteSet(1 .. n)
        BY FS_Interval
      <4> QED BY <3>2, <4>1, FS_Subset
    <3>4. Cardinality(JobsOf(api.schedule)) \in Nat
      BY <3>3, FS_CardinalityType
    <3> QED BY <1>14, <3>4, TypesAre DEF ReadSchedule, ApiSet
  <2>2. UNCHANGED <<now, table, policies, jobs, loading, schedules, events, running, task, channel, alive, requests, disturbed, mistaken>>
    BY <1>14 DEF ReadSchedule, memoryVars, databaseVars, historyVars
  <2>3. /\ now' \in 0 .. MaxTime
        /\ table' \in [Schedules -> {"absent", "enabled", "disabled", "deleted"}]
        /\ policies' \subseteq Schedules
        /\ jobs' \in Seq(Rows) /\ Len(jobs) <= Len(jobs')
        /\ loading' \subseteq DocSet
        /\ schedules' \subseteq Schedules
        /\ events' \in Seq(Events)
        /\ running' \in [Schedules -> JobIds \cup {None}]
        /\ task' \in TaskSet(JobIds)
        /\ channel' \in Seq(MessageSet(JobIds)) /\ Len(channel') <= ChannelSize
        /\ alive' \in BOOLEAN
        /\ requests' \in 0 .. MaxRequests
        /\ disturbed' \subseteq Schedules
        /\ mistaken' \subseteq Schedules
    BY <2>2, TypesAre DEF TypeOK
  <2> QED BY <2>1, <2>3, TypesTogether
<1>15. CASE AddSchedule
  <2>1. api.schedule \in Schedules
    BY <1>15 DEF AddSchedule, ApiFits
  <2>2. now + First \in Nat
    BY SchedulerAssumption DEF TypeOK
  <2>3. events' \in Seq(Events) /\ task' \in TaskSet(JobIds)
    <3>1. CASE events' = events /\ task' = task
      BY <3>1, TypesAre DEF TypeOK
    <3>2. CASE AddEvent(api.schedule, now + First)
      <4>1. /\ events' \in Seq(Events)
            /\ task' = IF task.at = "sleeping" THEN Looking ELSE task
        BY <2>1, <2>2, <3>2, AddEventFacts
      <4> QED BY <4>1, TypesAre DEF TaskSet, Looking
    <3> QED BY <1>15, <3>1, <3>2 DEF AddSchedule
  <2>4. schedules' \subseteq Schedules
    BY <1>15, <2>1 DEF AddSchedule, TypeOK
  <2>5. events' \in Seq(Events)
    BY <2>3
  <2>6. task' \in TaskSet(JobIds)
    BY <2>3
  <2>7. api' \in ApiSet
    BY <1>15 DEF AddSchedule, Idle, ApiSet
  <2>8. disturbed' \subseteq Schedules
    BY <1>15, <2>1 DEF AddSchedule, Disturb, TypeOK
  <2>9. UNCHANGED <<now, table, policies, jobs, loading, running, channel, alive, requests, mistaken>>
    BY <1>15 DEF AddSchedule, Disturb, memoryVars, databaseVars, historyVars
  <2>10. /\ now' \in 0 .. MaxTime
        /\ table' \in [Schedules -> {"absent", "enabled", "disabled", "deleted"}]
        /\ policies' \subseteq Schedules
        /\ jobs' \in Seq(Rows) /\ Len(jobs) <= Len(jobs')
        /\ loading' \subseteq DocSet
        /\ running' \in [Schedules -> JobIds \cup {None}]
        /\ channel' \in Seq(MessageSet(JobIds)) /\ Len(channel') <= ChannelSize
        /\ alive' \in BOOLEAN
        /\ requests' \in 0 .. MaxRequests
        /\ mistaken' \subseteq Schedules
    BY <2>9, TypesAre DEF TypeOK
  <2> QED BY <2>4, <2>5, <2>6, <2>7, <2>8, <2>10, TypesTogether
<1>16. ASSUME NEW s \in Schedules, NEW enabled \in BOOLEAN, SaveSchedule(s, enabled) PROVE TypeOK'
  <2>1. table' \in [Schedules -> {"absent", "enabled", "disabled", "deleted"}]
    BY <1>16 DEF SaveSchedule, TypeOK
  <2>2. api' \in ApiSet
    BY <1>16 DEF SaveSchedule, ApiSet
  <2>3. requests' \in 0 .. MaxRequests
    BY <1>16, SchedulerAssumption DEF SaveSchedule, Request, TypeOK
  <2>4. UNCHANGED <<now, policies, jobs, loading, schedules, events, running, task, channel, alive, disturbed, mistaken>>
    BY <1>16 DEF SaveSchedule, memoryVars, databaseVars, historyVars
  <2>5. /\ now' \in 0 .. MaxTime
        /\ policies' \subseteq Schedules
        /\ jobs' \in Seq(Rows) /\ Len(jobs) <= Len(jobs')
        /\ loading' \subseteq DocSet
        /\ schedules' \subseteq Schedules
        /\ events' \in Seq(Events)
        /\ running' \in [Schedules -> JobIds \cup {None}]
        /\ task' \in TaskSet(JobIds)
        /\ channel' \in Seq(MessageSet(JobIds)) /\ Len(channel') <= ChannelSize
        /\ alive' \in BOOLEAN
        /\ disturbed' \subseteq Schedules
        /\ mistaken' \subseteq Schedules
    BY <2>4, TypesAre DEF TypeOK
  <2> QED BY <2>1, <2>2, <2>3, <2>5, TypesTogether
<1>17. ASSUME NEW s \in Schedules, DeleteSchedule(s) PROVE TypeOK'
  <2>1. table' \in [Schedules -> {"absent", "enabled", "disabled", "deleted"}]
    BY <1>17 DEF DeleteSchedule, TypeOK
  <2>2. api' \in ApiSet
    BY <1>17 DEF DeleteSchedule, Idle, ApiSet
  <2>3. requests' \in 0 .. MaxRequests
    BY <1>17, SchedulerAssumption DEF DeleteSchedule, Request, TypeOK
  <2>4. UNCHANGED <<now, policies, jobs, loading, schedules, events, running, task, channel, alive, disturbed, mistaken>>
    BY <1>17 DEF DeleteSchedule, memoryVars, databaseVars, historyVars
  <2>5. /\ now' \in 0 .. MaxTime
        /\ policies' \subseteq Schedules
        /\ jobs' \in Seq(Rows) /\ Len(jobs) <= Len(jobs')
        /\ loading' \subseteq DocSet
        /\ schedules' \subseteq Schedules
        /\ events' \in Seq(Events)
        /\ running' \in [Schedules -> JobIds \cup {None}]
        /\ task' \in TaskSet(JobIds)
        /\ channel' \in Seq(MessageSet(JobIds)) /\ Len(channel') <= ChannelSize
        /\ alive' \in BOOLEAN
        /\ disturbed' \subseteq Schedules
        /\ mistaken' \subseteq Schedules
    BY <2>4, TypesAre DEF TypeOK
  <2> QED BY <2>1, <2>2, <2>3, <2>5, TypesTogether
<1>18. ASSUME NEW s \in Schedules, DeletePolicy(s) PROVE TypeOK'
  <2>1. policies' \subseteq Schedules
    BY <1>18 DEF DeletePolicy, TypeOK
  <2>2. requests' \in 0 .. MaxRequests
    BY <1>18, SchedulerAssumption DEF DeletePolicy, Request, TypeOK
  <2>3. UNCHANGED <<now, table, jobs, loading, schedules, events, running, task, channel, api, alive, disturbed, mistaken>>
    BY <1>18 DEF DeletePolicy, memoryVars, databaseVars, historyVars
  <2>4. /\ now' \in 0 .. MaxTime
        /\ table' \in [Schedules -> {"absent", "enabled", "disabled", "deleted"}]
        /\ jobs' \in Seq(Rows) /\ Len(jobs) <= Len(jobs')
        /\ loading' \subseteq DocSet
        /\ schedules' \subseteq Schedules
        /\ events' \in Seq(Events)
        /\ running' \in [Schedules -> JobIds \cup {None}]
        /\ task' \in TaskSet(JobIds)
        /\ channel' \in Seq(MessageSet(JobIds)) /\ Len(channel') <= ChannelSize
        /\ api' \in ApiSet
        /\ alive' \in BOOLEAN
        /\ disturbed' \subseteq Schedules
        /\ mistaken' \subseteq Schedules
    BY <2>3, TypesAre DEF TypeOK
  <2> QED BY <2>1, <2>2, <2>4, TypesTogether
<1>19. ASSUME NEW j \in JobIds, JobRuns(j) PROVE TypeOK'
  <2>1. OneChanges(j) /\ Send(jobs[j].schedule, j, "running", {})
    BY <1>19, JobRunsFacts
  <2>2. /\ "running" \in States /\ {} \in SUBSET Schedules
        /\ jobs[j].schedule \in Schedules \cup {None}
    BY RowsAre DEF States
  <2>3. /\ disturbed' \subseteq Schedules /\ Len(channel') <= ChannelSize
        /\ channel' \in Seq(MessageSet(JobIds))
    BY <2>1, <2>2, SendFacts DEF MessageSet
  <2>4. jobs' \in Seq(Rows) /\ Len(jobs) <= Len(jobs')
    BY <2>1 DEF OneChanges, TypeOK
  <2>5. channel' \in Seq(MessageSet(JobIds)) /\ Len(channel') <= ChannelSize
    BY <2>3
  <2>6. disturbed' \subseteq Schedules
    BY <2>3
  <2>7. UNCHANGED <<now, table, policies, loading, schedules, events, running, task, api, alive, requests, mistaken>>
    BY <1>19 DEF JobRuns, memoryVars, databaseVars, historyVars
  <2>8. /\ now' \in 0 .. MaxTime
        /\ table' \in [Schedules -> {"absent", "enabled", "disabled", "deleted"}]
        /\ policies' \subseteq Schedules
        /\ loading' \subseteq DocSet
        /\ schedules' \subseteq Schedules
        /\ events' \in Seq(Events)
        /\ running' \in [Schedules -> JobIds \cup {None}]
        /\ task' \in TaskSet(JobIds)
        /\ api' \in ApiSet
        /\ alive' \in BOOLEAN
        /\ requests' \in 0 .. MaxRequests
        /\ mistaken' \subseteq Schedules
    BY <2>7, TypesAre DEF TypeOK
  <2> QED BY <2>4, <2>5, <2>6, <2>8, TypesTogether
<1>20. ASSUME NEW j \in JobIds, JobEnds(j) PROVE TypeOK'
  <2>1. OneChanges(j) /\ Send(jobs[j].schedule, j, "completed", {})
    BY <1>20, JobEndsFacts
  <2>2. /\ "completed" \in States /\ {} \in SUBSET Schedules
        /\ jobs[j].schedule \in Schedules \cup {None}
    BY RowsAre DEF States
  <2>3. /\ disturbed' \subseteq Schedules /\ Len(channel') <= ChannelSize
        /\ channel' \in Seq(MessageSet(JobIds))
    BY <2>1, <2>2, SendFacts DEF MessageSet
  <2>4. jobs' \in Seq(Rows) /\ Len(jobs) <= Len(jobs')
    BY <2>1 DEF OneChanges, TypeOK
  <2>5. channel' \in Seq(MessageSet(JobIds)) /\ Len(channel') <= ChannelSize
    BY <2>3
  <2>6. disturbed' \subseteq Schedules
    BY <2>3
  <2>7. UNCHANGED <<now, table, policies, loading, schedules, events, running, task, api, alive, requests, mistaken>>
    BY <1>20 DEF JobEnds, memoryVars, databaseVars, historyVars
  <2>8. /\ now' \in 0 .. MaxTime
        /\ table' \in [Schedules -> {"absent", "enabled", "disabled", "deleted"}]
        /\ policies' \subseteq Schedules
        /\ loading' \subseteq DocSet
        /\ schedules' \subseteq Schedules
        /\ events' \in Seq(Events)
        /\ running' \in [Schedules -> JobIds \cup {None}]
        /\ task' \in TaskSet(JobIds)
        /\ api' \in ApiSet
        /\ alive' \in BOOLEAN
        /\ requests' \in 0 .. MaxRequests
        /\ mistaken' \subseteq Schedules
    BY <2>7, TypesAre DEF TypeOK
  <2> QED BY <2>4, <2>5, <2>6, <2>8, TypesTogether
<1>21. ASSUME NEW j \in JobIds, UserPauses(j) PROVE TypeOK'
  <2>1. OneChanges(j) /\ Send(jobs[j].schedule, j, "paused", {jobs[j].schedule} \cap {s \in Schedules : Regular(s)})
    BY <1>21, UserPausesFacts
  <2>2. /\ "paused" \in States /\ {jobs[j].schedule} \cap {s \in Schedules : Regular(s)} \in SUBSET Schedules
        /\ jobs[j].schedule \in Schedules \cup {None}
    BY RowsAre DEF States
  <2>3. /\ disturbed' \subseteq Schedules /\ Len(channel') <= ChannelSize
        /\ channel' \in Seq(MessageSet(JobIds))
    BY <2>1, <2>2, SendFacts DEF MessageSet
  <2>4. jobs' \in Seq(Rows) /\ Len(jobs) <= Len(jobs')
    BY <2>1 DEF OneChanges, TypeOK
  <2>5. channel' \in Seq(MessageSet(JobIds)) /\ Len(channel') <= ChannelSize
    BY <2>3
  <2>6. requests' \in 0 .. MaxRequests
    BY <1>21, SchedulerAssumption DEF UserPauses, Request, TypeOK
  <2>7. disturbed' \subseteq Schedules
    BY <2>3
  <2>8. UNCHANGED <<now, table, policies, loading, schedules, events, running, task, api, alive, mistaken>>
    BY <1>21 DEF UserPauses, memoryVars, databaseVars, historyVars
  <2>9. /\ now' \in 0 .. MaxTime
        /\ table' \in [Schedules -> {"absent", "enabled", "disabled", "deleted"}]
        /\ policies' \subseteq Schedules
        /\ loading' \subseteq DocSet
        /\ schedules' \subseteq Schedules
        /\ events' \in Seq(Events)
        /\ running' \in [Schedules -> JobIds \cup {None}]
        /\ task' \in TaskSet(JobIds)
        /\ api' \in ApiSet
        /\ alive' \in BOOLEAN
        /\ mistaken' \subseteq Schedules
    BY <2>8, TypesAre DEF TypeOK
  <2> QED BY <2>4, <2>5, <2>6, <2>7, <2>9, TypesTogether
<1>22. ASSUME NEW j \in JobIds, UserCancels(j) PROVE TypeOK'
  <2>1. OneChanges(j) /\ Send(None, j, "cancelled", {jobs[j].schedule} \cap {s \in Schedules : ~Regular(s)})
    BY <1>22, CancelFacts DEF UserCancels
  <2>2. /\ "cancelled" \in States /\ {jobs[j].schedule} \cap {s \in Schedules : ~Regular(s)} \in SUBSET Schedules
        /\ None \in Schedules \cup {None}
    BY RowsAre DEF States
  <2>3. /\ disturbed' \subseteq Schedules /\ Len(channel') <= ChannelSize
        /\ channel' \in Seq(MessageSet(JobIds))
    BY <2>1, <2>2, SendFacts DEF MessageSet
  <2>4. jobs' \in Seq(Rows) /\ Len(jobs) <= Len(jobs')
    BY <2>1 DEF OneChanges, TypeOK
  <2>5. channel' \in Seq(MessageSet(JobIds)) /\ Len(channel') <= ChannelSize
    BY <2>3
  <2>6. requests' \in 0 .. MaxRequests
    BY <1>22, SchedulerAssumption DEF UserCancels, Request, TypeOK
  <2>7. disturbed' \subseteq Schedules
    BY <2>3
  <2>8. UNCHANGED <<now, table, policies, loading, schedules, events, running, task, api, alive, mistaken>>
    BY <1>22 DEF UserCancels, Cancel, memoryVars, databaseVars, historyVars
  <2>9. /\ now' \in 0 .. MaxTime
        /\ table' \in [Schedules -> {"absent", "enabled", "disabled", "deleted"}]
        /\ policies' \subseteq Schedules
        /\ loading' \subseteq DocSet
        /\ schedules' \subseteq Schedules
        /\ events' \in Seq(Events)
        /\ running' \in [Schedules -> JobIds \cup {None}]
        /\ task' \in TaskSet(JobIds)
        /\ api' \in ApiSet
        /\ alive' \in BOOLEAN
        /\ mistaken' \subseteq Schedules
    BY <2>8, TypesAre DEF TypeOK
  <2> QED BY <2>4, <2>5, <2>6, <2>7, <2>9, TypesTogether
<1>23. ASSUME NEW j \in JobIds, UserResumes(j) PROVE TypeOK'
  <2>1. jobs' \in Seq(Rows) /\ Len(jobs) <= Len(jobs')
    <3>1. OneChanges(j)
      BY <1>23, UserResumesFacts
    <3> QED BY <3>1 DEF OneChanges, TypeOK
  <2>2. requests' \in 0 .. MaxRequests
    BY <1>23, SchedulerAssumption DEF UserResumes, Request, TypeOK
  <2>3. disturbed' \subseteq Schedules
    BY <1>23 DEF UserResumes, Disturb, TypeOK
  <2>4. UNCHANGED <<now, table, policies, loading, schedules, events, running, task, channel, api, alive, mistaken>>
    BY <1>23 DEF UserResumes, Disturb, memoryVars, databaseVars, historyVars
  <2>5. /\ now' \in 0 .. MaxTime
        /\ table' \in [Schedules -> {"absent", "enabled", "disabled", "deleted"}]
        /\ policies' \subseteq Schedules
        /\ loading' \subseteq DocSet
        /\ schedules' \subseteq Schedules
        /\ events' \in Seq(Events)
        /\ running' \in [Schedules -> JobIds \cup {None}]
        /\ task' \in TaskSet(JobIds)
        /\ channel' \in Seq(MessageSet(JobIds)) /\ Len(channel') <= ChannelSize
        /\ api' \in ApiSet
        /\ alive' \in BOOLEAN
        /\ mistaken' \subseteq Schedules
    BY <2>4, TypesAre DEF TypeOK
  <2> QED BY <2>1, <2>2, <2>3, <2>5, TypesTogether
<1>24. CASE Tick
  <2>1. now' \in 0 .. MaxTime
    BY <1>24, SchedulerAssumption DEF Tick, TypeOK
  <2>2. UNCHANGED <<table, policies, jobs, loading, schedules, events, running, task, channel, api, alive, requests, disturbed, mistaken>>
    BY <1>24 DEF Tick, memoryVars, databaseVars, historyVars
  <2>3. /\ table' \in [Schedules -> {"absent", "enabled", "disabled", "deleted"}]
        /\ policies' \subseteq Schedules
        /\ jobs' \in Seq(Rows) /\ Len(jobs) <= Len(jobs')
        /\ loading' \subseteq DocSet
        /\ schedules' \subseteq Schedules
        /\ events' \in Seq(Events)
        /\ running' \in [Schedules -> JobIds \cup {None}]
        /\ task' \in TaskSet(JobIds)
        /\ channel' \in Seq(MessageSet(JobIds)) /\ Len(channel') <= ChannelSize
        /\ api' \in ApiSet
        /\ alive' \in BOOLEAN
        /\ requests' \in 0 .. MaxRequests
        /\ disturbed' \subseteq Schedules
        /\ mistaken' \subseteq Schedules
    BY <2>2, TypesAre DEF TypeOK
  <2> QED BY <2>1, <2>3, TypesTogether
<1>25. CASE Restart
  <2>1. jobs' \in Seq(Rows) /\ Len(jobs) <= Len(jobs')
    BY <1>25, RestartFacts DEF TypeOK
  <2>2. loading' \subseteq DocSet
    <3>1. \A s \in Schedules : Latest(s) \in Rows \cup {None}
      BY LatestIs, RowsAre DEF JobsOf
    <3>2. Documents \subseteq DocSet
      BY <3>1 DEF Documents, DocSet
    <3> QED BY <1>25, <3>2 DEF Restart
  <2>3. schedules' \subseteq Schedules
    BY <1>25 DEF Restart
  <2>4. events' \in Seq(Events)
    <3>1. events' = <<>>
      BY <1>25 DEF Restart
    <3> QED BY <3>1
  <2>5. running' \in [Schedules -> JobIds \cup {None}]
    BY <1>25 DEF Restart
  <2>6. task' \in TaskSet(JobIds)
    BY <1>25 DEF Restart, Looking, TaskSet
  <2>7. channel' \in Seq(MessageSet(JobIds)) /\ Len(channel') <= ChannelSize
    <3>1. channel' = <<>>
      BY <1>25 DEF Restart
    <3> QED BY <3>1, SchedulerAssumption
  <2>8. api' \in ApiSet
    BY <1>25 DEF Restart, Idle, ApiSet
  <2>9. alive' \in BOOLEAN
    BY <1>25 DEF Restart
  <2>10. disturbed' \subseteq Schedules
    BY <1>25 DEF Restart, Disturb, TypeOK
  <2>11. UNCHANGED <<now, table, policies, requests, mistaken>>
    BY <1>25 DEF Restart, memoryVars, databaseVars, historyVars
  <2>12. /\ now' \in 0 .. MaxTime
        /\ table' \in [Schedules -> {"absent", "enabled", "disabled", "deleted"}]
        /\ policies' \subseteq Schedules
        /\ requests' \in 0 .. MaxRequests
        /\ mistaken' \subseteq Schedules
    BY <2>11, TypesAre DEF TypeOK
  <2> QED BY <2>1, <2>2, <2>3, <2>4, <2>5, <2>6, <2>7, <2>8, <2>9, <2>10, <2>12, TypesTogether
<1> QED
  BY <1>1, <1>2, <1>3, <1>4, <1>5, <1>6, <1>7, <1>8, <1>9, <1>10, <1>11, <1>12, <1>13, <1>14, <1>15, <1>16, <1>17, <1>18, <1>19, <1>20, <1>21, <1>22, <1>23, <1>24, <1>25, <1>26
     DEF Next, ScheduleTask, Loading, Handler, User

-----------------------------------------------------------------------------
(* The steps in groups *)

(* No job, event, message or schedule changes.                             *)
Quiet ==
  /\ UNCHANGED <<jobs, loading, schedules, events, running, channel, disturbed, mistaken>>
  /\ now' = now \/ now' = now + 1
  /\ \/ task' = task
     \/ /\ loading = {} /\ task.at \in {"looking", "sleeping", "counting"}
        /\ task'.at \in {"looking", "sleeping"} /\ task'.event = None

(* A job runs, ends, or is told to pause, to go on or to end.              *)
JobAction(j) ==
  JobRuns(j) \/ JobEnds(j) \/ UserPauses(j) \/ UserResumes(j) \/ UserCancels(j)

(* A schedule is taken out of the list.                                    *)
Removal(c) ==
  /\ RemoveSchedule(c)
  /\ UNCHANGED <<now, jobs, loading, running, task, channel, disturbed, mistaken>>

LEMMA QuietFacts ==
  ASSUME \/ Sleep \/ Wake \/ JobCounted \/ CreateJobRaises \/ JobCreatedRaises
         \/ ReadSchedule \/ Tick
         \/ vars' = vars
         \/ \E d \in loading : LoadRaises(d)
         \/ \E s \in Schedules : \/ \E enabled \in BOOLEAN : SaveSchedule(s, enabled)
                                 \/ DeleteSchedule(s) \/ DeletePolicy(s)
  PROVE  Quiet
<1>1. CASE Sleep
  BY <1>1 DEF Quiet, Sleep, At, Looking, memoryVars, databaseVars, historyVars
<1>2. CASE Wake
  BY <1>2 DEF Quiet, Wake, At, Looking, memoryVars, databaseVars, historyVars
<1>3. CASE JobCounted
  BY <1>3 DEF Quiet, JobCounted, At, Looking, memoryVars, databaseVars, historyVars
<1>4. CASE CreateJobRaises
  BY <1>4 DEF Quiet, CreateJobRaises, memoryVars, databaseVars, historyVars
<1>5. CASE ReadSchedule
  BY <1>5 DEF Quiet, ReadSchedule, memoryVars, databaseVars, historyVars
<1>6. CASE Tick
  BY <1>6 DEF Quiet, Tick, memoryVars, databaseVars, historyVars
<1>7. CASE vars' = vars
  BY <1>7 DEF Quiet, vars, memoryVars, databaseVars, historyVars
<1>8. ASSUME NEW d \in loading, LoadRaises(d) PROVE Quiet
  BY <1>8 DEF Quiet, LoadRaises, memoryVars, databaseVars, historyVars
<1>9. ASSUME NEW s \in Schedules, NEW enabled \in BOOLEAN, SaveSchedule(s, enabled) PROVE Quiet
  BY <1>9 DEF Quiet, SaveSchedule, memoryVars, historyVars
<1>10. ASSUME NEW s \in Schedules, DeleteSchedule(s) PROVE Quiet
  BY <1>10 DEF Quiet, DeleteSchedule, memoryVars, historyVars
<1>11. ASSUME NEW s \in Schedules, DeletePolicy(s) PROVE Quiet
  BY <1>11 DEF Quiet, DeletePolicy, memoryVars, historyVars
<1>12. CASE JobCreatedRaises
  BY <1>12 DEF Quiet, JobCreatedRaises, databaseVars, memoryVars, historyVars
<1> QED BY <1>1, <1>2, <1>3, <1>4, <1>5, <1>6, <1>7, <1>8, <1>9, <1>10, <1>11, <1>12

LEMMA NextCases ==
  ASSUME [Next]_vars
  PROVE  \/ Quiet
         \/ \E j \in JobIds : JobAction(j)
         \/ PopDue \/ CancelOld \/ CreateJob \/ JobCreated \/ Listen
         \/ \E d \in loading : Load(d)
         \/ AddSchedule \/ Removal(api.schedule) \/ Restart
<1>1. CASE vars' = vars
  BY <1>1, QuietFacts
<1>2. CASE ScheduleTask
  BY <1>2, QuietFacts DEF ScheduleTask
<1>3. CASE Loading
  BY <1>3, QuietFacts DEF Loading
<1>4. CASE Handler
  BY <1>4, QuietFacts
     DEF Handler, Removal, ScheduleSaved, ScheduleDeleted, databaseVars, historyVars
<1>5. CASE User
  BY <1>5, QuietFacts DEF User, JobAction
<1>6. CASE \E j \in JobIds : JobRuns(j) \/ JobEnds(j)
  BY <1>6 DEF JobAction
<1>7. CASE Tick
  BY <1>7, QuietFacts
<1> QED BY <1>1, <1>2, <1>3, <1>4, <1>5, <1>6, <1>7 DEF Next

(* A job that finishes tells when; what it sends is of its own schedule.   *)
LEMMA JobActionFacts ==
  ASSUME TypeOK, NEW j \in JobIds, JobAction(j)
  PROVE  /\ OneChanges(j)
         /\ UNCHANGED <<now, loading, schedules, events, running, task, mistaken, api>>
         /\ \/ jobs'[j].state \notin FinishedStates /\ jobs'[j].completed = jobs[j].completed
            \/ jobs'[j].completed = now
         /\ jobs[j].task = "idle" /\ jobs[j].state \in {"pending", "cancelled"} =>
              jobs'[j].task = "idle" /\ jobs'[j].state \in {"pending", "cancelled"}
         /\ disturbed \subseteq disturbed'
         /\ \/ channel' = channel
            \/ \E s \in {None, jobs[j].schedule} : \E state \in States :
                 channel' = Append(channel, [schedule |-> s, job |-> j, state |-> state,
                                             time |-> now])
<1>1. jobs[j].schedule \in Schedules \cup {None} /\ None \in Schedules \cup {None}
  BY RowsAre
<1>2. {"running", "completed", "paused", "cancelled"} \subseteq States
  BY DEF States
<1>3. CASE JobRuns(j)
  <2>1. UNCHANGED <<now, loading, schedules, events, running, task, mistaken, api>>
    BY <1>3 DEF JobRuns, memoryVars
  <2>2. /\ OneChanges(j) /\ jobs'[j].state = "running" /\ jobs[j].task = "ready"
        /\ jobs'[j].completed = jobs[j].completed /\ Send(jobs[j].schedule, j, "running", {})
    BY <1>3, JobRunsFacts
  <2>3. /\ disturbed \subseteq disturbed'
        /\ \/ channel' = channel
           \/ channel' = Append(channel, [schedule |-> jobs[j].schedule, job |-> j,
                                          state |-> "running", time |-> now])
    BY <1>1, <1>2, <2>2, SendFacts
  <2> QED BY <1>2, <2>1, <2>2, <2>3 DEF FinishedStates
<1>4. CASE JobEnds(j)
  <2>1. UNCHANGED <<now, loading, schedules, events, running, task, mistaken, api>>
    BY <1>4 DEF JobEnds, memoryVars
  <2>2. /\ OneChanges(j) /\ jobs[j].task = "running"
        /\ jobs'[j].completed = now /\ Send(jobs[j].schedule, j, "completed", {})
    BY <1>4, JobEndsFacts
  <2>3. /\ disturbed \subseteq disturbed'
        /\ \/ channel' = channel
           \/ channel' = Append(channel, [schedule |-> jobs[j].schedule, job |-> j,
                                          state |-> "completed", time |-> now])
    BY <1>1, <1>2, <2>2, SendFacts
  <2> QED BY <1>2, <2>1, <2>2, <2>3
<1>5. CASE UserPauses(j)
  <2>1. UNCHANGED <<now, loading, schedules, events, running, task, mistaken, api>>
    BY <1>5 DEF UserPauses, memoryVars
  <2> DEFINE upset == {jobs[j].schedule} \cap {s \in Schedules : Regular(s)}
  <2>2. /\ OneChanges(j) /\ jobs'[j].state = "paused" /\ jobs[j].task = "running"
        /\ jobs'[j].completed = jobs[j].completed /\ Send(jobs[j].schedule, j, "paused", upset)
    BY <1>5, UserPausesFacts
  <2>3. upset \in SUBSET Schedules
    OBVIOUS
  <2> HIDE DEF upset
  <2>4. /\ disturbed \subseteq disturbed'
        /\ \/ channel' = channel
           \/ channel' = Append(channel, [schedule |-> jobs[j].schedule, job |-> j,
                                          state |-> "paused", time |-> now])
    BY <1>1, <1>2, <2>2, <2>3, SendFacts
  <2> QED BY <1>2, <2>1, <2>2, <2>4 DEF FinishedStates
<1>6. CASE UserResumes(j)
  <2>1. UNCHANGED <<now, loading, schedules, events, running, task, mistaken, api, channel>>
    BY <1>6 DEF UserResumes, memoryVars
  <2>2. /\ OneChanges(j) /\ jobs'[j].state = "running" /\ jobs[j].state = "paused"
        /\ jobs'[j].completed = jobs[j].completed
    BY <1>6, UserResumesFacts
  <2>3. disturbed \subseteq disturbed'
    BY <1>6 DEF UserResumes, Disturb
  <2> QED BY <2>1, <2>2, <2>3 DEF FinishedStates
<1>7. CASE UserCancels(j)
  <2>1. UNCHANGED <<now, loading, schedules, events, running, task, mistaken, api>>
    BY <1>7 DEF UserCancels, memoryVars
  <2> DEFINE upset == {jobs[j].schedule} \cap {s \in Schedules : ~Regular(s)}
  <2>2. /\ OneChanges(j) /\ jobs'[j].state = "cancelled" /\ jobs'[j].task = jobs[j].task
        /\ jobs'[j].completed = now /\ Send(None, j, "cancelled", upset)
    BY <1>7, CancelFacts DEF UserCancels
  <2>3. upset \in SUBSET Schedules
    OBVIOUS
  <2> HIDE DEF upset
  <2>4. /\ disturbed \subseteq disturbed'
        /\ \/ channel' = channel
           \/ channel' = Append(channel, [schedule |-> None, job |-> j,
                                          state |-> "cancelled", time |-> now])
    BY <1>1, <1>2, <2>2, <2>3, SendFacts
  <2> QED BY <1>2, <2>1, <2>2, <2>4
<1> QED BY <1>3, <1>4, <1>5, <1>6, <1>7 DEF JobAction

(* The old job is cancelled before the next one is created.                *)
LEMMA CancelOldFacts ==
  ASSUME TypeOK, TaskFits, CancelOld
  PROVE  /\ task.old \in JobIds /\ OneChanges(task.old)
         /\ jobs'[task.old].state = "cancelled" /\ jobs'[task.old].completed = now
         /\ jobs'[task.old].task = jobs[task.old].task
         /\ UNCHANGED <<now, loading, schedules, events, running, mistaken, api>>
         /\ loading = {} /\ task.at = "cancelling"
         /\ task' = [task EXCEPT !.at = "creating", !.started = now]
         /\ disturbed \subseteq disturbed'
         /\ \/ channel' = channel
            \/ channel' = Append(channel, [schedule |-> None, job |-> task.old,
                                           state |-> "cancelled", time |-> now])
<1>1. loading = {} /\ task.at = "cancelling" /\ Cancel(task.old, {})
  BY DEF CancelOld, At
<1>2. task.old \in JobIds
  BY <1>1, TypesAre DEF TaskFits, TaskSet
<1>3. /\ OneChanges(task.old) /\ jobs'[task.old].state = "cancelled"
      /\ jobs'[task.old].completed = now /\ jobs'[task.old].task = jobs[task.old].task
      /\ Send(None, task.old, "cancelled", {})
  BY <1>1, <1>2, CancelFacts
<1>4. "cancelled" \in States /\ {} \in SUBSET Schedules /\ None \in Schedules \cup {None}
  BY DEF States
<1>5. /\ disturbed \subseteq disturbed'
      /\ \/ channel' = channel
         \/ channel' = Append(channel, [schedule |-> None, job |-> task.old,
                                        state |-> "cancelled", time |-> now])
  BY <1>2, <1>3, <1>4, SendFacts
<1>6. /\ UNCHANGED <<now, loading, schedules, events, running, mistaken, api>>
      /\ task' = [task EXCEPT !.at = "creating", !.started = now]
  BY DEF CancelOld, memoryVars
<1> QED BY <1>1, <1>2, <1>3, <1>5, <1>6

LEMMA LoadFacts ==
  ASSUME TypeOK, DocsFit, NEW d \in loading, Load(d)
  PROVE  /\ d.schedule \in Schedules /\ d.schedule \notin schedules
         /\ loading' = loading \ {d} /\ schedules' = schedules \cup {d.schedule}
         /\ UNCHANGED <<now, jobs, running, channel, api, disturbed, mistaken>>
         /\ \/ FirstDue(d.schedule, d.latest) = None /\ events' = events /\ task' = task
            \/ /\ FirstDue(d.schedule, d.latest) \in Nat
               /\ AddEvent(d.schedule, FirstDue(d.schedule, d.latest))
<1>1. d.schedule \in Schedules /\ FirstDue(d.schedule, d.latest) \in Nat \cup {None}
  BY FirstDueFacts
<1>2. CASE FirstDue(d.schedule, d.latest) = None
  BY <1>1, <1>2 DEF Load, databaseVars, historyVars
<1>3. CASE FirstDue(d.schedule, d.latest) # None
  <2>1. AddEvent(d.schedule, FirstDue(d.schedule, d.latest))
    BY <1>3 DEF Load
  <2> QED BY <1>1, <1>3, <2>1 DEF Load, databaseVars, historyVars
<1> QED BY <1>2, <1>3

LEMMA AddScheduleFacts ==
  ASSUME TypeOK, ApiFits, AddSchedule
  PROVE  /\ api.schedule \in Schedules /\ api' = Idle /\ now + First \in Nat
         /\ UNCHANGED <<now, jobs, loading, running, channel, mistaken>>
         /\ disturbed \subseteq disturbed'
         /\ Began(api.schedule) => api.schedule \in disturbed'
         /\ \/ /\ api.schedule \in schedules
               /\ UNCHANGED <<schedules, events, task>>
            \/ /\ api.schedule \notin schedules /\ schedules' = schedules \cup {api.schedule}
               /\ Began(api.schedule) /\ UNCHANGED <<events, task>>
            \/ /\ api.schedule \notin schedules /\ schedules' = schedules \cup {api.schedule}
               /\ AddEvent(api.schedule, now + First)
<1>1. api.schedule \in Schedules
  BY DEF AddSchedule, ApiFits
<1>2. now + First \in Nat
  BY SchedulerAssumption DEF TypeOK
<1>3. /\ api' = Idle /\ UNCHANGED <<now, jobs, loading, running, channel, mistaken>>
      /\ disturbed \subseteq disturbed'
      /\ Began(api.schedule) => api.schedule \in disturbed'
  BY DEF AddSchedule, Disturb, databaseVars
<1>4. CASE api.schedule \in schedules
  BY <1>1, <1>2, <1>3, <1>4 DEF AddSchedule
<1>5. CASE api.schedule \notin schedules /\ api.count = 0
  <2>1. AddEvent(api.schedule, now + First) /\ schedules' = schedules \cup {api.schedule}
    BY <1>5 DEF AddSchedule
  <2> QED BY <1>1, <1>2, <1>3, <1>5, <2>1
<1>6. CASE api.schedule \notin schedules /\ api.count # 0
  <2>1. UNCHANGED <<events, task>> /\ schedules' = schedules \cup {api.schedule}
    BY <1>6 DEF AddSchedule
  <2>2. Began(api.schedule)
    BY <1>1, <1>6 DEF Began, ApiFits, AddSchedule
  <2> QED BY <1>1, <1>2, <1>3, <1>6, <2>1, <2>2
<1> QED BY <1>4, <1>5, <1>6

LEMMA RemovalFacts ==
  ASSUME TypeOK, NEW c, Removal(c)
  PROVE  /\ events' \in Seq(Events) /\ schedules' = schedules \ {c}
         /\ ItemsOf(events') = {e \in ItemsOf(events) : e.schedule # c}
         /\ \A t : Once(events, t) => Once(events', t)
         /\ UNCHANGED <<now, jobs, loading, running, task, channel, disturbed, mistaken>>
<1>1. PICK drop : drop = {e \in Events : e.schedule = c}
  OBVIOUS
<1>2. events' = Without(events, drop) /\ events \in Seq(Events)
  BY <1>1 DEF Removal, RemoveSchedule, TypeOK
<1>3. /\ events' \in Seq(Events) /\ ItemsOf(events') = ItemsOf(events) \ drop
      /\ \A t : Once(events, t) => Once(events', t)
  BY <1>2, WithoutItems
<1>4. ItemsOf(events) \subseteq Events
  BY <1>2 DEF ItemsOf
<1> QED BY <1>1, <1>3, <1>4 DEF Removal, RemoveSchedule

LEMMA PopDueFacts ==
  ASSUME TypeOK, PopDue
  PROVE  \E e \in Events :
           /\ events # <<>> /\ e = Head(events) /\ events' \in Seq(Events)
           /\ e.schedule \in Schedules /\ e.due \in Nat /\ e.due <= now
           /\ ItemsOf(events) = ItemsOf(events') \cup {e}
           /\ \A t : Once(events, t) => Once(events', t)
           /\ Once(events, e.schedule) => \A x \in ItemsOf(events') : x.schedule # e.schedule
           /\ loading = {} /\ task.at = "looking"
           /\ task' = [at |-> IF running[e.schedule] # None THEN "cancelling" ELSE "creating",
                       until |-> None, event |-> e, old |-> running[e.schedule], started |-> now]
           /\ UNCHANGED <<now, jobs, loading, schedules, running, channel, api, disturbed, mistaken>>
<1>1. events \in Seq(Events) /\ events # <<>>
  BY DEF PopDue, TypeOK
<1>2. PICK e \in Events : e = Head(events)
  BY <1>1, TailItems
<1>3. e.schedule \in Schedules /\ e.due \in Nat
  BY DEF Events
<1>4. events' = Tail(events)
  BY DEF PopDue
<1>5. /\ events' \in Seq(Events) /\ ItemsOf(events) = ItemsOf(events') \cup {e}
      /\ \A t : Once(events, t) => Once(events', t)
      /\ Once(events, e.schedule) => \A x \in ItemsOf(events') : x.schedule # e.schedule
  BY <1>1, <1>2, <1>4, TailItems
<1>6. /\ loading = {} /\ task.at = "looking" /\ e.due <= now
      /\ task' = [at |-> IF running[e.schedule] # None THEN "cancelling" ELSE "creating",
                  until |-> None, event |-> e, old |-> running[e.schedule], started |-> now]
  BY <1>2 DEF PopDue, At, AfterPop
<1>7. UNCHANGED <<now, jobs, loading, schedules, running, channel, api, disturbed, mistaken>>
  BY DEF PopDue, databaseVars, historyVars
<1> QED BY <1>1, <1>2, <1>3, <1>5, <1>6, <1>7

-----------------------------------------------------------------------------
(* The parts of the invariant that are said of the whole *)

LEMMA RemovedIs ==
  EventsInUse <=> \A x \in ItemsOf(events) : x.schedule \in schedules
  BY DEF EventsInUse, ItemsOf

LEMMA RemovedStep ==
  ASSUME TypeOK, EventsInUse, ApiFits, DocsFit, [Next]_vars
  PROVE  EventsInUse'
<1>1. SUFFICES \A x \in ItemsOf(events') : x.schedule \in schedules'
  BY DEF EventsInUse, ItemsOf
<1>2. \A x \in ItemsOf(events) : x.schedule \in schedules
  BY RemovedIs
<1>3. ASSUME NEW s \in Schedules, NEW due \in Nat, AddEvent(s, due),
             schedules \cup {s} \subseteq schedules'
      PROVE  \A x \in ItemsOf(events') : x.schedule \in schedules'
  <2>1. ItemsOf(events') = ItemsOf(events) \cup {[schedule |-> s, due |-> due]}
    BY <1>3, AddEventFacts
  <2> QED BY <1>2, <1>3, <2>1
<1>4. ASSUME events' = events, schedules \subseteq schedules'
      PROVE  \A x \in ItemsOf(events') : x.schedule \in schedules'
  BY <1>2, <1>4
<1>5. CASE Quiet
  BY <1>4, <1>5 DEF Quiet
<1>6. CASE \E j \in JobIds : JobAction(j)
  BY <1>4, <1>6, JobActionFacts
<1>7. CASE PopDue
  BY <1>2, <1>7, PopDueFacts
<1>8. CASE CancelOld \/ CreateJob \/ JobCreated
  BY <1>4, <1>8 DEF CancelOld, CreateJob, JobCreated, memoryVars
<1>9. CASE Listen
  <2>1. PICK e \in MessageSet(JobIds) :
          /\ ListensTo(e)
          /\ e.schedule \in schedules => e.schedule \in Schedules /\ NextDue(e) \in Nat \cup {None}
    BY <1>9, ListenFacts
  <2>2. schedules' = schedules
    BY <1>9 DEF Listen
  <2>3. CASE events' = events
    BY <1>4, <2>2, <2>3
  <2>4. CASE e.schedule \in schedules /\ NextDue(e) # None /\ AddEvent(e.schedule, NextDue(e))
    BY <1>3, <2>1, <2>2, <2>4
  <2> QED BY <2>1, <2>3, <2>4 DEF ListensTo
<1>10. ASSUME NEW d \in loading, Load(d)
       PROVE  \A x \in ItemsOf(events') : x.schedule \in schedules'
  BY <1>3, <1>4, <1>10, LoadFacts
<1>11. CASE AddSchedule
  BY <1>3, <1>4, <1>11, AddScheduleFacts
<1>12. CASE Removal(api.schedule)
  BY <1>2, <1>12, RemovalFacts
<1>13. CASE Restart
  <2>1. events' = <<>>
    BY <1>13 DEF Restart
  <2> QED BY <2>1 DEF ItemsOf
<1> QED BY <1>5, <1>6, <1>7, <1>8, <1>9, <1>10, <1>11, <1>12, <1>13, NextCases

(* Only the loader adds a schedule that may not be enabled, and a request  *)
(* that finds it removes it; one request is served at a time.              *)
LEMMA UsedStep ==
  ASSUME TypeOK, ApiFits, DocsFit, UsedFits, [Next]_vars
  PROVE  UsedFits' /\ revived' \subseteq Schedules
<1>1. revived \subseteq Schedules /\ \A s \in schedules : s # None
  BY SchedulerAssumption DEF TypeOK
<1>2. ASSUME UNCHANGED <<schedules, table, api, revived>>
      PROVE  UsedFits' /\ revived' \subseteq Schedules
  BY <1>1, <1>2 DEF UsedFits
<1>3. CASE vars' = vars \/ ScheduleTask
  <2>1. UNCHANGED <<schedules, table, api, revived>>
    BY <1>3 DEF vars, ScheduleTask, Sleep, Wake, PopDue, CancelOld, CreateJob, CreateJobRaises,
                JobCreated, JobCreatedRaises, JobCounted, databaseVars, memoryVars, historyVars
  <2> QED BY <1>2, <2>1
<1>4. CASE Tick \/ Listen \/ \E d \in loading : LoadRaises(d)
  <2>1. UNCHANGED <<schedules, table, api, revived>>
    BY <1>4 DEF Tick, Listen, LoadRaises, databaseVars, memoryVars, historyVars
  <2> QED BY <1>2, <2>1
<1>5. CASE \E j \in JobIds : JobAction(j)
  <2>1. UNCHANGED <<schedules, table, api, revived>>
    BY <1>5 DEF JobAction, JobRuns, JobEnds, UserPauses, UserResumes, UserCancels, memoryVars
  <2> QED BY <1>2, <2>1
<1>6. ASSUME NEW d \in loading, Load(d) PROVE UsedFits' /\ revived' \subseteq Schedules
  <2>1. d.schedule \in Schedules /\ schedules' = schedules \cup {d.schedule} /\ api' = api
    BY <1>6, LoadFacts
  <2>2. /\ table' = table
        /\ revived' = IF table[d.schedule] = "enabled" \/ api.schedule = d.schedule
                      THEN revived ELSE revived \cup {d.schedule}
    BY <1>6 DEF Load, databaseVars
  <2> QED BY <1>1, <2>1, <2>2 DEF UsedFits
<1>7. CASE ScheduleSaved
  <2>1. /\ api.at = "saved" /\ schedules' = schedules \ {api.schedule} /\ table' = table
        /\ revived' = revived \ {api.schedule}
        /\ IF api.enabled THEN api' = [api EXCEPT !.at = "reading"] ELSE api' = Idle
    BY <1>7 DEF ScheduleSaved, RemoveSchedule, Step, databaseVars
  <2>2. CASE api.enabled
    <3>1. api'.schedule = api.schedule /\ api'.at = "reading"
      BY <2>1, <2>2 DEF TypeOK
    <3> QED BY <1>1, <2>1, <2>2, <3>1 DEF UsedFits
  <2>3. CASE ~api.enabled
    <3>1. api'.at = "idle"
      BY <2>1, <2>3 DEF Idle
    <3> QED BY <1>1, <2>1, <3>1 DEF UsedFits
  <2> QED BY <2>2, <2>3
<1>8. CASE ScheduleDeleted
  <2>1. /\ schedules' = schedules \ {api.schedule} /\ table' = table
        /\ revived' = revived \ {api.schedule} /\ api'.at = "idle"
    BY <1>8 DEF ScheduleDeleted, RemoveSchedule, Idle, databaseVars
  <2> QED BY <1>1, <2>1 DEF UsedFits
<1>9. CASE ReadSchedule
  <2>1. /\ api.at = "reading" /\ api'.at = "adding" /\ api'.schedule = api.schedule
        /\ UNCHANGED <<schedules, table, revived>>
    BY <1>9 DEF ReadSchedule, TypeOK, databaseVars, memoryVars, historyVars
  <2> QED BY <1>1, <2>1 DEF UsedFits
<1>10. CASE AddSchedule
  <2>1. /\ api.at = "adding" /\ api'.at = "idle" /\ schedules' \subseteq schedules \cup {api.schedule}
        /\ UNCHANGED <<table, revived>>
    BY <1>10 DEF AddSchedule, Idle, databaseVars
  <2> QED BY <1>1, <2>1 DEF UsedFits
<1>11. CASE User /\ ~\E j \in JobIds : JobAction(j)
  <2>1. ASSUME NEW s \in Schedules, NEW enabled \in BOOLEAN, SaveSchedule(s, enabled)
        PROVE  UsedFits' /\ revived' \subseteq Schedules
    <3>1. /\ api.schedule = None /\ api'.schedule = s /\ api'.at = "saved"
          /\ api'.enabled = enabled /\ UNCHANGED <<schedules, revived>>
          /\ table' = [table EXCEPT ![s] = IF enabled THEN "enabled" ELSE "disabled"]
      BY <2>1 DEF SaveSchedule, Idle, memoryVars, historyVars
    <3>2. \A t \in Schedules : t # s => table'[t] = table[t]
      BY <3>1 DEF TypeOK
    <3>3. enabled => table'[s] = "enabled"
      BY <3>1 DEF TypeOK
    <3>4. \A t \in schedules : t \in Schedules
      BY DEF TypeOK
    <3> QED BY <1>1, <3>1, <3>2, <3>3, <3>4 DEF UsedFits
  <2>2. ASSUME NEW s \in Schedules, DeleteSchedule(s)
        PROVE  UsedFits' /\ revived' \subseteq Schedules
    <3>1. /\ api.schedule = None /\ api'.schedule = s /\ api'.at = "deleted"
          /\ UNCHANGED <<schedules, revived>> /\ table' = [table EXCEPT ![s] = "deleted"]
      BY <2>2 DEF DeleteSchedule, Idle, memoryVars, historyVars
    <3>2. \A t \in Schedules : t # s => table'[t] = table[t]
      BY <3>1 DEF TypeOK
    <3>3. \A t \in schedules : t \in Schedules
      BY DEF TypeOK
    <3> QED BY <1>1, <3>1, <3>2, <3>3 DEF UsedFits
  <2>3. ASSUME NEW s \in Schedules, DeletePolicy(s)
        PROVE  UsedFits' /\ revived' \subseteq Schedules
    <3>1. UNCHANGED <<schedules, table, api, revived>>
      BY <2>3 DEF DeletePolicy, memoryVars, historyVars
    <3> QED BY <1>2, <3>1
  <2> QED BY <1>11, <2>1, <2>2, <2>3 DEF User, JobAction
<1>12. CASE Restart
  <2>1. schedules' = {} /\ revived' = {} /\ api'.at = "idle"
    BY <1>12 DEF Restart, Idle
  <2> QED BY <2>1 DEF UsedFits
<1>13. CASE \E j \in JobIds : JobRuns(j) \/ JobEnds(j)
  BY <1>5, <1>13 DEF JobAction
<1> QED BY <1>3, <1>4, <1>5, <1>6, <1>7, <1>8, <1>9, <1>10, <1>11, <1>12, <1>13
        DEF Next, Loading, Handler

(* Every step keeps what a job is a job of, and there may be more jobs.    *)
LEMMA JobsGrow ==
  ASSUME TypeOK, TaskFits, DocsFit, ApiFits, [Next]_vars
  PROVE  /\ Len(jobs) <= Len(jobs')
         /\ \A i \in JobIds : jobs'[i].schedule = jobs[i].schedule
         /\ Len(jobs') = Len(jobs) \/ (CreateJob /\ Len(jobs') = Len(jobs) + 1)
<1>1. Len(jobs) \in Nat
  BY DEF TypeOK
<1>2. CASE jobs' = jobs
  BY <1>1, <1>2
<1>3. ASSUME NEW j \in JobIds, OneChanges(j)
      PROVE  Len(jobs') = Len(jobs) /\ \A i \in JobIds : jobs'[i].schedule = jobs[i].schedule
  <2>1. \A i \in JobIds : i = j \/ jobs'[i] = jobs[i]
    BY <1>3 DEF OneChanges
  <2> QED BY <1>3, <2>1 DEF OneChanges
<1>4. CASE Quiet
  BY <1>2, <1>4 DEF Quiet
<1>5. CASE \E j \in JobIds : JobAction(j)
  BY <1>1, <1>3, <1>5, JobActionFacts
<1>6. CASE PopDue
  BY <1>2, <1>6, PopDueFacts
<1>7. CASE CancelOld
  BY <1>1, <1>3, <1>7, CancelOldFacts
<1>8. CASE CreateJob
  BY <1>1, <1>8, CreateJobFacts
<1>9. CASE JobCreated
  BY <1>1, <1>3, <1>9, JobCreatedFacts
<1>10. CASE Listen
  BY <1>2, <1>10 DEF Listen, databaseVars
<1>11. ASSUME NEW d \in loading, Load(d) PROVE jobs' = jobs
  BY <1>11, LoadFacts
<1>12. CASE AddSchedule
  BY <1>2, <1>12, AddScheduleFacts
<1>13. CASE Removal(api.schedule)
  BY <1>2, <1>13 DEF Removal
<1>14. CASE Restart
  BY <1>1, <1>14, RestartFacts
<1> QED BY <1>2, <1>4, <1>5, <1>6, <1>7, <1>8, <1>9, <1>10, <1>11, <1>12, <1>13, <1>14, NextCases

LEMMA JobsOfGrow ==
  ASSUME TypeOK, TypeOK', NEW s, Len(jobs) <= Len(jobs'),
         \A i \in JobIds : jobs'[i].schedule = jobs[i].schedule
  PROVE  /\ JobsOf(s) \subseteq JobsOf(s)'
         /\ Len(jobs') = Len(jobs) => JobsOf(s)' = JobsOf(s)
<1>1. PICK m \in Nat : m = Len(jobs)
  BY DEF TypeOK
<1>2. PICK n \in Nat : n = Len(jobs')
  BY DEF TypeOK
<1>3. JobIds = 1 .. m /\ JobIds' = 1 .. n /\ JobIds \subseteq JobIds'
  BY <1>1, <1>2, IdsGrow DEF JobIds
<1> QED BY <1>1, <1>2, <1>3 DEF JobsOf

LEMMA TaskStep ==
  ASSUME TypeOK, TypeOK', TaskFits, RunningFits, ApiFits, DocsFit, [Next]_vars
  PROVE  TaskFits'
<1>1. now \in Nat /\ Len(jobs) \in Nat
  BY SchedulerAssumption DEF TypeOK
<1>2. task.at = "cancelling" => task.old \in JobIds
  BY TypesAre DEF TaskFits, TaskSet
<1>3. task.at = "inserted" => Len(jobs) \in JobIds
  BY DEF TypeOK, TaskFits, JobIds
<1>4. task.started \in Nat \cup {None}
  BY SchedulerAssumption DEF TypeOK
(* The task is where it was, and the jobs that it knows are the same.      *)
<1>5. ASSUME task' = task, now' = now \/ now' = now + 1, Len(jobs') = Len(jobs),
             \A i \in JobIds : jobs'[i].schedule = jobs[i].schedule,
             task.at = "inserted" => /\ jobs'[Len(jobs)].task = "idle"
                                     /\ jobs'[Len(jobs)].state \in {"pending", "cancelled"},
             loading' \subseteq loading,
             loading # {} => running' = running
      PROVE  TaskFits'
  <2>1. (task.at \in {"looking", "sleeping"} => task.event = None)'
    BY <1>5 DEF TaskFits
  <2>2. (task.at \in {"cancelling", "creating", "inserted"} =>
           task.event # None /\ task.started # None /\ task.started <= now)'
    BY <1>1, <1>4, <1>5 DEF TaskFits
  <2>3. (task.at = "cancelling" => task.old # None /\ jobs[task.old].schedule = task.event.schedule)'
    BY <1>2, <1>5 DEF TaskFits
  <2>4. (task.at = "inserted" =>
           /\ jobs # <<>> /\ jobs[Len(jobs)].schedule = task.event.schedule
           /\ jobs[Len(jobs)].task = "idle" /\ jobs[Len(jobs)].state \in {"pending", "cancelled"})'
    <3>1. SUFFICES ASSUME task.at = "inserted"
                   PROVE  /\ jobs' # <<>> /\ jobs'[Len(jobs)].schedule = task.event.schedule
                          /\ jobs'[Len(jobs)].task = "idle"
                          /\ jobs'[Len(jobs)].state \in {"pending", "cancelled"}
      BY <1>5
    <3>2. jobs # <<>> /\ jobs[Len(jobs)].schedule = task.event.schedule
      BY <3>1 DEF TaskFits
    <3>3. jobs' # <<>>
      BY <1>5, <3>2 DEF TypeOK
    <3> QED BY <1>3, <1>5, <3>1, <3>2, <3>3
  <2>5. (loading # {} => task.at = "looking" /\ \A s \in Schedules : running[s] = None)'
    BY <1>5 DEF TaskFits
  <2> QED BY <2>1, <2>2, <2>3, <2>4, <2>5 DEF TaskFits
<1>6. CASE Quiet
  <2>1. CASE task' = task
    <3>1. task.at = "inserted" => /\ jobs'[Len(jobs)].task = "idle"
                                  /\ jobs'[Len(jobs)].state \in {"pending", "cancelled"}
      BY <1>6 DEF Quiet, TaskFits
    <3> QED BY <1>5, <1>6, <2>1, <3>1 DEF Quiet
  <2>2. CASE loading = {} /\ task'.at \in {"looking", "sleeping"} /\ task'.event = None
    BY <1>6, <2>2 DEF Quiet, TaskFits
  <2> QED BY <1>6, <2>1, <2>2 DEF Quiet
<1>7. ASSUME NEW j \in JobIds, JobAction(j) PROVE TaskFits'
  <2>1. /\ OneChanges(j)
        /\ UNCHANGED <<now, loading, schedules, events, running, task, mistaken, api>>
        /\ jobs[j].task = "idle" /\ jobs[j].state \in {"pending", "cancelled"} =>
             jobs'[j].task = "idle" /\ jobs'[j].state \in {"pending", "cancelled"}
    BY <1>7, JobActionFacts
  <2>2. \A i \in JobIds : i = j \/ jobs'[i] = jobs[i]
    BY <2>1 DEF OneChanges
  <2>3. \A i \in JobIds : jobs'[i].schedule = jobs[i].schedule
    BY <2>1, <2>2 DEF OneChanges
  <2>4. task.at = "inserted" => /\ jobs'[Len(jobs)].task = "idle"
                                /\ jobs'[Len(jobs)].state \in {"pending", "cancelled"}
    BY <1>3, <2>1, <2>2 DEF TaskFits
  <2> QED BY <1>5, <2>1, <2>3, <2>4 DEF OneChanges
<1>8. CASE PopDue
  <2>1. PICK e \in Events :
          /\ e.schedule \in Schedules /\ loading = {}
          /\ task' = [at |-> IF running[e.schedule] # None THEN "cancelling" ELSE "creating",
                      until |-> None, event |-> e, old |-> running[e.schedule], started |-> now]
          /\ UNCHANGED <<now, jobs, loading, schedules, running, channel, api, disturbed, mistaken>>
    BY <1>8, PopDueFacts
  <2>2. e # None /\ now # None
    BY <1>1, SchedulerAssumption
  <2>3. running[e.schedule] # None => jobs[running[e.schedule]].schedule = e.schedule
    BY <2>1 DEF RunningFits
  <2> QED BY <1>1, <2>1, <2>2, <2>3 DEF TaskFits
<1>9. CASE CancelOld
  <2>1. /\ now' = now /\ loading' = {} /\ task.at = "cancelling"
        /\ task' = [task EXCEPT !.at = "creating", !.started = now]
    BY <1>9, CancelOldFacts
  <2>2. task'.at = "creating" /\ task'.started = now /\ task'.event = task.event
    BY <2>1, TypesAre DEF TaskSet
  <2>3. task.event # None /\ now # None
    BY <1>1, <2>1, SchedulerAssumption DEF TaskFits
  <2> QED BY <1>1, <2>1, <2>2, <2>3 DEF TaskFits
<1>10. CASE CreateJob
  <2>1. /\ now' = now /\ loading' = {} /\ task.at = "creating"
        /\ task' = [task EXCEPT !.at = "inserted"]
    BY <1>10 DEF CreateJob, At, memoryVars
  <2>2. task'.at = "inserted" /\ task'.started = task.started /\ task'.event = task.event
    BY <2>1, TypesAre DEF TaskSet
  <2>3. /\ Len(jobs') = Len(jobs) + 1
        /\ jobs'[Len(jobs) + 1] = [schedule |-> task.event.schedule, state |-> "pending",
                                   started |-> task.started, completed |-> None, task |-> "idle"]
    BY <1>10, CreateJobFacts
  <2>4. task.event # None /\ task.started # None /\ task.started <= now
    BY <2>1 DEF TaskFits
  <2>5. jobs' # <<>>
    BY <1>1, <2>3
  <2> QED BY <2>1, <2>2, <2>3, <2>4, <2>5 DEF TaskFits
<1>11. CASE JobCreated
  <2>1. loading' = {} /\ task' = [task EXCEPT !.at = "counting"]
    BY <1>11 DEF JobCreated, At
  <2>2. task'.at = "counting"
    BY <2>1, TypesAre DEF TaskSet
  <2> QED BY <2>1, <2>2 DEF TaskFits
(* An event that is added may wake the task.                               *)
<1>12. ASSUME task' = IF task.at = "sleeping" THEN Looking ELSE task,
              UNCHANGED <<now, jobs>>, loading' \subseteq loading,
              loading # {} => running' = running
       PROVE  TaskFits'
  <2>1. CASE task' = task
    <3>1. task.at = "inserted" => /\ jobs'[Len(jobs)].task = "idle"
                                  /\ jobs'[Len(jobs)].state \in {"pending", "cancelled"}
      BY <1>12 DEF TaskFits
    <3> QED BY <1>5, <1>12, <2>1, <3>1
  <2>2. CASE task.at = "sleeping" /\ task' = Looking
    <3>1. loading' = {}
      BY <1>12, <2>2 DEF TaskFits
    <3> QED BY <2>2, <3>1 DEF TaskFits, Looking
  <2> QED BY <1>12, <2>1, <2>2
<1>13. CASE UNCHANGED <<now, jobs, task>> /\ loading' \subseteq loading
            /\ (loading # {} => running' = running)
  <2>1. task.at = "inserted" => /\ jobs'[Len(jobs)].task = "idle"
                                /\ jobs'[Len(jobs)].state \in {"pending", "cancelled"}
    BY <1>13 DEF TaskFits
  <2> QED BY <1>5, <1>13, <2>1
<1>14. CASE Listen
  <2>1. PICK e \in MessageSet(JobIds) :
          /\ ListensTo(e)
          /\ e.schedule \in schedules => e.schedule \in Schedules /\ NextDue(e) \in Nat \cup {None}
    BY <1>14, ListenFacts
  <2>2. loading = {} /\ UNCHANGED <<now, jobs, loading>>
    BY <1>14 DEF Listen, databaseVars
  <2>3. CASE task' = task
    BY <1>13, <2>2, <2>3
  <2>4. CASE e.schedule \in schedules /\ NextDue(e) # None /\ AddEvent(e.schedule, NextDue(e))
    BY <1>12, <2>2, <2>4 DEF AddEvent
  <2> QED BY <2>1, <2>3, <2>4 DEF ListensTo
<1>15. ASSUME NEW d \in loading, Load(d) PROVE TaskFits'
  BY <1>12, <1>13, <1>15, LoadFacts DEF AddEvent
<1>16. CASE AddSchedule
  BY <1>12, <1>13, <1>16, AddScheduleFacts DEF AddEvent
<1>17. CASE Removal(api.schedule)
  BY <1>13, <1>17 DEF Removal
<1>18. CASE Restart
  BY <1>18 DEF Restart, Looking, TaskFits
<1> QED BY <1>6, <1>7, <1>8, <1>9, <1>10, <1>11, <1>14, <1>15, <1>16, <1>17, <1>18, NextCases

LEMMA JobsStep ==
  ASSUME TypeOK, TypeOK', TaskFits, JobsFit, ApiFits, DocsFit, [Next]_vars
  PROVE  JobsFit'
<1>1. now \in Nat /\ now' \in Nat /\ Len(jobs) \in Nat
  BY SchedulerAssumption DEF TypeOK
<1>2. \A i \in JobIds :
        /\ jobs[i].started \in Nat /\ jobs[i].completed \in Nat \cup {None}
        /\ jobs[i].started <= now
        /\ jobs[i].completed # None => jobs[i].started <= jobs[i].completed /\ jobs[i].completed <= now
        /\ jobs[i].state \in FinishedStates => jobs[i].completed # None
  BY RowsAre DEF JobsFit
<1>3. now # None
  BY <1>1, SchedulerAssumption
<1>4. ASSUME jobs' = jobs, now <= now' PROVE JobsFit'
  <2>1. JobIds' = JobIds
    BY <1>4 DEF JobIds
  <2>2. SUFFICES ASSUME NEW i \in JobIds
                 PROVE  /\ jobs[i].started <= now'
                        /\ jobs[i].completed # None =>
                             jobs[i].started <= jobs[i].completed /\ jobs[i].completed <= now'
                        /\ jobs[i].state \in FinishedStates => jobs[i].completed # None
    BY <1>4, <2>1 DEF JobsFit
  <2> QED BY <1>1, <1>2, <1>4
<1>5. ASSUME NEW j \in JobIds, OneChanges(j), now' = now,
             \/ jobs'[j].completed = now
             \/ /\ jobs'[j].completed = jobs[j].completed
                /\ jobs'[j].state = jobs[j].state \/ jobs'[j].state \notin FinishedStates
      PROVE  JobsFit'
  <2>1. JobIds' = JobIds
    BY <1>5 DEF JobIds, OneChanges
  <2>2. SUFFICES ASSUME NEW i \in JobIds
                 PROVE  /\ jobs'[i].started <= now
                        /\ jobs'[i].completed # None =>
                             jobs'[i].started <= jobs'[i].completed /\ jobs'[i].completed <= now
                        /\ jobs'[i].state \in FinishedStates => jobs'[i].completed # None
    BY <1>5, <2>1 DEF JobsFit
  <2>3. CASE i # j
    BY <1>2, <1>5, <2>3 DEF OneChanges
  <2>4. CASE i = j
    BY <1>1, <1>2, <1>3, <1>5, <2>4 DEF OneChanges
  <2> QED BY <2>3, <2>4
<1>6. CASE Quiet
  BY <1>1, <1>4, <1>6 DEF Quiet
<1>7. ASSUME NEW j \in JobIds, JobAction(j) PROVE JobsFit'
  BY <1>5, <1>7, JobActionFacts
<1>8. CASE PopDue
  BY <1>1, <1>4, <1>8, PopDueFacts
<1>9. CASE CancelOld
  BY <1>5, <1>9, CancelOldFacts
<1>10. CASE CreateJob
  <2>1. /\ Len(jobs') = Len(jobs) + 1 /\ \A i \in JobIds : jobs'[i] = jobs[i]
        /\ jobs'[Len(jobs) + 1] = [schedule |-> task.event.schedule, state |-> "pending",
                                   started |-> task.started, completed |-> None, task |-> "idle"]
    BY <1>10, CreateJobFacts
  <2>2. now' = now /\ task.started <= now
    BY <1>10 DEF CreateJob, At, TaskFits
  <2>3. \A i \in JobIds' : i \in JobIds \/ i = Len(jobs) + 1
    BY <1>1, <2>1 DEF JobIds
  <2>4. SUFFICES ASSUME NEW i \in JobIds'
                 PROVE  /\ jobs'[i].started <= now
                        /\ jobs'[i].completed # None =>
                             jobs'[i].started <= jobs'[i].completed /\ jobs'[i].completed <= now
                        /\ jobs'[i].state \in FinishedStates => jobs'[i].completed # None
    BY <2>2 DEF JobsFit
  <2>5. CASE i \in JobIds
    BY <1>2, <2>1, <2>5
  <2>6. CASE i = Len(jobs) + 1
    BY <2>1, <2>2, <2>6 DEF FinishedStates
  <2> QED BY <2>3, <2>5, <2>6
<1>11. CASE JobCreated
  <2>1. now' = now
    BY <1>11 DEF JobCreated
  <2> QED BY <1>5, <1>11, <2>1, JobCreatedFacts
<1>12. CASE Listen
  BY <1>1, <1>4, <1>12 DEF Listen, databaseVars
<1>13. ASSUME NEW d \in loading, Load(d) PROVE JobsFit'
  BY <1>1, <1>4, <1>13, LoadFacts
<1>14. CASE AddSchedule
  BY <1>1, <1>4, <1>14, AddScheduleFacts
<1>15. CASE Removal(api.schedule)
  BY <1>1, <1>4, <1>15 DEF Removal
<1>16. CASE Restart
  <2>1. now' = now
    BY <1>16 DEF Restart
  <2>2. /\ Len(jobs') = Len(jobs)
        /\ \A i \in JobIds :
             /\ jobs'[i].started = jobs[i].started /\ jobs'[i].completed = jobs[i].completed
             /\ jobs'[i].state = IF jobs[i].state = "running" THEN "paused" ELSE jobs[i].state
    BY <1>16, RestartFacts
  <2>3. JobIds' = JobIds
    BY <2>2 DEF JobIds
  <2>4. \A i \in JobIds : jobs'[i].state \in FinishedStates => jobs[i].state \in FinishedStates
    BY <2>2 DEF FinishedStates
  <2> QED BY <1>2, <2>1, <2>2, <2>3, <2>4 DEF JobsFit
<1> QED BY <1>6, <1>7, <1>8, <1>9, <1>10, <1>11, <1>12, <1>13, <1>14, <1>15, <1>16, NextCases

(* What a step does to the channel: a message more, at the end; the first  *)
(* one less; or all are gone.                                              *)
LEMMA ChannelSteps ==
  ASSUME TypeOK, TaskFits, ApiFits, DocsFit, [Next]_vars
  PROVE  \/ channel' = channel
         \/ \E j \in JobIds : \E s \in {None, jobs[j].schedule} : \E state \in States :
              /\ now' = now
              /\ channel' = Append(channel, [schedule |-> s, job |-> j, state |-> state,
                                             time |-> now])
         \/ channel # <<>> /\ channel' = Tail(channel) /\ Listen
         \/ channel' = <<>>
<1>1. CASE Quiet
  BY <1>1 DEF Quiet
<1>2. ASSUME NEW j \in JobIds, JobAction(j)
      PROVE  \/ channel' = channel
             \/ \E s \in {None, jobs[j].schedule} : \E state \in States :
                  /\ now' = now
                  /\ channel' = Append(channel, [schedule |-> s, job |-> j, state |-> state,
                                                 time |-> now])
  BY <1>2, JobActionFacts
<1>3. CASE CancelOld
  <2>1. "cancelled" \in States
    BY DEF States
  <2> QED BY <1>3, <2>1, CancelOldFacts
<1>4. CASE PopDue \/ CreateJob \/ JobCreated
  BY <1>4 DEF PopDue, CreateJob, JobCreated
<1>5. CASE Listen
  BY <1>5 DEF Listen
<1>6. ASSUME NEW d \in loading, Load(d) PROVE channel' = channel
  BY <1>6, LoadFacts
<1>7. CASE AddSchedule
  BY <1>7, AddScheduleFacts
<1>8. CASE Removal(api.schedule)
  BY <1>8 DEF Removal
<1>9. CASE Restart
  BY <1>9 DEF Restart
<1> QED BY <1>1, <1>2, <1>3, <1>4, <1>5, <1>6, <1>7, <1>8, <1>9, NextCases

LEMMA AppendFacts ==
  ASSUME NEW S, NEW list \in Seq(S), NEW m
  PROVE  /\ Len(Append(list, m)) = Len(list) + 1
         /\ \A k \in 1 .. Len(list) : Append(list, m)[k] = list[k]
         /\ Append(list, m)[Len(list) + 1] = m
         /\ \A k \in 1 .. Len(list) + 1 : k \in 1 .. Len(list) \/ k = Len(list) + 1
  OBVIOUS

LEMMA TailFacts ==
  ASSUME NEW S, NEW list \in Seq(S), list # <<>>
  PROVE  /\ Len(Tail(list)) = Len(list) - 1 /\ Head(list) = list[1] /\ 1 \in 1 .. Len(list)
         /\ \A k \in 1 .. Len(Tail(list)) : Tail(list)[k] = list[k + 1] /\ k + 1 \in 1 .. Len(list)
  OBVIOUS

LEMMA ChannelIs ==
  ASSUME TypeOK
  PROVE  channel \in Seq(MessageSet(JobIds)) /\ DOMAIN channel = 1 .. Len(channel)
         /\ Len(channel) \in Nat
         /\ \A k \in DOMAIN channel :
              /\ channel[k] \in MessageSet(JobIds)
              /\ channel[k].job \in JobIds /\ channel[k].time \in Nat
              /\ channel[k].state \in States /\ channel[k].schedule \in Schedules \cup {None}
<1>1. PICK M : M = MessageSet(JobIds)
  OBVIOUS
<1>2. channel \in Seq(M)
  BY <1>1, TypesAre
<1>3. DOMAIN channel = 1 .. Len(channel) /\ Len(channel) \in Nat
      /\ \A k \in DOMAIN channel : channel[k] \in M
  BY <1>2
<1>4. \A m \in M : /\ m.job \in JobIds /\ m.time \in Nat
                   /\ m.state \in States /\ m.schedule \in Schedules \cup {None}
  BY <1>1, SchedulerAssumption DEF MessageSet
<1> QED BY <1>1, <1>2, <1>3, <1>4

LEMMA MessagesStep ==
  ASSUME TypeOK, TypeOK', TaskFits, MessagesFit, ApiFits, DocsFit, [Next]_vars
  PROVE  MessagesFit'
<1>1. now \in Nat /\ now' \in Nat /\ now <= now'
  <2>1. now \in Nat /\ now' \in Nat
    BY SchedulerAssumption DEF TypeOK
  <2>2. now' = now \/ now' = now + 1
    <3>1. CASE \E j \in JobIds : JobAction(j)
      BY <3>1, JobActionFacts
    <3>2. CASE \E d \in loading : Load(d)
      BY <3>2, LoadFacts
    <3> QED BY <3>1, <3>2, NextCases
            DEF Quiet, PopDue, CancelOld, CreateJob, JobCreated, Listen, AddSchedule, Removal, Restart
  <2> QED BY <2>1, <2>2
<1>2. \A i \in JobIds : jobs'[i].schedule = jobs[i].schedule
  BY JobsGrow
<1>3. \A k \in DOMAIN channel : /\ channel[k].job \in JobIds /\ channel[k].time \in Nat
                                /\ channel[k].time <= now
                                /\ channel[k].schedule \in {None, jobs[channel[k].job].schedule}
  BY ChannelIs DEF MessagesFit
<1>4. \A k \in DOMAIN channel : /\ channel[k].time <= now'
                                /\ channel[k].schedule \in {None, jobs'[channel[k].job].schedule}
  BY <1>1, <1>2, <1>3
<1>5. SUFFICES ASSUME NEW k \in DOMAIN channel'
               PROVE  /\ channel'[k].time <= now'
                      /\ channel'[k].schedule \in {None, jobs'[channel'[k].job].schedule}
  BY DEF MessagesFit
<1>6. CASE channel' = channel
  BY <1>4, <1>6
<1>7. ASSUME NEW j \in JobIds, NEW s \in {None, jobs[j].schedule}, NEW state \in States,
             now' = now,
             channel' = Append(channel, [schedule |-> s, job |-> j, state |-> state, time |-> now])
      PROVE  /\ channel'[k].time <= now'
             /\ channel'[k].schedule \in {None, jobs'[channel'[k].job].schedule}
  <2>1. PICK m : m = [schedule |-> s, job |-> j, state |-> state, time |-> now]
    OBVIOUS
  <2>2. /\ Len(channel') = Len(channel) + 1 /\ channel'[Len(channel) + 1] = m
        /\ \A i \in 1 .. Len(channel) : channel'[i] = channel[i]
        /\ \A i \in 1 .. Len(channel) + 1 : i \in 1 .. Len(channel) \/ i = Len(channel) + 1
    BY <1>7, <2>1, ChannelIs, AppendFacts
  <2>3. DOMAIN channel' = 1 .. Len(channel) + 1 /\ DOMAIN channel = 1 .. Len(channel)
    BY <2>2 DEF TypeOK
  <2>4. CASE k \in 1 .. Len(channel)
    BY <1>4, <2>2, <2>3, <2>4
  <2>5. CASE k = Len(channel) + 1
    BY <1>1, <1>2, <1>7, <2>1, <2>2, <2>5
  <2> QED BY <2>2, <2>3, <2>4, <2>5
<1>8. CASE channel # <<>> /\ channel' = Tail(channel)
  <2>1. \A i \in 1 .. Len(channel') : channel'[i] = channel[i + 1] /\ i + 1 \in 1 .. Len(channel)
    BY <1>8, ChannelIs, TailFacts
  <2>2. DOMAIN channel' = 1 .. Len(channel') /\ DOMAIN channel = 1 .. Len(channel)
    BY DEF TypeOK
  <2> QED BY <1>4, <2>1, <2>2
<1>9. CASE channel' = <<>>
  BY <1>9
<1> QED BY <1>6, <1>7, <1>8, <1>9, ChannelSteps

LEMMA RunningStep ==
  ASSUME TypeOK, TypeOK', TaskFits, MessagesFit, RunningFits, ApiFits, DocsFit, [Next]_vars
  PROVE  RunningFits'
<1>1. \A i \in JobIds : jobs'[i].schedule = jobs[i].schedule
  BY JobsGrow
<1>2. \A s \in Schedules : running[s] \in JobIds \cup {None}
  BY TypesAre
<1>3. ASSUME running' = running PROVE RunningFits'
  BY <1>1, <1>2, <1>3 DEF RunningFits
<1>4. CASE Quiet
  BY <1>3, <1>4 DEF Quiet
<1>5. ASSUME NEW j \in JobIds, JobAction(j) PROVE RunningFits'
  BY <1>3, <1>5, JobActionFacts
<1>6. CASE PopDue \/ CancelOld \/ CreateJob
  BY <1>3, <1>6 DEF PopDue, CancelOld, CreateJob, memoryVars
<1>7. CASE JobCreated
  <2>1. running' = [running EXCEPT ![task.event.schedule] = Len(jobs)]
        /\ jobs[Len(jobs)].schedule = task.event.schedule /\ Len(jobs) \in JobIds
    BY <1>7, JobCreatedFacts DEF JobCreated, At, TaskFits
  <2>2. jobs'[Len(jobs)].schedule = task.event.schedule
    BY <1>1, <2>1
  <2>3. SUFFICES ASSUME NEW s \in Schedules, running'[s] # None
                 PROVE  jobs'[running'[s]].schedule = s
    BY DEF RunningFits
  <2>4. CASE s = task.event.schedule
    BY <2>1, <2>2, <2>4, TypesAre
  <2>5. CASE s # task.event.schedule
    BY <1>1, <1>2, <2>1, <2>3, <2>5, TypesAre DEF RunningFits
  <2> QED BY <2>4, <2>5
<1>8. CASE Listen
  <2>1. PICK e \in MessageSet(JobIds) :
          /\ ListensTo(e)
          /\ e.schedule \in schedules => e.schedule \in Schedules /\ NextDue(e) \in Nat \cup {None}
    BY <1>8, ListenFacts
  <2>2. CASE e.schedule \notin schedules
    BY <1>3, <2>1, <2>2 DEF ListensTo
  <2>3. CASE e.schedule \in schedules
    <3>1. running' = [running EXCEPT ![e.schedule] =
                        IF e.state \in FinishedStates THEN None ELSE e.job]
      BY <2>1, <2>3 DEF ListensTo
    <3>2. 1 \in DOMAIN channel /\ channel[1] = e
      BY <2>1, ChannelIs, TailFacts DEF ListensTo
    <3>3. e.schedule # None /\ e.job \in JobIds
      BY <2>1, <2>3, SchedulerAssumption DEF MessageSet
    <3>4. jobs[e.job].schedule = e.schedule
      BY <3>2, <3>3 DEF MessagesFit
    <3>5. SUFFICES ASSUME NEW s \in Schedules, running'[s] # None
                   PROVE  jobs'[running'[s]].schedule = s
      BY DEF RunningFits
    <3>6. CASE s = e.schedule
      BY <1>1, <3>1, <3>3, <3>4, <3>5, <3>6, TypesAre
    <3>7. CASE s # e.schedule
      BY <1>1, <1>2, <3>1, <3>5, <3>7, TypesAre DEF RunningFits
    <3> QED BY <3>6, <3>7
  <2> QED BY <2>2, <2>3
<1>9. ASSUME NEW d \in loading, Load(d) PROVE RunningFits'
  BY <1>3, <1>9, LoadFacts
<1>10. CASE AddSchedule
  BY <1>3, <1>10, AddScheduleFacts
<1>11. CASE Removal(api.schedule)
  BY <1>3, <1>11 DEF Removal
<1>12. CASE Restart
  BY <1>12 DEF Restart, RunningFits
<1> QED BY <1>4, <1>5, <1>6, <1>7, <1>8, <1>9, <1>10, <1>11, <1>12, NextCases

(* Where the request of a client may go.                                   *)
LEMMA ApiCases ==
  ASSUME TypeOK, ApiFits, DocsFit, TaskFits, [Next]_vars
  PROVE  \/ api' = api \/ api' = Idle
         \/ api.at = "saved" /\ api' = [api EXCEPT !.at = "reading"]
         \/ /\ api.at = "reading" /\ jobs' = jobs
            /\ api' = [api EXCEPT !.at = "adding", !.count = Cardinality(JobsOf(api.schedule))]
         \/ api'.at \in {"saved", "deleted"} /\ api'.schedule \in Schedules
<1>1. CASE vars' = vars
  BY <1>1 DEF vars
<1>2. CASE ScheduleTask
  BY <1>2 DEF ScheduleTask, Sleep, Wake, PopDue, CancelOld, CreateJob, CreateJobRaises,
              JobCreated, JobCreatedRaises, JobCounted
<1>3. CASE Loading
  BY <1>3 DEF Loading, Load, LoadRaises
<1>4. CASE ScheduleSaved \/ AddSchedule \/ ScheduleDeleted
  BY <1>4 DEF ScheduleSaved, AddSchedule, ScheduleDeleted, Step
<1>5. CASE ReadSchedule
  BY <1>5 DEF ReadSchedule, databaseVars
<1>6. ASSUME NEW s \in Schedules, NEW enabled \in BOOLEAN, SaveSchedule(s, enabled)
      PROVE  api'.at \in {"saved", "deleted"} /\ api'.schedule \in Schedules
  BY <1>6 DEF SaveSchedule
<1>7. ASSUME NEW s \in Schedules, DeleteSchedule(s)
      PROVE  api'.at \in {"saved", "deleted"} /\ api'.schedule \in Schedules
  BY <1>7 DEF DeleteSchedule, Idle
<1>8. ASSUME NEW s \in Schedules, DeletePolicy(s) PROVE api' = api
  BY <1>8 DEF DeletePolicy
<1>9. ASSUME NEW j \in JobIds, JobAction(j) PROVE api' = api
  BY <1>9, JobActionFacts
<1>10. CASE Listen \/ Tick \/ Restart
  BY <1>10 DEF Listen, Tick, Restart
<1> QED BY <1>1, <1>2, <1>3, <1>4, <1>5, <1>6, <1>7, <1>8, <1>9, <1>10
        DEF Next, Handler, User, JobAction

LEMMA CountOfNone ==
  ASSUME NEW s, JobsOf(s) = {}
  PROVE  Cardinality(JobsOf(s)) = 0
  BY FS_EmptySet

LEMMA ApiStep ==
  ASSUME TypeOK, TypeOK', TaskFits, ApiFits, DocsFit, [Next]_vars
  PROVE  ApiFits'
<1>1. \A s \in Schedules : JobsOf(s)' = {} => JobsOf(s) = {}
  BY JobsGrow, JobsOfGrow
<1>2. api \in ApiSet
  BY TypesAre
<1>3. CASE api' = api
  BY <1>1, <1>3 DEF ApiFits
<1>4. CASE api' = Idle
  BY <1>4 DEF ApiFits, Idle
<1>5. CASE api.at = "saved" /\ api' = [api EXCEPT !.at = "reading"]
  <2>1. api'.at = "reading" /\ api'.schedule = api.schedule
    BY <1>2, <1>5 DEF ApiSet
  <2> QED BY <1>5, <2>1 DEF ApiFits
<1>6. CASE /\ api.at = "reading" /\ jobs' = jobs
           /\ api' = [api EXCEPT !.at = "adding", !.count = Cardinality(JobsOf(api.schedule))]
  <2>1. /\ api'.at = "adding" /\ api'.schedule = api.schedule
        /\ api'.count = Cardinality(JobsOf(api.schedule))
    BY <1>2, <1>6 DEF ApiSet
  <2>2. JobsOf(api.schedule) = {} => api'.count = 0
    BY <2>1, CountOfNone
  <2> QED BY <1>1, <1>6, <2>1, <2>2 DEF ApiFits
<1>7. CASE api'.at \in {"saved", "deleted"} /\ api'.schedule \in Schedules
  BY <1>7 DEF ApiFits
<1> QED BY <1>3, <1>4, <1>5, <1>6, <1>7, ApiCases

LEMMA LoadingSteps ==
  ASSUME TypeOK, TaskFits, ApiFits, DocsFit, [Next]_vars
  PROVE  \/ loading' \subseteq loading /\ (loading' # {} => Len(jobs') = Len(jobs))
         \/ Restart
<1>1. CASE \E j \in JobIds : JobAction(j)
  BY <1>1, JobActionFacts DEF OneChanges
<1>2. CASE \E d \in loading : Load(d)
  BY <1>2, LoadFacts
<1>3. CASE PopDue \/ CancelOld \/ CreateJob \/ JobCreated \/ Listen
  BY <1>3 DEF PopDue, CancelOld, CreateJob, JobCreated, Listen, At, memoryVars
<1>4. CASE AddSchedule
  BY <1>4, AddScheduleFacts
<1> QED BY <1>1, <1>2, <1>3, <1>4, NextCases DEF Quiet, Removal

LEMMA DocsStep ==
  ASSUME TypeOK, TypeOK', TaskFits, JobsFit, ApiFits, DocsFit, [Next]_vars
  PROVE  DocsFit'
<1>1. CASE loading' \subseteq loading /\ (loading' # {} => Len(jobs') = Len(jobs))
  <2>1. \A d \in loading' : JobsOf(d.schedule)' = JobsOf(d.schedule)
    <3>1. TAKE d \in loading'
    <3>2. PICK s : s = d.schedule
      OBVIOUS
    <3>3. JobsOf(s)' = JobsOf(s)
      BY <1>1, <3>1, JobsGrow, JobsOfGrow
    <3> QED BY <3>2, <3>3 DEF JobsOf, JobIds
  <2>2. SUFFICES /\ \A d, e \in loading' : d.schedule = e.schedule => d = e
                 /\ \A d \in loading' :
                      /\ d.latest = None <=> JobsOf(d.schedule)' = {}
                      /\ d.latest # None /\ d.latest.state \in FinishedStates =>
                           d.latest.completed # None
    BY DEF DocsFit, JobsOf, JobIds
  <2> QED BY <1>1, <2>1 DEF DocsFit
<1>2. CASE Restart
  <2>1. \A s \in Schedules : JobsOf(s)' = JobsOf(s)
    BY <1>2, RestartFacts, JobsGrow, JobsOfGrow
  <2>2. loading' = {[schedule |-> s, latest |-> Latest(s)] :
                      s \in {t \in Schedules : table[t] = "enabled"}}
    BY <1>2 DEF Restart, Documents
  <2>3. \A d \in loading' : d.schedule \in Schedules /\ d.latest = Latest(d.schedule)
                            /\ d = [schedule |-> d.schedule, latest |-> Latest(d.schedule)]
    BY <2>2
  <2>4. ASSUME NEW s \in Schedules
        PROVE  /\ Latest(s) = None <=> JobsOf(s) = {}
               /\ Latest(s) # None /\ Latest(s).state \in FinishedStates => Latest(s).completed # None
    <3>1. CASE JobsOf(s) = {}
      BY <3>1, LatestIs
    <3>2. CASE JobsOf(s) # {}
      <4>1. PICK j \in JobsOf(s) : Latest(s) = jobs[j]
        BY <3>2, LatestIs
      <4>2. j \in JobIds /\ jobs[j] # None
        BY RowsAre, SchedulerAssumption DEF JobsOf
      <4> QED BY <3>2, <4>1, <4>2 DEF JobsFit
    <3> QED BY <3>1, <3>2
  <2>5. \A d, e \in loading' : d.schedule = e.schedule => d = e
    BY <2>3
  <2>6. ASSUME NEW d \in loading'
        PROVE  /\ d.latest = None <=> JobsOf(d.schedule)' = {}
               /\ d.latest # None /\ d.latest.state \in FinishedStates => d.latest.completed # None
    <3>1. PICK s \in Schedules : s = d.schedule /\ d.latest = Latest(s)
      BY <2>3
    <3>2. /\ d.latest = None <=> JobsOf(s)' = {}
          /\ d.latest # None /\ d.latest.state \in FinishedStates => d.latest.completed # None
      BY <2>1, <2>4, <3>1
    <3> QED BY <3>1, <3>2 DEF JobsOf, JobIds
  <2> QED BY <2>5, <2>6 DEF DocsFit, JobsOf, JobIds
<1> QED BY <1>1, <1>2, LoadingSteps

LEMMA WholeStarts ==
  ASSUME Init
  PROVE  Whole
<1>1. TypeOK
  BY TypesStart
<1>2. JobIds = {}
  BY DEF Init, JobIds
<1>3. \A s \in Schedules : JobsOf(s) = {}
  BY <1>2 DEF JobsOf
<1>4. EventsInUse /\ UsedFits /\ MessagesFit
  BY DEF Init, EventsInUse, UsedFits, MessagesFit, Idle
<1>5. TaskFits
  BY DEF Init, TaskFits, Looking
<1>6. JobsFit /\ RunningFits /\ ApiFits
  BY <1>2 DEF Init, JobsFit, RunningFits, ApiFits, Idle
<1>7. DocsFit
  <2>1. \A d \in loading : d.schedule \in Schedules /\ d.latest = None
                           /\ d = [schedule |-> d.schedule, latest |-> None]
    BY DEF Init
  <2> QED BY <1>3, <2>1 DEF DocsFit
<1> QED BY <1>1, <1>4, <1>5, <1>6, <1>7 DEF Whole

LEMMA WholeStep ==
  ASSUME Whole, [Next]_vars
  PROVE  Whole'
<1>1. TypeOK /\ EventsInUse /\ UsedFits /\ TaskFits /\ JobsFit /\ MessagesFit /\ RunningFits
      /\ ApiFits /\ DocsFit
  BY DEF Whole
<1>2. TypeOK'
  <2>1. CASE Next
    BY <1>1, <2>1, TypesStep, UsedStep
  <2>2. CASE vars' = vars
    BY <1>1, <2>2 DEF vars, databaseVars, memoryVars, historyVars, TypeOK, JobIds
  <2> QED BY <2>1, <2>2
<1> QED BY <1>1, <1>2, RemovedStep, UsedStep, TaskStep, JobsStep, MessagesStep, RunningStep, ApiStep, DocsStep
        DEF Whole

-----------------------------------------------------------------------------
(* The steps that do not concern a schedule *)

LEMMA EventsAre ==
  ASSUME NEW s
  PROVE  /\ HasEvent(s) <=> \E x \in ItemsOf(events) : x.schedule = s
         /\ OneEvent(s) <=> Once(events, s)
         /\ EventFits(s) <=> \A x \in ItemsOf(events) : x.schedule = s => Reached(s, x.due)
  BY DEF HasEvent, OneEvent, EventFits, Due, ItemsOf, Once

(* The messages of the schedule are the same, and in the same order.       *)
SameMessages(s) ==
  \E c \in {0, 1} :
    /\ \A k \in DOMAIN channel' : channel'[k].schedule = s =>
         k + c \in DOMAIN channel /\ channel[k + c] = channel'[k]
    /\ \A i \in DOMAIN channel : channel[i].schedule = s =>
         i - c \in DOMAIN channel' /\ channel'[i - c] = channel[i]

SameEvents(s) ==
  /\ \A x : x.schedule = s => (x \in ItemsOf(events') <=> x \in ItemsOf(events))
  /\ Once(events, s) => Once(events', s)

SameJobs(s) ==
  JobsOf(s)' = JobsOf(s) /\ \A j \in JobsOf(s) : jobs'[j] = jobs[j]

SameStart(s) ==
  /\ Starting(s)' <=> Starting(s)
  /\ Starting(s) => task' = task /\ Len(jobs') = Len(jobs)

SameRun(s) ==
  /\ SameJobs(s) /\ SameMessages(s) /\ SameStart(s)
  /\ SameEvents(s) \/ (~HasEvent(s)' /\ s \notin schedules')
  /\ running'[s] = running[s] /\ loading' \subseteq loading
  /\ (s \in schedules' => s \in schedules) /\ (s \in mistaken => s \in mistaken')

LEMMA SameJobsFacts ==
  ASSUME NEW s, SameJobs(s)
  PROVE  /\ HasJob(s)' <=> HasJob(s)
         /\ OneJob(s) => OneJob(s)'
         /\ AllSettled(s)' <=> AllSettled(s)
         /\ \A j \in JobsOf(s) : (Settled(j)' <=> Settled(j)) /\ (WillReport(j)' <=> WillReport(j))
         /\ Distant(s) => Distant(s)'
         /\ \A time : Reached(s, time) => Reached(s, time)'
         /\ Awake(s)' = Awake(s)
<1>1. JobsOf(s)' = JobsOf(s) /\ \A j \in JobsOf(s) : jobs'[j] = jobs[j]
  BY DEF SameJobs
<1>2. \A j \in JobsOf(s) : (Settled(j)' <=> Settled(j)) /\ (WillReport(j)' <=> WillReport(j))
  BY <1>1 DEF Settled, WillReport, Regular
<1>3. HasJob(s)' <=> HasJob(s)
  BY <1>1, <1>2 DEF HasJob
<1>4. OneJob(s) => OneJob(s)'
  BY <1>1, <1>2 DEF OneJob
<1>5. AllSettled(s)' <=> AllSettled(s)
  BY <1>1, <1>2 DEF AllSettled
<1>6. \A j \in JobsOf(s) : Since(s, j)' = Since(s, j)
  BY <1>1 DEF Since, Regular
<1>7. Distant(s) => Distant(s)'
  BY <1>1, <1>6 DEF Distant
<1>8. ASSUME NEW time PROVE Reached(s, time) => Reached(s, time)'
  BY <1>1, <1>6 DEF Reached
<1>9. Awake(s)' = Awake(s)
  BY <1>1 DEF Awake
<1> QED BY <1>2, <1>3, <1>4, <1>5, <1>7, <1>8, <1>9

LEMMA SameEventsFacts ==
  ASSUME NEW s, SameEvents(s)
  PROVE  /\ HasEvent(s)' <=> HasEvent(s)
         /\ OneEvent(s) => OneEvent(s)'
         /\ SameJobs(s) /\ EventFits(s) => EventFits(s)'
<1>1. /\ HasEvent(s)' <=> \E x \in ItemsOf(events') : x.schedule = s
      /\ OneEvent(s)' <=> Once(events', s)
  BY DEF HasEvent, OneEvent, Due, ItemsOf, Once
<1>2. (\A x \in ItemsOf(events') : x.schedule = s => Reached(s, x.due)') => EventFits(s)'
  BY DEF EventFits, Due, ItemsOf
<1>3. /\ \A x : x.schedule = s => (x \in ItemsOf(events') <=> x \in ItemsOf(events))
      /\ Once(events, s) => Once(events', s)
  BY DEF SameEvents
<1>4. HasEvent(s)' <=> HasEvent(s)
  BY <1>1, <1>3, EventsAre
<1>5. OneEvent(s) => OneEvent(s)'
  BY <1>1, <1>3, EventsAre
<1>6. ASSUME SameJobs(s), EventFits(s) PROVE EventFits(s)'
  <2>1. \A x \in ItemsOf(events) : x.schedule = s => Reached(s, x.due)
    BY <1>6, EventsAre
  <2>2. \A time : Reached(s, time) => Reached(s, time)'
    BY <1>6, SameJobsFacts
  <2> QED BY <1>2, <1>3, <2>1, <2>2
<1> QED BY <1>4, <1>5, <1>6

LEMMA SameMessagesFacts ==
  ASSUME TypeOK, TypeOK', NEW s, NEW c \in {0, 1},
         \A k \in DOMAIN channel' : channel'[k].schedule = s =>
           k + c \in DOMAIN channel /\ channel[k + c] = channel'[k],
         \A i \in DOMAIN channel : channel[i].schedule = s =>
           i - c \in DOMAIN channel' /\ channel'[i - c] = channel[i]
  PROVE  /\ HasMessage(s)' <=> HasMessage(s)
         /\ OneMessage(s) => OneMessage(s)'
         /\ Silent(s) => Silent(s)'
         /\ \A k \in DOMAIN channel' : channel'[k].schedule = s => (Tells(s, k)' <=> Tells(s, k + c))
<1>1. DOMAIN channel \subseteq Nat /\ DOMAIN channel' \subseteq Nat
  <2>1. DOMAIN channel = 1 .. Len(channel) /\ DOMAIN channel' = 1 .. Len(channel')
        /\ Len(channel) \in Nat /\ Len(channel') \in Nat
    BY DEF TypeOK
  <2> QED BY <2>1
<1>2. ASSUME NEW k \in DOMAIN channel', channel'[k].schedule = s
      PROVE  k + c \in DOMAIN channel /\ (Tells(s, k)' <=> Tells(s, k + c))
  BY <1>2 DEF Tells, NextDue, Regular
<1>3. ASSUME NEW i \in DOMAIN channel, Tells(s, i)
      PROVE  i - c \in DOMAIN channel' /\ Tells(s, i - c)'
  BY <1>3 DEF Tells, NextDue, Regular
<1>4. \A k \in DOMAIN channel' : Tells(s, k)' => channel'[k].schedule = s
  BY DEF Tells
<1>5. HasMessage(s)' <=> HasMessage(s)
  BY <1>2, <1>3, <1>4 DEF HasMessage
<1>6. OneMessage(s) => OneMessage(s)'
  <2>1. SUFFICES ASSUME OneMessage(s), NEW k \in DOMAIN channel', NEW l \in DOMAIN channel',
                        Tells(s, k)', Tells(s, l)'
                 PROVE  k = l
    BY DEF OneMessage
  <2>2. k + c = l + c
    BY <1>2, <1>4, <2>1 DEF OneMessage
  <2> QED BY <1>1, <2>2
<1>7. Silent(s) => Silent(s)'
  BY DEF Silent
<1> QED BY <1>2, <1>5, <1>6, <1>7

LEMMA SameRunKeeps ==
  ASSUME TypeOK, TypeOK', MessagesFit, NEW s \in Schedules, ScheduleInv(s), SameRun(s)
  PROVE  ScheduleInv(s)'
<1>1. /\ SameJobs(s) /\ SameStart(s)
      /\ SameEvents(s) \/ (~HasEvent(s)' /\ s \notin schedules')
      /\ running'[s] = running[s] /\ loading' \subseteq loading
      /\ (s \in schedules' => s \in schedules) /\ (s \in mistaken => s \in mistaken')
  BY DEF SameRun
<1>2. PICK c \in {0, 1} :
        /\ \A k \in DOMAIN channel' : channel'[k].schedule = s =>
             k + c \in DOMAIN channel /\ channel[k + c] = channel'[k]
        /\ \A i \in DOMAIN channel : channel[i].schedule = s =>
             i - c \in DOMAIN channel' /\ channel'[i - c] = channel[i]
  BY DEF SameRun, SameMessages
<1>3. /\ HasMessage(s)' <=> HasMessage(s)
      /\ OneMessage(s) => OneMessage(s)'
      /\ Silent(s) => Silent(s)'
      /\ \A k \in DOMAIN channel' : channel'[k].schedule = s => (Tells(s, k)' <=> Tells(s, k + c))
  BY <1>2, SameMessagesFacts
<1>4. /\ JobsOf(s)' = JobsOf(s) /\ \A j \in JobsOf(s) : jobs'[j] = jobs[j]
  BY <1>1 DEF SameJobs
<1>5. /\ HasJob(s)' <=> HasJob(s)
      /\ OneJob(s) => OneJob(s)'
      /\ AllSettled(s)' <=> AllSettled(s)
      /\ \A j \in JobsOf(s) : (Settled(j)' <=> Settled(j)) /\ (WillReport(j)' <=> WillReport(j))
      /\ Distant(s) => Distant(s)'
      /\ \A time : Reached(s, time) => Reached(s, time)'
      /\ Awake(s)' = Awake(s)
  BY <1>1, SameJobsFacts
<1>6. /\ HasEvent(s)' => HasEvent(s)
      /\ s \in schedules' /\ HasEvent(s) => HasEvent(s)'
      /\ OneEvent(s) => OneEvent(s)'
      /\ EventFits(s) => EventFits(s)'
  <2>1. CASE SameEvents(s)
    BY <1>1, <2>1, SameEventsFacts
  <2>2. CASE ~HasEvent(s)' /\ s \notin schedules'
    BY <2>2 DEF HasEvent, OneEvent, EventFits
  <2> QED BY <1>1, <2>1, <2>2
<1>7. /\ Starting(s)' <=> Starting(s)
      /\ Starting(s) => task' = task /\ Len(jobs') = Len(jobs)
  BY <1>1 DEF SameStart
<1>8. DOMAIN channel \subseteq Nat /\ DOMAIN channel' \subseteq Nat
  <2>1. DOMAIN channel = 1 .. Len(channel) /\ DOMAIN channel' = 1 .. Len(channel')
        /\ Len(channel) \in Nat /\ Len(channel') \in Nat
    BY DEF TypeOK
  <2> QED BY <2>1
<1>9. AtMostOne(s)' /\ (s \in schedules' => AtLeastOne(s)')
  BY <1>1, <1>3, <1>5, <1>6, <1>7 DEF ScheduleInv, AtMostOne, AtLeastOne
<1>10. Distant(s)' /\ EventFits(s)'
  BY <1>5, <1>6 DEF ScheduleInv
<1>11. StartFits(s)'
  <2>1. StartFits(s)
    BY DEF ScheduleInv
  <2> QED BY <1>5, <1>7, <2>1 DEF StartFits
<1>12. ASSUME NEW k \in DOMAIN channel', channel'[k].schedule = s
       PROVE  /\ k + c \in DOMAIN channel /\ channel[k + c] = channel'[k]
              /\ channel'[k].job \in JobsOf(s)
  <2>1. k + c \in DOMAIN channel /\ channel[k + c] = channel'[k]
    BY <1>2, <1>12
  <2>2. channel'[k].job \in JobIds /\ channel'[k].schedule \in {None, jobs[channel'[k].job].schedule}
    BY <2>1, ChannelIs DEF MessagesFit
  <2>3. s # None
    BY SchedulerAssumption
  <2> QED BY <1>12, <2>1, <2>2, <2>3 DEF JobsOf
<1>13. ASSUME RegularFits(s) PROVE RegularFits(s)'
  <2>1. ASSUME NEW k \in DOMAIN channel', channel'[k].schedule = s
        PROVE  /\ channel'[k].state \in {"running", "completed"}
               /\ channel'[k].state = "running" =>
                    \A j \in JobsOf(s)' : jobs'[j].started <= channel'[k].time
               /\ channel'[k].state = "completed" => jobs'[channel'[k].job].task = "idle"
               /\ Starting(s)' /\ task'.at = "inserted" => channel'[k].job # Len(jobs')
    <3>1. k + c \in DOMAIN channel /\ channel[k + c] = channel'[k] /\ channel'[k].job \in JobsOf(s)
      BY <1>12, <2>1
    <3>2. /\ channel'[k].state \in {"running", "completed"}
          /\ channel'[k].state = "running" => \A j \in JobsOf(s) : jobs[j].started <= channel'[k].time
          /\ channel'[k].state = "completed" => jobs[channel'[k].job].task = "idle"
          /\ Starting(s) /\ task.at = "inserted" => channel'[k].job # Len(jobs)
      BY <1>13, <2>1, <3>1 DEF RegularFits
    <3> QED BY <1>4, <1>7, <3>1, <3>2
  <2>2. ASSUME NEW d \in loading', d.schedule = s
        PROVE  /\ ~HasJob(s)' /\ ~HasMessage(s)'
               /\ \A j \in JobsOf(s)' : d.latest # None /\ jobs'[j].started <= d.latest.started
    BY <1>1, <1>3, <1>4, <1>5, <1>13, <2>2 DEF RegularFits
  <2> QED BY <2>1, <2>2 DEF RegularFits
<1>14. ASSUME InstanceFits(s) PROVE InstanceFits(s)'
  <2>1. (\A j \in Awake(s) : j = running[s])'
    BY <1>1, <1>5, <1>14 DEF InstanceFits
  <2>2. (Starting(s) /\ task.at = "cancelling" => \A j \in Awake(s) : j = task.old)'
    BY <1>5, <1>7, <1>14 DEF InstanceFits
  <2>3. (Starting(s) /\ task.at # "cancelling" => Awake(s) = {})'
    BY <1>5, <1>7, <1>14 DEF InstanceFits
  <2>4. ASSUME NEW k \in DOMAIN channel', channel'[k].schedule = s, channel'[k].state = "running"
        PROVE  \A j \in Awake(s)' : j = channel'[k].job
    <3>1. k + c \in DOMAIN channel /\ channel[k + c] = channel'[k]
      BY <1>12, <2>4
    <3> QED BY <1>5, <1>14, <2>4, <3>1 DEF InstanceFits
  <2> QED BY <2>1, <2>2, <2>3, <2>4 DEF InstanceFits
<1>15. ASSUME OtherFits(s) PROVE OtherFits(s)'
  <2>1. (HasEvent(s) => AllSettled(s) /\ Silent(s) /\ running[s] = None)'
    BY <1>1, <1>3, <1>5, <1>6, <1>15 DEF OtherFits
  <2>2. (Starting(s) => /\ Silent(s) /\ task.at # "cancelling"
                        /\ \A j \in JobsOf(s) : IF j = Len(jobs) /\ task.at = "inserted"
                                               THEN Inserted(s, j) ELSE Settled(j))'
    BY <1>3, <1>4, <1>5, <1>7, <1>15 DEF OtherFits, Inserted
  <2>3. (\A j \in JobsOf(s) :
           Settled(j) \/ (WillReport(j) /\ jobs[j].completed = None) \/ Inserted(s, j))'
    BY <1>4, <1>5, <1>7, <1>15 DEF OtherFits, Inserted
  <2>4. ASSUME NEW k \in DOMAIN channel', channel'[k].schedule = s
        PROVE  /\ Tells(s, k)' =>
                    /\ \A j \in JobsOf(s)' : Settled(j)' /\ jobs'[j].completed <= channel'[k].time
                    /\ \A l \in DOMAIN channel' : l > k => channel'[l].schedule # s
               /\ ~Tells(s, k)' => HasJob(s)' \/ \E l \in DOMAIN channel' : l > k /\ Tells(s, l)'
    <3>1. k + c \in DOMAIN channel /\ channel[k + c] = channel'[k] /\ channel[k + c].schedule = s
      BY <1>12, <2>4
    <3>2. CASE Tells(s, k)'
      <4>1. Tells(s, k + c)
        BY <1>3, <2>4, <3>2
      <4>2. /\ \A j \in JobsOf(s) : Settled(j) /\ jobs[j].completed <= channel'[k].time
            /\ \A l \in DOMAIN channel : l > k + c => channel[l].schedule # s
        BY <1>15, <3>1, <4>1 DEF OtherFits
      <4>3. ASSUME NEW l \in DOMAIN channel', l > k PROVE channel'[l].schedule # s
        <5>1. SUFFICES ASSUME channel'[l].schedule = s PROVE FALSE
          OBVIOUS
        <5>2. l + c \in DOMAIN channel /\ channel[l + c] = channel'[l]
          BY <1>12, <5>1
        <5>3. l + c > k + c
          BY <1>8, <4>3
        <5> QED BY <4>2, <5>1, <5>2, <5>3
      <4> QED BY <1>4, <1>5, <3>2, <4>2, <4>3
    <3>3. CASE ~Tells(s, k)'
      <4>1. ~Tells(s, k + c)
        BY <1>3, <2>4, <3>3
      <4>2. HasJob(s) \/ \E l \in DOMAIN channel : l > k + c /\ Tells(s, l)
        BY <1>15, <3>1, <4>1 DEF OtherFits
      <4>3. ASSUME NEW l \in DOMAIN channel, l > k + c, Tells(s, l)
            PROVE  \E m \in DOMAIN channel' : m > k /\ Tells(s, m)'
        <5>1. channel[l].schedule = s
          BY <4>3 DEF Tells
        <5>2. l - c \in DOMAIN channel' /\ channel'[l - c] = channel[l]
          BY <1>2, <5>1
        <5>3. (l - c) + c = l /\ l - c > k
          BY <1>8, <4>3
        <5>4. Tells(s, l - c)'
          BY <1>3, <4>3, <5>1, <5>2, <5>3
        <5> QED BY <5>2, <5>3, <5>4
      <4> QED BY <1>5, <3>3, <4>2, <4>3
    <3> QED BY <3>2, <3>3
  <2>5. (\A d \in loading : d.schedule = s /\ d.latest # None =>
           IF d.latest.state \in FinishedStates
           THEN /\ AllSettled(s) /\ Silent(s)
                /\ \A j \in JobsOf(s) : jobs[j].completed <= d.latest.completed
           ELSE HasJob(s) \/ HasMessage(s))'
    BY <1>1, <1>3, <1>4, <1>5, <1>15 DEF OtherFits
  <2> QED BY <2>1, <2>2, <2>3, <2>4, <2>5 DEF OtherFits
<1>16. Regular(s)' <=> Regular(s)
  BY DEF Regular
<1> QED BY <1>1, <1>9, <1>10, <1>11, <1>13, <1>14, <1>15, <1>16 DEF ScheduleInv

(* Where nothing of s happens.                                             *)
LEMMA ChannelSame ==
  ASSUME TypeOK, NEW s, channel' = channel
  PROVE  SameMessages(s)
<1>1. \A k \in DOMAIN channel : k + 0 = k /\ k - 0 = k
  BY ChannelIs
<1> QED BY <1>1 DEF SameMessages

LEMMA ChannelAppended ==
  ASSUME TypeOK, NEW s, NEW m, channel' = Append(channel, m)
  PROVE  /\ Len(channel) + 1 \in DOMAIN channel' /\ channel'[Len(channel) + 1] = m
         /\ \A k \in DOMAIN channel : /\ k \in DOMAIN channel' /\ channel'[k] = channel[k]
                                      /\ k < Len(channel) + 1 /\ (Tells(s, k)' <=> Tells(s, k))
         /\ \A k \in DOMAIN channel' : k \in DOMAIN channel \/ k = Len(channel) + 1
         /\ m.schedule # s => SameMessages(s)
<1>1. PICK n \in Nat : n = Len(channel)
  OBVIOUS
<1>2. /\ DOMAIN channel' = 1 .. (n + 1) /\ DOMAIN channel = 1 .. n
      /\ \A k \in 1 .. n : channel'[k] = channel[k]
      /\ channel'[n + 1] = m
      /\ \A k \in 1 .. n + 1 : k \in 1 .. n \/ k = n + 1
  BY <1>1, ChannelIs, AppendFacts
<1>3. \A k \in DOMAIN channel : k + 0 = k /\ k - 0 = k /\ k < n + 1 /\ k \in DOMAIN channel'
  BY <1>2
<1>4. \A k \in DOMAIN channel : Tells(s, k)' <=> Tells(s, k)
  BY <1>2 DEF Tells, NextDue, Regular
<1>5. m.schedule # s => SameMessages(s)
  BY <1>2, <1>3 DEF SameMessages
<1>6. n + 1 \in DOMAIN channel'
  BY <1>2
<1> QED BY <1>1, <1>2, <1>3, <1>4, <1>5, <1>6

LEMMA ChannelRead ==
  ASSUME TypeOK, NEW s, channel # <<>>, channel' = Tail(channel)
  PROVE  /\ 1 \in DOMAIN channel /\ Head(channel) = channel[1]
         /\ \A k \in DOMAIN channel' :
              /\ k \in Nat /\ k + 1 \in DOMAIN channel /\ k + 1 > 1 /\ channel'[k] = channel[k + 1]
              /\ Tells(s, k)' <=> Tells(s, k + 1)
         /\ \A i \in DOMAIN channel : i # 1 =>
              /\ i - 1 \in DOMAIN channel' /\ i - 1 + 1 = i
              /\ channel'[i - 1] = channel[i]
         /\ Head(channel).schedule # s => SameMessages(s)
<1>1. /\ DOMAIN channel = 1 .. Len(channel) /\ Len(channel) \in Nat
      /\ DOMAIN channel' = 1 .. (Len(channel) - 1)
      /\ 1 \in DOMAIN channel /\ Head(channel) = channel[1]
      /\ \A k \in DOMAIN channel' : k + 1 \in DOMAIN channel /\ channel'[k] = channel[k + 1]
  BY ChannelIs, TailFacts
<1>2. \A k \in DOMAIN channel' : k \in Nat /\ k + 1 > 1
  BY <1>1
<1>3. \A k \in DOMAIN channel' : Tells(s, k)' <=> Tells(s, k + 1)
  BY <1>1 DEF Tells, NextDue, Regular
<1>4. \A i \in DOMAIN channel : i # 1 => i - 1 \in DOMAIN channel' /\ i - 1 + 1 = i
  BY <1>1
<1>5. \A i \in DOMAIN channel : i # 1 => channel'[i - 1] = channel[i]
  BY <1>1, <1>4
<1>6. Head(channel).schedule # s => SameMessages(s)
  BY <1>1, <1>4, <1>5 DEF SameMessages
<1> QED BY <1>1, <1>2, <1>3, <1>4, <1>5, <1>6

LEMMA IdsSame ==
  ASSUME TypeOK, NEW j \in JobIds, OneChanges(j), NEW s
  PROVE  /\ JobIds' = JobIds /\ JobsOf(s)' = JobsOf(s) /\ JobsOf(s) \subseteq JobIds
         /\ \A i \in JobIds : jobs'[i].schedule = jobs[i].schedule /\ jobs'[i].started = jobs[i].started
         /\ \A i \in JobIds : i # j => jobs'[i] = jobs[i]
         /\ jobs[j].schedule = s => j \in JobsOf(s)
         /\ jobs[j].schedule # s => SameJobs(s)
<1>1. JobIds' = JobIds
  BY DEF OneChanges, JobIds
<1>2. \A i \in JobIds : jobs'[i].schedule = jobs[i].schedule /\ jobs'[i].started = jobs[i].started
  BY DEF OneChanges
<1>3. JobsOf(s)' = JobsOf(s) /\ JobsOf(s) \subseteq JobIds
  BY <1>1, <1>2 DEF JobsOf
<1>4. \A i \in JobIds : i # j => jobs'[i] = jobs[i]
  BY DEF OneChanges
<1>5. jobs[j].schedule = s => j \in JobsOf(s)
  BY DEF JobsOf
<1>6. jobs[j].schedule # s => SameJobs(s)
  BY <1>3, <1>4 DEF SameJobs, JobsOf
<1> QED BY <1>1, <1>2, <1>3, <1>4, <1>5, <1>6

LEMMA EventAdded ==
  ASSUME TypeOK, NEW s \in Schedules, NEW due \in Nat, AddEvent(s, due), Len(jobs') = Len(jobs)
  PROVE  \A t : (t # s => SameEvents(t)) /\ SameStart(t)
<1>1. /\ ItemsOf(events') = ItemsOf(events) \cup {[schedule |-> s, due |-> due]}
      /\ \A t : Once(events, t) /\ (t = s => \A x \in ItemsOf(events) : x.schedule # s)
                     => Once(events', t)
      /\ task' = IF task.at = "sleeping" THEN Looking ELSE task
  BY AddEventFacts
<1>2. \A t : t # s => SameEvents(t)
  BY <1>1 DEF SameEvents
<1>3. \A t : SameStart(t)
  BY <1>1 DEF SameStart, Starting, Looking
<1> QED BY <1>2, <1>3

(* What is the only cause of the next run.                                 *)
LEMMA OnlyJob ==
  ASSUME NEW s, AtMostOne(s), NEW j \in JobsOf(s), WillReport(j)
  PROVE  /\ ~HasEvent(s) /\ ~Starting(s) /\ ~HasMessage(s) /\ HasJob(s)
         /\ \A i \in JobsOf(s) : WillReport(i) => i = j
<1>1. HasJob(s)
  BY DEF HasJob
<1> QED BY <1>1 DEF AtMostOne, OneJob

LEMMA OnlyMessage ==
  ASSUME NEW s, AtMostOne(s), NEW k \in DOMAIN channel, Tells(s, k)
  PROVE  /\ ~HasEvent(s) /\ ~Starting(s) /\ ~HasJob(s) /\ HasMessage(s)
         /\ \A l \in DOMAIN channel : Tells(s, l) => l = k
<1>1. HasMessage(s)
  BY DEF HasMessage
<1> QED BY <1>1 DEF AtMostOne, OneMessage

LEMMA SendArrives ==
  ASSUME TypeOK, NEW s \in Schedules, NEW j \in JobIds, NEW state \in States,
         NEW upset \in SUBSET Schedules, Send(s, j, state, upset), s \notin disturbed'
  PROVE  channel' = Append(channel, [schedule |-> s, job |-> j, state |-> state, time |-> now])
<1>1. s # None /\ s \in Schedules \cup {None}
  BY SchedulerAssumption
<1>2. \/ channel' = Append(channel, [schedule |-> s, job |-> j, state |-> state, time |-> now])
      \/ channel' = channel /\ s \in disturbed' \cup {None}
  BY <1>1, SendFacts, Zenon
<1> QED BY <1>1, <1>2

LEMMA NowIs ==
  ASSUME TypeOK, NEW s \in Schedules
  PROVE  now \in Nat /\ now + Interval[s] \in Nat /\ now + Interval[s] # None
<1>1. now \in Nat
  BY SchedulerAssumption DEF TypeOK
<1> QED BY <1>1, IntervalsAre, SchedulerAssumption

LEMMA SameEventsWhen ==
  ASSUME NEW s, events' = events
  PROVE  SameEvents(s) /\ (HasEvent(s)' <=> HasEvent(s)) /\ (OneEvent(s) => OneEvent(s)')
  BY DEF SameEvents, HasEvent, OneEvent, Due

(* A job whose state, task and end may change keeps its beginning, which   *)
(* is what matters for a regular schedule.                                 *)
LEMMA RegularTimes ==
  ASSUME TypeOK, NEW s \in Schedules, Regular(s), JobsOf(s)' = JobsOf(s),
         \A j \in JobsOf(s) : jobs'[j].started = jobs[j].started,
         events' = events, task' = task
  PROVE  /\ Distant(s) => Distant(s)'
         /\ EventFits(s) => EventFits(s)'
         /\ StartFits(s) => StartFits(s)'
         /\ Starting(s)' <=> Starting(s)
<1>1. Regular(s)'
  BY DEF Regular
<1>2. \A j \in JobsOf(s) : Since(s, j)' = Since(s, j)
  BY <1>1 DEF Since
<1>3. \A time : Reached(s, time) => Reached(s, time)'
  BY <1>2 DEF Reached
<1>4. Distant(s) => Distant(s)'
  BY <1>2 DEF Distant
<1>5. EventFits(s) => EventFits(s)'
  BY <1>3 DEF EventFits, Due
<1>6. StartFits(s) => StartFits(s)'
  BY <1>3 DEF StartFits, Starting
<1>7. Starting(s)' <=> Starting(s)
  BY DEF Starting
<1> QED BY <1>4, <1>5, <1>6, <1>7

(* A job of a regular schedule begins to run, and a message tells it.      *)
LEMMA RegularRuns ==
  ASSUME Whole, Whole', NEW j \in JobIds, JobRuns(j), NEW s \in Schedules, s = jobs[j].schedule,
         Regular(s), s \notin disturbed', ScheduleInv(s)
  PROVE  ScheduleInv(s)'
<1> DEFINE m == [schedule |-> s, job |-> j, state |-> "running", time |-> now]
<1>0. PICK n : n = Len(channel) + 1
  OBVIOUS
<1>1. TypeOK /\ TypeOK' /\ JobsFit
  BY DEF Whole
<1>2. /\ OneChanges(j) /\ jobs'[j].task = "running" /\ jobs[j].task = "ready"
      /\ Send(s, j, "running", {})
  BY <1>1, JobRunsFacts
<1>3. /\ UNCHANGED <<now, loading, schedules, events, running, task, mistaken>>
  BY DEF JobRuns, memoryVars
<1>4. /\ JobIds' = JobIds /\ JobsOf(s)' = JobsOf(s) /\ JobsOf(s) \subseteq JobIds
      /\ \A i \in JobIds : jobs'[i].schedule = jobs[i].schedule /\ jobs'[i].started = jobs[i].started
      /\ \A i \in JobIds : i # j => jobs'[i] = jobs[i]
      /\ j \in JobsOf(s)
  BY <1>1, <1>2, IdsSame
<1>5. "running" \in States /\ {} \in SUBSET Schedules
  BY DEF States
<1>6. channel' = Append(channel, m)
  BY <1>1, <1>2, <1>5, SendArrives, Zenon
<1>7. /\ n \in DOMAIN channel' /\ channel'[n] = m
      /\ \A k \in DOMAIN channel : /\ k \in DOMAIN channel' /\ channel'[k] = channel[k]
                                   /\ (Tells(s, k)' <=> Tells(s, k))
      /\ \A k \in DOMAIN channel' : k \in DOMAIN channel \/ k = n
  BY <1>0, <1>1, <1>6, ChannelAppended
<1>8. AtMostOne(s) /\ Distant(s) /\ EventFits(s) /\ StartFits(s) /\ RegularFits(s)
      /\ (s \notin mistaken => InstanceFits(s))
  BY DEF ScheduleInv
<1>9. /\ ~HasEvent(s) /\ ~Starting(s) /\ ~HasMessage(s) /\ HasJob(s)
      /\ \A i \in JobsOf(s) : WillReport(i) => i = j
  <2>1. WillReport(j)
    BY <1>2 DEF WillReport
  <2> QED BY <1>4, <1>8, <2>1, OnlyJob
<1>10. Regular(s)'
  BY DEF Regular
<1>11. Distant(s)' /\ EventFits(s)' /\ StartFits(s)' /\ ~Starting(s)'
  BY <1>1, <1>3, <1>4, <1>8, <1>9, RegularTimes
<1>12. ~HasEvent(s)' /\ OneEvent(s)'
  BY <1>3, <1>8, <1>9, SameEventsWhen DEF AtMostOne
<1>13. \A i \in JobsOf(s) : ~WillReport(i)'
  <2>1. TAKE i \in JobsOf(s)
  <2>2. CASE i = j
    BY <1>2, <1>4, <2>2 DEF WillReport
  <2>3. CASE i # j
    BY <1>4, <1>9, <2>1, <2>3 DEF WillReport
  <2> QED BY <2>2, <2>3
<1>14. ~HasJob(s)' /\ OneJob(s)'
  BY <1>4, <1>13 DEF HasJob, OneJob
<1>15. Tells(s, n)'
  <2>1. now + Interval[s] # None
    BY <1>1, NowIs
  <2> QED BY <1>7, <2>1 DEF Tells, NextDue, Regular, FinishedStates
<1>16. \A k \in DOMAIN channel' : Tells(s, k)' => k = n
  BY <1>7, <1>9 DEF HasMessage
<1>17. HasMessage(s)' /\ OneMessage(s)'
  BY <1>7, <1>15, <1>16 DEF HasMessage, OneMessage
<1>18. AtMostOne(s)' /\ AtLeastOne(s)'
  BY <1>11, <1>12, <1>14, <1>17 DEF AtMostOne, AtLeastOne
<1>19. \A d \in loading' : d.schedule # s
  BY <1>3, <1>8, <1>9 DEF RegularFits
<1>20. ASSUME NEW k \in DOMAIN channel', channel'[k].schedule = s
       PROVE  /\ channel'[k].state \in {"running", "completed"}
              /\ channel'[k].state = "running" =>
                   \A i \in JobsOf(s) : jobs'[i].started <= channel'[k].time
              /\ channel'[k].state = "completed" => jobs'[channel'[k].job].task = "idle"
  <2>1. CASE k = n
    BY <1>1, <1>4, <1>7, <2>1 DEF JobsFit
  <2>2. CASE k \in DOMAIN channel
    <3>1. /\ channel'[k] = channel[k] /\ channel[k].job \in JobIds
      BY <1>1, <1>7, <2>2, ChannelIs
    <3>2. /\ channel[k].state \in {"running", "completed"}
          /\ channel[k].state = "running" => \A i \in JobsOf(s) : jobs[i].started <= channel[k].time
          /\ channel[k].state = "completed" => jobs[channel[k].job].task = "idle"
      BY <1>8, <1>20, <2>2, <3>1 DEF RegularFits
    <3>3. channel[k].state = "completed" => channel[k].job # j
      BY <1>2, <3>2
    <3> QED BY <1>4, <3>1, <3>2, <3>3
  <2> QED BY <1>7, <2>1, <2>2
<1>21. RegularFits(s)'
  BY <1>4, <1>11, <1>19, <1>20 DEF RegularFits
<1>22. ASSUME s \notin mistaken' PROVE InstanceFits(s)'
  <2>1. InstanceFits(s)
    BY <1>3, <1>8, <1>22
  <2>2. Awake(s)' \subseteq Awake(s) /\ j \in Awake(s)
    <3>1. j \in Awake(s)
      BY <1>2, <1>4 DEF Awake
    <3> QED BY <1>4, <3>1 DEF Awake
  <2>3. \A i \in Awake(s) : i = j /\ i = running[s]
    BY <2>1, <2>2 DEF InstanceFits
  <2>4. \A i \in Awake(s)' : i = running'[s]
    BY <1>3, <2>2, <2>3
  <2>5. ASSUME NEW k \in DOMAIN channel', channel'[k].schedule = s, channel'[k].state = "running"
        PROVE  \A i \in Awake(s)' : i = channel'[k].job
    BY <1>7, <2>1, <2>2, <2>3, <2>5 DEF InstanceFits
  <2> QED BY <1>11, <2>4, <2>5 DEF InstanceFits
<1> QED BY <1>10, <1>11, <1>18, <1>21, <1>22 DEF ScheduleInv

(* A job of a regular schedule ends, which makes no event.                 *)
LEMMA RegularEnds ==
  ASSUME Whole, Whole', NEW j \in JobIds, JobEnds(j), NEW s \in Schedules, s = jobs[j].schedule,
         Regular(s), s \notin disturbed', ScheduleInv(s)
  PROVE  ScheduleInv(s)'
<1> DEFINE m == [schedule |-> s, job |-> j, state |-> "completed", time |-> now]
<1>0. PICK n : n = Len(channel) + 1
  OBVIOUS
<1>1. TypeOK /\ TypeOK' /\ TaskFits
  BY DEF Whole
<1>2. /\ OneChanges(j) /\ jobs'[j].task = "idle" /\ jobs[j].task = "running"
      /\ Send(s, j, "completed", {})
  BY <1>1, JobEndsFacts
<1>3. /\ UNCHANGED <<now, loading, schedules, events, running, task, mistaken>>
  BY DEF JobEnds, memoryVars
<1>4. /\ JobIds' = JobIds /\ JobsOf(s)' = JobsOf(s) /\ JobsOf(s) \subseteq JobIds
      /\ \A i \in JobIds : jobs'[i].schedule = jobs[i].schedule /\ jobs'[i].started = jobs[i].started
      /\ \A i \in JobIds : i # j => jobs'[i] = jobs[i]
      /\ j \in JobsOf(s) /\ Len(jobs') = Len(jobs)
  BY <1>1, <1>2, IdsSame DEF OneChanges
<1>5. "completed" \in States /\ {} \in SUBSET Schedules
  BY DEF States
<1>6. channel' = Append(channel, m)
  BY <1>1, <1>2, <1>5, SendArrives, Zenon
<1>7. /\ n \in DOMAIN channel' /\ channel'[n] = m
      /\ \A k \in DOMAIN channel : /\ k \in DOMAIN channel' /\ channel'[k] = channel[k]
                                   /\ (Tells(s, k)' <=> Tells(s, k))
      /\ \A k \in DOMAIN channel' : k \in DOMAIN channel \/ k = n
  BY <1>0, <1>1, <1>6, ChannelAppended
<1>8. /\ AtMostOne(s) /\ Distant(s) /\ EventFits(s) /\ StartFits(s) /\ RegularFits(s)
      /\ (s \notin mistaken => InstanceFits(s)) /\ (s \in schedules => AtLeastOne(s))
  BY DEF ScheduleInv
<1>9. \A i \in JobsOf(s) : WillReport(i)' <=> WillReport(i)
  BY <1>2, <1>4 DEF WillReport, Regular
<1>10. Regular(s)'
  BY DEF Regular
<1>11. Distant(s)' /\ EventFits(s)' /\ StartFits(s)' /\ (Starting(s)' <=> Starting(s))
  BY <1>1, <1>3, <1>4, <1>8, RegularTimes
<1>12. (HasEvent(s)' <=> HasEvent(s)) /\ (OneEvent(s) => OneEvent(s)')
  BY <1>3, SameEventsWhen
<1>13. (HasJob(s)' <=> HasJob(s)) /\ (OneJob(s) => OneJob(s)')
  BY <1>4, <1>9 DEF HasJob, OneJob
<1>14. ~Tells(s, n)'
  BY <1>7 DEF Tells, NextDue, Regular, FinishedStates
<1>15. \A k \in DOMAIN channel' : Tells(s, k)' => k \in DOMAIN channel /\ Tells(s, k)
  BY <1>7, <1>14
<1>16. (HasMessage(s)' <=> HasMessage(s)) /\ (OneMessage(s) => OneMessage(s)')
  BY <1>7, <1>15 DEF HasMessage, OneMessage
<1>17. AtMostOne(s)' /\ (s \in schedules' => AtLeastOne(s)')
  BY <1>3, <1>8, <1>11, <1>12, <1>13, <1>16 DEF AtMostOne, AtLeastOne
<1>18. ASSUME NEW d \in loading', d.schedule = s
       PROVE  /\ ~HasJob(s)' /\ ~HasMessage(s)'
              /\ \A i \in JobsOf(s)' : d.latest # None /\ jobs'[i].started <= d.latest.started
  BY <1>3, <1>4, <1>8, <1>13, <1>16, <1>18 DEF RegularFits
<1>19. ASSUME NEW k \in DOMAIN channel', channel'[k].schedule = s
       PROVE  /\ channel'[k].state \in {"running", "completed"}
              /\ channel'[k].state = "running" =>
                   \A i \in JobsOf(s) : jobs'[i].started <= channel'[k].time
              /\ channel'[k].state = "completed" => jobs'[channel'[k].job].task = "idle"
              /\ Starting(s)' /\ task'.at = "inserted" => channel'[k].job # Len(jobs')
  <2>1. CASE k = n
    <3>1. task.at = "inserted" => Len(jobs) # j
      BY <1>1, <1>2 DEF TaskFits
    <3> QED BY <1>2, <1>3, <1>4, <1>7, <2>1, <3>1
  <2>2. CASE k \in DOMAIN channel
    <3>1. /\ channel'[k] = channel[k] /\ channel[k].job \in JobIds
      BY <1>1, <1>7, <2>2, ChannelIs
    <3>2. /\ channel[k].state \in {"running", "completed"}
          /\ channel[k].state = "running" => \A i \in JobsOf(s) : jobs[i].started <= channel[k].time
          /\ channel[k].state = "completed" => jobs[channel[k].job].task = "idle"
          /\ Starting(s) /\ task.at = "inserted" => channel[k].job # Len(jobs)
      BY <1>8, <1>19, <2>2, <3>1 DEF RegularFits
    <3>3. jobs[channel[k].job].task = "idle" => jobs'[channel[k].job].task = "idle"
      BY <1>2, <1>4, <3>1
    <3> QED BY <1>3, <1>4, <1>11, <3>1, <3>2, <3>3
  <2> QED BY <1>7, <2>1, <2>2
<1>20. RegularFits(s)'
  BY <1>4, <1>18, <1>19 DEF RegularFits
<1>21. ASSUME s \notin mistaken' PROVE InstanceFits(s)'
  <2>1. InstanceFits(s)
    BY <1>3, <1>8, <1>21
  <2>2. Awake(s)' \subseteq Awake(s)
    BY <1>2, <1>4 DEF Awake
  <2>3. \A i \in Awake(s)' : i = running'[s]
    BY <1>3, <2>1, <2>2 DEF InstanceFits
  <2>4. Starting(s)' => IF task'.at = "cancelling" THEN \A i \in Awake(s)' : i = task'.old
                                                   ELSE Awake(s)' = {}
    BY <1>3, <1>11, <2>1, <2>2 DEF InstanceFits
  <2>5. ASSUME NEW k \in DOMAIN channel', channel'[k].schedule = s, channel'[k].state = "running"
        PROVE  \A i \in Awake(s)' : i = channel'[k].job
    BY <1>7, <2>1, <2>2, <2>5 DEF InstanceFits
  <2> QED BY <2>3, <2>4, <2>5 DEF InstanceFits
<1> QED BY <1>10, <1>11, <1>17, <1>20, <1>21 DEF ScheduleInv

(* A job of a regular schedule is cancelled: that is not told of s.        *)
LEMMA RegularCancelled ==
  ASSUME Whole, Whole', NEW j \in JobIds, NEW s \in Schedules, s = jobs[j].schedule,
         Regular(s), OneChanges(j), jobs'[j].state = "cancelled", jobs'[j].task = jobs[j].task,
         SameMessages(s), UNCHANGED <<loading, schedules, events, running, task, mistaken>>,
         ScheduleInv(s)
  PROVE  ScheduleInv(s)'
<1>1. TypeOK /\ TypeOK' /\ MessagesFit
  BY DEF Whole
<1>2. PICK c \in {0, 1} :
        /\ \A k \in DOMAIN channel' : channel'[k].schedule = s =>
             k + c \in DOMAIN channel /\ channel[k + c] = channel'[k]
        /\ \A i \in DOMAIN channel : channel[i].schedule = s =>
             i - c \in DOMAIN channel' /\ channel'[i - c] = channel[i]
  BY DEF SameMessages
<1>3. /\ HasMessage(s)' <=> HasMessage(s)
      /\ OneMessage(s) => OneMessage(s)'
  BY <1>1, <1>2, SameMessagesFacts
<1>4. /\ JobIds' = JobIds /\ JobsOf(s)' = JobsOf(s) /\ JobsOf(s) \subseteq JobIds
      /\ \A i \in JobIds : jobs'[i].schedule = jobs[i].schedule /\ jobs'[i].started = jobs[i].started
      /\ \A i \in JobIds : i # j => jobs'[i] = jobs[i]
      /\ \A i \in JobIds : jobs'[i].task = jobs[i].task
      /\ j \in JobsOf(s) /\ Len(jobs') = Len(jobs)
  BY <1>1, IdsSame DEF OneChanges
<1>5. /\ AtMostOne(s) /\ Distant(s) /\ EventFits(s) /\ StartFits(s) /\ RegularFits(s)
      /\ (s \notin mistaken => InstanceFits(s)) /\ (s \in schedules => AtLeastOne(s))
  BY DEF ScheduleInv
<1>6. \A i \in JobsOf(s) : WillReport(i)' <=> WillReport(i)
  <2>1. \A i \in JobsOf(s) : Regular(jobs[i].schedule) /\ Regular(jobs'[i].schedule)
    BY <1>4 DEF JobsOf
  <2> QED BY <1>4, <2>1 DEF WillReport, Regular
<1>7. Regular(s)'
  BY DEF Regular
<1>8. Distant(s)' /\ EventFits(s)' /\ StartFits(s)' /\ (Starting(s)' <=> Starting(s))
  BY <1>1, <1>4, <1>5, RegularTimes
<1>9. (HasEvent(s)' <=> HasEvent(s)) /\ (OneEvent(s) => OneEvent(s)')
  BY SameEventsWhen
<1>10. (HasJob(s)' <=> HasJob(s)) /\ (OneJob(s) => OneJob(s)')
  BY <1>4, <1>6 DEF HasJob, OneJob
<1>11. AtMostOne(s)' /\ (s \in schedules' => AtLeastOne(s)')
  BY <1>3, <1>5, <1>8, <1>9, <1>10 DEF AtMostOne, AtLeastOne
<1>12. ASSUME NEW d \in loading', d.schedule = s
       PROVE  /\ ~HasJob(s)' /\ ~HasMessage(s)'
              /\ \A i \in JobsOf(s)' : d.latest # None /\ jobs'[i].started <= d.latest.started
  BY <1>3, <1>4, <1>5, <1>10, <1>12 DEF RegularFits
<1>13. ASSUME NEW k \in DOMAIN channel', channel'[k].schedule = s
       PROVE  /\ channel'[k].state \in {"running", "completed"}
              /\ channel'[k].state = "running" =>
                   \A i \in JobsOf(s) : jobs'[i].started <= channel'[k].time
              /\ channel'[k].state = "completed" => jobs'[channel'[k].job].task = "idle"
              /\ Starting(s)' /\ task'.at = "inserted" => channel'[k].job # Len(jobs')
  <2>1. k + c \in DOMAIN channel /\ channel[k + c] = channel'[k] /\ channel[k + c].job \in JobIds
    BY <1>1, <1>2, <1>13, ChannelIs
  <2>2. /\ channel'[k].state \in {"running", "completed"}
        /\ channel'[k].state = "running" => \A i \in JobsOf(s) : jobs[i].started <= channel'[k].time
        /\ channel'[k].state = "completed" => jobs[channel'[k].job].task = "idle"
        /\ Starting(s) /\ task.at = "inserted" => channel'[k].job # Len(jobs)
    BY <1>5, <1>13, <2>1 DEF RegularFits
  <2> QED BY <1>4, <1>8, <2>1, <2>2
<1>14. RegularFits(s)'
  BY <1>4, <1>12, <1>13 DEF RegularFits
<1>15. ASSUME s \notin mistaken' PROVE InstanceFits(s)'
  <2>1. InstanceFits(s)
    BY <1>5, <1>15
  <2>2. Awake(s)' \subseteq Awake(s)
    BY <1>4 DEF Awake
  <2>3. \A i \in Awake(s)' : i = running'[s]
    BY <2>1, <2>2 DEF InstanceFits
  <2>4. Starting(s)' => IF task'.at = "cancelling" THEN \A i \in Awake(s)' : i = task'.old
                                                   ELSE Awake(s)' = {}
    BY <1>8, <2>1, <2>2 DEF InstanceFits
  <2>5. ASSUME NEW k \in DOMAIN channel', channel'[k].schedule = s, channel'[k].state = "running"
        PROVE  \A i \in Awake(s)' : i = channel'[k].job
    <3>1. k + c \in DOMAIN channel /\ channel[k + c] = channel'[k]
      BY <1>2, <2>5
    <3> QED BY <2>1, <2>2, <2>5, <3>1 DEF InstanceFits
  <2> QED BY <2>3, <2>4, <2>5 DEF InstanceFits
<1> QED BY <1>7, <1>8, <1>11, <1>14, <1>15 DEF ScheduleInv

(* Before the scheduler cancels a job of s there is no other cause than the *)
(* start, and thus no job that may begin to run.                           *)
LEMMA OldCancelled ==
  ASSUME Whole, Whole', CancelOld, NEW s \in Schedules, s = task.event.schedule, ScheduleInv(s)
  PROVE  ScheduleInv(s)'
<1>1. TypeOK /\ TypeOK' /\ MessagesFit /\ TaskFits
  BY DEF Whole
<1>2. PICK j \in JobIds : j = task.old
  BY <1>1, CancelOldFacts
<1>3. /\ OneChanges(j) /\ jobs'[j].state = "cancelled" /\ jobs'[j].task = jobs[j].task
      /\ UNCHANGED <<now, loading, schedules, events, running, mistaken>>
      /\ loading = {} /\ task.at = "cancelling"
      /\ task' = [task EXCEPT !.at = "creating", !.started = now]
  BY <1>1, <1>2, CancelOldFacts
<1>4. /\ task'.at = "creating" /\ task'.started = now /\ task'.event = task.event
      /\ task.started # None /\ task.started <= now /\ jobs[j].schedule = s
  BY <1>1, <1>2, <1>3, TypesAre DEF TaskFits, TaskSet
<1>5. Starting(s) /\ Starting(s)'
  BY <1>3, <1>4 DEF Starting
<1>6. /\ AtMostOne(s) /\ Distant(s) /\ EventFits(s) /\ StartFits(s)
      /\ (Regular(s) => RegularFits(s)) /\ (Regular(s) /\ s \notin mistaken => InstanceFits(s))
      /\ (~Regular(s) => OtherFits(s))
  BY DEF ScheduleInv
<1>7. Regular(s) /\ Regular(s)'
  BY <1>3, <1>5, <1>6 DEF OtherFits, Regular
<1>8. SameMessages(s)
  <2>1. s # None
    BY SchedulerAssumption
  <2>2. \/ channel' = channel
        \/ channel' = Append(channel, [schedule |-> None, job |-> task.old,
                                       state |-> "cancelled", time |-> now])
    BY <1>1, CancelOldFacts
  <2> QED BY <1>1, <2>1, <2>2, ChannelSame, ChannelAppended
<1>9. PICK c \in {0, 1} :
        /\ \A k \in DOMAIN channel' : channel'[k].schedule = s =>
             k + c \in DOMAIN channel /\ channel[k + c] = channel'[k]
        /\ \A i \in DOMAIN channel : channel[i].schedule = s =>
             i - c \in DOMAIN channel' /\ channel'[i - c] = channel[i]
  BY <1>8 DEF SameMessages
<1>10. /\ HasMessage(s)' <=> HasMessage(s)
       /\ OneMessage(s) => OneMessage(s)'
  BY <1>1, <1>9, SameMessagesFacts
<1>11. /\ JobIds' = JobIds /\ JobsOf(s)' = JobsOf(s) /\ JobsOf(s) \subseteq JobIds
       /\ \A i \in JobIds : jobs'[i].schedule = jobs[i].schedule /\ jobs'[i].started = jobs[i].started
       /\ \A i \in JobIds : i # j => jobs'[i] = jobs[i]
       /\ \A i \in JobIds : jobs'[i].task = jobs[i].task
       /\ Len(jobs') = Len(jobs)
  BY <1>1, <1>3, <1>4, IdsSame DEF OneChanges
<1>12. \A i \in JobsOf(s) : WillReport(i)' <=> WillReport(i)
  <2>1. \A i \in JobsOf(s) : Regular(jobs[i].schedule) /\ Regular(jobs'[i].schedule)
    BY <1>7, <1>11 DEF JobsOf
  <2> QED BY <1>11, <2>1 DEF WillReport, Regular
<1>13. (HasJob(s)' <=> HasJob(s)) /\ (OneJob(s) => OneJob(s)')
  BY <1>11, <1>12 DEF HasJob, OneJob
<1>14. (HasEvent(s)' <=> HasEvent(s)) /\ (OneEvent(s) => OneEvent(s)')
  BY <1>3, SameEventsWhen
<1>15. ~HasEvent(s) /\ ~HasJob(s) /\ ~HasMessage(s)
  BY <1>5, <1>6 DEF AtMostOne
<1>16. AtMostOne(s)' /\ AtLeastOne(s)'
  BY <1>5, <1>6, <1>10, <1>13, <1>14, <1>15 DEF AtMostOne, AtLeastOne
<1>17. \A i \in JobsOf(s) : Since(s, i)' = Since(s, i) /\ Since(s, i) \in Nat
  <2>1. \A i \in JobsOf(s) : jobs[i].started \in Nat
    BY <1>1, <1>11, RowsAre
  <2> QED BY <1>7, <1>11, <2>1 DEF Since
<1>18. Distant(s)' /\ EventFits(s)'
  <2>1. Distant(s)'
    BY <1>6, <1>11, <1>17 DEF Distant
  <2>2. EventFits(s)'
    BY <1>14, <1>15 DEF EventFits, HasEvent
  <2> QED BY <2>1, <2>2
<1>19. StartFits(s)'
  <2>1. Reached(s, task.started)
    BY <1>3, <1>5, <1>6 DEF StartFits
  <2>2. task.started \in Nat /\ now \in Nat /\ Interval[s] \in Nat
    BY <1>1, <1>4, TypesAre, NowIs, IntervalsAre, SchedulerAssumption DEF TaskSet
  <2>3. \A i \in JobsOf(s) : Since(s, i) # None /\ task.started >= Since(s, i) + Interval[s]
    BY <2>1 DEF Reached
  <2>4. \A i \in JobsOf(s) : Since(s, i) # None /\ now >= Since(s, i) + Interval[s]
    BY <1>4, <1>17, <2>2, <2>3
  <2>5. Reached(s, now)'
    BY <1>3, <1>11, <1>17, <2>4 DEF Reached
  <2> QED BY <1>3, <1>4, <2>5 DEF StartFits
<1>20. ASSUME NEW k \in DOMAIN channel', channel'[k].schedule = s
       PROVE  /\ channel'[k].state \in {"running", "completed"}
              /\ channel'[k].state = "running" =>
                   \A i \in JobsOf(s) : jobs'[i].started <= channel'[k].time
              /\ channel'[k].state = "completed" => jobs'[channel'[k].job].task = "idle"
  <2>1. k + c \in DOMAIN channel /\ channel[k + c] = channel'[k] /\ channel[k + c].job \in JobIds
    BY <1>1, <1>9, <1>20, ChannelIs
  <2>2. /\ channel'[k].state \in {"running", "completed"}
        /\ channel'[k].state = "running" => \A i \in JobsOf(s) : jobs[i].started <= channel'[k].time
        /\ channel'[k].state = "completed" => jobs[channel'[k].job].task = "idle"
    BY <1>6, <1>7, <1>20, <2>1 DEF RegularFits
  <2> QED BY <1>11, <2>1, <2>2
<1>21. RegularFits(s)'
  BY <1>3, <1>4, <1>11, <1>20 DEF RegularFits
<1>22. ASSUME s \notin mistaken' PROVE InstanceFits(s)'
  <2>1. \A i \in Awake(s) : i = j
    BY <1>2, <1>3, <1>5, <1>6, <1>7, <1>22 DEF InstanceFits
  <2>2. jobs[j].task # "ready"
    <3>1. jobs[j].task = "ready" => HasJob(s)
      BY <1>4, <1>7 DEF HasJob, JobsOf, WillReport
    <3> QED BY <1>15, <3>1
  <2>3. Awake(s)' \subseteq Awake(s) /\ j \notin Awake(s)'
    BY <1>3, <1>11, <2>2 DEF Awake
  <2>4. Awake(s)' = {}
    BY <2>1, <2>3
  <2> QED BY <1>4, <2>4 DEF InstanceFits
<1> QED BY <1>7, <1>16, <1>18, <1>19, <1>21, <1>22 DEF ScheduleInv

(* A job of the other kind begins to run, or is paused or resumed: that it *)
(* will end is still what brings the next run about.                       *)
LEMMA StillReports ==
  ASSUME Whole, Whole', NEW j \in JobIds, NEW s \in Schedules, s = jobs[j].schedule, ~Regular(s),
         OneChanges(j), jobs'[j].completed = jobs[j].completed, WillReport(j), WillReport(j)',
         UNCHANGED <<loading, schedules, events, running, task, mistaken>>,
         \/ channel' = channel
         \/ \E state \in States \ FinishedStates :
              channel' = Append(channel, [schedule |-> s, job |-> j, state |-> state, time |-> now]),
         ScheduleInv(s)
  PROVE  ScheduleInv(s)'
<1>1. TypeOK /\ TypeOK' /\ MessagesFit
  BY DEF Whole
<1>2. /\ JobIds' = JobIds /\ JobsOf(s)' = JobsOf(s) /\ JobsOf(s) \subseteq JobIds
      /\ \A i \in JobIds : jobs'[i].schedule = jobs[i].schedule /\ jobs'[i].started = jobs[i].started
      /\ \A i \in JobIds : i # j => jobs'[i] = jobs[i]
      /\ j \in JobsOf(s) /\ Len(jobs') = Len(jobs)
  BY <1>1, IdsSame DEF OneChanges
<1>3. \A i \in JobIds : jobs'[i].completed = jobs[i].completed
  BY <1>2
<1>4. AtMostOne(s) /\ Distant(s) /\ OtherFits(s)
  BY DEF ScheduleInv
<1>5. /\ ~HasEvent(s) /\ ~Starting(s) /\ ~HasMessage(s) /\ HasJob(s)
      /\ \A i \in JobsOf(s) : WillReport(i) => i = j
  BY <1>2, <1>4, OnlyJob
<1>6. ~HasEvent(s)' /\ OneEvent(s)' /\ ~Starting(s)'
  BY <1>4, <1>5, SameEventsWhen DEF AtMostOne, Starting
<1>7. \A i \in JobsOf(s) : WillReport(i)' => i = j
  BY <1>2, <1>5 DEF WillReport, Regular
<1>8. HasJob(s)' /\ OneJob(s)'
  BY <1>2, <1>7 DEF HasJob, OneJob
<1>9. \A k \in DOMAIN channel' : ~Tells(s, k)'
  <2>1. CASE channel' = channel
    BY <1>5, <2>1 DEF HasMessage, Tells, NextDue, Regular
  <2>2. ASSUME NEW state \in States \ FinishedStates,
               channel' = Append(channel, [schedule |-> s, job |-> j, state |-> state, time |-> now])
        PROVE  \A k \in DOMAIN channel' : ~Tells(s, k)'
    <3>1. PICK n : n = Len(channel) + 1
      OBVIOUS
    <3>2. PICK m : m = [schedule |-> s, job |-> j, state |-> state, time |-> now]
      OBVIOUS
    <3>3. /\ n \in DOMAIN channel' /\ channel'[n] = m
          /\ \A k \in DOMAIN channel : Tells(s, k)' <=> Tells(s, k)
          /\ \A k \in DOMAIN channel' : k \in DOMAIN channel \/ k = n
      BY <1>1, <2>2, <3>1, <3>2, ChannelAppended
    <3>4. m.schedule = s /\ m.state \notin FinishedStates
      BY <3>2
    <3>5. ~Tells(s, n)'
      BY <3>3, <3>4 DEF Tells, NextDue, Regular
    <3> QED BY <1>5, <3>3, <3>5 DEF HasMessage
  <2> QED BY <2>1, <2>2
<1>10. ~HasMessage(s)' /\ OneMessage(s)'
  BY <1>9 DEF HasMessage, OneMessage
<1>11. AtMostOne(s)' /\ AtLeastOne(s)'
  BY <1>6, <1>8, <1>10 DEF AtMostOne, AtLeastOne
<1>12. Distant(s)' /\ EventFits(s)' /\ StartFits(s)'
  <2>1. \A i \in JobsOf(s) : Since(s, i)' = Since(s, i)
    BY <1>2, <1>3 DEF Since, Regular
  <2>2. Distant(s)'
    BY <1>2, <1>4, <2>1 DEF Distant
  <2>3. EventFits(s)'
    BY <1>6 DEF EventFits, HasEvent
  <2>4. StartFits(s)'
    BY <1>6 DEF StartFits
  <2> QED BY <2>2, <2>3, <2>4
<1>13. ~Settled(j) /\ jobs[j].completed = None
  <2>1. ~Settled(j)
    BY DEF Settled, WillReport, FinishedStates
  <2>2. ~Inserted(s, j)
    BY <1>5 DEF Inserted
  <2> QED BY <1>2, <1>4, <2>1, <2>2 DEF OtherFits
<1>14. OtherFits(s)'
  <2>1. \A i \in JobsOf(s)' : Settled(i)' \/ (WillReport(i)' /\ jobs'[i].completed = None)
    <3>1. TAKE i \in JobsOf(s)'
    <3>2. CASE i = j
      BY <1>3, <1>13, <3>2
    <3>3. CASE i # j
      <4>1. ~WillReport(i) /\ ~Inserted(s, i) /\ i \in JobsOf(s)
        BY <1>2, <1>5, <3>1, <3>3 DEF Inserted
      <4>2. Settled(i)
        BY <1>4, <4>1 DEF OtherFits
      <4> QED BY <1>2, <3>3, <4>1, <4>2 DEF Settled
    <3> QED BY <3>2, <3>3
  <2>2. ASSUME NEW d \in loading', d.schedule = s, d.latest # None
        PROVE  d.latest.state \notin FinishedStates
    <3>1. ~AllSettled(s)
      BY <1>2, <1>13 DEF AllSettled
    <3> QED BY <1>4, <2>2, <3>1 DEF OtherFits
  <2> QED BY <1>6, <1>8, <1>9, <2>1, <2>2 DEF OtherFits
<1>15. ~Regular(s)'
  BY DEF Regular
<1> QED BY <1>11, <1>12, <1>14, <1>15 DEF ScheduleInv

(* A job of the other kind ends: the message of that is the only cause.    *)
LEMMA OtherEnds ==
  ASSUME Whole, Whole', NEW j \in JobIds, JobEnds(j), NEW s \in Schedules, s = jobs[j].schedule,
         ~Regular(s), s \notin disturbed', ScheduleInv(s)
  PROVE  ScheduleInv(s)'
<1> DEFINE m == [schedule |-> s, job |-> j, state |-> "completed", time |-> now]
<1>0. PICK n : n = Len(channel) + 1
  OBVIOUS
<1>1. TypeOK /\ TypeOK' /\ JobsFit'
  BY DEF Whole
<1>2. /\ OneChanges(j) /\ jobs'[j].task = "idle" /\ jobs[j].task = "running"
      /\ jobs'[j].state = "completed" /\ jobs'[j].completed = now
      /\ Send(s, j, "completed", {})
  BY <1>1, JobEndsFacts
<1>3. /\ UNCHANGED <<now, loading, schedules, events, running, task, mistaken>>
  BY DEF JobEnds, memoryVars
<1>4. /\ JobIds' = JobIds /\ JobsOf(s)' = JobsOf(s) /\ JobsOf(s) \subseteq JobIds
      /\ \A i \in JobIds : jobs'[i].schedule = jobs[i].schedule /\ jobs'[i].started = jobs[i].started
      /\ \A i \in JobIds : i # j => jobs'[i] = jobs[i]
      /\ j \in JobsOf(s) /\ Len(jobs') = Len(jobs)
  BY <1>1, <1>2, IdsSame DEF OneChanges
<1>5. "completed" \in States /\ {} \in SUBSET Schedules
  BY DEF States
<1>6. channel' = Append(channel, m)
  BY <1>1, <1>2, <1>5, SendArrives, Zenon
<1>7. /\ n \in DOMAIN channel' /\ channel'[n] = m
      /\ \A k \in DOMAIN channel : /\ k \in DOMAIN channel' /\ channel'[k] = channel[k] /\ k < n
                                   /\ (Tells(s, k)' <=> Tells(s, k))
      /\ \A k \in DOMAIN channel' : k \in DOMAIN channel \/ k = n
  BY <1>0, <1>1, <1>6, ChannelAppended
<1>8. AtMostOne(s) /\ Distant(s) /\ OtherFits(s)
  BY DEF ScheduleInv
<1>9. /\ ~HasEvent(s) /\ ~Starting(s) /\ ~HasMessage(s) /\ HasJob(s)
      /\ \A i \in JobsOf(s) : WillReport(i) => i = j
  <2>1. WillReport(j)
    BY <1>2 DEF WillReport
  <2> QED BY <1>4, <1>8, <2>1, OnlyJob
<1>10. ~HasEvent(s)' /\ OneEvent(s)' /\ ~Starting(s)'
  BY <1>3, <1>8, <1>9, SameEventsWhen DEF AtMostOne, Starting
<1>11. now # None /\ now \in Nat
  BY <1>1, NowIs, SchedulerAssumption
<1>12. \A i \in JobsOf(s) : /\ Settled(i)' /\ ~WillReport(i)'
                            /\ (i # j => Settled(i) /\ jobs'[i] = jobs[i])
  <2>1. TAKE i \in JobsOf(s)
  <2>2. CASE i = j
    BY <1>2, <1>4, <1>11, <2>2 DEF Settled, WillReport, FinishedStates, Regular
  <2>3. CASE i # j
    <3>1. Settled(i)
      BY <1>8, <1>9, <2>1, <2>3 DEF OtherFits, Inserted
    <3>2. jobs'[i] = jobs[i] /\ ~WillReport(i)
      BY <1>4, <1>9, <2>1, <2>3
    <3> QED BY <2>3, <3>1, <3>2 DEF Settled, WillReport, Regular
  <2> QED BY <2>2, <2>3
<1>13. ~HasJob(s)' /\ OneJob(s)'
  BY <1>4, <1>12 DEF HasJob, OneJob
<1>14. Tells(s, n)'
  <2>1. now + Interval[s] # None
    BY <1>1, NowIs
  <2> QED BY <1>7, <2>1 DEF Tells, NextDue, Regular, FinishedStates
<1>15. \A k \in DOMAIN channel' : Tells(s, k)' => k = n
  BY <1>7, <1>9 DEF HasMessage
<1>16. HasMessage(s)' /\ OneMessage(s)'
  BY <1>7, <1>14, <1>15 DEF HasMessage, OneMessage
<1>17. AtMostOne(s)' /\ AtLeastOne(s)'
  BY <1>10, <1>13, <1>16 DEF AtMostOne, AtLeastOne
<1>18. ~Settled(j) /\ jobs[j].completed = None
  <2>1. ~Settled(j) /\ ~Inserted(s, j)
    BY <1>2, <1>9 DEF Settled, Inserted
  <2> QED BY <1>4, <1>8, <2>1 DEF OtherFits
<1>19. Distant(s)'
  <2>1. SUFFICES ASSUME NEW i \in JobsOf(s), NEW k \in JobsOf(s), i < k
                 PROVE  Since(s, i)' # None /\ jobs'[k].started >= Since(s, i)' + Interval[s]
    BY <1>4 DEF Distant
  <2>2. Since(s, i) # None /\ jobs[k].started >= Since(s, i) + Interval[s]
    BY <1>8, <2>1 DEF Distant
  <2>3. i # j
    BY <1>18, <2>2 DEF Since
  <2>4. Since(s, i)' = Since(s, i) /\ jobs'[k].started = jobs[k].started
    BY <1>4, <2>3 DEF Since, Regular
  <2> QED BY <2>2, <2>4
<1>20. EventFits(s)' /\ StartFits(s)'
  BY <1>10 DEF EventFits, HasEvent, StartFits
<1>21. OtherFits(s)'
  <2>1. ASSUME NEW k \in DOMAIN channel', channel'[k].schedule = s
        PROVE  /\ Tells(s, k)' =>
                    /\ \A i \in JobsOf(s)' : Settled(i)' /\ jobs'[i].completed <= channel'[k].time
                    /\ \A l \in DOMAIN channel' : l > k => channel'[l].schedule # s
               /\ ~Tells(s, k)' => \E l \in DOMAIN channel' : l > k /\ Tells(s, l)'
    <3>1. CASE k = n
      <4>1. \A i \in JobsOf(s)' : Settled(i)' /\ jobs'[i].completed <= now
        <5>1. TAKE i \in JobsOf(s)'
        <5>2. Settled(i)' /\ i \in JobIds'
          BY <1>4, <1>12, <5>1
        <5> QED BY <1>1, <1>3, <5>2 DEF Settled, JobsFit
      <4>2. \A l \in DOMAIN channel' : ~(l > n)
        BY <1>0, <1>1, <1>7, ChannelIs
      <4> QED BY <1>7, <1>14, <3>1, <4>1, <4>2
    <3>2. CASE k # n
      BY <1>7, <1>14, <1>15, <3>2
    <3> QED BY <3>1, <3>2
  <2>2. ASSUME NEW d \in loading', d.schedule = s, d.latest # None
        PROVE  d.latest.state \notin FinishedStates
    <3>1. ~AllSettled(s)
      BY <1>4, <1>18 DEF AllSettled
    <3> QED BY <1>3, <1>8, <2>2, <3>1 DEF OtherFits
  <2> QED BY <1>4, <1>10, <1>12, <1>16, <2>1, <2>2 DEF OtherFits
<1>22. ~Regular(s)'
  BY DEF Regular
<1> QED BY <1>17, <1>19, <1>20, <1>21, <1>22 DEF ScheduleInv

(* The first event of the list is taken off: s is started.                 *)
LEMMA EventPopped ==
  ASSUME Whole, Whole', PopDue, NEW s \in Schedules, ScheduleInv(s)
  PROVE  ScheduleInv(s)'
<1>1. TypeOK /\ TypeOK' /\ MessagesFit
  BY DEF Whole
<1>2. PICK e \in Events :
        /\ events # <<>> /\ e = Head(events) /\ events' \in Seq(Events)
        /\ e.schedule \in Schedules /\ e.due \in Nat /\ e.due <= now
        /\ ItemsOf(events) = ItemsOf(events') \cup {e}
        /\ \A t : Once(events, t) => Once(events', t)
        /\ Once(events, e.schedule) => \A x \in ItemsOf(events') : x.schedule # e.schedule
        /\ loading = {} /\ task.at = "looking"
        /\ task' = [at |-> IF running[e.schedule] # None THEN "cancelling" ELSE "creating",
                    until |-> None, event |-> e, old |-> running[e.schedule], started |-> now]
        /\ UNCHANGED <<now, jobs, loading, schedules, running, channel, api, disturbed, mistaken>>
  BY <1>1, PopDueFacts
<1>3. /\ task'.event = e /\ task'.started = now /\ task'.old = running[e.schedule]
      /\ task'.at = IF running[e.schedule] # None THEN "cancelling" ELSE "creating"
      /\ Len(jobs') = Len(jobs)
  BY <1>2
<1>4. ~Starting(s) /\ SameMessages(s) /\ SameJobs(s)
  <2>1. SameMessages(s)
    BY <1>1, <1>2, ChannelSame
  <2>2. JobsOf(s)' = JobsOf(s)
    BY <1>2 DEF JobsOf, JobIds
  <2> QED BY <1>2, <2>1, <2>2 DEF Starting, SameJobs
<1>5. CASE s # e.schedule
  <2>1. SameEvents(s)
    BY <1>2, <1>5 DEF SameEvents
  <2>2. ~Starting(s)'
    BY <1>3, <1>5 DEF Starting
  <2>3. SameRun(s)
    BY <1>2, <1>4, <2>1, <2>2 DEF SameRun, SameStart
  <2> QED BY <1>1, <2>3, SameRunKeeps
<1>6. CASE s = e.schedule
  <2>1. /\ AtMostOne(s) /\ Distant(s) /\ EventFits(s)
        /\ (Regular(s) => RegularFits(s)) /\ (Regular(s) /\ s \notin mistaken => InstanceFits(s))
        /\ (~Regular(s) => OtherFits(s))
    BY DEF ScheduleInv
  <2>2. HasEvent(s) /\ Reached(s, e.due)
    BY <1>2, <1>6, <2>1, EventsAre
  <2>3. ~HasJob(s) /\ ~HasMessage(s)
    BY <2>1, <2>2 DEF AtMostOne
  <2>4. Starting(s)'
    BY <1>3, <1>6 DEF Starting
  <2>5. ~HasEvent(s)' /\ OneEvent(s)'
    <3>1. \A x \in ItemsOf(events') : x.schedule # s
      BY <1>2, <1>6, <2>1, EventsAre DEF AtMostOne
    <3>2. ~HasEvent(s)'
      BY <3>1, EventsAre DEF ItemsOf, HasEvent, Due
    <3> QED BY <3>2 DEF HasEvent, OneEvent
  <2>6. ~HasJob(s)' /\ OneJob(s)' /\ Distant(s)' /\ Awake(s)' = Awake(s)
        /\ (AllSettled(s)' <=> AllSettled(s))
        /\ \A time : Reached(s, time) => Reached(s, time)'
    BY <1>4, <2>1, <2>3, SameJobsFacts DEF AtMostOne
  <2>7. ~HasMessage(s)' /\ OneMessage(s)' /\ (Silent(s) => Silent(s)')
    BY <1>2, <2>1, <2>3 DEF AtMostOne, HasMessage, OneMessage, Silent, Tells, NextDue, Regular
  <2>8. AtMostOne(s)' /\ AtLeastOne(s)'
    BY <2>4, <2>5, <2>6, <2>7 DEF AtMostOne, AtLeastOne
  <2>9. EventFits(s)'
    BY <2>5 DEF EventFits, HasEvent
  <2>10. StartFits(s)'
    <3>1. \A j \in JobsOf(s) : Since(s, j) # None /\ e.due >= Since(s, j) + Interval[s]
      BY <2>2 DEF Reached
    <3>2. \A j \in JobsOf(s) : Since(s, j) \in Nat \cup {None}
      BY <1>1, RowsAre DEF Since, JobsOf
    <3>3. now \in Nat /\ e.due \in Nat /\ Interval[s] \in Nat
      BY <1>1, <1>2, NowIs, IntervalsAre
    <3>4. \A j \in JobsOf(s) : now >= Since(s, j) + Interval[s]
      BY <1>2, <3>1, <3>2, <3>3
    <3>5. Reached(s, now)
      BY <3>1, <3>4 DEF Reached
    <3>6. Reached(s, now)'
      BY <1>2, <2>6, <3>5 DEF Reached
    <3> QED BY <1>2, <1>3, <3>6 DEF StartFits
  <2>11. ASSUME Regular(s) PROVE RegularFits(s)'
    <3>1. JobsOf(s)' = JobsOf(s)
      BY <1>4 DEF SameJobs
    <3> QED BY <1>2, <1>3, <2>1, <2>11, <3>1 DEF RegularFits
  <2>12. ASSUME Regular(s), s \notin mistaken' PROVE InstanceFits(s)'
    <3>1. \A j \in Awake(s) : j = running[s]
      BY <1>2, <2>1, <2>12 DEF InstanceFits
    <3>2. running[s] = None => Awake(s) = {}
      <4>1. \A j \in Awake(s) : j \in Nat
        BY DEF Awake, JobsOf, JobIds
      <4> QED BY <3>1, <4>1, SchedulerAssumption
    <3>3. ASSUME NEW k \in DOMAIN channel', channel'[k].schedule = s, channel'[k].state = "running"
          PROVE  \A j \in Awake(s)' : j = channel'[k].job
      BY <1>2, <2>1, <2>6, <2>12, <3>3 DEF InstanceFits
    <3>4. (\A j \in Awake(s) : j = running[s])'
      BY <1>2, <2>6, <3>1
    <3>5. (Starting(s) /\ task.at = "cancelling" => \A j \in Awake(s) : j = task.old)'
      BY <1>3, <1>6, <2>6, <3>1
    <3>6. (Starting(s) /\ task.at # "cancelling" => Awake(s) = {})'
      BY <1>3, <1>6, <2>6, <3>2
    <3> QED BY <3>3, <3>4, <3>5, <3>6 DEF InstanceFits
  <2>13. ASSUME ~Regular(s) PROVE OtherFits(s)'
    <3>1. AllSettled(s) /\ Silent(s) /\ running[s] = None
      BY <2>1, <2>2, <2>13 DEF OtherFits
    <3>2. AllSettled(s)' /\ Silent(s)' /\ task'.at = "creating"
      BY <1>3, <1>6, <2>6, <2>7, <3>1
    <3> QED BY <1>2, <2>5, <3>2 DEF OtherFits, AllSettled, Silent
  <2>14. Regular(s)' <=> Regular(s)
    BY DEF Regular
  <2> QED BY <2>6, <2>8, <2>9, <2>10, <2>11, <2>12, <2>13, <2>14 DEF ScheduleInv
<1> QED BY <1>5, <1>6

(* The row of a new job is written, which has no task yet.                 *)
LEMMA RowWritten ==
  ASSUME Whole, Whole', CreateJob, NEW s \in Schedules, ScheduleInv(s)
  PROVE  ScheduleInv(s)'
<1>1. TypeOK /\ TypeOK' /\ MessagesFit /\ TaskFits
  BY DEF Whole
<1>2. /\ task.at = "creating" /\ task.event \in Events /\ loading = {}
      /\ task' = [task EXCEPT !.at = "inserted"]
      /\ UNCHANGED <<now, loading, schedules, events, running, channel, disturbed, mistaken>>
  BY <1>1, CreateJobFacts DEF CreateJob, At, memoryVars, historyVars
<1>3. task'.at = "inserted" /\ task'.event = task.event /\ task'.started = task.started
      /\ task.started \in 0 .. MaxTime
  BY <1>1, <1>2, TypesAre, CreateJobFacts DEF TaskSet
<1>4. PICK n \in Nat : n = Len(jobs) + 1
  BY <1>1 DEF TypeOK
<1>5. /\ jobs' \in Seq(Rows) /\ Len(jobs') = n
      /\ \A i \in JobIds : jobs'[i] = jobs[i]
      /\ jobs'[n] = [schedule |-> task.event.schedule, state |-> "pending",
                     started |-> task.started, completed |-> None, task |-> "idle"]
  BY <1>1, <1>4, CreateJobFacts
<1>6. JobIds = 1 .. (n - 1) /\ JobIds' = 1 .. n
  BY <1>1, <1>4, <1>5 DEF TypeOK, JobIds
<1>7. JobIds' = JobIds \cup {n} /\ n \notin JobIds /\ \A i \in JobIds : i < n /\ i # n
  BY <1>4, <1>6
<1>8. SameMessages(s) /\ SameEvents(s) /\ (HasEvent(s)' <=> HasEvent(s))
  BY <1>1, <1>2, ChannelSame, SameEventsWhen
<1>9. CASE s # task.event.schedule
  <2>1. JobsOf(s)' = JobsOf(s)
    BY <1>5, <1>7, <1>9 DEF JobsOf
  <2>2. SameJobs(s)
    BY <1>5, <2>1 DEF SameJobs, JobsOf
  <2>3. ~Starting(s) /\ ~Starting(s)'
    BY <1>3, <1>9 DEF Starting
  <2>4. SameRun(s)
    BY <1>2, <1>8, <2>2, <2>3 DEF SameRun, SameStart
  <2> QED BY <1>1, <2>4, SameRunKeeps
<1>10. CASE s = task.event.schedule
  <2>1. /\ AtMostOne(s) /\ Distant(s) /\ StartFits(s)
        /\ (Regular(s) => RegularFits(s)) /\ (Regular(s) /\ s \notin mistaken => InstanceFits(s))
        /\ (~Regular(s) => OtherFits(s))
    BY DEF ScheduleInv
  <2>2. Starting(s) /\ Starting(s)'
    BY <1>2, <1>3, <1>10 DEF Starting
  <2>3. ~HasEvent(s) /\ ~HasJob(s) /\ ~HasMessage(s)
    BY <2>1, <2>2 DEF AtMostOne
  <2>4. JobsOf(s)' = JobsOf(s) \cup {n} /\ JobsOf(s) \subseteq JobIds
    BY <1>5, <1>7, <1>10 DEF JobsOf
  <2>5. /\ jobs'[n].schedule = s /\ jobs'[n].state = "pending" /\ jobs'[n].started = task.started
        /\ jobs'[n].completed = None /\ jobs'[n].task = "idle"
    BY <1>5, <1>10
  <2>6. \A i \in JobsOf(s)' : ~WillReport(i)'
    <3>1. TAKE i \in JobsOf(s)'
    <3>2. CASE i = n
      BY <2>5, <3>2 DEF WillReport
    <3>3. CASE i \in JobsOf(s)
      <4>1. ~WillReport(i) /\ jobs'[i] = jobs[i]
        BY <1>5, <2>3, <2>4, <3>3 DEF HasJob
      <4> QED BY <4>1 DEF WillReport, Regular
    <3> QED BY <2>4, <3>2, <3>3
  <2>7. ~HasJob(s)' /\ OneJob(s)'
    BY <2>6 DEF HasJob, OneJob
  <2>8. ~HasEvent(s)' /\ OneEvent(s)' /\ EventFits(s)'
    BY <1>8, <2>3 DEF HasEvent, OneEvent, EventFits
  <2>9. ~HasMessage(s)' /\ OneMessage(s)' /\ (Silent(s) => Silent(s)')
    BY <1>2, <2>1, <2>3 DEF AtMostOne, HasMessage, OneMessage, Silent, Tells, NextDue, Regular
  <2>10. AtMostOne(s)' /\ AtLeastOne(s)'
    BY <2>2, <2>7, <2>8, <2>9 DEF AtMostOne, AtLeastOne
  <2>11. \A i \in JobsOf(s) : Since(s, i)' = Since(s, i)
    BY <1>5, <2>4 DEF Since, Regular
  <2>12. Distant(s)'
    <3>1. SUFFICES ASSUME NEW i \in JobsOf(s)', NEW k \in JobsOf(s)', i < k
                   PROVE  Since(s, i)' # None /\ jobs'[k].started >= Since(s, i)' + Interval[s]
      BY DEF Distant
    <3>2. i \in JobsOf(s)
      <4>1. k \in Nat /\ (k = n \/ k < n)
        BY <1>4, <1>6, <1>7, <2>4, <3>1
      <4>2. i # n
        BY <1>4, <3>1, <4>1
      <4> QED BY <2>4, <3>1, <4>2
    <3>3. CASE k = n
      <4>1. Since(s, i) # None /\ task.started >= Since(s, i) + Interval[s]
        BY <1>2, <2>1, <2>2, <3>2 DEF StartFits, Reached
      <4> QED BY <2>5, <2>11, <3>2, <3>3, <4>1
    <3>4. CASE k \in JobsOf(s)
      BY <1>5, <2>1, <2>4, <2>11, <3>1, <3>2, <3>4 DEF Distant
    <3> QED BY <2>4, <3>3, <3>4
  <2>13. StartFits(s)'
    BY <1>3 DEF StartFits
  <2>14. ASSUME NEW k \in DOMAIN channel', channel'[k].schedule = s
         PROVE  /\ k \in DOMAIN channel /\ channel'[k] = channel[k] /\ channel[k].job \in JobIds
                /\ ~Tells(s, k)
    BY <1>1, <1>2, <2>3, <2>14, ChannelIs DEF HasMessage
  <2>15. ASSUME Regular(s) PROVE RegularFits(s)'
    <3>1. ASSUME NEW k \in DOMAIN channel', channel'[k].schedule = s
          PROVE  /\ channel'[k].state = "completed"
                 /\ jobs'[channel'[k].job].task = "idle"
                 /\ channel'[k].job # Len(jobs')
      <4>1. k \in DOMAIN channel /\ channel'[k] = channel[k] /\ channel[k].job \in JobIds
            /\ ~Tells(s, k) /\ channel[k].time \in Nat
        BY <1>1, <2>14, <3>1, ChannelIs
      <4>2. /\ channel[k].state \in {"running", "completed"}
            /\ channel[k].state = "completed" => jobs[channel[k].job].task = "idle"
        BY <2>1, <2>15, <3>1, <4>1 DEF RegularFits
      <4>3. channel[k].state # "running"
        <5>1. channel[k].time + Interval[s] # None
          BY <4>1, IntervalsAre, SchedulerAssumption
        <5> QED BY <2>15, <3>1, <4>1, <5>1 DEF Tells, NextDue, FinishedStates
      <4> QED BY <1>5, <1>7, <4>1, <4>2, <4>3
    <3> QED BY <1>2, <3>1 DEF RegularFits
  <2>16. ASSUME Regular(s), s \notin mistaken' PROVE InstanceFits(s)'
    <3>1. Awake(s) = {}
      BY <1>2, <2>1, <2>2, <2>16 DEF InstanceFits
    <3>2. Awake(s)' = {}
      BY <1>5, <2>4, <2>5, <3>1 DEF Awake
    <3> QED BY <1>3, <3>2 DEF InstanceFits
  <2>17. ASSUME ~Regular(s) PROVE OtherFits(s)'
    <3>1. Silent(s) /\ \A i \in JobsOf(s) : Settled(i)
      BY <1>2, <2>1, <2>2, <2>17 DEF OtherFits
    <3>2. \A i \in JobsOf(s) : Settled(i)'
      BY <1>5, <2>4, <3>1 DEF Settled
    <3>3. Inserted(s, n)'
      BY <1>3, <1>5, <2>2, <2>5 DEF Inserted
    <3> QED BY <1>2, <1>3, <1>5, <1>7, <2>4, <2>8, <2>9, <3>1, <3>2, <3>3 DEF OtherFits, Silent
  <2>18. Regular(s)' <=> Regular(s)
    BY DEF Regular
  <2> QED BY <2>8, <2>10, <2>12, <2>13, <2>15, <2>16, <2>17, <2>18 DEF ScheduleInv
<1> QED BY <1>9, <1>10

(* The job gets its task, and is entered among the running jobs.           *)
LEMMA TaskCreated ==
  ASSUME Whole, Whole', JobCreated, NEW s \in Schedules, ScheduleInv(s)
  PROVE  ScheduleInv(s)'
<1>1. TypeOK /\ TypeOK' /\ MessagesFit /\ TaskFits
  BY DEF Whole
<1>2. PICK n \in JobIds : n = Len(jobs)
  BY <1>1, JobCreatedFacts
<1>3. /\ task.at = "inserted" /\ loading = {} /\ OneChanges(n) /\ jobs[n].schedule = task.event.schedule
      /\ running' = [running EXCEPT ![task.event.schedule] = n]
      /\ jobs'[n].state = jobs[n].state /\ jobs'[n].completed = jobs[n].completed
      /\ jobs'[n].task = "ready" /\ jobs[n].task = "idle"
      /\ task' = [task EXCEPT !.at = "counting"]
      /\ UNCHANGED <<now, loading, schedules, events, channel, disturbed, mistaken>>
  BY <1>1, <1>2, JobCreatedFacts DEF JobCreated, At, TaskFits, historyVars
<1>4. task'.at = "counting" /\ Len(jobs') = Len(jobs)
  BY <1>1, <1>3, TypesAre DEF TaskSet, OneChanges
<1>5. ~Starting(s)'
  BY <1>4 DEF Starting
<1>6. SameMessages(s) /\ SameEvents(s) /\ (HasEvent(s)' <=> HasEvent(s))
  BY <1>1, <1>3, ChannelSame, SameEventsWhen
<1>7. CASE s # task.event.schedule
  <2>1. SameJobs(s)
    BY <1>1, <1>3, <1>7, IdsSame
  <2>2. ~Starting(s)
    BY <1>7 DEF Starting
  <2>3. running'[s] = running[s]
    BY <1>1, <1>3, <1>7, TypesAre
  <2>4. SameRun(s)
    BY <1>3, <1>5, <1>6, <2>1, <2>2, <2>3 DEF SameRun, SameStart
  <2> QED BY <1>1, <2>4, SameRunKeeps
<1>8. CASE s = task.event.schedule
  <2>1. /\ AtMostOne(s) /\ Distant(s) /\ StartFits(s)
        /\ (Regular(s) => RegularFits(s)) /\ (Regular(s) /\ s \notin mistaken => InstanceFits(s))
        /\ (~Regular(s) => OtherFits(s))
    BY DEF ScheduleInv
  <2>2. Starting(s)
    BY <1>3, <1>8 DEF Starting
  <2>3. ~HasEvent(s) /\ ~HasJob(s) /\ ~HasMessage(s)
    BY <2>1, <2>2 DEF AtMostOne
  <2>4. /\ JobIds' = JobIds /\ JobsOf(s)' = JobsOf(s) /\ JobsOf(s) \subseteq JobIds
        /\ \A i \in JobIds : jobs'[i].schedule = jobs[i].schedule /\ jobs'[i].started = jobs[i].started
        /\ \A i \in JobIds : i # n => jobs'[i] = jobs[i]
        /\ n \in JobsOf(s)
    BY <1>1, <1>3, <1>8, IdsSame
  <2>5. \A i \in JobsOf(s) : WillReport(i)' <=> i = n
    <3>1. TAKE i \in JobsOf(s)
    <3>2. CASE i = n
      BY <1>3, <3>2 DEF WillReport
    <3>3. CASE i # n
      <4>1. ~WillReport(i) /\ jobs'[i] = jobs[i]
        BY <2>3, <2>4, <3>3 DEF HasJob
      <4> QED BY <3>3, <4>1 DEF WillReport, Regular
    <3> QED BY <3>2, <3>3
  <2>6. HasJob(s)' /\ OneJob(s)'
    BY <2>4, <2>5 DEF HasJob, OneJob
  <2>7. ~HasEvent(s)' /\ OneEvent(s)' /\ EventFits(s)'
    BY <1>6, <2>3 DEF HasEvent, OneEvent, EventFits
  <2>8. ~HasMessage(s)' /\ OneMessage(s)' /\ (Silent(s) => Silent(s)')
    BY <1>3, <2>1, <2>3 DEF AtMostOne, HasMessage, OneMessage, Silent, Tells, NextDue, Regular
  <2>9. AtMostOne(s)' /\ AtLeastOne(s)'
    BY <1>5, <2>6, <2>7, <2>8 DEF AtMostOne, AtLeastOne
  <2>10. \A i \in JobsOf(s) : Since(s, i)' = Since(s, i)
    <3>1. \A i \in JobsOf(s) : jobs'[i].completed = jobs[i].completed
      BY <1>3, <2>4
    <3> QED BY <2>4, <3>1 DEF Since, Regular
  <2>11. Distant(s)' /\ StartFits(s)'
    BY <1>5, <2>1, <2>4, <2>10 DEF Distant, StartFits
  <2>12. ASSUME Regular(s) PROVE RegularFits(s)'
    <3>1. ASSUME NEW k \in DOMAIN channel', channel'[k].schedule = s
          PROVE  /\ channel'[k].state \in {"running", "completed"}
                 /\ channel'[k].state = "running" =>
                      \A i \in JobsOf(s) : jobs'[i].started <= channel'[k].time
                 /\ channel'[k].state = "completed" => jobs'[channel'[k].job].task = "idle"
      <4>1. k \in DOMAIN channel /\ channel'[k] = channel[k] /\ channel[k].job \in JobIds
        BY <1>1, <1>3, <3>1, ChannelIs
      <4>2. /\ channel[k].state \in {"running", "completed"}
            /\ channel[k].state = "running" => \A i \in JobsOf(s) : jobs[i].started <= channel[k].time
            /\ channel[k].state = "completed" => jobs[channel[k].job].task = "idle"
            /\ channel[k].job # n
        BY <1>2, <1>3, <2>1, <2>2, <2>12, <3>1, <4>1 DEF RegularFits
      <4> QED BY <2>4, <4>1, <4>2
    <3> QED BY <1>3, <1>5, <2>4, <3>1 DEF RegularFits
  <2>13. ASSUME Regular(s), s \notin mistaken' PROVE InstanceFits(s)'
    <3>1. Awake(s) = {}
      BY <1>3, <2>1, <2>2, <2>13 DEF InstanceFits
    <3>2. \A i \in Awake(s)' : i = n
      BY <2>4, <3>1 DEF Awake
    <3>3. running'[s] = n
      BY <1>1, <1>3, <1>8, TypesAre
    <3>4. ASSUME NEW k \in DOMAIN channel', channel'[k].schedule = s, channel'[k].state = "running"
          PROVE  FALSE
      <4>1. channel[k].time + Interval[s] # None /\ k \in DOMAIN channel /\ channel'[k] = channel[k]
        BY <1>1, <1>3, <3>4, ChannelIs, IntervalsAre, SchedulerAssumption
      <4>2. Tells(s, k)
        BY <2>13, <3>4, <4>1 DEF Tells, NextDue, FinishedStates
      <4> QED BY <2>3, <4>1, <4>2 DEF HasMessage
    <3> QED BY <1>5, <3>2, <3>3, <3>4 DEF InstanceFits
  <2>14. ASSUME ~Regular(s) PROVE OtherFits(s)'
    <3>1. Silent(s) /\ Inserted(s, n) /\ \A i \in JobsOf(s) : i # n => Settled(i)
      BY <1>2, <1>3, <2>1, <2>2, <2>4, <2>14 DEF OtherFits
    <3>2. \A i \in JobsOf(s) : i # n => Settled(i)'
      BY <2>4, <3>1 DEF Settled
    <3>3. WillReport(n)' /\ jobs'[n].completed = None
      BY <1>3, <2>4, <2>5, <3>1 DEF Inserted
    <3> QED BY <1>3, <1>5, <2>4, <2>7, <2>8, <3>1, <3>2, <3>3 DEF OtherFits, Silent
  <2>15. Regular(s)' <=> Regular(s)
    BY DEF Regular
  <2> QED BY <2>7, <2>9, <2>11, <2>12, <2>13, <2>14, <2>15 DEF ScheduleInv
<1> QED BY <1>7, <1>8

(* An event for s comes when there is no other cause.                      *)
LEMMA EventComes ==
  ASSUME TypeOK, TypeOK', NEW s \in Schedules, NEW due \in Nat, AddEvent(s, due), SameJobs(s),
         AtMostOne(s), Distant(s), Reached(s, due),
         ~HasEvent(s), ~Starting(s), ~HasJob(s), ~HasMessage(s)'
  PROVE  /\ HasEvent(s)' /\ ~Starting(s)' /\ AtMostOne(s)' /\ AtLeastOne(s)'
         /\ Distant(s)' /\ EventFits(s)' /\ StartFits(s)'
<1>1. PICK x : x = [schedule |-> s, due |-> due]
  OBVIOUS
<1>2. /\ events' \in Seq(Events)
      /\ ItemsOf(events') = ItemsOf(events) \cup {x}
      /\ \A t : Once(events, t) /\ (t = s => \A y \in ItemsOf(events) : y.schedule # s)
                  => Once(events', t)
      /\ task' = IF task.at = "sleeping" THEN Looking ELSE task
  BY <1>1, AddEventFacts
<1>3. x.schedule = s /\ x.due = due
  BY <1>1
<1>4. \A y \in ItemsOf(events) : y.schedule # s
  BY EventsAre
<1>5. Once(events', s)
  BY <1>2, <1>4, EventsAre DEF AtMostOne
<1>6. OneEvent(s)'
  BY <1>5 DEF OneEvent, Once, Due
<1>7. HasEvent(s)'
  BY <1>2, <1>3 DEF HasEvent, Due, ItemsOf
<1>8. ~Starting(s)'
  BY <1>2 DEF Starting, Looking
<1>9. ~HasJob(s)' /\ OneJob(s)' /\ Distant(s)' /\ Reached(s, due)'
  BY SameJobsFacts DEF AtMostOne
<1>10. OneMessage(s)'
  BY DEF OneMessage, HasMessage
<1>11. AtMostOne(s)' /\ AtLeastOne(s)'
  BY <1>6, <1>7, <1>8, <1>9, <1>10 DEF AtMostOne, AtLeastOne
<1>12. EventFits(s)'
  <2>1. SUFFICES ASSUME NEW k \in DOMAIN events', events'[k].schedule = s
                 PROVE  (Reached(s, events[k].due))'
    BY DEF EventFits, Due
  <2>2. PICK y \in ItemsOf(events') : y = events'[k]
    BY <2>1 DEF ItemsOf
  <2>3. events'[k].due = due
    BY <1>2, <1>3, <1>4, <2>1, <2>2
  <2> QED BY <1>9, <2>3 DEF Reached
<1>13. StartFits(s)'
  BY <1>8 DEF StartFits
<1> QED BY <1>7, <1>8, <1>9, <1>11, <1>12, <1>13

(* A message of s is read.                                                 *)
LEMMA RegularRead ==
  ASSUME TypeOK, NEW s \in Schedules, RegularFits(s), loading' = {}, jobs' = jobs,
         channel # <<>>, channel' = Tail(channel),
         Starting(s)' => Starting(s) /\ task' = task
  PROVE  RegularFits(s)'
<1>1. \A k \in DOMAIN channel' : k + 1 \in DOMAIN channel /\ channel'[k] = channel[k + 1]
  BY ChannelRead
<1>2. JobsOf(s)' = JobsOf(s)
  BY DEF JobsOf, JobIds
<1>3. ASSUME NEW k \in DOMAIN channel', channel'[k].schedule = s
      PROVE  /\ channel'[k].state \in {"running", "completed"}
             /\ channel'[k].state = "running" => \A j \in JobsOf(s) : jobs[j].started <= channel'[k].time
             /\ channel'[k].state = "completed" => jobs[channel'[k].job].task = "idle"
             /\ Starting(s) /\ task.at = "inserted" => channel'[k].job # Len(jobs)
  BY <1>1, <1>3 DEF RegularFits
<1> QED BY <1>2, <1>3 DEF RegularFits

LEMMA OtherRead ==
  ASSUME TypeOK, NEW s \in Schedules, OtherFits(s), loading' = {}, jobs' = jobs, ~Starting(s),
         channel # <<>>, channel' = Tail(channel), ~Starting(s)',
         HasEvent(s)' => AllSettled(s) /\ Silent(s)' /\ running'[s] = None
  PROVE  OtherFits(s)'
<1>1. /\ \A k \in DOMAIN channel' :
           /\ k \in Nat /\ k + 1 \in DOMAIN channel /\ k + 1 > 1 /\ channel'[k] = channel[k + 1]
           /\ Tells(s, k)' <=> Tells(s, k + 1)
      /\ \A i \in DOMAIN channel : i # 1 =>
           i - 1 \in DOMAIN channel' /\ i - 1 + 1 = i /\ channel'[i - 1] = channel[i]
  BY ChannelRead
<1>2. DOMAIN channel \subseteq Nat
  BY ChannelIs
<1>3. JobsOf(s)' = JobsOf(s)
  BY DEF JobsOf, JobIds
<1>4. \A j \in JobsOf(s) : (Settled(j)' <=> Settled(j)) /\ (WillReport(j)' <=> WillReport(j))
  BY DEF Settled, WillReport, Regular
<1>5. (HasJob(s)' <=> HasJob(s)) /\ (AllSettled(s)' <=> AllSettled(s))
  BY <1>3, <1>4 DEF HasJob, AllSettled
<1>6. ASSUME NEW k \in DOMAIN channel', channel'[k].schedule = s
      PROVE  /\ Tells(s, k)' =>
                  /\ \A j \in JobsOf(s)' : Settled(j)' /\ jobs'[j].completed <= channel'[k].time
                  /\ \A l \in DOMAIN channel' : l > k => channel'[l].schedule # s
             /\ ~Tells(s, k)' => HasJob(s)' \/ \E l \in DOMAIN channel' : l > k /\ Tells(s, l)'
  <2>1. /\ k + 1 \in DOMAIN channel /\ channel[k + 1] = channel'[k] /\ k \in Nat
        /\ Tells(s, k)' <=> Tells(s, k + 1)
    BY <1>1
  <2>2. CASE Tells(s, k)'
    <3>1. /\ \A j \in JobsOf(s) : Settled(j) /\ jobs[j].completed <= channel'[k].time
          /\ \A l \in DOMAIN channel : l > k + 1 => channel[l].schedule # s
      BY <1>6, <2>1, <2>2 DEF OtherFits
    <3>2. \A l \in DOMAIN channel' : l > k => l + 1 > k + 1
      BY <1>1, <2>1
    <3> QED BY <1>1, <1>3, <1>4, <2>2, <3>1, <3>2
  <2>3. CASE ~Tells(s, k)'
    <3>1. HasJob(s) \/ \E l \in DOMAIN channel : l > k + 1 /\ Tells(s, l)
      BY <1>6, <2>1, <2>3 DEF OtherFits
    <3>2. ASSUME NEW l \in DOMAIN channel, l > k + 1, Tells(s, l)
          PROVE  \E i \in DOMAIN channel' : i > k /\ Tells(s, i)'
      <4>1. l # 1 /\ l - 1 > k
        BY <1>2, <2>1, <3>2
      <4>2. l - 1 \in DOMAIN channel' /\ Tells(s, l - 1)'
        BY <1>1, <3>2, <4>1
      <4> QED BY <4>1, <4>2
    <3> QED BY <1>5, <2>3, <3>1, <3>2
  <2> QED BY <2>2, <2>3
<1>7. \A j \in JobsOf(s)' : Settled(j)' \/ (WillReport(j)' /\ jobs'[j].completed = None)
  BY <1>3, <1>4 DEF OtherFits, Inserted
<1> QED BY <1>5, <1>6, <1>7 DEF OtherFits

(* A message of s is read that makes no event.                             *)
LEMMA NothingAdded ==
  ASSUME Whole, Whole', NEW s \in Schedules, ScheduleInv(s), loading = {},
         UNCHANGED <<jobs, events, task, schedules, loading>>,
         channel # <<>>, Head(channel).schedule = s, channel' = Tail(channel),
         s \notin schedules \/ ~Tells(s, 1), s \in mistaken => s \in mistaken',
         Regular(s) /\ s \notin mistaken' => \A j \in Awake(s) : j = running'[s]
  PROVE  ScheduleInv(s)'
<1>1. TypeOK /\ TypeOK'
  BY DEF Whole
<1>2. /\ AtMostOne(s) /\ (s \in schedules => AtLeastOne(s))
      /\ Distant(s) /\ EventFits(s) /\ StartFits(s)
      /\ (Regular(s) => RegularFits(s)) /\ (Regular(s) /\ s \notin mistaken => InstanceFits(s))
      /\ (~Regular(s) => OtherFits(s))
  BY DEF ScheduleInv
<1>3. /\ 1 \in DOMAIN channel /\ channel[1].schedule = s
      /\ \A k \in DOMAIN channel' :
           /\ k \in Nat /\ k + 1 \in DOMAIN channel /\ channel'[k] = channel[k + 1]
           /\ Tells(s, k)' <=> Tells(s, k + 1)
      /\ \A i \in DOMAIN channel : i # 1 =>
           i - 1 \in DOMAIN channel' /\ i - 1 + 1 = i
  BY <1>1, ChannelRead
<1>4. SameJobs(s) /\ (HasEvent(s)' <=> HasEvent(s)) /\ (OneEvent(s) => OneEvent(s)')
      /\ (Starting(s)' <=> Starting(s)) /\ SameEvents(s)
  BY SameEventsWhen DEF SameJobs, JobsOf, JobIds, Starting
<1>5. /\ (HasJob(s)' <=> HasJob(s)) /\ (OneJob(s) => OneJob(s)') /\ Awake(s)' = Awake(s)
      /\ (Distant(s) => Distant(s)') /\ \A time : Reached(s, time) => Reached(s, time)'
  BY <1>4, SameJobsFacts
<1>6. HasMessage(s)' => HasMessage(s)
  BY <1>3 DEF HasMessage
<1>7. OneMessage(s)'
  <2>1. SUFFICES ASSUME NEW k \in DOMAIN channel', NEW l \in DOMAIN channel',
                        Tells(s, k)', Tells(s, l)'
                 PROVE  k = l
    BY DEF OneMessage
  <2>2. k + 1 = l + 1 /\ k \in Nat /\ l \in Nat
    BY <1>2, <1>3, <2>1 DEF AtMostOne, OneMessage
  <2> QED BY <2>2
<1>8. s \in schedules /\ HasMessage(s) => HasMessage(s)'
  <2>1. SUFFICES ASSUME s \in schedules, NEW i \in DOMAIN channel, Tells(s, i)
                 PROVE  HasMessage(s)'
    BY DEF HasMessage
  <2>2. i # 1
    BY <2>1
  <2> QED BY <1>3, <2>1, <2>2 DEF HasMessage
<1>9. AtMostOne(s)' /\ (s \in schedules' => AtLeastOne(s)')
  BY <1>2, <1>4, <1>5, <1>6, <1>7, <1>8 DEF AtMostOne, AtLeastOne
<1>10. Distant(s)' /\ EventFits(s)' /\ StartFits(s)'
  <2>1. EventFits(s)'
    BY <1>2, <1>4, SameEventsFacts
  <2>2. StartFits(s)'
    BY <1>2, <1>4, <1>5 DEF StartFits
  <2> QED BY <1>2, <1>5, <2>1, <2>2
<1>11. ASSUME Regular(s) PROVE RegularFits(s)'
  BY <1>1, <1>2, <1>4, <1>11, RegularRead
<1>12. ASSUME Regular(s), s \notin mistaken' PROVE InstanceFits(s)'
  <2>1. InstanceFits(s)
    BY <1>2, <1>12
  <2>2. ASSUME NEW k \in DOMAIN channel', channel'[k].schedule = s, channel'[k].state = "running"
        PROVE  \A j \in Awake(s)' : j = channel'[k].job
    BY <1>3, <1>5, <2>1, <2>2 DEF InstanceFits
  <2>3. (\A j \in Awake(s) : j = running[s])'
    BY <1>5, <1>12
  <2>4. (Starting(s) /\ task.at = "cancelling" => \A j \in Awake(s) : j = task.old)'
    BY <1>4, <1>5, <2>1 DEF InstanceFits
  <2>5. (Starting(s) /\ task.at # "cancelling" => Awake(s) = {})'
    BY <1>4, <1>5, <2>1 DEF InstanceFits
  <2> QED BY <2>2, <2>3, <2>4, <2>5 DEF InstanceFits
<1>13. ASSUME ~Regular(s) PROVE OtherFits(s)'
  <2>1. OtherFits(s) /\ ~Silent(s)
    BY <1>2, <1>3, <1>13 DEF Silent
  <2>2. ~HasEvent(s) /\ ~Starting(s)
    BY <2>1 DEF OtherFits
  <2> QED BY <1>1, <1>4, <2>1, <2>2, OtherRead
<1>14. Regular(s)' <=> Regular(s)
  BY DEF Regular
<1> QED BY <1>9, <1>10, <1>11, <1>12, <1>13, <1>14 DEF ScheduleInv

(* The message that is read is the cause, and makes the event.             *)
LEMMA MessageMakesEvent ==
  ASSUME Whole, Whole', NEW s \in Schedules, ScheduleInv(s), loading = {},
         UNCHANGED <<jobs, schedules, loading>>,
         channel # <<>>, channel' = Tail(channel), Tells(s, 1),
         AddEvent(s, channel[1].time + Interval[s]), s \in mistaken => s \in mistaken',
         running'[s] = IF Regular(s) THEN channel[1].job ELSE None
  PROVE  ScheduleInv(s)'
<1>1. TypeOK /\ TypeOK'
  BY DEF Whole
<1>2. /\ AtMostOne(s) /\ Distant(s)
      /\ (Regular(s) => RegularFits(s)) /\ (Regular(s) /\ s \notin mistaken => InstanceFits(s))
      /\ (~Regular(s) => OtherFits(s))
  BY DEF ScheduleInv
<1>3. /\ 1 \in DOMAIN channel /\ channel[1].schedule = s
      /\ \A k \in DOMAIN channel' :
           /\ k \in Nat /\ k + 1 > 1 /\ k + 1 \in DOMAIN channel /\ channel'[k] = channel[k + 1]
           /\ Tells(s, k)' <=> Tells(s, k + 1)
  BY <1>1, ChannelRead DEF Tells
<1>4. PICK due \in Nat : due = channel[1].time + Interval[s]
  BY <1>1, <1>3, ChannelIs, IntervalsAre
<1>5. /\ ~HasEvent(s) /\ ~Starting(s) /\ ~HasJob(s)
      /\ \A l \in DOMAIN channel : Tells(s, l) => l = 1
  BY <1>2, <1>3, OnlyMessage
<1>6. ~HasMessage(s)'
  BY <1>3, <1>5 DEF HasMessage
<1>7. SameJobs(s)
  BY DEF SameJobs, JobsOf, JobIds
<1>8. Reached(s, due)
  <2>1. \A j \in JobsOf(s) : Since(s, j) # None /\ Since(s, j) <= channel[1].time
    <3>1. CASE Regular(s)
      <4>1. channel[1].state = "running"
        BY <1>2, <1>3, <3>1 DEF RegularFits, Tells, NextDue, FinishedStates
      <4>2. \A j \in JobsOf(s) : jobs[j].started \in Nat /\ jobs[j].started # None
        BY <1>1, RowsAre, SchedulerAssumption DEF JobsOf
      <4> QED BY <1>2, <1>3, <3>1, <4>1, <4>2 DEF RegularFits, Since
    <3>2. CASE ~Regular(s)
      BY <1>2, <1>3, <3>2 DEF OtherFits, Settled, Since
    <3> QED BY <3>1, <3>2
  <2>2. \A j \in JobsOf(s) : Since(s, j) \in Nat \cup {None}
    BY <1>1, RowsAre DEF Since, JobsOf
  <2>3. channel[1].time \in Nat /\ Interval[s] \in Nat
    BY <1>1, <1>3, ChannelIs, IntervalsAre
  <2> QED BY <1>4, <2>1, <2>2, <2>3 DEF Reached
<1>9. /\ HasEvent(s)' /\ ~Starting(s)' /\ AtMostOne(s)' /\ AtLeastOne(s)'
      /\ Distant(s)' /\ EventFits(s)' /\ StartFits(s)'
  BY <1>1, <1>2, <1>4, <1>5, <1>6, <1>7, <1>8, EventComes
<1>10. Awake(s)' = Awake(s)
  BY <1>7, SameJobsFacts
<1>11. ASSUME Regular(s) PROVE RegularFits(s)'
  BY <1>1, <1>2, <1>9, <1>11, RegularRead
<1>12. ASSUME Regular(s), s \notin mistaken' PROVE InstanceFits(s)'
  <2>1. InstanceFits(s) /\ channel[1].state = "running"
    BY <1>2, <1>3, <1>12 DEF RegularFits, Tells, NextDue, FinishedStates
  <2>2. (\A j \in Awake(s) : j = running[s])'
    BY <1>3, <1>10, <1>12, <2>1 DEF InstanceFits
  <2>3. ASSUME NEW k \in DOMAIN channel', channel'[k].schedule = s, channel'[k].state = "running"
        PROVE  \A j \in Awake(s)' : j = channel'[k].job
    BY <1>3, <1>10, <2>1, <2>3 DEF InstanceFits
  <2> QED BY <1>9, <2>2, <2>3 DEF InstanceFits
<1>13. ASSUME ~Regular(s) PROVE OtherFits(s)'
  <2>1. /\ OtherFits(s) /\ AllSettled(s)
        /\ \A l \in DOMAIN channel : l > 1 => channel[l].schedule # s
    BY <1>2, <1>3, <1>13 DEF OtherFits, AllSettled
  <2>2. Silent(s)'
    BY <1>3, <2>1 DEF Silent
  <2> QED BY <1>1, <1>5, <1>9, <1>13, <2>1, <2>2, OtherRead
<1>14. Regular(s)' <=> Regular(s)
  BY DEF Regular
<1> QED BY <1>9, <1>11, <1>12, <1>13, <1>14 DEF ScheduleInv

LEMMA MessageHeard ==
  ASSUME Whole, Whole', Listen, NEW s \in Schedules, ScheduleInv(s)
  PROVE  ScheduleInv(s)'
<1>1. TypeOK /\ TypeOK' /\ MessagesFit /\ TaskFits
  BY DEF Whole
<1>2. PICK e \in MessageSet(JobIds) :
        /\ ListensTo(e)
        /\ e.schedule \in schedules =>
             /\ e.schedule \in Schedules /\ NextDue(e) \in Nat \cup {None}
             /\ NextDue(e) # None => NextDue(e) = e.time + Interval[e.schedule]
  BY <1>1, ListenFacts
<1>3. /\ loading = {} /\ UNCHANGED <<jobs, loading, schedules, disturbed>>
  BY DEF Listen, databaseVars
<1>4. /\ channel # <<>> /\ e = Head(channel) /\ channel' = Tail(channel) /\ e = channel[1]
  BY <1>1, <1>2, ChannelRead DEF ListensTo
<1>5. SameJobs(s)
  BY <1>3 DEF SameJobs, JobsOf, JobIds
<1>6. /\ e.schedule \notin schedules =>
           running' = running /\ events' = events /\ task' = task /\ mistaken' = mistaken
      /\ e.schedule \in schedules =>
           /\ running' = [running EXCEPT ![e.schedule] =
                            IF e.state \in FinishedStates THEN None ELSE e.job]
           /\ mistaken' = IF e.state \in FinishedStates /\ running[e.schedule] \notin {None, e.job}
                          THEN mistaken \cup {e.schedule} ELSE mistaken
           /\ NextDue(e) = None => events' = events /\ task' = task
           /\ NextDue(e) # None => AddEvent(e.schedule, NextDue(e))
  BY <1>2 DEF ListensTo
<1>7. s \in mistaken => s \in mistaken'
  BY <1>6
<1>8. CASE e.schedule # s
  <2>1. SameMessages(s)
    BY <1>1, <1>4, <1>8, ChannelRead
  <2>2. running'[s] = running[s]
    BY <1>1, <1>6, <1>8, TypesAre
  <2>3. SameEvents(s) /\ SameStart(s)
    <3>1. CASE events' = events /\ task' = task
      BY <1>3, <3>1, SameEventsWhen DEF SameStart, Starting
    <3>2. CASE e.schedule \in schedules /\ NextDue(e) # None
      BY <1>1, <1>2, <1>3, <1>6, <1>8, <3>2, EventAdded
    <3> QED BY <1>6, <3>1, <3>2
  <2>4. SameRun(s)
    BY <1>3, <1>5, <1>7, <2>1, <2>2, <2>3 DEF SameRun
  <2> QED BY <1>1, <2>4, SameRunKeeps
<1>9. CASE e.schedule = s
  <2>1. Tells(s, 1) <=> NextDue(e) # None
    BY <1>4, <1>9 DEF Tells
  <2>2. CASE s \in schedules /\ NextDue(e) # None
    <3>1. e.state \in FinishedStates <=> ~Regular(s)
      BY <1>9, <2>2 DEF NextDue
    <3>2. running'[s] = IF Regular(s) THEN channel[1].job ELSE None
      BY <1>1, <1>4, <1>6, <1>9, <2>2, <3>1, TypesAre
    <3>3. AddEvent(s, channel[1].time + Interval[s])
      BY <1>2, <1>4, <1>6, <1>9, <2>2
    <3> QED BY <1>3, <1>4, <1>7, <2>1, <2>2, <3>2, <3>3, MessageMakesEvent
  <2>3. CASE s \notin schedules \/ NextDue(e) = None
    <3>1. events' = events /\ task' = task
      BY <1>6, <1>9, <2>3
    <3>2. ASSUME Regular(s), s \notin mistaken' PROVE \A j \in Awake(s) : j = running'[s]
      <4>1. \A j \in Awake(s) : j = running[s] /\ j \in Nat
        BY <1>7, <3>2 DEF ScheduleInv, InstanceFits, Awake, JobsOf, JobIds
      <4>2. CASE s \notin schedules
        BY <1>6, <1>9, <4>1, <4>2
      <4>3. CASE s \in schedules
        <5>1. NextDue(e) = None /\ e.time + Interval[s] # None
          BY <1>1, <1>4, <2>3, <4>3, ChannelIs, ChannelRead, IntervalsAre, SchedulerAssumption
        <5>2. e.state \in FinishedStates
          BY <1>9, <3>2, <5>1 DEF NextDue
        <5>3. jobs[e.job].task = "idle"
          <6>1. RegularFits(s) /\ 1 \in DOMAIN channel
            BY <1>1, <1>4, <3>2, ChannelRead DEF ScheduleInv
          <6> QED BY <1>4, <1>9, <5>2, <6>1 DEF RegularFits, FinishedStates
        <5>4. e.job \notin Awake(s)
          BY <5>3 DEF Awake
        <5>5. running[s] \in {None, e.job}
          BY <1>6, <1>9, <3>2, <4>3, <5>2
        <5> QED BY <4>1, <5>4, <5>5, SchedulerAssumption
      <4> QED BY <4>2, <4>3
    <3> QED BY <1>3, <1>4, <1>7, <1>9, <2>1, <2>3, <3>1, <3>2, NothingAdded
  <2> QED BY <2>2, <2>3
<1> QED BY <1>8, <1>9

(* A schedule without jobs has no messages either.                         *)
LEMMA NoJobs ==
  ASSUME Whole, NEW s \in Schedules, JobsOf(s) = {}
  PROVE  /\ Silent(s) /\ ~HasMessage(s) /\ ~HasJob(s) /\ AllSettled(s) /\ running[s] = None
         /\ \A time : Reached(s, time)
<1>1. TypeOK /\ MessagesFit /\ RunningFits
  BY DEF Whole
<1>2. \A k \in DOMAIN channel : channel[k].schedule # s
  <2>1. SUFFICES ASSUME NEW k \in DOMAIN channel, channel[k].schedule = s
                 PROVE  FALSE
    OBVIOUS
  <2>2. channel[k].job \in JobIds /\ s # None
    BY <1>1, ChannelIs, SchedulerAssumption
  <2>3. jobs[channel[k].job].schedule = s
    BY <1>1, <2>1, <2>2 DEF MessagesFit
  <2> QED BY <2>2, <2>3 DEF JobsOf
<1>3. running[s] = None
  BY <1>1, TypesAre DEF RunningFits, JobsOf
<1> QED BY <1>2, <1>3 DEF Silent, HasMessage, Tells, HasJob, AllSettled, Reached

(* The schedule is added to those in use.                                  *)
LEMMA ScheduleLoaded ==
  ASSUME Whole, Whole', NEW d \in loading, Load(d), NEW s \in Schedules, ScheduleInv(s)
  PROVE  ScheduleInv(s)'
<1>1. TypeOK /\ TypeOK' /\ MessagesFit /\ TaskFits /\ DocsFit /\ EventsInUse
  BY DEF Whole
<1>2. /\ d.schedule \in Schedules /\ d.schedule \notin schedules
      /\ loading' = loading \ {d} /\ schedules' = schedules \cup {d.schedule}
      /\ UNCHANGED <<now, jobs, running, channel, api, disturbed, mistaken>>
      /\ \/ FirstDue(d.schedule, d.latest) = None /\ events' = events /\ task' = task
         \/ /\ FirstDue(d.schedule, d.latest) \in Nat
            /\ AddEvent(d.schedule, FirstDue(d.schedule, d.latest))
  BY <1>1, LoadFacts
<1>3. /\ SameJobs(s) /\ SameMessages(s) /\ JobsOf(s)' = JobsOf(s) /\ Len(jobs') = Len(jobs)
  BY <1>1, <1>2, ChannelSame DEF SameJobs, JobsOf, JobIds
<1>4. CASE s # d.schedule
  <2>1. SameEvents(s) /\ SameStart(s)
    <3>1. CASE events' = events /\ task' = task
      BY <1>3, <3>1, SameEventsWhen DEF SameStart, Starting
    <3>2. CASE AddEvent(d.schedule, FirstDue(d.schedule, d.latest))
               /\ FirstDue(d.schedule, d.latest) \in Nat
      BY <1>1, <1>2, <1>3, <1>4, <3>2, EventAdded
    <3> QED BY <1>2, <3>1, <3>2
  <2>2. SameRun(s)
    BY <1>2, <1>3, <1>4, <2>1 DEF SameRun
  <2> QED BY <1>1, <2>2, SameRunKeeps
<1>5. CASE s = d.schedule
  <2>1. /\ AtMostOne(s) /\ Distant(s) /\ EventFits(s) /\ StartFits(s)
        /\ (Regular(s) => RegularFits(s)) /\ (Regular(s) /\ s \notin mistaken => InstanceFits(s))
        /\ (~Regular(s) => OtherFits(s))
    BY DEF ScheduleInv
  <2>2. ~HasEvent(s) /\ ~Starting(s) /\ running[s] = None
    BY <1>1, <1>2, <1>5 DEF EventsInUse, HasEvent, Due, TaskFits, Starting
  <2>3. \A c \in loading' : c.schedule # s
    BY <1>1, <1>2, <1>5 DEF DocsFit
  <2>4. /\ d.latest = None <=> JobsOf(s) = {}
        /\ d.latest \in Rows \cup {None}
        /\ d.latest # None => d.latest.started \in Nat
    <3>1. d.latest = None <=> JobsOf(s) = {}
      BY <1>1, <1>5 DEF DocsFit
    <3>2. d.latest \in Rows \cup {None}
      BY <1>1, FirstDueFacts
    <3> QED BY <3>1, <3>2 DEF Rows
  <2>5. /\ d.latest = None => FirstDue(s, d.latest) \in Nat
        /\ d.latest # None /\ Regular(s) => FirstDue(s, d.latest) = d.latest.started + Interval[s]
        /\ d.latest # None /\ ~Regular(s) =>
             IF d.latest.state \in FinishedStates
             THEN /\ d.latest.completed \in Nat
                  /\ FirstDue(s, d.latest) = d.latest.completed + Interval[s]
             ELSE FirstDue(s, d.latest) = None
    BY <1>1, <1>5, FirstDueFacts
  <2>6. Interval[s] \in Nat
    BY IntervalsAre
  <2>7. /\ (HasMessage(s)' <=> HasMessage(s)) /\ (Silent(s) => Silent(s)')
        /\ (OneMessage(s) => OneMessage(s)')
        /\ \A k \in DOMAIN channel : Tells(s, k)' <=> Tells(s, k)
    BY <1>2 DEF HasMessage, OneMessage, Silent, Tells, NextDue, Regular
  <2>8. /\ (HasJob(s)' <=> HasJob(s)) /\ (OneJob(s) => OneJob(s)') /\ Awake(s)' = Awake(s)
        /\ (AllSettled(s)' <=> AllSettled(s)) /\ (Distant(s) => Distant(s)')
        /\ \A j \in JobsOf(s) : (Settled(j)' <=> Settled(j)) /\ (WillReport(j)' <=> WillReport(j))
    BY <1>3, SameJobsFacts
  <2>9. (Regular(s)' <=> Regular(s)) /\ \A j \in JobsOf(s) : Since(s, j)' = Since(s, j)
    BY <1>2 DEF Regular, Since
  <2>10. \A j \in JobsOf(s) : Since(s, j) \in Nat \cup {None} /\ jobs[j].started \in Nat
    BY <1>1, RowsAre DEF Since, JobsOf
  <2>11. /\ (FirstDue(s, d.latest) # None => Reached(s, FirstDue(s, d.latest)) /\ ~HasJob(s) /\ ~HasMessage(s))
         /\ (FirstDue(s, d.latest) # None /\ ~Regular(s) => AllSettled(s) /\ Silent(s))
         /\ (FirstDue(s, d.latest) = None => ~Regular(s) /\ (HasJob(s) \/ HasMessage(s)))
    <3>1. CASE d.latest = None
      <4>1. /\ Silent(s) /\ ~HasMessage(s) /\ ~HasJob(s) /\ AllSettled(s)
            /\ \A time : Reached(s, time)
        BY <2>4, <3>1, NoJobs
      <4>2. FirstDue(s, d.latest) # None
        BY <2>5, <3>1, SchedulerAssumption
      <4> QED BY <4>1, <4>2
    <3>2. CASE d.latest # None /\ Regular(s)
      <4>1. /\ ~HasJob(s) /\ ~HasMessage(s)
            /\ \A j \in JobsOf(s) : jobs[j].started <= d.latest.started
        BY <1>5, <2>1, <3>2 DEF RegularFits
      <4>2. \A j \in JobsOf(s) : Since(s, j) = jobs[j].started /\ Since(s, j) # None
        BY <2>10, <3>2, SchedulerAssumption DEF Since
      <4>3. d.latest.started + Interval[s] # None /\ d.latest.started + Interval[s] \in Nat
        BY <2>4, <2>6, <3>2, SchedulerAssumption
      <4>4. \A j \in JobsOf(s) : d.latest.started + Interval[s] >= Since(s, j) + Interval[s]
        BY <2>4, <2>6, <2>10, <3>2, <4>1, <4>2
      <4>5. Reached(s, d.latest.started + Interval[s])
        BY <4>2, <4>4 DEF Reached
      <4> QED BY <2>5, <3>2, <4>1, <4>3, <4>5
    <3>3. CASE d.latest # None /\ ~Regular(s) /\ d.latest.state \in FinishedStates
      <4>1. /\ AllSettled(s) /\ Silent(s)
            /\ \A j \in JobsOf(s) : jobs[j].completed <= d.latest.completed
        BY <1>5, <2>1, <3>3 DEF OtherFits
      <4>2. \A j \in JobsOf(s) : Since(s, j) = jobs[j].completed /\ Since(s, j) # None
        BY <3>3, <4>1 DEF Since, AllSettled, Settled
      <4>3. d.latest.completed \in Nat /\ FirstDue(s, d.latest) = d.latest.completed + Interval[s]
        BY <2>5, <3>3
      <4>4. d.latest.completed + Interval[s] # None
        BY <2>6, <4>3, SchedulerAssumption
      <4>5. \A j \in JobsOf(s) : d.latest.completed + Interval[s] >= Since(s, j) + Interval[s]
        BY <2>6, <2>10, <4>1, <4>2, <4>3
      <4>6. Reached(s, d.latest.completed + Interval[s])
        BY <4>2, <4>5 DEF Reached
      <4>7. ~HasMessage(s) /\ ~HasJob(s)
        BY <3>3, <4>1 DEF HasMessage, Silent, Tells, HasJob, AllSettled, Settled, WillReport,
                          FinishedStates, JobsOf
      <4> QED BY <3>3, <4>1, <4>3, <4>4, <4>6, <4>7
    <3>4. CASE d.latest # None /\ ~Regular(s) /\ d.latest.state \notin FinishedStates
      BY <1>5, <2>1, <2>5, <3>4 DEF OtherFits
    <3> QED BY <3>1, <3>2, <3>3, <3>4
  <2>12. CASE FirstDue(s, d.latest) = None
    <3>1. events' = events /\ task' = task
      BY <1>2, <1>5, <2>12, SchedulerAssumption
    <3>2. ~HasEvent(s)' /\ OneEvent(s)' /\ EventFits(s)' /\ ~Starting(s)'
      BY <2>2, <3>1 DEF HasEvent, OneEvent, EventFits, Due, Starting
    <3>3. AtMostOne(s)' /\ AtLeastOne(s)' /\ StartFits(s)'
      BY <2>1, <2>7, <2>8, <2>11, <2>12, <3>2 DEF AtMostOne, AtLeastOne, StartFits
    <3>4. OtherFits(s)'
      <4>1. OtherFits(s)
        BY <2>1, <2>11, <2>12
      <4>2. \A j \in JobsOf(s)' : Settled(j)' \/ (WillReport(j)' /\ jobs'[j].completed = None)
        BY <1>2, <1>3, <2>2, <2>8, <4>1 DEF OtherFits, Inserted
      <4>3. ASSUME NEW k \in DOMAIN channel', channel'[k].schedule = s
            PROVE  /\ Tells(s, k)' =>
                        /\ \A j \in JobsOf(s)' : Settled(j)' /\ jobs'[j].completed <= channel'[k].time
                        /\ \A l \in DOMAIN channel' : l > k => channel'[l].schedule # s
                   /\ ~Tells(s, k)' => HasJob(s)' \/ \E l \in DOMAIN channel' : l > k /\ Tells(s, l)'
        BY <1>2, <1>3, <2>7, <2>8, <4>1, <4>3 DEF OtherFits
      <4> QED BY <2>3, <3>2, <4>2, <4>3 DEF OtherFits
    <3> QED BY <2>1, <2>8, <2>9, <2>11, <2>12, <3>2, <3>3, <3>4 DEF ScheduleInv
  <2>13. CASE FirstDue(s, d.latest) # None
    <3>1. PICK due \in Nat : due = FirstDue(s, d.latest) /\ AddEvent(s, due)
      BY <1>2, <1>5, <2>13
    <3>2. /\ HasEvent(s)' /\ ~Starting(s)' /\ AtMostOne(s)' /\ AtLeastOne(s)'
          /\ Distant(s)' /\ EventFits(s)' /\ StartFits(s)'
      BY <1>1, <1>3, <2>1, <2>2, <2>7, <2>11, <2>13, <3>1, EventComes
    <3>3. ASSUME Regular(s) PROVE RegularFits(s)'
      BY <1>2, <1>3, <2>1, <2>3, <3>2, <3>3 DEF RegularFits
    <3>4. ASSUME Regular(s), s \notin mistaken' PROVE InstanceFits(s)'
      BY <1>2, <2>1, <2>8, <3>2, <3>4 DEF InstanceFits
    <3>5. ASSUME ~Regular(s) PROVE OtherFits(s)'
      <4>1. AllSettled(s)' /\ Silent(s)' /\ running'[s] = None
        BY <1>2, <2>2, <2>7, <2>8, <2>11, <2>13, <3>5
      <4> QED BY <2>3, <3>2, <4>1 DEF OtherFits, AllSettled, Silent
    <3> QED BY <2>9, <3>2, <3>3, <3>4, <3>5 DEF ScheduleInv
  <2> QED BY <2>12, <2>13
<1> QED BY <1>4, <1>5

(* A client's schedule is added, which has no jobs.                        *)
LEMMA ScheduleAdded ==
  ASSUME Whole, Whole', AddSchedule, NEW s \in Schedules, s \notin disturbed', ScheduleInv(s)
  PROVE  ScheduleInv(s)'
<1>1. TypeOK /\ TypeOK' /\ MessagesFit /\ ApiFits /\ EventsInUse
  BY DEF Whole
<1>2. /\ api.schedule \in Schedules /\ now + First \in Nat
      /\ UNCHANGED <<now, jobs, loading, running, channel, mistaken>>
      /\ Began(api.schedule) => api.schedule \in disturbed'
      /\ \/ /\ api.schedule \in schedules
            /\ UNCHANGED <<schedules, events, task>>
         \/ /\ api.schedule \notin schedules /\ schedules' = schedules \cup {api.schedule}
            /\ Began(api.schedule) /\ UNCHANGED <<events, task>>
         \/ /\ api.schedule \notin schedules /\ schedules' = schedules \cup {api.schedule}
            /\ AddEvent(api.schedule, now + First)
  BY <1>1, AddScheduleFacts
<1>3. /\ SameJobs(s) /\ SameMessages(s) /\ JobsOf(s)' = JobsOf(s) /\ Len(jobs') = Len(jobs)
  BY <1>1, <1>2, ChannelSame DEF SameJobs, JobsOf, JobIds
<1>4. CASE s # api.schedule \/ s \in schedules
  <2>1. SameEvents(s) /\ SameStart(s)
    <3>1. CASE events' = events /\ task' = task
      BY <1>3, <3>1, SameEventsWhen DEF SameStart, Starting
    <3>2. CASE api.schedule \notin schedules /\ AddEvent(api.schedule, now + First)
      BY <1>1, <1>2, <1>3, <1>4, <3>2, EventAdded
    <3> QED BY <1>2, <3>1, <3>2
  <2>2. SameRun(s)
    BY <1>2, <1>3, <1>4, <2>1 DEF SameRun
  <2> QED BY <1>1, <2>2, SameRunKeeps
<1>5. CASE s = api.schedule /\ s \notin schedules
  <2>1. ~Began(s) /\ AddEvent(s, now + First)
    BY <1>2, <1>5
  <2>2. JobsOf(s) = {}
    BY <2>1 DEF Began
  <2>3. /\ Silent(s) /\ ~HasMessage(s) /\ ~HasJob(s) /\ AllSettled(s) /\ running[s] = None
        /\ Reached(s, now + First)
    BY <2>2, NoJobs
  <2>4. ~Starting(s)
    <3>1. task.at \in {"cancelling", "creating", "inserted"} => task.event # None
      BY DEF Whole, TaskFits
    <3> QED BY <2>1, <3>1 DEF Began, Starting
  <2>5. ~HasEvent(s)
    BY <1>1, <1>5 DEF EventsInUse, HasEvent, Due
  <2>6. /\ AtMostOne(s) /\ Distant(s)
        /\ (Regular(s) => RegularFits(s)) /\ (Regular(s) /\ s \notin mistaken => InstanceFits(s))
        /\ (~Regular(s) => OtherFits(s))
    BY DEF ScheduleInv
  <2>7. ~HasMessage(s)' /\ Silent(s)'
    BY <1>2, <2>3 DEF HasMessage, Silent, Tells, NextDue, Regular
  <2>8. AllSettled(s)' /\ Awake(s)' = Awake(s) /\ (HasJob(s)' <=> HasJob(s))
    BY <1>3, <2>3, SameJobsFacts
  <2>9. PICK due \in Nat : due = now + First
    BY <1>2
  <2>10. /\ HasEvent(s)' /\ ~Starting(s)' /\ AtMostOne(s)' /\ AtLeastOne(s)'
         /\ Distant(s)' /\ EventFits(s)' /\ StartFits(s)'
    BY <1>1, <1>3, <2>1, <2>3, <2>4, <2>5, <2>6, <2>7, <2>9, EventComes
  <2>11. ASSUME Regular(s) PROVE RegularFits(s)'
    BY <1>2, <1>3, <2>2, <2>3, <2>6, <2>7, <2>8, <2>11 DEF RegularFits, Silent
  <2>12. ASSUME Regular(s), s \notin mistaken' PROVE InstanceFits(s)'
    BY <1>2, <2>6, <2>8, <2>10, <2>12 DEF InstanceFits
  <2>13. ASSUME ~Regular(s) PROVE OtherFits(s)'
    <3>1. ASSUME NEW d \in loading', d.schedule = s PROVE d.latest = None
      BY <1>2, <2>2, <3>1 DEF Whole, DocsFit
    <3> QED BY <1>2, <1>3, <2>2, <2>3, <2>7, <2>8, <2>10, <3>1 DEF OtherFits, Silent
  <2>14. Regular(s)' <=> Regular(s)
    BY DEF Regular
  <2> QED BY <2>10, <2>11, <2>12, <2>13, <2>14 DEF ScheduleInv
<1> QED BY <1>4, <1>5

LEMMA ScheduleRemoved ==
  ASSUME Whole, Whole', NEW c, Removal(c), NEW s \in Schedules, ScheduleInv(s)
  PROVE  ScheduleInv(s)'
<1>1. TypeOK /\ TypeOK' /\ MessagesFit
  BY DEF Whole
<1>2. /\ schedules' = schedules \ {c}
      /\ ItemsOf(events') = {e \in ItemsOf(events) : e.schedule # c}
      /\ \A t : Once(events, t) => Once(events', t)
      /\ UNCHANGED <<now, jobs, loading, running, task, channel, disturbed, mistaken>>
  BY <1>1, RemovalFacts
<1>3. SameJobs(s) /\ SameMessages(s) /\ SameStart(s)
  BY <1>1, <1>2, ChannelSame DEF SameJobs, JobsOf, JobIds, SameStart, Starting
<1>4. SameEvents(s) \/ (~HasEvent(s)' /\ s \notin schedules')
  <2>1. CASE s # c
    BY <1>2, <2>1 DEF SameEvents
  <2>2. CASE s = c
    <3>1. \A x \in ItemsOf(events') : x.schedule # s
      BY <1>2, <2>2
    <3> QED BY <1>2, <2>2, <3>1 DEF HasEvent, Due, ItemsOf
  <2> QED BY <2>1, <2>2
<1>5. SameRun(s)
  BY <1>2, <1>3, <1>4 DEF SameRun
<1> QED BY <1>1, <1>5, SameRunKeeps

LEMMA QuietKeeps ==
  ASSUME Whole, Whole', Quiet, NEW s \in Schedules, ScheduleInv(s)
  PROVE  ScheduleInv(s)'
<1>1. TypeOK /\ TypeOK' /\ MessagesFit
  BY DEF Whole
<1>2. SameJobs(s) /\ SameMessages(s) /\ SameEvents(s)
  BY <1>1, ChannelSame, SameEventsWhen DEF Quiet, SameJobs, JobsOf, JobIds
<1>3. SameStart(s)
  BY DEF Quiet, SameStart, Starting
<1>4. SameRun(s)
  BY <1>2, <1>3 DEF SameRun, Quiet
<1> QED BY <1>1, <1>4, SameRunKeeps

(* A job runs, ends, is paused, resumed or cancelled.                      *)
LEMMA JobActionKeeps ==
  ASSUME Whole, Whole', NEW j \in JobIds, JobAction(j), NEW s \in Schedules, s \notin disturbed',
         ScheduleInv(s)
  PROVE  ScheduleInv(s)'
<1>1. TypeOK /\ TypeOK' /\ MessagesFit
  BY DEF Whole
<1>2. /\ OneChanges(j)
      /\ UNCHANGED <<now, loading, schedules, events, running, task, mistaken, api>>
      /\ \/ channel' = channel
         \/ \E r \in {None, jobs[j].schedule} : \E state \in States :
              channel' = Append(channel, [schedule |-> r, job |-> j, state |-> state, time |-> now])
  BY <1>1, JobActionFacts
<1>3. s # None /\ {s} \in SUBSET Schedules /\ {} \in SUBSET Schedules
  BY SchedulerAssumption
<1>4. CASE s # jobs[j].schedule
  <2>1. SameMessages(s)
    <3>1. CASE channel' = channel
      BY <1>1, <3>1, ChannelSame
    <3>2. ASSUME NEW r \in {None, jobs[j].schedule}, NEW state \in States,
                 channel' = Append(channel, [schedule |-> r, job |-> j, state |-> state,
                                             time |-> now])
          PROVE  SameMessages(s)
      <4>1. PICK m : m = [schedule |-> r, job |-> j, state |-> state, time |-> now]
        OBVIOUS
      <4>2. m.schedule # s /\ channel' = Append(channel, m)
        BY <1>3, <1>4, <3>2, <4>1
      <4> QED BY <1>1, <4>2, ChannelAppended
    <3> QED BY <1>2, <3>1, <3>2
  <2>2. SameJobs(s) /\ Len(jobs') = Len(jobs)
    BY <1>1, <1>2, <1>4, IdsSame DEF OneChanges
  <2>3. SameEvents(s) /\ SameStart(s)
    BY <1>2, <2>2, SameEventsWhen DEF SameStart, Starting
  <2>4. SameRun(s)
    BY <1>2, <2>1, <2>2, <2>3 DEF SameRun
  <2> QED BY <1>1, <2>4, SameRunKeeps
<1>5. CASE s = jobs[j].schedule /\ JobRuns(j)
  <2>1. CASE Regular(s)
    BY <1>5, <2>1, RegularRuns
  <2>2. CASE ~Regular(s)
    <3>1. /\ jobs'[j].task = "running" /\ jobs'[j].completed = jobs[j].completed
          /\ jobs[j].task = "ready" /\ Send(s, j, "running", {})
      BY <1>1, <1>5, JobRunsFacts
    <3>2. "running" \in States \ FinishedStates /\ "running" \in States
      BY DEF States, FinishedStates
    <3>3. channel' = Append(channel, [schedule |-> s, job |-> j, state |-> "running", time |-> now])
      BY <1>1, <1>3, <3>1, <3>2, SendArrives, Zenon
    <3>4. \E state \in States \ FinishedStates :
            channel' = Append(channel, [schedule |-> s, job |-> j, state |-> state, time |-> now])
      BY <3>2, <3>3
    <3>5. WillReport(j) /\ WillReport(j)'
      BY <1>2, <1>5, <2>2, <3>1 DEF WillReport, OneChanges, Regular
    <3> QED BY <1>2, <1>5, <2>2, <3>1, <3>4, <3>5, StillReports
  <2> QED BY <2>1, <2>2
<1>6. CASE s = jobs[j].schedule /\ JobEnds(j)
  BY <1>6, RegularEnds, OtherEnds
<1>7. CASE s = jobs[j].schedule /\ UserPauses(j)
  <2>1. /\ jobs'[j].state = "paused" /\ jobs'[j].completed = jobs[j].completed
        /\ jobs[j].task = "running"
        /\ Send(s, j, "paused", {s} \cap {t \in Schedules : Regular(t)})
    BY <1>1, <1>7, UserPausesFacts
  <2>2. PICK upset \in SUBSET Schedules : upset = {s} \cap {t \in Schedules : Regular(t)}
    BY <1>3
  <2>3. /\ Send(s, j, "paused", upset) /\ "paused" \in States
        /\ "paused" \in States \ FinishedStates /\ s \in Schedules \cup {None}
    BY <2>1, <2>2 DEF States, FinishedStates
  <2>4. upset \subseteq disturbed'
    <3>1. disturbed \cup upset \subseteq disturbed'
      BY <1>1, <2>3, SendFacts, Zenon
    <3> QED BY <3>1
  <2>5. ~Regular(s)
    BY <2>2, <2>4
  <2>6. channel' = Append(channel, [schedule |-> s, job |-> j, state |-> "paused", time |-> now])
    BY <1>1, <2>3, SendArrives, Zenon
  <2>7. \E state \in States \ FinishedStates :
          channel' = Append(channel, [schedule |-> s, job |-> j, state |-> state, time |-> now])
    BY <2>3, <2>6
  <2>8. WillReport(j) /\ WillReport(j)'
    BY <1>2, <1>7, <2>1, <2>5 DEF WillReport, OneChanges, Regular
  <2> QED BY <1>2, <1>7, <2>1, <2>5, <2>7, <2>8, StillReports
<1>8. CASE s = jobs[j].schedule /\ UserResumes(j)
  <2>1. /\ jobs'[j].task = "ready" /\ jobs'[j].completed = jobs[j].completed
        /\ jobs[j].state = "paused" /\ channel' = channel
        /\ Disturb({s} \cap {t \in Schedules : Regular(t)})
    BY <1>1, <1>8, UserResumesFacts DEF UserResumes
  <2>2. ~Regular(s)
    BY <2>1 DEF Disturb
  <2>3. WillReport(j) /\ WillReport(j)'
    BY <1>2, <1>8, <2>1, <2>2 DEF WillReport, OneChanges, Regular
  <2> QED BY <1>2, <1>8, <2>1, <2>2, <2>3, StillReports
<1>9. CASE s = jobs[j].schedule /\ UserCancels(j)
  <2>1. PICK upset \in SUBSET Schedules : upset = {s} \cap {t \in Schedules : ~Regular(t)}
    BY <1>3
  <2>2. Cancel(j, upset)
    BY <1>9, <2>1 DEF UserCancels
  <2>3. /\ jobs'[j].state = "cancelled" /\ jobs'[j].task = jobs[j].task
        /\ Send(None, j, "cancelled", upset)
    BY <1>1, <2>2, CancelFacts
  <2>4. "cancelled" \in States /\ None \in Schedules \cup {None}
    BY DEF States
  <2>5. /\ disturbed \cup upset \subseteq disturbed'
        /\ \/ channel' = Append(channel, [schedule |-> None, job |-> j, state |-> "cancelled",
                                          time |-> now])
           \/ channel' = channel /\ None \in disturbed' \cup {None}
    BY <1>1, <2>3, <2>4, SendFacts, Zenon
  <2>6. Regular(s)
    BY <2>1, <2>5
  <2>7. SameMessages(s)
    BY <1>1, <1>3, <2>5, ChannelSame, ChannelAppended
  <2> QED BY <1>2, <1>9, <2>3, <2>6, <2>7, RegularCancelled
<1> QED BY <1>4, <1>5, <1>6, <1>7, <1>8, <1>9 DEF JobAction

(* What the server finds in the table when it starts again.                *)
LEMMA StartedAgain ==
  ASSUME Whole, Whole', Restart, NEW s \in Schedules, s \notin disturbed', ScheduleInv(s)
  PROVE  ScheduleInv(s)'
<1>1. TypeOK /\ TypeOK' /\ JobsFit
  BY DEF Whole
<1>2. events' = <<>> /\ channel' = <<>>
  BY DEF Restart
<1>3. task'.at = "looking" /\ schedules' = {} /\ loading' = Documents /\ mistaken' = mistaken
  BY DEF Restart, Looking
<1>4. running'[s] = None
  BY DEF Restart
<1>5. /\ JobIds' = JobIds
      /\ \A j \in JobIds :
           /\ jobs'[j].schedule = jobs[j].schedule /\ jobs'[j].started = jobs[j].started
           /\ jobs'[j].completed = jobs[j].completed /\ jobs'[j].task = "idle"
           /\ jobs'[j].state = IF jobs[j].state = "running" THEN "paused" ELSE jobs[j].state
  BY <1>1, RestartFacts DEF JobIds
<1>6. JobsOf(s)' = JobsOf(s) /\ JobsOf(s) \subseteq JobIds
  BY <1>5 DEF JobsOf
<1>7. /\ AtMostOne(s) /\ Distant(s)
      /\ (~Regular(s) => OtherFits(s))
  BY DEF ScheduleInv
<1>8. (Regular(s)' <=> Regular(s)) /\ \A j \in JobsOf(s) : Since(s, j)' = Since(s, j)
  BY <1>5, <1>6 DEF Regular, Since
<1>9. ~HasEvent(s)' /\ OneEvent(s)' /\ EventFits(s)'
  BY <1>2 DEF HasEvent, OneEvent, EventFits
<1>10. ~HasMessage(s)' /\ OneMessage(s)' /\ Silent(s)' /\ DOMAIN channel' = {}
  BY <1>2 DEF HasMessage, OneMessage, Silent
<1>11. ~Starting(s)' /\ StartFits(s)'
  BY <1>3 DEF Starting, StartFits
<1>12. Distant(s)'
  BY <1>5, <1>6, <1>7, <1>8 DEF Distant
<1>13. \A d \in loading' : d.schedule = s => d.latest = Latest(s)
  BY <1>3 DEF Documents
<1>14. \A j \in JobsOf(s) : jobs[j].started \in Nat /\ jobs[j].completed \in Nat \cup {None}
  BY <1>1, <1>6, RowsAre
<1>15. Interval[s] \in Nat /\ Interval[s] >= 1
  BY IntervalsAre
<1>16. CASE Regular(s)
  <2>1. \A j \in JobsOf(s) : ~WillReport(j)'
    BY <1>5, <1>6, <1>16 DEF WillReport, JobsOf, Regular
  <2>2. ~HasJob(s)' /\ OneJob(s)'
    BY <1>6, <2>1 DEF HasJob, OneJob
  <2>3. AtMostOne(s)'
    BY <1>9, <1>10, <1>11, <2>2 DEF AtMostOne
  <2>4. ASSUME NEW d \in loading', d.schedule = s, NEW j \in JobsOf(s)
        PROVE  d.latest # None /\ jobs[j].started <= d.latest.started
    <3>1. PICK i \in JobsOf(s) : Latest(s) = jobs[i] /\ \A k \in JobsOf(s) : k <= i
      BY <1>1, <2>4, LatestIs
    <3>2. d.latest = jobs[i] /\ jobs[i] # None
      BY <1>1, <1>6, <1>13, <2>4, <3>1, RowsAre, SchedulerAssumption
    <3>3. j = i \/ j < i
      BY <1>6, <3>1 DEF JobIds
    <3>4. jobs[j].started <= jobs[i].started
      <4>1. CASE j = i
        BY <1>14, <4>1
      <4>2. CASE j < i
        <5>1. jobs[i].started >= jobs[j].started + Interval[s]
          BY <1>7, <1>16, <4>2 DEF Distant, Since
        <5> QED BY <1>14, <1>15, <5>1
      <4> QED BY <3>3, <4>1, <4>2
    <3> QED BY <3>2, <3>4
  <2>5. RegularFits(s)'
    BY <1>5, <1>6, <1>10, <2>2, <2>4 DEF RegularFits
  <2>6. Awake(s)' = {}
    BY <1>5, <1>6 DEF Awake
  <2>7. InstanceFits(s)'
    BY <1>10, <2>6 DEF InstanceFits
  <2> QED BY <1>3, <1>8, <1>9, <1>11, <1>12, <1>16, <2>3, <2>5, <2>7 DEF ScheduleInv
<1>17. CASE ~Regular(s)
  <2>1. \A j \in JobsOf(s) : jobs[j].state # "pending"
    BY <1>17 DEF Restart, Disturb
  <2>2. \A j \in JobsOf(s) : Settled(j) \/ (WillReport(j) /\ jobs[j].completed = None)
    BY <1>7, <1>17, <2>1 DEF OtherFits, Inserted
  <2>3. \A j \in JobsOf(s) : jobs[j].completed = None => jobs[j].state \notin FinishedStates
    BY <1>1, <1>6 DEF JobsFit
  <2>4. ASSUME NEW j \in JobsOf(s), ~Settled(j)
        PROVE  WillReport(j)' /\ WillReport(j) /\ jobs'[j].completed = None
    <3>1. WillReport(j) /\ jobs[j].completed = None /\ jobs[j].state \notin FinishedStates
      BY <2>2, <2>3, <2>4
    <3>2. jobs[j].state \in {"running", "paused"}
      BY <1>1, <1>6, <2>1, <3>1, RowsAre DEF States, FinishedStates
    <3>3. jobs'[j].state = "paused"
      BY <1>5, <1>6, <3>2
    <3> QED BY <1>5, <1>6, <1>17, <3>1, <3>3 DEF WillReport, JobsOf, Regular
  <2>5. ASSUME NEW j \in JobsOf(s), Settled(j) PROVE Settled(j)' /\ ~WillReport(j)'
    BY <1>5, <1>6, <1>17, <2>5 DEF Settled, WillReport, FinishedStates, JobsOf, Regular
  <2>6. OneJob(s)'
    BY <1>6, <1>7, <2>4, <2>5 DEF AtMostOne, OneJob
  <2>7. AtMostOne(s)'
    BY <1>9, <1>10, <1>11, <2>6 DEF AtMostOne
  <2>8. ASSUME NEW d \in loading', d.schedule = s, d.latest # None
        PROVE  IF d.latest.state \in FinishedStates
               THEN \A j \in JobsOf(s) : Settled(j) /\ jobs[j].completed <= d.latest.completed
               ELSE HasJob(s)'
    <3>1. JobsOf(s) # {}
      BY <1>1, <1>13, <2>8, LatestIs
    <3>2. PICK i \in JobsOf(s) : Latest(s) = jobs[i] /\ \A k \in JobsOf(s) : k <= i
      BY <1>1, <3>1, LatestIs
    <3>3. d.latest = jobs[i]
      BY <1>13, <2>8, <3>2
    <3>4. CASE d.latest.state \in FinishedStates
      <4>1. Settled(i)
        BY <2>2, <2>3, <3>3, <3>4
      <4>2. SUFFICES ASSUME NEW j \in JobsOf(s)
                     PROVE  Settled(j) /\ jobs[j].completed <= jobs[i].completed
        BY <3>3, <3>4
      <4>3. jobs[i].completed \in Nat
        BY <1>14, <4>1 DEF Settled
      <4>4. CASE j = i
        BY <4>1, <4>3, <4>4
      <4>5. CASE j < i
        <5>1. jobs[j].completed # None /\ jobs[i].started >= jobs[j].completed + Interval[s]
          BY <1>7, <1>17, <4>5 DEF Distant, Since
        <5>2. Settled(j)
          BY <2>2, <5>1
        <5>3. jobs[i].started <= jobs[i].completed
          BY <1>1, <1>6, <4>1 DEF JobsFit, Settled
        <5> QED BY <1>14, <1>15, <4>3, <5>1, <5>2, <5>3
      <4> QED BY <1>6, <3>2, <4>2, <4>4, <4>5 DEF JobIds
    <3>5. CASE d.latest.state \notin FinishedStates
      <4>1. ~Settled(i)
        BY <3>3, <3>5 DEF Settled
      <4> QED BY <1>6, <2>4, <3>5, <4>1 DEF HasJob
    <3> QED BY <3>4, <3>5
  <2>9. OtherFits(s)'
    <3>1. \A j \in JobsOf(s)' : Settled(j)' \/ (WillReport(j)' /\ jobs'[j].completed = None)
      BY <1>6, <2>4, <2>5
    <3>2. ASSUME NEW d \in loading', d.schedule = s, d.latest # None
          PROVE  IF d.latest.state \in FinishedStates
                 THEN /\ AllSettled(s)' /\ Silent(s)'
                      /\ \A j \in JobsOf(s)' : jobs'[j].completed <= d.latest.completed
                 ELSE HasJob(s)'
      BY <1>5, <1>6, <1>10, <2>5, <2>8, <3>2 DEF AllSettled
    <3> QED BY <1>9, <1>10, <1>11, <3>1, <3>2 DEF OtherFits
  <2> QED BY <1>3, <1>8, <1>9, <1>11, <1>12, <1>17, <2>7, <2>9 DEF ScheduleInv
<1> QED BY <1>16, <1>17

LEMMA OldCancelledElsewhere ==
  ASSUME Whole, Whole', CancelOld, NEW s \in Schedules, s # task.event.schedule, ScheduleInv(s)
  PROVE  ScheduleInv(s)'
<1>1. TypeOK /\ TypeOK' /\ MessagesFit /\ TaskFits
  BY DEF Whole
<1>2. PICK j \in JobIds : j = task.old
  BY <1>1, CancelOldFacts
<1>3. /\ OneChanges(j)
      /\ UNCHANGED <<now, loading, schedules, events, running, mistaken>>
      /\ task.at = "cancelling" /\ task' = [task EXCEPT !.at = "creating", !.started = now]
      /\ \/ channel' = channel
         \/ channel' = Append(channel, [schedule |-> None, job |-> task.old,
                                        state |-> "cancelled", time |-> now])
  BY <1>1, <1>2, CancelOldFacts
<1>4. jobs[j].schedule # s /\ ~Starting(s)
  BY <1>1, <1>2, <1>3 DEF TaskFits, Starting
<1>5. ~Starting(s)'
  BY <1>1, <1>3, TypesAre DEF Starting, TaskSet
<1>6. SameJobs(s) /\ SameEvents(s)
  BY <1>1, <1>3, <1>4, IdsSame, SameEventsWhen
<1>7. SameMessages(s)
  <2>1. s # None
    BY SchedulerAssumption
  <2> QED BY <1>1, <1>3, <2>1, ChannelSame, ChannelAppended
<1>8. SameRun(s)
  BY <1>3, <1>4, <1>5, <1>6, <1>7 DEF SameRun, SameStart
<1> QED BY <1>1, <1>8, SameRunKeeps

-----------------------------------------------------------------------------
(* The invariant holds *)

LEMMA InvStarts ==
  ASSUME Init
  PROVE  Inv
<1>1. Whole
  BY WholeStarts
<1>2. /\ jobs = <<>> /\ schedules = {} /\ events = <<>> /\ channel = <<>>
      /\ task.at = "looking" /\ \A d \in loading : d.latest = None
  BY DEF Init, Looking
<1>3. ASSUME NEW s \in Schedules PROVE ScheduleInv(s)
  <2>1. JobsOf(s) = {}
    BY <1>2 DEF JobsOf, JobIds
  <2>2. /\ Silent(s) /\ ~HasMessage(s) /\ ~HasJob(s) /\ AllSettled(s) /\ running[s] = None
    BY <1>1, <2>1, NoJobs
  <2>3. ~HasEvent(s) /\ OneEvent(s) /\ EventFits(s) /\ ~Starting(s) /\ StartFits(s)
    BY <1>2 DEF HasEvent, OneEvent, EventFits, Starting, StartFits
  <2>4. OneJob(s) /\ OneMessage(s) /\ Distant(s) /\ Awake(s) = {}
    BY <1>2, <2>1 DEF OneJob, OneMessage, Distant, Awake
  <2>5. AtMostOne(s)
    BY <2>2, <2>3, <2>4 DEF AtMostOne
  <2>6. RegularFits(s) /\ InstanceFits(s) /\ OtherFits(s)
    BY <1>2, <2>1, <2>2, <2>3, <2>4 DEF RegularFits, InstanceFits, OtherFits, Silent
  <2> QED BY <1>2, <2>3, <2>4, <2>5, <2>6 DEF ScheduleInv
<1> QED BY <1>1, <1>3 DEF Inv

LEMMA DisturbedGrows ==
  ASSUME Whole, [Next]_vars
  PROVE  disturbed \subseteq disturbed'
<1>1. TypeOK /\ TaskFits /\ ApiFits /\ DocsFit
  BY DEF Whole
<1>2. ASSUME NEW j \in JobIds, JobAction(j) PROVE disturbed \subseteq disturbed'
  BY <1>1, <1>2, JobActionFacts
<1>3. ASSUME NEW d \in loading, Load(d) PROVE disturbed \subseteq disturbed'
  BY <1>1, <1>3, LoadFacts
<1>4. CASE Quiet \/ Removal(api.schedule)
  BY <1>4 DEF Quiet, Removal
<1>5. CASE CancelOld
  BY <1>1, <1>5, CancelOldFacts
<1>6. CASE PopDue \/ CreateJob \/ JobCreated \/ Listen
  BY <1>6 DEF PopDue, CreateJob, JobCreated, Listen, historyVars
<1>7. CASE AddSchedule
  BY <1>1, <1>7, AddScheduleFacts
<1>8. CASE Restart
  BY <1>8 DEF Restart, Disturb
<1> QED BY <1>2, <1>3, <1>4, <1>5, <1>6, <1>7, <1>8, NextCases

LEMMA InvStep ==
  ASSUME Inv, [Next]_vars
  PROVE  Inv'
<1>1. Whole /\ Whole'
  BY WholeStep DEF Inv
<1>2. SUFFICES ASSUME NEW s \in Schedules, s \notin disturbed'
               PROVE  ScheduleInv(s)'
  BY <1>1 DEF Inv
<1>3. ScheduleInv(s)
  BY <1>1, <1>2, DisturbedGrows DEF Inv
<1>4. CASE Quiet
  BY <1>1, <1>3, <1>4, QuietKeeps
<1>5. ASSUME NEW j \in JobIds, JobAction(j) PROVE ScheduleInv(s)'
  BY <1>1, <1>2, <1>3, <1>5, JobActionKeeps
<1>6. CASE PopDue
  BY <1>1, <1>3, <1>6, EventPopped
<1>7. CASE CancelOld
  <2>1. CASE s = task.event.schedule
    BY <1>1, <1>3, <1>7, <2>1, OldCancelled
  <2>2. CASE s # task.event.schedule
    BY <1>1, <1>3, <1>7, <2>2, OldCancelledElsewhere
  <2> QED BY <2>1, <2>2
<1>8. CASE CreateJob
  BY <1>1, <1>3, <1>8, RowWritten
<1>9. CASE JobCreated
  BY <1>1, <1>3, <1>9, TaskCreated
<1>10. CASE Listen
  BY <1>1, <1>3, <1>10, MessageHeard
<1>11. ASSUME NEW d \in loading, Load(d) PROVE ScheduleInv(s)'
  BY <1>1, <1>3, <1>11, ScheduleLoaded
<1>12. CASE AddSchedule
  BY <1>1, <1>2, <1>3, <1>12, ScheduleAdded
<1>13. CASE Removal(api.schedule)
  BY <1>1, <1>3, <1>13, ScheduleRemoved
<1>14. CASE Restart
  BY <1>1, <1>2, <1>3, <1>14, StartedAgain
<1> QED BY <1>4, <1>5, <1>6, <1>7, <1>8, <1>9, <1>10, <1>11, <1>12, <1>13, <1>14, NextCases

(* The invariant of the scheduler: what the parts of its state say of each *)
(* other, and for each schedule that is not lost, that there is one cause  *)
(* of its next run, which keeps the interval (Scheduler, schedule.py).     *)
THEOREM InvHolds == Spec => []Inv
<1>1. Init => Inv
  BY InvStarts
<1>2. Inv /\ [Next]_vars => Inv'
  BY InvStep
<1> QED BY <1>1, <1>2, PTL DEF Spec

-----------------------------------------------------------------------------
(* Theorems *)

LEMMA CausesAre ==
  ASSUME NEW s, NEW x
  PROVE  x \in Causes(s) <=>
           \/ \E k \in DOMAIN events : Due(s, k) /\ x = <<"event", k>>
           \/ Starting(s) /\ x = <<"start", 0>>
           \/ \E j \in JobsOf(s) : WillReport(j) /\ x = <<"job", j>>
           \/ \E k \in DOMAIN channel : Tells(s, k) /\ x = <<"message", k>>
  BY DEF Causes, Due, Tells

LEMMA OneCause ==
  ASSUME NEW s, AtMostOne(s), AtLeastOne(s)
  PROVE  Cardinality(Causes(s)) = 1
<1>1. \E x : x \in Causes(s)
  <2>1. CASE HasEvent(s)
    <3>1. PICK k \in DOMAIN events : Due(s, k)
      BY <2>1 DEF HasEvent
    <3> QED BY <3>1, CausesAre
  <2>2. CASE Starting(s)
    BY <2>2, CausesAre
  <2>3. CASE HasJob(s)
    <3>1. PICK j \in JobsOf(s) : WillReport(j)
      BY <2>3 DEF HasJob
    <3> QED BY <3>1, CausesAre
  <2>4. CASE HasMessage(s)
    <3>1. PICK k \in DOMAIN channel : Tells(s, k)
      BY <2>4 DEF HasMessage
    <3> QED BY <3>1, CausesAre
  <2> QED BY <2>1, <2>2, <2>3, <2>4 DEF AtLeastOne
<1>2. ASSUME NEW x \in Causes(s), NEW y \in Causes(s) PROVE x = y
  <2>1. CASE HasEvent(s)
    <3>1. ~Starting(s) /\ ~HasJob(s) /\ ~HasMessage(s)
      BY <2>1 DEF AtMostOne
    <3>2. PICK k \in DOMAIN events : Due(s, k) /\ x = <<"event", k>>
      BY <3>1, CausesAre DEF HasJob, HasMessage
    <3>3. PICK l \in DOMAIN events : Due(s, l) /\ y = <<"event", l>>
      BY <3>1, CausesAre DEF HasJob, HasMessage
    <3>4. k = l
      BY <3>2, <3>3 DEF AtMostOne, OneEvent
    <3> QED BY <3>2, <3>3, <3>4
  <2>2. CASE Starting(s)
    <3>1. ~HasEvent(s) /\ ~HasJob(s) /\ ~HasMessage(s)
      BY <2>2 DEF AtMostOne
    <3> QED BY <3>1, CausesAre DEF HasEvent, HasJob, HasMessage
  <2>3. CASE HasJob(s)
    <3>1. ~HasEvent(s) /\ ~Starting(s) /\ ~HasMessage(s)
      BY <2>3 DEF AtMostOne
    <3>2. PICK i \in JobsOf(s) : WillReport(i) /\ x = <<"job", i>>
      BY <3>1, CausesAre DEF HasEvent, HasMessage
    <3>3. PICK j \in JobsOf(s) : WillReport(j) /\ y = <<"job", j>>
      BY <3>1, CausesAre DEF HasEvent, HasMessage
    <3>4. i = j
      BY <3>2, <3>3 DEF AtMostOne, OneJob
    <3> QED BY <3>2, <3>3, <3>4
  <2>4. CASE HasMessage(s)
    <3>1. ~HasEvent(s) /\ ~Starting(s) /\ ~HasJob(s)
      BY <2>4 DEF AtMostOne
    <3>2. PICK k \in DOMAIN channel : Tells(s, k) /\ x = <<"message", k>>
      BY <3>1, CausesAre DEF HasEvent, HasJob
    <3>3. PICK l \in DOMAIN channel : Tells(s, l) /\ y = <<"message", l>>
      BY <3>1, CausesAre DEF HasEvent, HasJob
    <3>4. k = l
      BY <3>2, <3>3 DEF AtMostOne, OneMessage
    <3> QED BY <3>2, <3>3, <3>4
  <2> QED BY <2>1, <2>2, <2>3, <2>4 DEF AtLeastOne
<1>3. PICK x : Causes(s) = {x}
  BY <1>1, <1>2
<1> QED BY <1>3, FS_Singleton

(* Whatever happens to the jobs, the messages and the server, exactly one  *)
(* thing will bring the next run of a schedule in use about, unless it is  *)
(* one that the scheduler is known to lose track of (_listen_task,         *)
(* _schedule_task, run and add_schedule of schedule.py).                   *)
THEOREM NextRunAlways == Spec => []OneNextRun
<1>1. Inv => OneNextRun
  <2>1. SUFFICES ASSUME Inv
                 PROVE  TypeOK /\ \A s \in schedules \ disturbed : Cardinality(Causes(s)) = 1
    BY DEF OneNextRun
  <2>2. TypeOK
    BY <2>1 DEF Inv, Whole
  <2>3. ASSUME NEW s \in schedules \ disturbed PROVE Cardinality(Causes(s)) = 1
    <3>1. s \in Schedules \ disturbed
      BY <2>2, <2>3 DEF TypeOK
    <3>2. AtMostOne(s) /\ AtLeastOne(s)
      BY <2>1, <2>3, <3>1 DEF Inv, ScheduleInv
    <3> QED BY <3>2, OneCause
  <2> QED BY <2>2, <2>3
<1> QED BY <1>1, InvHolds, PTL

(* Successive jobs of a schedule are an interval apart, from beginning to  *)
(* beginning or from end to beginning, also across restarts of the server  *)
(* (compute_next_event and its uses in schedule.py).                       *)
THEOREM SpacedAlways == Spec => []Spaced
<1>1. Inv => Spaced
  BY DEF Inv, ScheduleInv, Distant, Since, Spaced
<1> QED BY <1>1, InvHolds, PTL

(* No two jobs of a schedule run that are not cancelled, unless an entry   *)
(* of _running_jobs was removed by mistake (_start_scheduled_job).         *)
THEOREM OneInstanceAlways == Spec => []OneInstance
<1>1. Inv => OneInstance
  <2>1. SUFFICES ASSUME Inv, NEW s \in Schedules \ (disturbed \cup mistaken)
                 PROVE  Cardinality({j \in JobsOf(s) : jobs[j].task # "idle"
                                                       /\ jobs[j].state # "cancelled"}) <= 1
    BY DEF OneInstance
  <2>2. /\ AtMostOne(s) /\ (Regular(s) => InstanceFits(s)) /\ TypeOK
    BY <2>1 DEF Inv, ScheduleInv, Whole
  <2>3. PICK S : S = {j \in JobsOf(s) : jobs[j].task # "idle" /\ jobs[j].state # "cancelled"}
    OBVIOUS
  <2>4. ASSUME NEW i \in S, NEW j \in S PROVE i = j
    <3>1. CASE Regular(s)
      <4>1. S \subseteq Awake(s)
        <5>1. \A k \in JobsOf(s) : jobs[k].task \in {"idle", "ready", "running"}
          BY <2>2, RowsAre DEF JobsOf
        <5> QED BY <2>3, <5>1 DEF Awake
      <4> QED BY <2>2, <3>1, <4>1 DEF InstanceFits
    <3>2. CASE ~Regular(s)
      <4>1. \A k \in S : k \in JobsOf(s) /\ WillReport(k)
        BY <2>3, <3>2 DEF WillReport, JobsOf
      <4> QED BY <2>2, <4>1 DEF AtMostOne, OneJob
    <3> QED BY <3>1, <3>2
  <2>5. ASSUME S # {} PROVE \E j : S = {j}
    <3>1. PICK j : j \in S
      BY <2>5
    <3>2. S = {j}
      BY <2>4, <3>1
    <3> QED BY <3>2
  <2>6. Cardinality(S) \in {0, 1}
    BY <2>5, FS_EmptySet, FS_Singleton
  <2> QED BY <2>3, <2>6
<1> QED BY <1>1, InvHolds, PTL

(* A due event belongs to an enabled schedule, to the one a request is at, *)
(* or to one that was disabled or deleted while Scheduler.run still held   *)
(* its document, whatever order the handlers, the listener, the start and  *)
(* the scheduled jobs take (add_schedule, remove_schedule, _add_event).    *)
THEOREM RemovedAlways == Spec => []RemovedHasNoEvent
<1>1. Init => Whole
  BY WholeStarts
<1>2. Whole /\ [Next]_vars => Whole'
  BY WholeStep
<1>3. Whole => RemovedHasNoEvent
  BY DEF Whole, EventsInUse, UsedFits, RemovedHasNoEvent
<1> QED BY <1>1, <1>2, <1>3, PTL DEF Spec

(* What waits to be due waits for the right day, for all years and numbers *)
(* of units (compute_next_event).                                          *)
THEOREM DatesAlways == Spec => []DatesAreRight
<1>1. DueOnTheDay
  BY DatesCorrect
<1>2. Init => DatesAreRight
  BY <1>1 DEF DatesAreRight
<1>3. DatesAreRight /\ [Next]_vars => DatesAreRight'
  BY <1>1 DEF DatesAreRight, DueOnTheDay
<1> QED BY <1>2, <1>3, PTL DEF Spec
=============================================================================
