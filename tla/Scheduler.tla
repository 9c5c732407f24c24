----------------------------- MODULE Scheduler -----------------------------
(***************************************************************************)
(* The scheduler of starbelly (src/starbelly/schedule.py) starts a job for *)
(* each schedule again and again: a regular schedule one interval after    *)
(* the last job began to run, the other kind one interval after the last   *)
(* job finished.  It learns both from the state events that the crawl      *)
(* manager sends on a bounded channel, keeps one due event per schedule in *)
(* a list that is meant to be a heap, and sleeps until the first is due or *)
(* another is added.  Clients create, edit and delete schedules meanwhile  *)
(* (server/schedule.py), and pause, resume and cancel the scheduler's jobs.*)
(*                                                                         *)
(* How a job changes its state step by step is the subject of module       *)
(* CrawlManager; here the row and the event of a job change in one action. *)
(* An interval is a number of ticks of one clock, and the timing and the   *)
(* interval of a schedule never change.                                    *)
(***************************************************************************)
EXTENDS Integers, Sequences, FiniteSets, Deques, ScheduleDates

CONSTANTS
  Schedules,    \* the schedules, by their IDs
  Timing,       \* "REGULAR_INTERVAL" or "AFTER_PREVIOUS_JOB_FINISHED", for each
  Interval,     \* num_units of the time unit, for each, in ticks
  First,        \* a new schedule is due this much later (60 s), in ticks
  ChannelSize,  \* events that wait for the listener (10)
  MaxTime,      \* bound: the last tick of the clock
  MaxJobs,      \* bound: jobs that are started
  MaxRequests,  \* bound: requests of clients
  None          \* no schedule, no job, no time

Events == [schedule : Schedules, due : Nat]
States == {"pending", "running", "paused", "completed", "cancelled"}
Rows == [schedule : Schedules, state : States, started : Nat, completed : Nat \cup {None},
         task : {"idle", "ready", "running"}]

ASSUME SchedulerAssumption ==
  /\ Timing \in [Schedules -> {"REGULAR_INTERVAL", "AFTER_PREVIOUS_JOB_FINISHED"}]
  /\ Interval \in [Schedules -> Nat \ {0}]
  /\ First \in Nat /\ ChannelSize \in Nat \ {0}
  /\ MaxTime \in Nat /\ MaxJobs \in Nat /\ MaxRequests \in Nat
  /\ None \notin Schedules \cup Nat /\ None \notin Events /\ None \notin Rows

VARIABLES
  now,        \* datetime.now
  table,      \* table schedule: "absent", "enabled", "disabled" or "deleted"
  policies,   \* the schedules whose policy is in table policy
  jobs,       \* table job: the jobs that the scheduler started, oldest first,
              \*   and whether a task of the crawl manager runs the job
  loading,    \* the documents that Scheduler.run has yet to read at its start
  schedules,  \* Scheduler._schedules
  events,     \* Scheduler._events
  running,    \* Scheduler._running_jobs: a job for each schedule, or None
  task,       \* where _schedule_task is, and the event it is at
  channel,    \* the state events that _listen_task has not received
  api,        \* where the request to set or delete a schedule is
  alive,      \* FALSE once an exception has left Scheduler.run
  requests,   \* history: how many requests there were
  disturbed,  \* history: schedules that the scheduler has lost track of (see Disturb)
  mistaken,   \* history: schedules whose entry in _running_jobs was removed
              \*   when another job ended than the one it tells
  revived     \* history: schedules that were loaded at the start of the server
              \*   after a client had disabled or deleted them

databaseVars == <<table, policies, jobs>>
memoryVars == <<loading, schedules, events, running>>
historyVars == <<disturbed, mistaken, revived>>
vars == <<now, databaseVars, memoryVars, task, channel, api, alive, requests, historyVars>>

Regular(s) == Timing[s] = "REGULAR_INTERVAL"
FinishedStates == {"completed", "cancelled"}
Looking == [at |-> "looking", until |-> None, event |-> None, old |-> None, started |-> None]
Idle == [at |-> "idle", schedule |-> None, enabled |-> FALSE, count |-> 0]

-----------------------------------------------------------------------------
(* The list of events: heapq.heappush *)

(* The parent of a place of the heap is the place at half its index.  The  *)
(* new event goes up from the end while its parent is due later: rise[p]   *)
(* is the list if it has come to place p and has yet to be put down.       *)
HeapPush(heap, e) ==
  LET new == Append(heap, e)
      rise[p \in 1..Len(new)] ==
        IF p > 1 /\ new[p \div 2].due > e.due
        THEN [rise[p \div 2] EXCEPT ![p] = new[p \div 2]]
        ELSE [new EXCEPT ![p] = e]
  IN  rise[Len(new)]

(* Mutant of AddEvent: the schedule task is not told.                      *)
AddEventSilently(s, due) ==
  /\ events' = HeapPush(events, [schedule |-> s, due |-> due])
  /\ UNCHANGED task

(* _add_event: the schedule task wakes if it sleeps.                       *)
AddEvent(s, due) ==
  /\ events' = HeapPush(events, [schedule |-> s, due |-> due])
  /\ task' = IF task.at = "sleeping" THEN Looking ELSE task

-----------------------------------------------------------------------------
(* Jobs and their events *)

JobIds == 1..Len(jobs)
JobsOf(s) == {j \in JobIds : jobs[j].schedule = s}
MaxOf(S) == CHOOSE j \in S : \A k \in S : k <= j
Latest(s) == IF JobsOf(s) = {} THEN None ELSE jobs[MaxOf(JobsOf(s))]

(* The code loses track of a schedule - it will have no next run, or more  *)
(* than one - when a client pauses or resumes a job of a regular schedule  *)
(* (each such event adds a due event), cancels one of the other kind (the  *)
(* event has no schedule_id), or sets a schedule that has jobs; when an    *)
(* event finds the channel full; and when the server is killed while a job *)
(* of the other kind is pending.                                           *)
Disturb(S) == disturbed' = disturbed \cup S

(* _send_job_state_event: an event for which there is no room is dropped.  *)
Send(s, j, state, upset) ==
  IF Len(channel) < ChannelSize
  THEN /\ channel' = Append(channel, [schedule |-> s, job |-> j, state |-> state, time |-> now])
       /\ Disturb(upset)
  ELSE /\ UNCHANGED channel
       /\ Disturb(upset \cup ({s} \ {None}))

Request == /\ alive /\ requests < MaxRequests
           /\ requests' = requests + 1

(* _run_job of the crawl manager begins to run the job.                    *)
JobRuns(j) ==
  /\ alive /\ jobs[j].task = "ready"
  /\ jobs' = [jobs EXCEPT ![j].state = "running", ![j].task = "running"]
  /\ Send(jobs[j].schedule, j, "running", {})
  /\ UNCHANGED <<now, table, policies, memoryVars, task, api, alive, requests, mistaken, revived>>

(* The job ends by itself, though it may have been cancelled.              *)
JobEnds(j) ==
  /\ alive /\ jobs[j].task = "running"
  /\ jobs' = [jobs EXCEPT ![j].state = "completed", ![j].completed = now, ![j].task = "idle"]
  /\ Send(jobs[j].schedule, j, "completed", {})
  /\ UNCHANGED <<now, table, policies, memoryVars, task, api, alive, requests, mistaken, revived>>

UserPauses(j) ==
  /\ Request
  /\ jobs[j].state = "running" /\ jobs[j].task = "running"
  /\ jobs' = [jobs EXCEPT ![j].state = "paused", ![j].task = "idle"]
  /\ Send(jobs[j].schedule, j, "paused", {jobs[j].schedule} \cap {s \in Schedules : Regular(s)})
  /\ UNCHANGED <<now, table, policies, memoryVars, task, api, alive, mistaken, revived>>

UserResumes(j) ==
  /\ Request
  /\ jobs[j].state = "paused" /\ jobs[j].task = "idle"
  /\ jobs' = [jobs EXCEPT ![j].state = "running", ![j].task = "ready"]
  /\ Disturb({jobs[j].schedule} \cap {s \in Schedules : Regular(s)})
  /\ UNCHANGED <<now, table, policies, memoryVars, task, channel, api, alive, mistaken, revived>>

(* cancel_job: the job goes on if it runs, and the event has no schedule,  *)
(* because clear_frontier, which should tell it, returns nothing.          *)
Cancel(j, upset) ==
  /\ jobs' = [jobs EXCEPT ![j].state = "cancelled", ![j].completed = now]
  /\ Send(None, j, "cancelled", upset)

UserCancels(j) ==
  /\ Request
  /\ jobs[j].state \in {"pending", "running", "paused"}
  /\ Cancel(j, {jobs[j].schedule} \cap {s \in Schedules : ~Regular(s)})
  /\ UNCHANGED <<now, table, policies, memoryVars, task, api, alive, mistaken, revived>>

-----------------------------------------------------------------------------
(* _listen_task *)

(* Mutant of NextDue: every event of a job makes a regular schedule due,   *)
(* and every event of the other kind.                                      *)
NextDueAlways(e) == e.time + Interval[e.schedule]

(* The next due time, if the event sets one.                               *)
NextDue(e) ==
  IF Regular(e.schedule) <=> e.state \notin FinishedStates
  THEN e.time + Interval[e.schedule]
  ELSE None

(* An event of a job without a schedule, or of one that was removed, is    *)
(* passed over.                                                            *)
Listen ==
  /\ alive /\ loading = {} /\ channel # <<>>
  /\ channel' = Tail(channel)
  /\ LET e == Head(channel)
     IN IF e.schedule \in schedules
        THEN /\ running' = [running EXCEPT ![e.schedule] =
                              IF e.state \in FinishedStates THEN None ELSE e.job]
             /\ mistaken' = IF e.state \in FinishedStates
                               /\ running[e.schedule] \notin {None, e.job}
                            THEN mistaken \cup {e.schedule} ELSE mistaken
             /\ IF NextDue(e) = None
                THEN UNCHANGED <<events, task>>
                ELSE AddEvent(e.schedule, NextDue(e))
        ELSE UNCHANGED <<running, events, task, mistaken>>
  /\ UNCHANGED <<now, databaseVars, loading, schedules, api, alive, requests, disturbed,
                 revived>>

-----------------------------------------------------------------------------
(* _schedule_task, _start_scheduled_job *)

At(at) == alive /\ loading = {} /\ task.at = at

Sleep ==
  /\ At("looking")
  /\ \/ events = <<>>
     \/ events # <<>> /\ Head(events).due > now
  /\ task' = [Looking EXCEPT !.at = "sleeping",
                             !.until = IF events = <<>> THEN None ELSE Head(events).due]
  /\ UNCHANGED <<now, databaseVars, memoryVars, channel, api, alive, requests, historyVars>>

Wake ==
  /\ At("sleeping")
  /\ task.until # None /\ task.until <= now
  /\ task' = Looking
  /\ UNCHANGED <<now, databaseVars, memoryVars, channel, api, alive, requests, historyVars>>

(* Mutant of AfterPop: whatever runs is left alone.                        *)
NeverCancels(s) == "creating"

AfterPop(s) == IF running[s] # None THEN "cancelling" ELSE "creating"

(* The list is popped at its front, which does not keep it a heap.         *)
PopDue ==
  /\ At("looking")
  /\ Len(jobs) < MaxJobs
  /\ events # <<>> /\ Head(events).due <= now
  /\ events' = Tail(events)
  /\ task' = [at |-> AfterPop(Head(events).schedule), until |-> None,
              event |-> Head(events), old |-> running[Head(events).schedule],
              started |-> now]
  /\ UNCHANGED <<now, databaseVars, loading, schedules, running, channel, api, alive,
                 requests, historyVars>>

(* The ID was read before the await: the job may have ended meanwhile.     *)
CancelOld ==
  /\ At("cancelling")
  /\ Cancel(task.old, {})
  /\ task' = [task EXCEPT !.at = "creating", !.started = now]
  /\ UNCHANGED <<now, table, policies, memoryVars, api, alive, requests, mistaken, revived>>

(* start_job until the row is in the table.                                *)
CreateJob ==
  /\ At("creating")
  /\ task.event.schedule \in policies
  /\ jobs' = Append(jobs, [schedule |-> task.event.schedule, state |-> "pending",
                           started |-> task.started, completed |-> None, task |-> "idle"])
  /\ task' = [task EXCEPT !.at = "inserted"]
  /\ UNCHANGED <<now, table, policies, memoryVars, channel, api, alive, requests, historyVars>>

(* get_policy raises AttributeError if the policy was deleted.             *)
CreateJobRaises ==
  /\ At("creating")
  /\ task.event.schedule \notin policies
  /\ alive' = FALSE
  /\ UNCHANGED <<now, databaseVars, memoryVars, task, channel, api, requests, historyVars>>

(* The row is in the table, and _make_job raises: the crawl manager reads  *)
(* the policy again, and may not find it or not be able to use it.         *)
JobCreatedRaises ==
  /\ At("inserted")
  /\ alive' = FALSE
  /\ UNCHANGED <<now, databaseVars, memoryVars, task, channel, api, requests, historyVars>>

(* start_job returns: the task of the job exists, and so does the entry.   *)
JobCreated ==
  /\ At("inserted")
  /\ jobs' = [jobs EXCEPT ![Len(jobs)].task = "ready"]
  /\ running' = [running EXCEPT ![task.event.schedule] = Len(jobs)]
  /\ task' = [task EXCEPT !.at = "counting"]
  /\ UNCHANGED <<now, table, policies, loading, schedules, events, channel, api, alive,
                 requests, historyVars>>

(* update_job_count returns.                                               *)
JobCounted ==
  /\ At("counting")
  /\ task' = Looking
  /\ UNCHANGED <<now, databaseVars, memoryVars, channel, api, alive, requests, historyVars>>

-----------------------------------------------------------------------------
(* set_schedule and delete_schedule of server/schedule.py, one at a time *)

Began(s) == JobsOf(s) # {} \/ (task.event # None /\ task.event.schedule = s)

Step(at) == api' = [api EXCEPT !.at = at]

(* Mutant of RemoveSchedule: the events of the schedule stay.              *)
RemoveScheduleOnly(s) == schedules' = schedules \ {s} /\ UNCHANGED events

(* Pending events go, and the schedule task is not told.                   *)
RemoveSchedule(s) ==
  /\ schedules' = schedules \ {s}
  /\ events' = Without(events, {e \in Events : e.schedule = s})

(* The row is written: a new one, or that of a schedule that exists.       *)
SaveSchedule(s, enabled) ==
  /\ Request
  /\ api = Idle /\ table[s] # "deleted"
  /\ table' = [table EXCEPT ![s] = IF enabled THEN "enabled" ELSE "disabled"]
  /\ api' = [at |-> "saved", schedule |-> s, enabled |-> enabled, count |-> 0]
  /\ UNCHANGED <<now, policies, jobs, memoryVars, task, channel, alive, historyVars>>

ScheduleSaved ==
  /\ alive /\ api.at = "saved"
  /\ RemoveSchedule(api.schedule)
  /\ IF api.enabled THEN Step("reading") ELSE api' = Idle
  /\ revived' = revived \ {api.schedule}
  /\ UNCHANGED <<now, databaseVars, loading, running, task, channel, alive, requests,
                 disturbed, mistaken>>

(* get_schedule and list_schedule_jobs, which returns a pair.              *)
ReadSchedule ==
  /\ alive /\ api.at = "reading"
  /\ api' = [api EXCEPT !.at = "adding", !.count = Cardinality(JobsOf(api.schedule))]
  /\ UNCHANGED <<now, databaseVars, memoryVars, task, channel, alive, requests, historyVars>>

(* add_schedule is given the first of the pair, the number of jobs, in the *)
(* place of the latest job: if it is not zero, TypeError is raised when    *)
(* the schedule is in _schedules and has no event.  The client is told.    *)
AddSchedule ==
  /\ alive /\ api.at = "adding"
  /\ api' = Idle
  /\ IF api.schedule \in schedules
     THEN UNCHANGED <<schedules, events, task>>
     ELSE /\ schedules' = schedules \cup {api.schedule}
          /\ IF api.count = 0
             THEN AddEvent(api.schedule, now + First)
             ELSE UNCHANGED <<events, task>>
  /\ Disturb(IF Began(api.schedule) THEN {api.schedule} ELSE {})
  /\ UNCHANGED <<now, databaseVars, loading, running, channel, alive, requests, mistaken, revived>>

DeleteSchedule(s) ==
  /\ Request
  /\ api = Idle /\ table[s] \in {"enabled", "disabled"}
  /\ table' = [table EXCEPT ![s] = "deleted"]
  /\ api' = [Idle EXCEPT !.at = "deleted", !.schedule = s]
  /\ UNCHANGED <<now, policies, jobs, memoryVars, task, channel, alive, historyVars>>

ScheduleDeleted ==
  /\ alive /\ api.at = "deleted"
  /\ RemoveSchedule(api.schedule)
  /\ api' = Idle
  /\ revived' = revived \ {api.schedule}
  /\ UNCHANGED <<now, databaseVars, loading, running, task, channel, alive, requests,
                 disturbed, mistaken>>

(* A policy is deleted although a schedule uses it.                        *)
DeletePolicy(s) ==
  /\ Request
  /\ policies' = policies \ {s}
  /\ s \in policies
  /\ UNCHANGED <<now, table, jobs, memoryVars, task, channel, api, alive, historyVars>>

-----------------------------------------------------------------------------
(* The start of the server *)

(* Mutant of FirstDue: the last job does not count.                        *)
DueAfterStart(s, job) == now + First

(* When a schedule is due that is added with its latest job, if at all.    *)
FirstDue(s, job) ==
  CASE job = None -> now + First
    [] (job # None /\ Regular(s)) -> job.started + Interval[s]
    [] (job # None /\ ~Regular(s) /\ job.state \in FinishedStates) -> job.completed + Interval[s]
    [] OTHER -> None

(* Scheduler.run adds one of the schedules that get_schedule_docs yields,  *)
(* whatever a client has done with the row since the document was read.    *)
Load(d) ==
  /\ alive /\ d \in loading
  /\ d.schedule \notin schedules
  /\ loading'   = loading \ {d}
  /\ schedules' = schedules \cup {d.schedule}
  /\ IF FirstDue(d.schedule, d.latest) = None
     THEN UNCHANGED <<events, task>>
     ELSE AddEvent(d.schedule, FirstDue(d.schedule, d.latest))
  /\ revived' = IF table[d.schedule] = "enabled" \/ api.schedule = d.schedule
                THEN revived ELSE revived \cup {d.schedule}
  /\ UNCHANGED <<now, databaseVars, running, channel, api, alive, requests, disturbed, mistaken>>

(* A client has set the schedule since the server began to start.          *)
LoadRaises(d) ==
  /\ alive /\ d \in loading
  /\ d.schedule \in schedules
  /\ alive' = FALSE
  /\ UNCHANGED <<now, databaseVars, memoryVars, task, channel, api, requests, historyVars>>

(* The documents in table schedule, each with its latest job (that the job *)
(* is paused now makes no difference).                                     *)
Documents ==
  {[schedule |-> s, latest |-> Latest(s)] : s \in {t \in Schedules : table[t] = "enabled"}}

(* The server is killed, or has died, and starts again: startup_check.     *)
Restart ==
  /\ jobs' = [j \in JobIds |->
                [jobs[j] EXCEPT !.state = IF @ = "running" THEN "paused" ELSE @, !.task = "idle"]]
  /\ loading'   = Documents
  /\ schedules' = {}
  /\ events'    = <<>>
  /\ running'   = [s \in Schedules |-> None]
  /\ task'      = Looking
  /\ channel'   = <<>>
  /\ api'       = Idle
  /\ alive'     = TRUE
  /\ revived'   = {}
  /\ Disturb({s \in Schedules : ~Regular(s) /\ \E j \in JobsOf(s) : jobs[j].state = "pending"})
  /\ UNCHANGED <<now, table, policies, requests, mistaken>>

Tick == /\ now < MaxTime
        /\ now' = now + 1
        /\ UNCHANGED <<databaseVars, memoryVars, task, channel, api, alive, requests,
                       historyVars>>

-----------------------------------------------------------------------------
(* The server starts for the first time, with any table of schedules.      *)
Init ==
  /\ now = 0
  /\ table \in [Schedules -> {"absent", "enabled", "disabled"}]
  /\ policies  = Schedules
  /\ jobs      = <<>>
  /\ loading   = {[schedule |-> s, latest |-> None] : s \in {t \in Schedules : table[t] = "enabled"}}
  /\ schedules = {}
  /\ events    = <<>>
  /\ running   = [s \in Schedules |-> None]
  /\ task      = Looking
  /\ channel   = <<>>
  /\ api       = Idle
  /\ alive     = TRUE
  /\ requests  = 0
  /\ disturbed = {} /\ mistaken = {} /\ revived = {}

ScheduleTask == Sleep \/ Wake \/ PopDue \/ CancelOld \/ CreateJob \/ CreateJobRaises
                \/ JobCreated \/ JobCreatedRaises \/ JobCounted

Loading == \E d \in loading : Load(d) \/ LoadRaises(d)

Handler == ScheduleSaved \/ ReadSchedule \/ AddSchedule \/ ScheduleDeleted

User ==
  \/ \E j \in JobIds : UserPauses(j) \/ UserResumes(j) \/ UserCancels(j)
  \/ \E s \in Schedules : \/ \E enabled \in BOOLEAN : SaveSchedule(s, enabled)
                          \/ DeleteSchedule(s)
                          \/ DeletePolicy(s)

Next == \/ ScheduleTask \/ Loading \/ Listen \/ Handler \/ User
        \/ \E j \in JobIds : JobRuns(j) \/ JobEnds(j)
        \/ Restart
        \/ Tick

(* Scheduler.run loads the schedules, and then runs the schedule task:     *)
(* Trio runs it when it can run, and the database answers.                 *)
Fairness == WF_vars(Loading \/ ScheduleTask)

Spec == Init /\ [][Next]_vars
FairSpec == Spec /\ Fairness

-----------------------------------------------------------------------------
(* Properties *)

TypeOK ==
  /\ now \in 0..MaxTime
  /\ table \in [Schedules -> {"absent", "enabled", "disabled", "deleted"}]
  /\ policies \subseteq Schedules
  /\ jobs \in Seq(Rows)
  /\ loading \subseteq [schedule : Schedules, latest : Rows \cup {None}]
  /\ schedules \subseteq Schedules
  /\ events \in Seq(Events)
  /\ running \in [Schedules -> JobIds \cup {None}]
  /\ task \in [at : {"looking", "sleeping", "cancelling", "creating", "inserted", "counting"},
               until : Nat \cup {None}, event : Events \cup {None}, old : JobIds \cup {None},
               started : 0..MaxTime \cup {None}]
  /\ channel \in Seq([schedule : Schedules \cup {None}, job : JobIds, state : States,
                      time : 0..MaxTime])
  /\ Len(channel) <= ChannelSize
  /\ api \in [at : {"idle", "saved", "reading", "adding", "deleted"},
              schedule : Schedules \cup {None}, enabled : BOOLEAN, count : Nat]
  /\ alive \in BOOLEAN /\ requests \in 0..MaxRequests
  /\ disturbed \subseteq Schedules /\ mistaken \subseteq Schedules
  /\ revived \subseteq Schedules

(* What will bring the next run of s about: an event, a start under way, a *)
(* job whose beginning (or end) makes an event, a message that tells it.   *)
Starting(s) == task.at \in {"cancelling", "creating", "inserted"} /\ task.event.schedule = s
WillReport(j) == IF Regular(jobs[j].schedule)
                 THEN jobs[j].task = "ready"
                 ELSE jobs[j].task # "idle" \/ jobs[j].state = "paused"
Causes(s) ==
  {<<"event", k>> : k \in {k \in DOMAIN events : events[k].schedule = s}}
    \cup (IF Starting(s) THEN {<<"start", 0>>} ELSE {})
    \cup {<<"job", j>> : j \in {j \in JobsOf(s) : WillReport(j)}}
    \cup {<<"message", k>> : k \in {k \in DOMAIN channel :
             channel[k].schedule = s /\ NextDue(channel[k]) # None}}

(* A schedule that is in use is never forgotten and never doubled: exactly *)
(* one thing at a time will bring its next run about, whatever happens to  *)
(* its jobs, its messages and the server, except for what Disturb lists.   *)
(* (The types are checked with it.)                                        *)
OneNextRun == TypeOK /\ \A s \in schedules \ disturbed : Cardinality(Causes(s)) = 1

(* A due event, which starts one more job, belongs to a schedule that is   *)
(* enabled in the database; to the one that a request is about to remove   *)
(* or add; or to one that was disabled or deleted while Scheduler.run      *)
(* still held its document, and was loaded all the same.  The last goes on *)
(* until it is set or deleted again or the server starts again.            *)
RemovedHasNoEvent ==
  \A k \in DOMAIN events : LET s == events[k].schedule
                           IN  table[s] = "enabled" \/ api.schedule = s \/ s \in revived

(* Successive jobs of a schedule are an interval apart, from beginning to  *)
(* beginning or from end to beginning, also if the server was killed in    *)
(* between.                                                                *)
Spaced ==
  \A s \in Schedules \ disturbed : \A i, k \in JobsOf(s) :
    i < k => LET since == IF Regular(s) THEN jobs[i].started ELSE jobs[i].completed
             IN since # None /\ jobs[k].started >= since + Interval[s]

(* No two jobs of a schedule run that are not cancelled: the one that runs *)
(* is cancelled before the next is started ("If an instance of this        *)
(* scheduled job is already running, cancel it first").  An entry of       *)
(* _running_jobs that was removed by mistake is the known exception.       *)
OneInstance ==
  \A s \in Schedules \ (disturbed \cup mistaken) :
    Cardinality({j \in JobsOf(s) : jobs[j].task # "idle" /\ jobs[j].state # "cancelled"}) <= 1

(* When the first event of the list is due, a start follows, also if the   *)
(* event was added in front of the one for which the schedule task sleeps. *)
DueFront == alive /\ events # <<>> /\ Head(events).due <= now /\ Len(jobs) < MaxJobs
DueIsStarted == DueFront ~> (~DueFront \/ task.at \in {"cancelling", "creating"})

(* What waits to be due waits for the right day (DueOnTheDay has no        *)
(* variables: TLC evaluates it once).                                      *)
DatesAreRight == events # <<>> => DueOnTheDay

(* "Wait until a scheduled event is due, then start a new crawl job"       *)
(* (_schedule_task): it never sleeps beyond the time that an event is due. *)
NoneIsLate ==
  At("sleeping") => \A k \in DOMAIN events : task.until # None /\ task.until <= events[k].due
=============================================================================
