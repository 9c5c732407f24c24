---------------------------- MODULE CrawlManager ----------------------------
(***************************************************************************)
(* The life of crawl jobs in starbelly: CrawlManager (src/starbelly/job.py)*)
(* starts, pauses, resumes, cancels and completes them, on behalf of API   *)
(* requests (server/job.py) and of the scheduler.  The state of a job is   *)
(* kept in several places - the table of jobs, the statistics that clients *)
(* are shown, the manager's dictionary of running jobs, the channels of    *)
(* the rate limiter, and what the listeners of state events have heard -   *)
(* that are changed one after the other, with an "await" in between.       *)
(*                                                                         *)
(* A database query takes effect in one action, and the code that waited   *)
(* for it goes on in another.  What a job does while it runs is the        *)
(* subject of module CrawlPipeline; here it runs until it is stopped or    *)
(* ends with one of the three exceptions that complete it.                 *)
(***************************************************************************)
EXTENDS Integers, Sequences, FiniteSets

CONSTANTS
  Jobs,         \* the jobs that may be started, by their IDs
  Clients,      \* API requests that may be under way at the same time
  MaxRuns,      \* bound: how often a job is run, i.e. one more than resumed
  MaxDisorder,  \* bound: requests that are not orderly (see Ask)
  ChannelSize,  \* events that wait for the listener (10)
  None          \* no job; no state

ASSUME CrawlManagerAssumption ==
  /\ IsFiniteSet(Clients)
  /\ MaxRuns \in Nat \ {0}
  /\ MaxDisorder \in Nat
  /\ ChannelSize \in Nat \ {0}
  /\ None \notin Jobs
  /\ None \notin {"none", "pending", "running", "paused", "cancelled", "completed",
                  "deleted"}

VARIABLES
  db,        \* table job: the run_state of each job, "none" or "deleted"
  frontier,  \* the jobs that have rows in table frontier
  stats,     \* StatsTracker._jobs: the run_state of each job, or None
  registry,  \* CrawlManager._jobs: the run that is registered, 0 if none is
  channels,  \* the jobs that have a channel in the rate limiter
  runs,      \* how often each job was run
  stage,     \* where the _run_job task of each run of each job is
  call,      \* what each API request waits for
  listener,  \* the state channel: events that no listener has received yet
  heard,     \* the state of each job in the last event that was received
  missed,    \* history: the jobs whose last event found the channel full
  valid,     \* the jobs that can be made of their documents (see MakeJob)
  killed,    \* history: the server was killed
  disorder,  \* history: how many requests were not orderly (see Ask)
  alive      \* FALSE once an exception has left a _run_job task

tableVars == <<db, frontier>>
memoryVars == <<stats, registry, channels, runs>>
eventVars == <<listener, heard, missed>>
historyVars == <<killed, disorder, valid>>
vars == <<tableVars, memoryVars, stage, call, eventVars, historyVars, alive>>

RunStates == {"pending", "running", "paused", "cancelled", "completed"}
FinishedStates == {"completed", "cancelled"}

(* The _run_job task: "starting" (before run_job), "marked" (after it),    *)
(* "running", "cancelling" (its scope is cancelled); "stopping" and        *)
(* "ending" in the await of remove_job, after a stop and an exception;     *)
(* then "finishing", "clearing" and "cleared"; at last "stopped" or        *)
(* "ended".                                                                *)
Ahead  == {"starting", "marked"}
Under  == {"running", "cancelling"}
Behind == {"stopping", "ending", "finishing", "clearing", "cleared"}
Stages == {"none", "stopped", "ended"} \cup Ahead \cup Under \cup Behind

(* What a request waits for, the name of the operation first.              *)
Waits == {"start:frontier", "start:return", "pause:stopped", "pause:save", "pause:return",
          "resume:update", "resume:return", "cancel:finish", "cancel:clear",
          "cancel:return", "delete:check", "delete:delete", "delete:return"}
AddRun == {"start:frontier", "start:return", "resume:update", "resume:return"}
Idle == [at |-> "idle", job |-> None, run |-> 0]

-----------------------------------------------------------------------------
(* Operators *)

Exists(j) == db[j] \in RunStates

(* An update of a row that does not exist changes nothing.                 *)
Update(j, state) == db' = IF Exists(j) THEN [db EXCEPT ![j] = state] ELSE db

SetStats(j, state) == stats' = [stats EXCEPT ![j] = state]

(* _send_job_state_event: send_nowait, and a full channel is passed over.  *)
SendEvent(j, state) ==
  /\ IF Len(listener) < ChannelSize
     THEN /\ listener' = Append(listener, [job |-> j, state |-> state])
          /\ missed'   = missed \ {j}
     ELSE /\ missed' = missed \cup {j}
          /\ UNCHANGED listener
  /\ UNCHANGED heard

(* Request c waits for the next thing, or returns (with an error or not).  *)
Wait(c, at)  == call' = [call EXCEPT ![c].at = at]
Begin(c, at, j) == call' = [call EXCEPT ![c] = [at |-> at, job |-> j, run |-> registry[j]]]
Return(c) == call' = [call EXCEPT ![c] = Idle]

At(c, at, j) == alive /\ call[c].at = at /\ call[c].job = j

Enter(j, n, s) == stage' = [stage EXCEPT ![j][n] = s]

(* The bound on runs, which counts those that requests are about to add.   *)
RunsLeft(j) ==
  runs[j] + Cardinality({c \in Clients : /\ call[c].job = j
                                         /\ call[c].at \in AddRun}) < MaxRuns

(* _make_job and start_soon: the job gets a channel of the rate limiter,   *)
(* an entry in the statistics and a new task.  Before it does anything,    *)
(* _make_job reads the policy and the seeds of the job's document, and     *)
(* raises if one of them is wrong, today as on any other day: the job is   *)
(* not in "valid" then.  The client is told.                               *)
MakeJob(j, state) ==
  /\ channels' = channels \cup {j}
  /\ SetStats(j, state)
  /\ runs'  = [runs EXCEPT ![j] = @ + 1]
  /\ Enter(j, runs[j] + 1, "starting")

(* A pause waits for ever for a job that has ended by itself.              *)
Hangs(c) ==
  /\ call[c].at = "pause:stopped"
  /\ stage[call[c].job][call[c].run] \in {"ending", "finishing", "clearing", "cleared", "ended"}

(* No request for j is under way.                                          *)
Quiet(j) == \A c \in Clients : call[c].job = j => Hangs(c)

(* A client asks for "at".  The request is orderly if the client goes by   *)
(* the state it is shown - a job is paused when it runs, resumed or        *)
(* cancelled when it is paused, deleted when it has finished - and if the  *)
(* last request for the same job has returned.  (A job that finished long  *)
(* ago has no statistics; no request for it counts as orderly.)            *)
Ask(c, at, j, states) ==
  /\ alive /\ call[c] = Idle
  /\ Begin(c, at, j)
  /\ IF stats[j] \in states /\ Quiet(j)
     THEN UNCHANGED disorder
     ELSE disorder < MaxDisorder /\ disorder' = disorder + 1
  /\ UNCHANGED <<killed, valid>>

(* An exception that leaves a _run_job task ends the nursery of the        *)
(* manager, and with it the server.                                        *)
Crash == /\ alive' = FALSE
         /\ UNCHANGED <<tableVars, memoryVars, stage, call, eventVars, historyVars>>

-----------------------------------------------------------------------------
(* start_job *)

(* The first query of create_job.                                          *)
StartJob(c, j) ==
  /\ alive /\ call[c] = Idle
  /\ db[j] = "none"
  /\ RunsLeft(j)
  /\ db' = [db EXCEPT ![j] = "pending"]
  /\ Begin(c, "start:frontier", j)
  /\ UNCHANGED <<frontier, memoryVars, stage, eventVars, historyVars, alive>>

(* The second: the seeds go into the frontier.                             *)
InsertSeeds(c, j) ==
  /\ At(c, "start:frontier", j)
  /\ frontier' = frontier \cup {j}
  /\ Wait(c, "start:return")
  /\ UNCHANGED <<db, memoryVars, stage, eventVars, historyVars, alive>>

JobStarted(c, j) ==
  /\ At(c, "start:return", j)
  /\ j \in valid
  /\ MakeJob(j, "pending")
  /\ Return(c)
  /\ UNCHANGED <<tableVars, registry, eventVars, historyVars, alive>>

(* The rows of the job are in the tables, and stay there.                  *)
JobStartRaises(c, j) ==
  /\ At(c, "start:return", j)
  /\ j \notin valid
  /\ Return(c)
  /\ UNCHANGED <<tableVars, memoryVars, stage, eventVars, historyVars, alive>>

-----------------------------------------------------------------------------
(* pause_job, CrawlJob.stop *)

(* A job that is not registered is a KeyError, which the client is told.   *)
PauseJob(c, j) ==
  /\ Ask(c, "pause:stopped", j, {"running"})
  /\ registry[j] # 0
  /\ Enter(j, registry[j], "cancelling")
  /\ UNCHANGED <<tableVars, memoryVars, eventVars, alive>>

(* Mutant of Stopped: a signal that is lost if nobody waits for it.        *)
StoppedOnce(j, n) == stage[j][n] = "stopping"

(* _stopped is set when the nursery of the job was left without an         *)
(* exception: the code of _run_job that follows runs before any other.     *)
Stopped(j, n) == stage[j][n] \in {"stopping", "stopped"}

(* Mutant of AwaitStopped: the pause does not wait.                        *)
AwaitNothing(c, j) ==
  /\ At(c, "pause:stopped", j)
  /\ Wait(c, "pause:save")
  /\ UNCHANGED <<tableVars, memoryVars, stage, eventVars, historyVars, alive>>

AwaitStopped(c, j) ==
  /\ At(c, "pause:stopped", j)
  /\ Stopped(j, call[c].run)
  /\ Wait(c, "pause:save")
  /\ UNCHANGED <<tableVars, memoryVars, stage, eventVars, historyVars, alive>>

SavePause(c, j) ==
  /\ At(c, "pause:save", j)
  /\ Update(j, "paused")
  /\ Wait(c, "pause:return")
  /\ UNCHANGED <<frontier, memoryVars, stage, eventVars, historyVars, alive>>

(* Mutant of JobPaused: the listeners are not told.                        *)
JobPausedQuietly(c, j) ==
  /\ At(c, "pause:return", j)
  /\ IF stats[j] = None THEN UNCHANGED stats ELSE SetStats(j, "paused")
  /\ Return(c)
  /\ UNCHANGED <<tableVars, registry, channels, runs, stage, eventVars, historyVars, alive>>

(* set_run_state raises KeyError if the job is not in the statistics.      *)
JobPaused(c, j) ==
  /\ At(c, "pause:return", j)
  /\ IF stats[j] = None
     THEN UNCHANGED <<stats, eventVars>>
     ELSE SetStats(j, "paused") /\ SendEvent(j, "paused")
  /\ Return(c)
  /\ UNCHANGED <<tableVars, registry, channels, runs, stage, historyVars, alive>>

-----------------------------------------------------------------------------
(* resume_job *)

ResumeJob(c, j) ==
  /\ RunsLeft(j)
  /\ Ask(c, "resume:update", j, {"paused"})
  /\ UNCHANGED <<tableVars, memoryVars, stage, eventVars, alive>>

(* If the row does not change, "changes" is empty: IndexError.             *)
ResumeUpdate(c, j) ==
  /\ At(c, "resume:update", j)
  /\ IF Exists(j) /\ db[j] # "running"
     THEN Update(j, "running") /\ Wait(c, "resume:return")
     ELSE Return(c) /\ UNCHANGED db
  /\ UNCHANGED <<frontier, memoryVars, stage, eventVars, historyVars, alive>>

JobResumed(c, j) ==
  /\ At(c, "resume:return", j)
  /\ j \in valid
  /\ MakeJob(j, "running")
  /\ Return(c)
  /\ UNCHANGED <<tableVars, registry, eventVars, historyVars, alive>>

(* The row says that the job is running.                                   *)
JobResumeRaises(c, j) ==
  /\ At(c, "resume:return", j)
  /\ j \notin valid
  /\ Return(c)
  /\ UNCHANGED <<tableVars, memoryVars, stage, eventVars, historyVars, alive>>

-----------------------------------------------------------------------------
(* cancel_job: the job is not stopped, if it is running *)

CancelJob(c, j) ==
  /\ Ask(c, "cancel:finish", j, {"paused"})
  /\ UNCHANGED <<tableVars, memoryVars, stage, eventVars, alive>>

CancelFinish(c, j) ==
  /\ At(c, "cancel:finish", j)
  /\ Update(j, "cancelled")
  /\ Wait(c, "cancel:clear")
  /\ UNCHANGED <<frontier, memoryVars, stage, eventVars, historyVars, alive>>

(* The frontier of a cancelled job goes last.                             *)
CancelClear(c, j) ==
  /\ At(c, "cancel:clear", j)
  /\ frontier' = frontier \ {j}
  /\ Wait(c, "cancel:return")
  /\ UNCHANGED <<db, memoryVars, stage, eventVars, historyVars, alive>>

JobCancelled(c, j) ==
  /\ At(c, "cancel:return", j)
  /\ IF stats[j] = None
     THEN UNCHANGED <<stats, eventVars>>
     ELSE SetStats(j, "cancelled") /\ SendEvent(j, "cancelled")
  /\ Return(c)
  /\ UNCHANGED <<tableVars, registry, channels, runs, stage, historyVars, alive>>

-----------------------------------------------------------------------------
(* delete_job of server/job.py *)

DeleteJob(c, j) ==
  /\ Ask(c, "delete:check", j, FinishedStates)
  /\ Exists(j)
  /\ UNCHANGED <<tableVars, memoryVars, stage, eventVars, alive>>

(* The query of the run_state; then the responses are deleted.             *)
DeleteCheck(c, j) ==
  /\ At(c, "delete:check", j)
  /\ IF db[j] \in FinishedStates THEN Wait(c, "delete:delete") ELSE Return(c)
  /\ UNCHANGED <<tableVars, memoryVars, stage, eventVars, historyVars, alive>>

DeleteRow(c, j) ==
  /\ At(c, "delete:delete", j)
  /\ Update(j, "deleted")
  /\ Wait(c, "delete:return")
  /\ UNCHANGED <<frontier, memoryVars, stage, eventVars, historyVars, alive>>

JobDeleted(c, j) ==
  /\ At(c, "delete:return", j)
  /\ SetStats(j, None)
  /\ Return(c)
  /\ UNCHANGED <<tableVars, registry, channels, runs, stage, eventVars, historyVars, alive>>

-----------------------------------------------------------------------------
(* _run_job, CrawlJob.run *)

RunJob(j, n) ==
  /\ alive
  /\ stage[j][n] = "starting"
  /\ Update(j, "running")
  /\ Enter(j, n, "marked")
  /\ UNCHANGED <<frontier, memoryVars, call, eventVars, historyVars, alive>>

JobRunning(j, n) ==
  /\ alive
  /\ stage[j][n] = "marked"
  /\ stats[j] # None
  /\ registry' = [registry EXCEPT ![j] = n]
  /\ SetStats(j, "running")
  /\ SendEvent(j, "running")
  /\ Enter(j, n, "running")
  /\ UNCHANGED <<tableVars, channels, runs, call, historyVars, alive>>

(* The extractor of the job inserts links into its frontier.               *)
InsertLinks(j, n) ==
  /\ alive
  /\ stage[j][n] \in Under
  /\ frontier' = frontier \cup {j}
  /\ UNCHANGED <<db, memoryVars, stage, call, eventVars, historyVars, alive>>

(* "del self._jobs[job.id]" and the "pop" of remove_job raise KeyError if  *)
(* another run of the job has been there before.                           *)
Removable(j) == registry[j] # 0 /\ j \in channels

(* Mutant of Remove: the channel is kept.                                  *)
RemoveKeepsChannel(j, n, next) ==
  /\ registry' = [registry EXCEPT ![j] = 0]
  /\ Enter(j, n, next)
  /\ UNCHANGED <<tableVars, stats, channels, runs, call, eventVars, historyVars, alive>>

Remove(j, n, next) ==
  /\ registry' = [registry EXCEPT ![j] = 0]
  /\ channels' = channels \ {j}
  /\ Enter(j, n, next)
  /\ UNCHANGED <<tableVars, stats, runs, call, eventVars, historyVars, alive>>

(* The cancelled nursery is empty.                                         *)
JobStops(j, n) ==
  /\ alive
  /\ stage[j][n] = "cancelling"
  /\ Removable(j)
  /\ Remove(j, n, "stopping")

(* One of the three exceptions leaves the nursery, before it is cancelled  *)
(* or while it is: _stopped is not set.                                    *)
JobRaises(j, n) ==
  /\ alive
  /\ stage[j][n] \in Under
  /\ Removable(j)
  /\ Remove(j, n, "ending")

(* The channel is closed.                                                  *)
JobRemoved(j, n) ==
  /\ alive
  /\ \/ stage[j][n] = "stopping" /\ Enter(j, n, "stopped")
     \/ stage[j][n] = "ending" /\ Enter(j, n, "finishing")
  /\ UNCHANGED <<tableVars, memoryVars, call, eventVars, historyVars, alive>>

FinishJob(j, n) ==
  /\ alive
  /\ stage[j][n] = "finishing"
  /\ Update(j, "completed")
  /\ Enter(j, n, "clearing")
  /\ UNCHANGED <<frontier, memoryVars, call, eventVars, historyVars, alive>>

ClearFrontier(j, n) ==
  /\ alive
  /\ stage[j][n] = "clearing"
  /\ frontier' = frontier \ {j}
  /\ Enter(j, n, "cleared")
  /\ UNCHANGED <<db, memoryVars, call, eventVars, historyVars, alive>>

JobCompleted(j, n) ==
  /\ alive
  /\ stage[j][n] = "cleared"
  /\ stats[j] # None
  /\ SetStats(j, "completed")
  /\ SendEvent(j, "completed")
  /\ Enter(j, n, "ended")
  /\ UNCHANGED <<tableVars, registry, channels, runs, call, historyVars, alive>>

(* A KeyError in _run_job.                                                 *)
RunJobRaises(j, n) ==
  /\ alive
  /\ \/ stage[j][n] \in Under /\ ~Removable(j)
     \/ stage[j][n] \in {"marked", "cleared"} /\ stats[j] = None
  /\ Crash

-----------------------------------------------------------------------------
(* The scheduler, or another listener, receives an event.                  *)
Listen ==
  /\ alive
  /\ listener # <<>>
  /\ heard'    = [heard EXCEPT ![Head(listener).job] = Head(listener).state]
  /\ listener' = Tail(listener)
  /\ UNCHANGED <<tableVars, memoryVars, stage, call, missed, historyVars, alive>>

(* The server is killed, or has died, and starts again: startup_check, and *)
(* the jobs that are unfinished or finished recently go into the           *)
(* statistics.                                                             *)
Restart ==
  /\ db' = [j \in Jobs |-> IF db[j] = "running" THEN "paused" ELSE db[j]]
  /\ \E recent \in SUBSET {j \in Jobs : db[j] \in FinishedStates} :
       stats' = [j \in Jobs |-> IF Exists(j) /\ (db[j] \in FinishedStates => j \in recent)
                                THEN db'[j] ELSE None]
  /\ registry' = [j \in Jobs |-> 0]
  /\ channels' = {}
  /\ stage'    = [j \in Jobs |-> [n \in 1..MaxRuns |-> "none"]]
  /\ call'     = [c \in Clients |-> Idle]
  /\ listener' = <<>>
  /\ heard'    = [j \in Jobs |-> None]
  /\ missed'   = {}
  /\ killed'   = TRUE
  /\ alive'    = TRUE
  /\ UNCHANGED <<frontier, runs, disorder, valid>>

Init ==
  /\ db       = [j \in Jobs |-> "none"]
  /\ frontier = {}
  /\ stats    = [j \in Jobs |-> None]
  /\ registry = [j \in Jobs |-> 0]
  /\ channels = {}
  /\ runs     = [j \in Jobs |-> 0]
  /\ stage    = [j \in Jobs |-> [n \in 1..MaxRuns |-> "none"]]
  /\ call     = [c \in Clients |-> Idle]
  /\ listener = <<>>
  /\ heard    = [j \in Jobs |-> None]
  /\ missed   = {}
  /\ killed   = FALSE
  /\ disorder = 0
  /\ valid    \in SUBSET Jobs
  /\ alive    = TRUE

(* What a request does once it was accepted.                               *)
Handle(c, j) ==
  \/ InsertSeeds(c, j) \/ JobStarted(c, j) \/ JobStartRaises(c, j)
  \/ AwaitStopped(c, j) \/ SavePause(c, j) \/ JobPaused(c, j)
  \/ ResumeUpdate(c, j) \/ JobResumed(c, j) \/ JobResumeRaises(c, j)
  \/ CancelFinish(c, j) \/ CancelClear(c, j) \/ JobCancelled(c, j)
  \/ DeleteCheck(c, j) \/ DeleteRow(c, j) \/ JobDeleted(c, j)

(* What the task of a run does.                                            *)
Run(j, n) ==
  \/ RunJob(j, n) \/ JobRunning(j, n)
  \/ JobStops(j, n) \/ JobRemoved(j, n)
  \/ FinishJob(j, n) \/ ClearFrontier(j, n) \/ JobCompleted(j, n)
  \/ RunJobRaises(j, n)

Work(j, n) == Run(j, n) \/ InsertLinks(j, n) \/ JobRaises(j, n)

System == \/ \E c \in Clients, j \in Jobs : Handle(c, j)
          \/ \E j \in Jobs, n \in 1..MaxRuns : Work(j, n)
          \/ Listen
          \/ Restart

(* Any request at any time.                                                *)
Request(c, j) == \/ StartJob(c, j) \/ PauseJob(c, j) \/ ResumeJob(c, j)
                 \/ CancelJob(c, j) \/ DeleteJob(c, j)

Next == \/ \E c \in Clients, j \in Jobs : Request(c, j) \/ Handle(c, j)
        \/ \E j \in Jobs, n \in 1..MaxRuns : Work(j, n)
        \/ Listen
        \/ Restart

(* Trio runs every task that can run, and the database answers.  Nothing   *)
(* makes a job end, a client ask or the server be killed.                  *)
Fairness ==
  /\ \A c \in Clients : WF_vars(\E j \in Jobs : Handle(c, j))
  /\ \A j \in Jobs, n \in 1..MaxRuns : WF_vars(Run(j, n))
  /\ WF_vars(Listen)

Spec == Init /\ [][Next]_vars
FairSpec == Spec /\ Fairness

-----------------------------------------------------------------------------
(* Properties *)

TypeOK ==
  /\ db \in [Jobs -> RunStates \cup {"none", "deleted"}]
  /\ frontier \subseteq Jobs
  /\ stats \in [Jobs -> RunStates \cup {None}]
  /\ registry \in [Jobs -> 0..MaxRuns]
  /\ channels \subseteq Jobs
  /\ runs \in [Jobs -> 0..MaxRuns]
  /\ stage \in [Jobs -> [1..MaxRuns -> Stages]]
  /\ call \in [Clients -> [at : Waits \cup {"idle"}, job : Jobs \cup {None}, run : 0..MaxRuns]]
  /\ listener \in Seq([job : Jobs, state : RunStates]) /\ Len(listener) <= ChannelSize
  /\ heard \in [Jobs -> RunStates \cup {None}]
  /\ missed \subseteq Jobs /\ valid \subseteq Jobs
  /\ killed \in BOOLEAN /\ disorder \in 0..MaxDisorder /\ alive \in BOOLEAN

(* All requests so far were orderly.                                       *)
Orderly == disorder = 0

Active(j) == {n \in 1..MaxRuns : stage[j][n] \in Ahead \cup Under \cup Behind}

(* No run of a job begins before the last one has stopped, if requests are *)
(* orderly: two runs would share one frontier, one channel of the rate     *)
(* limiter and one entry of CrawlManager._jobs.                            *)
OneRunPerJob ==
  Orderly => \A j \in Jobs : Cardinality({n \in 1..MaxRuns : stage[j][n] \in Ahead \cup Under}) <= 1

(* The dictionary of jobs holds just those that run, each with its latest  *)
(* run, and the rate limiter has a channel for just those jobs that run or *)
(* will: a request for a job without one would end the rate limiter.  (The  *)
(* types are checked with it.)                                             *)
RegistryIsExact ==
  /\ TypeOK
  /\ Orderly => \A j \in Jobs :
       /\ \A n \in 1..MaxRuns : stage[j][n] \in Under <=> registry[j] = n
       /\ j \in channels <=> \E n \in 1..MaxRuns : stage[j][n] \in Ahead \cup Under

(* No interleaving of requests and of jobs that end makes _run_job raise   *)
(* KeyError, which would end the server.                                   *)
ServerSurvives == Orderly => alive

(* No task and no request is about to change the state of the job.         *)
AtRest(j) == Active(j) = {} /\ Quiet(j)

(* When nothing happens to a job, its row, the statistics and the last     *)
(* event that a listener has received tell the same state - unless the     *)
(* event was dropped because the listener was late -, and one that has     *)
(* finished leaves no row in the frontier, unless the server was killed    *)
(* between the two queries.  A job whose start raised after its row was    *)
(* created is the exception: it stays pending, and the statistics do not   *)
(* know it until the server starts again.                                  *)
PlacesAgree ==
  Orderly => \A j \in Jobs :
    AtRest(j) /\ Exists(j) =>
      /\ stats[j] \in {db[j], None}
      /\ db[j] \notin FinishedStates =>
           stats[j] = db[j] \/ (db[j] = "pending" /\ j \notin valid)
      /\ j \notin missed /\ (\A k \in DOMAIN listener : listener[k].job # j)
           => heard[j] \in {db[j], None}
      /\ db[j] \in FinishedStates => killed \/ j \notin frontier

Transitions ==
  {<<"none", "pending">>, <<"pending", "running">>, <<"running", "paused">>,
   <<"paused", "running">>, <<"running", "completed">>, <<"paused", "cancelled">>,
   <<"cancelled", "deleted">>, <<"completed", "deleted">>}

(* The row of a job only makes the steps of a job's life: in particular    *)
(* what is finished is never run, paused or finished again, though a pause *)
(* may overlap the job's own end.                                          *)
LifeCycle ==
  [][Orderly' => \A j \in Jobs : db'[j] # db[j] => <<db[j], db'[j]>> \in Transitions]_vars

(* Every request returns, except for a pause whose job ends by itself.     *)
RequestsReturn ==
  \A c \in Clients : call[c] # Idle ~> (call[c] = Idle \/ Hangs(c) \/ ~alive)

(* "Stop the specified job if it is currently running and set it to        *)
(* cancelled in the database" (cancel_job): a cancelled job does not run.  *)
CancelStops ==
  \A j \in Jobs : Quiet(j) /\ db[j] = "cancelled" => registry[j] = 0
=============================================================================
