-------------------------- MODULE CrawlManagerProofs --------------------------
(* Theorems about CrawlManager, for all jobs, clients, numbers of runs and *)
(* of disorderly requests, and sizes of the state channel.                 *)
EXTENDS CrawlManager, FiniteSetTheorems, TLAPS

-----------------------------------------------------------------------------
(* The invariant *)

(* The runs of a job that change its state, or will.                       *)
LiveStages == Ahead \cup Under \cup {"ending", "finishing", "clearing", "cleared"}
Live(j, n) == stage[j][n] \in LiveStages
Rests(j) == \A n \in 1..MaxRuns : ~Live(j, n)

(* A request for the job that will do something.                           *)
Asks(c, j) == call[c].job = j /\ ~Hangs(c)
Unasked(j) == \A c \in Clients : ~Asks(c, j)

States(j, row, shown) == db[j] \in row /\ stats[j] \in shown

(* What a live run says of its job.                                        *)
RunFits(j, n) ==
  /\ stage[j][n] \in Ahead =>
       registry[j] = 0 /\ j \in channels /\ Unasked(j)
  /\ stage[j][n] \in Under =>
       registry[j] = n /\ j \in channels /\ States(j, {"running"}, {"running"})
  /\ stage[j][n] \in LiveStages \ (Ahead \cup Under) =>
       registry[j] = 0 /\ j \notin channels /\ Unasked(j)
  /\ stage[j][n] = "starting" => db[j] \in {"pending", "running"} /\ stats[j] = db[j]
  /\ stage[j][n] = "marked" => States(j, {"running"}, {"pending", "running"})
  /\ stage[j][n] = "running" => Unasked(j)
  /\ stage[j][n] = "cancelling" =>
       \E c \in Clients : Asks(c, j) /\ call[c].at = "pause:stopped" /\ call[c].run = n
  /\ stage[j][n] \in {"ending", "finishing"} => States(j, {"running"}, {"running"})
  /\ stage[j][n] \in {"clearing", "cleared"} => States(j, {"completed"}, {"running"})
  /\ stage[j][n] = "cleared" => j \notin frontier

(* What a request says of its job.                                         *)
AskFits(c, j) ==
  /\ call[c].at # "idle"
  /\ call[c].at = "pause:stopped" =>
       /\ States(j, {"running"}, {"running"})
       /\ stage[j][call[c].run] = "cancelling" \/ Rests(j)
  /\ call[c].at # "pause:stopped" => Rests(j)
  /\ call[c].at \in {"start:frontier", "start:return"} => States(j, {"pending"}, {None})
  /\ call[c].at = "pause:save" => States(j, {"running"}, {"running"})
  /\ call[c].at = "pause:return" => States(j, {"paused"}, {"running"})
  /\ call[c].at \in {"resume:update", "cancel:finish"} => States(j, {"paused"}, {"paused"})
  /\ call[c].at = "resume:return" => States(j, {"running"}, {"paused"})
  /\ call[c].at \in {"cancel:clear", "cancel:return"} => States(j, {"cancelled"}, {"paused"})
  /\ call[c].at = "cancel:return" => j \notin frontier
  /\ call[c].at \in {"delete:check", "delete:delete"} =>
       db[j] \in FinishedStates /\ stats[j] = db[j] /\ (killed \/ j \notin frontier)
  /\ call[c].at = "delete:return" => States(j, {"deleted"}, FinishedStates)

(* What can be said when there is neither.                                 *)
RestFits(j) ==
  /\ db[j] # "running"
  /\ \/ stats[j] = db[j]
     \/ stats[j] = None /\ db[j] \in FinishedStates \cup {"none", "deleted"}
     \/ stats[j] = None /\ db[j] = "pending" /\ j \notin valid
  /\ stats[j] \in RunStates \cup {None}
  /\ db[j] \in FinishedStates => killed \/ j \notin frontier

(* A pause waits for a run that was cancelled, and runs are numbered.      *)
Left == {"cancelling", "stopping", "stopped", "ending", "finishing", "clearing", "cleared", "ended"}
PausesFit(j) ==
  \A c \in Clients : call[c].job = j /\ call[c].at = "pause:stopped" =>
    call[c].run \in 1..MaxRuns /\ stage[j][call[c].run] \in Left
Numbered(j) == \A n \in 1..MaxRuns : n > runs[j] => stage[j][n] = "none"

OneAsks(j) == \A c, d \in Clients : Asks(c, j) /\ Asks(d, j) => c = d
OneLives(j) == \A m, n \in 1..MaxRuns : Live(j, m) /\ Live(j, n) => m = n

JobInv(j) ==
  /\ OneAsks(j) /\ OneLives(j)
  /\ \A n \in 1..MaxRuns : Live(j, n) => RunFits(j, n)
  /\ \A c \in Clients : Asks(c, j) => AskFits(c, j)
  /\ Rests(j) => registry[j] = 0 /\ j \notin channels
  /\ Rests(j) /\ Unasked(j) => RestFits(j)
  /\ PausesFit(j) /\ Numbered(j)

(* A job that cannot be made is pending at most, and never runs.           *)
Unmade(j) == j \notin valid =>
  db[j] \in {"none", "pending"} /\ \A n \in 1..MaxRuns : stage[j][n] = "none"

(* The runs, and those that requests are about to add, keep to the bound.  *)
Adding(j) == {c \in Clients : call[c].job = j /\ call[c].at \in AddRun}
RunsBounded == \A j \in Jobs : runs[j] + Cardinality(Adding(j)) <= MaxRuns

(* The last event of a job tells the state that the statistics show.       *)
Settled(j) == \A n \in 1..MaxRuns : stage[j][n] \notin Ahead
LastOf(j, k) == listener[k].job = j /\ \A i \in k + 1 .. Len(listener) : listener[i].job # j
Told(j) ==
  /\ \A k \in DOMAIN listener : LastOf(j, k) => listener[k].state = stats[j]
  /\ (\A k \in DOMAIN listener : listener[k].job # j) => heard[j] \in {stats[j], None}
EventsTold == \A j \in Jobs : Settled(j) /\ j \notin missed /\ db[j] # "deleted" => Told(j)

Inv == /\ TypeOK /\ RunsBounded
       /\ Orderly => alive /\ (\A j \in Jobs : JobInv(j) /\ Unmade(j)) /\ EventsTold

-----------------------------------------------------------------------------
(* Types *)

(* Facts about sequences.                                                  *)
LEMMA AppendFacts ==
  ASSUME NEW S, NEW seq \in Seq(S), NEW e \in S
  PROVE  /\ Append(seq, e) \in Seq(S)
         /\ Len(Append(seq, e)) = Len(seq) + 1
         /\ \A k \in 1 .. Len(seq) : Append(seq, e)[k] = seq[k]
         /\ Append(seq, e)[Len(seq) + 1] = e
  OBVIOUS

LEMMA TailFacts ==
  ASSUME NEW S, NEW seq \in Seq(S), seq # <<>>
  PROVE  /\ Head(seq) = seq[1] /\ Head(seq) \in S
         /\ Tail(seq) \in Seq(S)
         /\ Len(seq) \in Nat \ {0}
         /\ Len(Tail(seq)) = Len(seq) - 1
         /\ \A k \in 1 .. Len(seq) - 1 : Tail(seq)[k] = seq[k + 1]
  OBVIOUS

(* The type of variable call.                                              *)
CallType == [Clients ->
  [at : Waits \cup {"idle"}, job : Jobs \cup {None}, run : 0..MaxRuns]]
USE DEF CallType

(* What the operators that change a variable leave in it.                  *)
LEMMA EnterTyped ==
  ASSUME TypeOK, NEW j \in Jobs, NEW n \in 1..MaxRuns, NEW s \in Stages, Enter(j, n, s)
  PROVE  /\ stage' \in [Jobs -> [1..MaxRuns -> Stages]]
         /\ stage' = [stage EXCEPT ![j] = [stage[j] EXCEPT ![n] = s]]
  BY DEF TypeOK, Enter

LEMMA CallTyped ==
  ASSUME TypeOK, NEW c \in Clients, NEW j \in Jobs, NEW at \in Waits,
         Wait(c, at) \/ Begin(c, at, j) \/ Return(c)
  PROVE  call' \in CallType
  <1>1. CASE Wait(c, at)
    BY <1>1 DEF TypeOK, Wait
  <1>2. CASE Begin(c, at, j)
    BY <1>2 DEF TypeOK, Begin
  <1>3. CASE Return(c)
    BY <1>3, CrawlManagerAssumption DEF TypeOK, Return, Idle
  <1> QED BY <1>1, <1>2, <1>3

LEMMA EventTyped ==
  ASSUME TypeOK, NEW j \in Jobs, NEW state \in RunStates, SendEvent(j, state)
  PROVE  /\ listener' \in Seq([job : Jobs, state : RunStates]) /\ Len(listener') <= ChannelSize
         /\ missed' \subseteq Jobs
         /\ heard' \in [Jobs -> RunStates \cup {None}]
  <1> DEFINE event == [job |-> j, state |-> state]
             Event == [job : Jobs, state : RunStates]
  <1>1. event \in Event
    OBVIOUS
  <1>2. listener \in Seq(Event) /\ Len(listener) <= ChannelSize /\ missed \subseteq Jobs
        /\ heard' \in [Jobs -> RunStates \cup {None}]
    BY DEF TypeOK, SendEvent
  <1>3. CASE Len(listener) < ChannelSize
    <2>1. listener' = Append(listener, event) /\ missed' = missed \ {j}
      BY <1>3 DEF SendEvent
    <2> HIDE DEF event, Event
    <2>2. listener' \in Seq(Event) /\ Len(listener') = Len(listener) + 1
      BY <1>1, <1>2, <2>1, AppendFacts
    <2>3. Len(listener') <= ChannelSize
      BY <1>2, <1>3, <2>2, CrawlManagerAssumption
    <2> QED BY <1>2, <2>1, <2>2, <2>3 DEF Event
  <1>4. CASE ~(Len(listener) < ChannelSize)
    BY <1>2, <1>4 DEF SendEvent
  <1> QED BY <1>3, <1>4

LEMMA UpdateTyped ==
  ASSUME TypeOK, NEW j \in Jobs, NEW state \in RunStates \cup {"deleted"}, Update(j, state)
  PROVE  db' \in [Jobs -> RunStates \cup {"none", "deleted"}]
  BY DEF TypeOK, Update

(* The requests that are about to add a run of a job.                      *)
LEMMA AddingFinite ==
  ASSUME NEW j \in Jobs
  PROVE  /\ IsFiniteSet(Adding(j)) /\ Cardinality(Adding(j)) \in Nat
         /\ IsFiniteSet(Adding(j)') /\ Cardinality(Adding(j)') \in Nat
  <1>1. \A S \in SUBSET Clients : IsFiniteSet(S) /\ Cardinality(S) \in Nat
    BY CrawlManagerAssumption, FS_Subset, FS_CardinalityType
  <1>2. Adding(j) \in SUBSET Clients /\ Adding(j)' \in SUBSET Clients
    BY DEF Adding
  <1> QED BY <1>1, <1>2

LEMMA AddingKept ==
  ASSUME NEW j \in Jobs, Adding(j)' \subseteq Adding(j)
  PROVE  Cardinality(Adding(j)') <= Cardinality(Adding(j))
  BY AddingFinite, FS_Subset

LEMMA AddingOne ==
  ASSUME NEW j \in Jobs, NEW c \in Clients, Adding(j)' \subseteq Adding(j) \cup {c}
  PROVE  Cardinality(Adding(j)') <= Cardinality(Adding(j)) + 1
  <1>1. /\ IsFiniteSet(Adding(j) \cup {c})
        /\ Cardinality(Adding(j) \cup {c}) <= Cardinality(Adding(j)) + 1
        /\ Cardinality(Adding(j) \cup {c}) \in Nat
    <2> DEFINE S == Adding(j)
    <2>1. IsFiniteSet(S) /\ Cardinality(S) \in Nat
      BY AddingFinite
    <2> HIDE DEF S
    <2>2. /\ IsFiniteSet(S \cup {c})
          /\ Cardinality(S \cup {c}) = IF c \in S THEN Cardinality(S) ELSE Cardinality(S) + 1
      BY <2>1, FS_AddElement
    <2>3. Cardinality(S \cup {c}) <= Cardinality(S) + 1 /\ Cardinality(S \cup {c}) \in Nat
      BY <2>1, <2>2
    <2> QED BY <2>2, <2>3 DEF S
  <1>2. Cardinality(Adding(j)') <= Cardinality(Adding(j) \cup {c})
    BY <1>1, FS_Subset
  <1> QED BY <1>1, <1>2, AddingFinite

LEMMA AddingOneLess ==
  ASSUME NEW j \in Jobs, NEW c \in Adding(j), Adding(j)' \subseteq Adding(j) \ {c}
  PROVE  Cardinality(Adding(j)') + 1 <= Cardinality(Adding(j))
  <1>1. /\ IsFiniteSet(Adding(j) \ {c})
        /\ Cardinality(Adding(j) \ {c}) = Cardinality(Adding(j)) - 1
        /\ Cardinality(Adding(j) \ {c}) \in Int
    BY AddingFinite, FS_RemoveElement, FS_CardinalityType
  <1>2. Cardinality(Adding(j)') <= Cardinality(Adding(j) \ {c})
    BY <1>1, FS_Subset
  <1> QED BY <1>1, <1>2, AddingFinite

(* A step that adds no run, and no request that will, keeps to the bound.  *)
LEMMA BoundKept ==
  ASSUME TypeOK, RunsBounded, UNCHANGED runs, \A j \in Jobs : Adding(j)' \subseteq Adding(j)
  PROVE  RunsBounded'
  <1> SUFFICES ASSUME NEW j \in Jobs
               PROVE  runs'[j] + Cardinality(Adding(j)') <= MaxRuns
    BY DEF RunsBounded
  <1>1. runs[j] + Cardinality(Adding(j)) <= MaxRuns /\ runs'[j] = runs[j] /\ runs[j] \in Nat
    BY DEF RunsBounded, TypeOK
  <1> QED BY <1>1, AddingKept, AddingFinite, CrawlManagerAssumption

(* One that lets a request begin that will add a run needs a free one.     *)
LEMMA BoundReached ==
  ASSUME TypeOK, RunsBounded, UNCHANGED runs, NEW c \in Clients, NEW j \in Jobs, NEW at \in Waits,
         Begin(c, at, j), RunsLeft(j)
  PROVE  RunsBounded'
  <1> SUFFICES ASSUME NEW i \in Jobs
               PROVE  runs'[i] + Cardinality(Adding(i)') <= MaxRuns
    BY DEF RunsBounded
  <1>1. runs[i] + Cardinality(Adding(i)) <= MaxRuns /\ runs'[i] = runs[i] /\ runs[i] \in Nat
    BY DEF RunsBounded, TypeOK
  <1>2. CASE i = j
    <2>1. Adding(j)' \subseteq Adding(j) \cup {c}
      BY DEF Adding, Begin, TypeOK
    <2>2. runs[j] + Cardinality(Adding(j)) < MaxRuns
      BY DEF RunsLeft, Adding
    <2> QED BY <1>1, <1>2, <2>1, <2>2, AddingOne, AddingFinite, CrawlManagerAssumption
  <1>3. CASE i # j
    <2>1. Adding(i)' \subseteq Adding(i)
      BY <1>3 DEF Adding, Begin, TypeOK
    <2> QED BY <1>1, <2>1, AddingKept, AddingFinite, CrawlManagerAssumption
  <1> QED BY <1>2, <1>3

(* A request that adds its run is one less that will.                      *)
LEMMA BoundUsed ==
  ASSUME TypeOK, RunsBounded, NEW c \in Clients, NEW j \in Jobs, NEW state \in RunStates,
         c \in Adding(j), Return(c), MakeJob(j, state)
  PROVE  /\ RunsBounded'
         /\ runs[j] + 1 \in 1..MaxRuns
         /\ runs' \in [Jobs -> 0..MaxRuns]
  <1>1. \A i \in Jobs : runs[i] + Cardinality(Adding(i)) <= MaxRuns /\ runs[i] \in Nat
    BY DEF RunsBounded, TypeOK
  <1>2. Cardinality(Adding(j)') + 1 <= Cardinality(Adding(j))
    <2>1. Adding(j)' \subseteq Adding(j) \ {c}
      BY CrawlManagerAssumption DEF Adding, Return, Idle, TypeOK, AddRun
    <2> QED BY <2>1, AddingOneLess
  <1>3. runs[j] + 1 \in 1..MaxRuns
    BY <1>1, <1>2, AddingFinite, CrawlManagerAssumption
  <1>4. runs' = [runs EXCEPT ![j] = runs[j] + 1]
    BY DEF MakeJob
  <1>5. ASSUME NEW i \in Jobs
        PROVE  runs'[i] + Cardinality(Adding(i)') <= MaxRuns
    <2>1. CASE i = j
      BY <1>1, <1>2, <1>4, <2>1, AddingFinite, CrawlManagerAssumption DEF TypeOK
    <2>2. CASE i # j
      <3>1. Adding(i)' \subseteq Adding(i)
        BY CrawlManagerAssumption DEF Adding, Return, Idle, TypeOK, AddRun
      <3>2. runs'[i] = runs[i]
        BY <1>4, <2>2 DEF TypeOK
      <3> QED BY <1>1, <3>1, <3>2, AddingKept, AddingFinite, CrawlManagerAssumption
    <2> QED BY <2>1, <2>2
  <1> QED BY <1>3, <1>4, <1>5 DEF RunsBounded, TypeOK

(* A request that waits for something else, begins or returns adds no run  *)
(* unless it says so.                                                      *)
LEMMA BoundWaited ==
  ASSUME TypeOK, RunsBounded, UNCHANGED runs,
         NEW c \in Clients, NEW j \in Jobs, NEW at \in Waits, NEW next \in Waits,
         \/ At(c, at, j) /\ Wait(c, next) /\ (next \in AddRun => at \in AddRun)
         \/ Begin(c, next, j) /\ call[c] = Idle /\ next \notin AddRun
         \/ Return(c)
         \/ UNCHANGED call
  PROVE  RunsBounded'
  <1>1. ASSUME NEW i \in Jobs PROVE Adding(i)' \subseteq Adding(i)
    <2>1. CASE At(c, at, j) /\ Wait(c, next) /\ (next \in AddRun => at \in AddRun)
      BY <2>1 DEF TypeOK, Adding, At, Wait
    <2>2. CASE Begin(c, next, j) /\ call[c] = Idle /\ next \notin AddRun
      BY <2>2 DEF TypeOK, Adding, Begin
    <2>3. CASE Return(c)
      BY <2>3 DEF TypeOK, Adding, Return, Idle, AddRun
    <2>4. CASE UNCHANGED call
      BY <2>4 DEF Adding
    <2> QED BY <2>1, <2>2, <2>3, <2>4
  <1> QED BY <1>1, BoundKept

(* A request that is not orderly is counted, up to the bound.              *)
LEMMA AskTyped ==
  ASSUME TypeOK, NEW c \in Clients, NEW j \in Jobs, NEW at \in Waits, NEW states,
         Ask(c, at, j, states)
  PROVE  disorder' \in 0..MaxDisorder /\ killed' \in BOOLEAN /\ valid' \subseteq Jobs
  BY CrawlManagerAssumption DEF TypeOK, Ask

(* The types after a request has begun.                                    *)
LEMMA RequestTyped ==
  ASSUME TypeOK, RunsBounded, NEW c \in Clients, NEW j \in Jobs, Request(c, j)
  PROVE  TypeOK' /\ RunsBounded'
  <1> USE DEF Waits, AddRun
  <1>1. CASE StartJob(c, j)
    <2>1. call' \in CallType
      BY <1>1, CallTyped DEF StartJob
    <2>2. RunsBounded'
      BY <1>1, BoundReached DEF StartJob, memoryVars
    <2> QED BY <1>1, <2>1, <2>2 DEF StartJob, TypeOK, RunStates, memoryVars, eventVars, historyVars
  <1>2. CASE ResumeJob(c, j)
    <2>1. call' \in CallType
      BY <1>2, CallTyped DEF ResumeJob, Ask
    <2>2. RunsBounded'
      BY <1>2, BoundReached DEF ResumeJob, Ask, memoryVars
    <2>4. disorder' \in 0..MaxDisorder /\ killed' \in BOOLEAN /\ valid' \subseteq Jobs
      BY <1>2, AskTyped DEF ResumeJob
    <2> QED BY <1>2, <2>1, <2>2, <2>4
          DEF ResumeJob, TypeOK, tableVars, memoryVars, eventVars
  <1>3. CASE PauseJob(c, j)
    <2>1. call' \in CallType
      BY <1>3, CallTyped DEF PauseJob, Ask
    <2>2. RunsBounded'
      BY <1>3, BoundWaited DEF PauseJob, Ask, memoryVars
    <2>3. stage' \in [Jobs -> [1..MaxRuns -> Stages]]
      BY <1>3, EnterTyped DEF PauseJob, TypeOK, Stages, Under
    <2>4. disorder' \in 0..MaxDisorder /\ killed' \in BOOLEAN /\ valid' \subseteq Jobs
      BY <1>3, AskTyped DEF PauseJob
    <2> QED BY <1>3, <2>1, <2>2, <2>3, <2>4
          DEF PauseJob, TypeOK, tableVars, memoryVars, eventVars
  <1>4. CASE CancelJob(c, j)
    <2>1. call' \in CallType
      BY <1>4, CallTyped DEF CancelJob, Ask
    <2>2. RunsBounded'
      BY <1>4, BoundWaited DEF CancelJob, Ask, memoryVars
    <2>4. disorder' \in 0..MaxDisorder /\ killed' \in BOOLEAN /\ valid' \subseteq Jobs
      BY <1>4, AskTyped DEF CancelJob
    <2> QED BY <1>4, <2>1, <2>2, <2>4
          DEF CancelJob, TypeOK, tableVars, memoryVars, eventVars
  <1>5. CASE DeleteJob(c, j)
    <2>1. call' \in CallType
      BY <1>5, CallTyped DEF DeleteJob, Ask
    <2>2. RunsBounded'
      BY <1>5, BoundWaited DEF DeleteJob, Ask, memoryVars
    <2>4. disorder' \in 0..MaxDisorder /\ killed' \in BOOLEAN /\ valid' \subseteq Jobs
      BY <1>5, AskTyped DEF DeleteJob
    <2> QED BY <1>5, <2>1, <2>2, <2>4
          DEF DeleteJob, TypeOK, tableVars, memoryVars, eventVars
  <1> QED BY <1>1, <1>2, <1>3, <1>4, <1>5 DEF Request

(* The types after a request has done what it waited for.                  *)
LEMMA HandleTyped ==
  ASSUME TypeOK, RunsBounded, NEW c \in Clients, NEW j \in Jobs, Handle(c, j)
  PROVE  TypeOK' /\ RunsBounded'
  <1> USE DEF Waits, AddRun
  <1>1. CASE InsertSeeds(c, j)
    <2>1. call' \in CallType
      BY <1>1, CallTyped DEF InsertSeeds
    <2>2. RunsBounded'
      BY <1>1, BoundWaited DEF InsertSeeds, memoryVars
    <2> QED BY <1>1, <2>1, <2>2
          DEF InsertSeeds, TypeOK, tableVars, memoryVars, eventVars, historyVars
  <1>2. CASE AwaitStopped(c, j)
    <2>1. call' \in CallType
      BY <1>2, CallTyped DEF AwaitStopped
    <2>2. RunsBounded'
      BY <1>2, BoundWaited DEF AwaitStopped, memoryVars
    <2> QED BY <1>2, <2>1, <2>2
          DEF AwaitStopped, TypeOK, tableVars, memoryVars, eventVars, historyVars
  <1>3. CASE SavePause(c, j)
    <2>1. call' \in CallType
      BY <1>3, CallTyped DEF SavePause
    <2>2. RunsBounded'
      BY <1>3, BoundWaited DEF SavePause, memoryVars
    <2>3. db' \in [Jobs -> RunStates \cup {"none", "deleted"}]
      BY <1>3, UpdateTyped DEF SavePause, RunStates, TypeOK
    <2> QED BY <1>3, <2>1, <2>2, <2>3
          DEF SavePause, TypeOK, tableVars, memoryVars, eventVars, historyVars
  <1>4. CASE JobPaused(c, j)
    <2>1. call' \in CallType
      BY <1>4, CallTyped DEF JobPaused
    <2>2. RunsBounded'
      BY <1>4, BoundWaited DEF JobPaused, memoryVars
    <2>3. /\ listener' \in Seq([job : Jobs, state : RunStates]) /\ Len(listener') <= ChannelSize
          /\ missed' \subseteq Jobs
          /\ heard' \in [Jobs -> RunStates \cup {None}]
      BY <1>4, EventTyped DEF JobPaused, RunStates, TypeOK, eventVars
    <2>4. stats' \in [Jobs -> RunStates \cup {None}]
      BY <1>4 DEF JobPaused, SetStats, RunStates, TypeOK
    <2> QED BY <1>4, <2>1, <2>2, <2>3, <2>4
          DEF JobPaused, TypeOK, tableVars, memoryVars, eventVars, historyVars
  <1>5. CASE ResumeUpdate(c, j)
    <2>1. call' \in CallType
      BY <1>5, CallTyped DEF ResumeUpdate
    <2>2. RunsBounded'
      BY <1>5, BoundWaited DEF ResumeUpdate, memoryVars
    <2>3. db' \in [Jobs -> RunStates \cup {"none", "deleted"}]
      BY <1>5, UpdateTyped DEF ResumeUpdate, RunStates, TypeOK
    <2> QED BY <1>5, <2>1, <2>2, <2>3
          DEF ResumeUpdate, TypeOK, tableVars, memoryVars, eventVars, historyVars
  <1>6. CASE CancelFinish(c, j)
    <2>1. call' \in CallType
      BY <1>6, CallTyped DEF CancelFinish
    <2>2. RunsBounded'
      BY <1>6, BoundWaited DEF CancelFinish, memoryVars
    <2>3. db' \in [Jobs -> RunStates \cup {"none", "deleted"}]
      BY <1>6, UpdateTyped DEF CancelFinish, RunStates, TypeOK
    <2> QED BY <1>6, <2>1, <2>2, <2>3
          DEF CancelFinish, TypeOK, tableVars, memoryVars, eventVars, historyVars
  <1>7. CASE CancelClear(c, j)
    <2>1. call' \in CallType
      BY <1>7, CallTyped DEF CancelClear
    <2>2. RunsBounded'
      BY <1>7, BoundWaited DEF CancelClear, memoryVars
    <2> QED BY <1>7, <2>1, <2>2
          DEF CancelClear, TypeOK, tableVars, memoryVars, eventVars, historyVars
  <1>8. CASE JobCancelled(c, j)
    <2>1. call' \in CallType
      BY <1>8, CallTyped DEF JobCancelled
    <2>2. RunsBounded'
      BY <1>8, BoundWaited DEF JobCancelled, memoryVars
    <2>3. /\ listener' \in Seq([job : Jobs, state : RunStates]) /\ Len(listener') <= ChannelSize
          /\ missed' \subseteq Jobs
          /\ heard' \in [Jobs -> RunStates \cup {None}]
      BY <1>8, EventTyped DEF JobCancelled, RunStates, TypeOK, eventVars
    <2>4. stats' \in [Jobs -> RunStates \cup {None}]
      BY <1>8 DEF JobCancelled, SetStats, RunStates, TypeOK
    <2> QED BY <1>8, <2>1, <2>2, <2>3, <2>4
          DEF JobCancelled, TypeOK, tableVars, memoryVars, eventVars, historyVars
  <1>9. CASE DeleteCheck(c, j)
    <2>1. call' \in CallType
      BY <1>9, CallTyped DEF DeleteCheck
    <2>2. RunsBounded'
      BY <1>9, BoundWaited DEF DeleteCheck, memoryVars
    <2> QED BY <1>9, <2>1, <2>2
          DEF DeleteCheck, TypeOK, tableVars, memoryVars, eventVars, historyVars
  <1>10. CASE DeleteRow(c, j)
    <2>1. call' \in CallType
      BY <1>10, CallTyped DEF DeleteRow
    <2>2. RunsBounded'
      BY <1>10, BoundWaited DEF DeleteRow, memoryVars
    <2>3. db' \in [Jobs -> RunStates \cup {"none", "deleted"}]
      BY <1>10, UpdateTyped DEF DeleteRow, RunStates, TypeOK
    <2> QED BY <1>10, <2>1, <2>2, <2>3
          DEF DeleteRow, TypeOK, tableVars, memoryVars, eventVars, historyVars
  <1>11. CASE JobDeleted(c, j)
    <2>1. call' \in CallType
      BY <1>11, CallTyped DEF JobDeleted
    <2>2. RunsBounded'
      BY <1>11, BoundWaited DEF JobDeleted, memoryVars
    <2> QED BY <1>11, <2>1, <2>2
          DEF JobDeleted, SetStats, TypeOK, tableVars, memoryVars, eventVars, historyVars
  <1>12. CASE JobStarted(c, j)
    <2>1. call' \in CallType
      BY <1>12, CallTyped DEF JobStarted
    <2>2. c \in Adding(j)
      BY <1>12 DEF JobStarted, At, Adding
    <2>3. RunsBounded' /\ runs[j] + 1 \in 1..MaxRuns /\ runs' \in [Jobs -> 0..MaxRuns]
      BY <1>12, <2>2, BoundUsed DEF JobStarted, RunStates
    <2>4. stage' \in [Jobs -> [1..MaxRuns -> Stages]]
      BY <1>12, <2>3, EnterTyped DEF JobStarted, MakeJob, Stages, Ahead
    <2> QED BY <1>12, <2>1, <2>3, <2>4
          DEF JobStarted, MakeJob, SetStats, TypeOK, RunStates, tableVars, eventVars, historyVars
  <1>13. CASE JobResumed(c, j)
    <2>1. call' \in CallType
      BY <1>13, CallTyped DEF JobResumed
    <2>2. c \in Adding(j)
      BY <1>13 DEF JobResumed, At, Adding
    <2>3. RunsBounded' /\ runs[j] + 1 \in 1..MaxRuns /\ runs' \in [Jobs -> 0..MaxRuns]
      BY <1>13, <2>2, BoundUsed DEF JobResumed, RunStates
    <2>4. stage' \in [Jobs -> [1..MaxRuns -> Stages]]
      BY <1>13, <2>3, EnterTyped DEF JobResumed, MakeJob, Stages, Ahead
    <2> QED BY <1>13, <2>1, <2>3, <2>4
          DEF JobResumed, MakeJob, SetStats, TypeOK, RunStates, tableVars, eventVars, historyVars
  <1>14. CASE JobStartRaises(c, j) \/ JobResumeRaises(c, j)
    <2>1. call' \in CallType
      BY <1>14, CallTyped DEF JobStartRaises, JobResumeRaises
    <2>2. RunsBounded'
      BY <1>14, BoundWaited DEF JobStartRaises, JobResumeRaises, memoryVars
    <2> QED BY <1>14, <2>1, <2>2
          DEF JobStartRaises, JobResumeRaises, TypeOK, tableVars, memoryVars, eventVars, historyVars
  <1> QED BY <1>1, <1>2, <1>3, <1>4, <1>5, <1>6, <1>7, <1>8, <1>9, <1>10, <1>11, <1>12,
             <1>13, <1>14
          DEF Handle

(* The types after a step of a run.                                        *)
LEMMA WorkTyped ==
  ASSUME TypeOK, RunsBounded, NEW j \in Jobs, NEW n \in 1..MaxRuns, Work(j, n)
  PROVE  TypeOK' /\ RunsBounded'
  <1>a. \A s \in Stages : Enter(j, n, s) => stage' \in [Jobs -> [1..MaxRuns -> Stages]]
    BY EnterTyped
  <1>b. ASSUME UNCHANGED <<runs, call>> PROVE RunsBounded'
    BY <1>b, BoundKept DEF Adding
  <1>1. CASE RunJob(j, n)
    <2>1. stage' \in [Jobs -> [1..MaxRuns -> Stages]]
      BY <1>1, <1>a DEF RunJob, Stages, Ahead, Under, Behind
    <2>2. RunsBounded'
      BY <1>1, <1>b DEF RunJob, memoryVars
    <2>3. db' \in [Jobs -> RunStates \cup {"none", "deleted"}]
      BY <1>1, UpdateTyped DEF RunJob, RunStates
    <2> QED BY <1>1, <2>1, <2>2, <2>3
          DEF RunJob, TypeOK, tableVars, memoryVars, eventVars, historyVars
  <1>2. CASE JobRunning(j, n)
    <2>1. stage' \in [Jobs -> [1..MaxRuns -> Stages]]
      BY <1>2, <1>a DEF JobRunning, Stages, Ahead, Under, Behind
    <2>2. RunsBounded'
      BY <1>2, <1>b DEF JobRunning, memoryVars
    <2>3. /\ listener' \in Seq([job : Jobs, state : RunStates]) /\ Len(listener') <= ChannelSize
          /\ missed' \subseteq Jobs
          /\ heard' \in [Jobs -> RunStates \cup {None}]
      BY <1>2, EventTyped DEF JobRunning, RunStates
    <2>4. stats' \in [Jobs -> RunStates \cup {None}]
      BY <1>2 DEF JobRunning, SetStats, RunStates, TypeOK
    <2>5. registry' \in [Jobs -> 0..MaxRuns]
      BY <1>2, CrawlManagerAssumption DEF JobRunning, TypeOK
    <2> QED BY <1>2, <2>1, <2>2, <2>3, <2>4, <2>5
          DEF JobRunning, TypeOK, tableVars, memoryVars, eventVars, historyVars
  <1>3. CASE JobStops(j, n)
    <2>1. stage' \in [Jobs -> [1..MaxRuns -> Stages]]
      BY <1>3, <1>a DEF JobStops, Remove, Stages, Ahead, Under, Behind
    <2>2. RunsBounded'
      BY <1>3, <1>b DEF JobStops, Remove, memoryVars
    <2>5. registry' \in [Jobs -> 0..MaxRuns]
      BY <1>3, CrawlManagerAssumption DEF JobStops, Remove, TypeOK
    <2> QED BY <1>3, <2>1, <2>2, <2>5
          DEF JobStops, Remove, TypeOK, tableVars, memoryVars, eventVars, historyVars
  <1>4. CASE JobRaises(j, n)
    <2>1. stage' \in [Jobs -> [1..MaxRuns -> Stages]]
      BY <1>4, <1>a DEF JobRaises, Remove, Stages, Ahead, Under, Behind
    <2>2. RunsBounded'
      BY <1>4, <1>b DEF JobRaises, Remove, memoryVars
    <2>5. registry' \in [Jobs -> 0..MaxRuns]
      BY <1>4, CrawlManagerAssumption DEF JobRaises, Remove, TypeOK
    <2> QED BY <1>4, <2>1, <2>2, <2>5
          DEF JobRaises, Remove, TypeOK, tableVars, memoryVars, eventVars, historyVars
  <1>5. CASE JobRemoved(j, n)
    <2>1. stage' \in [Jobs -> [1..MaxRuns -> Stages]]
      BY <1>5, <1>a DEF JobRemoved, Stages, Ahead, Under, Behind
    <2>2. RunsBounded'
      BY <1>5, <1>b DEF JobRemoved, memoryVars
    <2> QED BY <1>5, <2>1, <2>2
          DEF JobRemoved, TypeOK, tableVars, memoryVars, eventVars, historyVars
  <1>6. CASE FinishJob(j, n)
    <2>1. stage' \in [Jobs -> [1..MaxRuns -> Stages]]
      BY <1>6, <1>a DEF FinishJob, Stages, Ahead, Under, Behind
    <2>2. RunsBounded'
      BY <1>6, <1>b DEF FinishJob, memoryVars
    <2>3. db' \in [Jobs -> RunStates \cup {"none", "deleted"}]
      BY <1>6, UpdateTyped DEF FinishJob, RunStates
    <2> QED BY <1>6, <2>1, <2>2, <2>3
          DEF FinishJob, TypeOK, tableVars, memoryVars, eventVars, historyVars
  <1>7. CASE ClearFrontier(j, n)
    <2>1. stage' \in [Jobs -> [1..MaxRuns -> Stages]]
      BY <1>7, <1>a DEF ClearFrontier, Stages, Ahead, Under, Behind
    <2>2. RunsBounded'
      BY <1>7, <1>b DEF ClearFrontier, memoryVars
    <2> QED BY <1>7, <2>1, <2>2
          DEF ClearFrontier, TypeOK, tableVars, memoryVars, eventVars, historyVars
  <1>8. CASE JobCompleted(j, n)
    <2>1. stage' \in [Jobs -> [1..MaxRuns -> Stages]]
      BY <1>8, <1>a DEF JobCompleted, Stages, Ahead, Under, Behind
    <2>2. RunsBounded'
      BY <1>8, <1>b DEF JobCompleted, memoryVars
    <2>3. /\ listener' \in Seq([job : Jobs, state : RunStates]) /\ Len(listener') <= ChannelSize
          /\ missed' \subseteq Jobs
          /\ heard' \in [Jobs -> RunStates \cup {None}]
      BY <1>8, EventTyped DEF JobCompleted, RunStates
    <2>4. stats' \in [Jobs -> RunStates \cup {None}]
      BY <1>8 DEF JobCompleted, SetStats, RunStates, TypeOK
    <2> QED BY <1>8, <2>1, <2>2, <2>3, <2>4
          DEF JobCompleted, TypeOK, tableVars, memoryVars, eventVars, historyVars
  <1>9. CASE InsertLinks(j, n)
    BY <1>9, <1>b DEF InsertLinks, TypeOK, memoryVars, eventVars, historyVars
  <1>10. CASE RunJobRaises(j, n)
    BY <1>10, <1>b DEF RunJobRaises, Crash, TypeOK, tableVars, memoryVars, eventVars, historyVars
  <1> QED BY <1>1, <1>2, <1>3, <1>4, <1>5, <1>6, <1>7, <1>8, <1>9, <1>10 DEF Work, Run

(* Every step keeps the types and the bound on runs.                       *)
LEMMA TypeStep ==
  ASSUME TypeOK, RunsBounded, [Next]_vars
  PROVE  TypeOK' /\ RunsBounded'
  <1>1. ASSUME NEW c \in Clients, NEW j \in Jobs, Request(c, j) \/ Handle(c, j)
        PROVE  TypeOK' /\ RunsBounded'
    BY <1>1, RequestTyped, HandleTyped
  <1>2. ASSUME NEW j \in Jobs, NEW n \in 1..MaxRuns, Work(j, n)
        PROVE  TypeOK' /\ RunsBounded'
    BY <1>2, WorkTyped
  <1>3. CASE Listen
    <2>1. RunsBounded'
      BY <1>3, BoundKept DEF Listen, memoryVars, Adding
    <2> DEFINE Event == [job : Jobs, state : RunStates]
    <2>2. listener \in Seq(Event) /\ Len(listener) <= ChannelSize /\ listener # <<>>
      BY <1>3 DEF TypeOK, Listen
    <2>3. /\ Head(listener) \in Event
          /\ Tail(listener) \in Seq(Event) /\ Len(Tail(listener)) <= ChannelSize
      <3> HIDE DEF Event
      <3>1. /\ Head(listener) \in Event /\ Tail(listener) \in Seq(Event)
            /\ Len(listener) \in Nat /\ Len(Tail(listener)) = Len(listener) - 1
        BY <2>2, TailFacts
      <3> QED BY <2>2, <3>1, CrawlManagerAssumption
    <2> QED BY <1>3, <2>1, <2>3
          DEF Listen, TypeOK, tableVars, memoryVars, historyVars
  <1>4. CASE Restart
    <2>1. RunsBounded'
      BY <1>4, BoundKept DEF Restart, Adding, Idle, AddRun, TypeOK
    <2>2. db' \in [Jobs -> RunStates \cup {"none", "deleted"}]
      BY <1>4 DEF Restart, TypeOK, RunStates
    <2>3. stats' \in [Jobs -> RunStates \cup {None}]
      BY <1>4, <2>2 DEF Restart, TypeOK, Exists, RunStates
    <2>4. stage' \in [Jobs -> [1..MaxRuns -> Stages]]
      BY <1>4 DEF Restart, Stages
    <2>5. call' \in CallType
      BY <1>4, CrawlManagerAssumption DEF Restart, Idle
    <2>6. listener' \in Seq([job : Jobs, state : RunStates]) /\ Len(listener') <= ChannelSize
      BY <1>4, CrawlManagerAssumption DEF Restart
    <2>7. registry' \in [Jobs -> 0..MaxRuns] /\ channels' \subseteq Jobs
      BY <1>4, CrawlManagerAssumption DEF Restart
    <2>8. heard' \in [Jobs -> RunStates \cup {None}] /\ missed' \subseteq Jobs
      BY <1>4 DEF Restart
    <2>9. /\ frontier' \subseteq Jobs /\ runs' \in [Jobs -> 0..MaxRuns]
          /\ killed' \in BOOLEAN /\ disorder' \in 0..MaxDisorder /\ alive' \in BOOLEAN
          /\ valid' \subseteq Jobs
      BY <1>4 DEF Restart, TypeOK
    <2> QED BY <2>1, <2>2, <2>3, <2>4, <2>5, <2>6, <2>7, <2>8, <2>9 DEF TypeOK
  <1>5. CASE UNCHANGED vars
    BY <1>5, BoundKept
      DEF vars, tableVars, memoryVars, eventVars, historyVars, TypeOK, Adding
  <1> QED BY <1>1, <1>2, <1>3, <1>4, <1>5 DEF Next

-----------------------------------------------------------------------------
(* One job *)

(* A step that is not about a job.                                         *)
Apart(i) ==
  /\ db'[i] = db[i] /\ stats'[i] = stats[i] /\ registry'[i] = registry[i]
  /\ stage'[i] = stage[i] /\ runs'[i] = runs[i]
  /\ (i \in channels' <=> i \in channels) /\ (i \in frontier' <=> i \in frontier)
  /\ (killed => killed') /\ valid' = valid
  /\ \A c \in Clients : call[c].job = i \/ call'[c].job = i => call'[c] = call[c]

(* It leaves everything that is said of the job.                           *)
LEMMA ApartKeeps ==
  ASSUME NEW i \in Jobs, JobInv(i), Apart(i)
  PROVE  JobInv(i)'
  <1>1. \A n \in 1..MaxRuns : Live(i, n)' <=> Live(i, n)
    BY DEF Apart, Live
  <1>2. \A c \in Clients : Asks(c, i)' <=> Asks(c, i)
    BY DEF Apart, Asks, Hangs
  <1>3. (Rests(i)' <=> Rests(i)) /\ (Unasked(i)' <=> Unasked(i))
    BY <1>1, <1>2 DEF Rests, Unasked
  <1>4. OneAsks(i)' /\ OneLives(i)'
    BY <1>1, <1>2 DEF JobInv, OneAsks, OneLives
  <1>5. ASSUME NEW n \in 1..MaxRuns, Live(i, n)' PROVE RunFits(i, n)'
    <2>1. RunFits(i, n)
      BY <1>1, <1>5 DEF JobInv
    <2>2. ASSUME stage[i][n] = "cancelling"
          PROVE  \E c \in Clients : Asks(c, i)' /\ call'[c].at = "pause:stopped" /\ call'[c].run = n
      <3>1. PICK c \in Clients : Asks(c, i) /\ call[c].at = "pause:stopped" /\ call[c].run = n
        BY <2>1, <2>2 DEF RunFits
      <3>2. call'[c] = call[c]
        BY <3>1 DEF Apart, Asks
      <3> QED BY <1>2, <3>1, <3>2
    <2> QED BY <1>3, <2>1, <2>2 DEF RunFits, Apart, States
  <1>6. ASSUME NEW c \in Clients, Asks(c, i)' PROVE AskFits(c, i)'
    <2>1. AskFits(c, i) /\ call'[c] = call[c]
      BY <1>2, <1>6 DEF JobInv, Apart, Asks
    <2> QED BY <1>3, <2>1 DEF AskFits, Apart, States
  <1>7. Rests(i)' => registry'[i] = 0 /\ i \notin channels'
    BY <1>3 DEF JobInv, Apart
  <1>8. Rests(i)' /\ Unasked(i)' => RestFits(i)'
    BY <1>3 DEF JobInv, Apart, RestFits
  <1>9. PausesFit(i)' /\ Numbered(i)'
    BY DEF JobInv, PausesFit, Numbered, Apart
  <1> QED BY <1>4, <1>5, <1>6, <1>7, <1>8, <1>9 DEF JobInv

(* A request that the invariant speaks of is the only one.                 *)
LEMMA OnlyAsker ==
  ASSUME NEW j \in Jobs, JobInv(j), NEW c \in Clients, Asks(c, j)
  PROVE  /\ AskFits(c, j)
         /\ \A d \in Clients \ {c} : ~Asks(d, j)
  BY DEF JobInv, OneAsks

(* What changes for a job when request c does something, and no run does.  *)
Handled(c, j) ==
  /\ registry' = registry /\ channels' = channels /\ stage' = stage /\ runs' = runs
  /\ \A d \in Clients \ {c} : call'[d] = call[d]

(* A request for a job whose runs rest does so, and fits again.            *)
LEMMA HandledKeeps ==
  ASSUME NEW c \in Clients, NEW j \in Jobs, JobInv(j), Rests(j), Handled(c, j),
         \A d \in Clients \ {c} : ~Asks(d, j),
         call'[c].job = j => call'[c].at # "pause:stopped" /\ AskFits(c, j)',
         call'[c].job # j => RestFits(j)'
  PROVE  JobInv(j)'
  <1>1. \A n \in 1..MaxRuns : Live(j, n)' <=> Live(j, n)
    BY DEF Handled, Live
  <1>2. \A d \in Clients \ {c} : ~Asks(d, j)'
    BY DEF Handled, Asks, Hangs
  <1>3. Rests(j)' /\ \A n \in 1..MaxRuns : ~Live(j, n)'
    BY <1>1 DEF Rests
  <1>4. OneAsks(j)' /\ OneLives(j)'
    BY <1>2, <1>3 DEF OneAsks, OneLives
  <1>5. ASSUME NEW d \in Clients, Asks(d, j)' PROVE AskFits(d, j)'
    BY <1>2, <1>5 DEF Asks
  <1>6. registry'[j] = 0 /\ j \notin channels'
    BY DEF JobInv, Handled
  <1>7. Unasked(j)' => RestFits(j)'
    BY DEF Unasked, Asks, Hangs
  <1>8. PausesFit(j)'
    BY DEF JobInv, PausesFit, Handled
  <1>9. Numbered(j)'
    BY DEF JobInv, Numbered, Handled
  <1> QED BY <1>3, <1>4, <1>5, <1>6, <1>7, <1>8, <1>9 DEF JobInv

(* A request adds a run to a job that rests.                               *)
LEMMA RunAdded ==
  ASSUME TypeOK, NEW c \in Clients, NEW j \in Jobs, JobInv(j), Rests(j), runs[j] + 1 \in 1..MaxRuns,
         \A d \in Clients \ {c} : ~Asks(d, j),
         NEW state \in {"pending", "running"}, db[j] = state, UNCHANGED <<db, registry>>,
         Return(c), MakeJob(j, state)
  PROVE  JobInv(j)'
  <1>m. PICK m \in 1..MaxRuns : m = runs[j] + 1
    OBVIOUS
  <1>1. /\ stage' = [stage EXCEPT ![j] = [stage[j] EXCEPT ![m] = "starting"]]
        /\ runs' = [runs EXCEPT ![j] = m] /\ stats' = [stats EXCEPT ![j] = state]
        /\ channels' = channels \cup {j} /\ call' = [call EXCEPT ![c] = Idle]
    BY <1>m DEF MakeJob, SetStats, Enter, Return
  <1>2. m \in 1..MaxRuns /\ runs[j] \in Nat
    BY DEF TypeOK
  <1>3. /\ stage'[j][m] = "starting"
        /\ \A n \in 1..MaxRuns : n # m => stage'[j][n] = stage[j][n]
    BY <1>1, <1>2 DEF TypeOK
  <1>4. Live(j, m)' /\ \A n \in 1..MaxRuns : Live(j, n)' => n = m
    BY <1>3, <1>2 DEF Live, Rests, LiveStages, Ahead
  <1>5. \A d \in Clients : ~Asks(d, j)'
    <2>1. ASSUME NEW d \in Clients, d # c, call'[d].job = j PROVE Hangs(d)'
      <3>1. Hangs(d) /\ call'[d] = call[d] /\ call[d].job = j
        BY <2>1, <1>1 DEF Asks, TypeOK
      <3>2. call[d].run \in 1..MaxRuns /\ call[d].at = "pause:stopped"
        BY <3>1 DEF JobInv, PausesFit, Hangs
      <3>3. stage[j][m] = "none"
        BY <1>m, <1>2 DEF JobInv, Numbered
      <3> QED BY <1>3, <3>1, <3>2, <3>3 DEF Hangs
    <2>2. call'[c].job # j
      BY <1>1, CrawlManagerAssumption DEF Idle, TypeOK
    <2> QED BY <2>1, <2>2 DEF Asks
  <1>6. RunFits(j, m)'
    <2>1. registry'[j] = 0 /\ j \in channels' /\ Unasked(j)' /\ db'[j] = state /\ stats'[j] = state
      BY <1>1, <1>5 DEF JobInv, Unasked, TypeOK
    <2> QED BY <1>3, <2>1 DEF RunFits, States, LiveStages, Ahead, Under
  <1>7. PausesFit(j)'
    <2>1. ASSUME NEW d \in Clients, call'[d].job = j, call'[d].at = "pause:stopped"
          PROVE  call'[d].run \in 1..MaxRuns /\ stage'[j][call'[d].run] \in Left
      <3>1. d # c /\ call'[d] = call[d]
        BY <2>1, <1>1, CrawlManagerAssumption DEF Idle, TypeOK
      <3>2. call[d].run \in 1..MaxRuns /\ stage[j][call[d].run] \in Left
        BY <2>1, <3>1 DEF JobInv, PausesFit
      <3>3. stage[j][m] = "none"
        BY <1>m, <1>2 DEF JobInv, Numbered
      <3> QED BY <1>3, <3>1, <3>2, <3>3 DEF Left
    <2> QED BY <2>1 DEF PausesFit
  <1>8. Numbered(j)'
    <2>1. runs'[j] = m
      BY <1>1, <1>2 DEF TypeOK
    <2> QED BY <1>m, <1>2, <1>3, <2>1 DEF JobInv, Numbered
  <1>9. OneAsks(j)' /\ OneLives(j)' /\ ~Rests(j)'
    BY <1>2, <1>4, <1>5 DEF OneAsks, OneLives, Rests
  <1> QED BY <1>4, <1>5, <1>6, <1>7, <1>8, <1>9 DEF JobInv

-----------------------------------------------------------------------------
(* The steps of a run *)

Hanging == {"ending", "finishing", "clearing", "cleared", "ended"}

(* A run that is live goes on to another stage, and nobody asks for its    *)
(* job then.                                                               *)
LEMMA RunMoved ==
  ASSUME TypeOK, NEW j \in Jobs, NEW n \in 1..MaxRuns, JobInv(j), Live(j, n),
         NEW s \in LiveStages, Enter(j, n, s), UNCHANGED <<call, runs>>,
         s \in Left \/ stage[j][n] \notin Left,
         Unasked(j)', RunFits(j, n)'
  PROVE  JobInv(j)'
  <1>1. /\ stage'[j][n] = s
        /\ \A m \in 1..MaxRuns : m # n => stage'[j][m] = stage[j][m]
    BY DEF Enter, TypeOK
  <1>2. Live(j, n)' /\ \A m \in 1..MaxRuns : Live(j, m)' => m = n
    BY <1>1 DEF Live, JobInv, OneLives
  <1>3. \A d \in Clients : ~Asks(d, j)'
    BY DEF Unasked
  <1>4. OneAsks(j)' /\ OneLives(j)' /\ ~Rests(j)'
    BY <1>2, <1>3 DEF OneAsks, OneLives, Rests
  <1>5. PausesFit(j)'
    BY <1>1 DEF PausesFit, JobInv
  <1>6. Numbered(j)'
    <2>1. stage[j][n] # "none"
      BY DEF Live, LiveStages, Ahead, Under
    <2> QED BY <1>1, <2>1 DEF Numbered, JobInv
  <1> QED BY <1>2, <1>3, <1>4, <1>5, <1>6 DEF JobInv

(* Nobody asks for a job if nobody did and no run that made a request hang *)
(* moves on.                                                               *)
LEMMA StillUnasked ==
  ASSUME TypeOK, NEW j \in Jobs, NEW n \in 1..MaxRuns, Unasked(j), NEW s \in Stages,
         Enter(j, n, s), UNCHANGED call, stage[j][n] \in Hanging => s \in Hanging
  PROVE  Unasked(j)'
  BY DEF Unasked, Asks, Hangs, Hanging, Enter, TypeOK

(* What the invariant says of a run that is live.                          *)
LEMMA LiveFits ==
  ASSUME NEW j \in Jobs, NEW n \in 1..MaxRuns, JobInv(j), stage[j][n] \in LiveStages
  PROVE  /\ Live(j, n) /\ RunFits(j, n) /\ ~Rests(j)
         /\ \A m \in 1..MaxRuns : Live(j, m) => m = n
  BY DEF JobInv, Live, OneLives, Rests

(* A run that is ahead of the job, or behind it, goes on.                  *)
LEMMA RunJobKeeps ==
  ASSUME TypeOK, NEW j \in Jobs, NEW n \in 1..MaxRuns, JobInv(j), RunJob(j, n)
  PROVE  JobInv(j)'
  <1>1. stage[j][n] = "starting" /\ Enter(j, n, "marked") /\ UNCHANGED <<call, runs>>
    BY DEF RunJob, memoryVars
  <1>2. Live(j, n) /\ RunFits(j, n)
    BY <1>1, LiveFits DEF LiveStages, Ahead
  <1>3. Unasked(j)'
    BY <1>1, <1>2, StillUnasked DEF RunFits, Ahead, Stages, Hanging
  <1>4. db'[j] = "running" /\ stats' = stats /\ registry' = registry /\ channels' = channels
    BY <1>1, <1>2 DEF RunJob, Update, Exists, RunStates, RunFits, TypeOK, memoryVars
  <1>5. stage'[j][n] = "marked"
    BY <1>1 DEF Enter, TypeOK
  <1>6. RunFits(j, n)'
    BY <1>1, <1>2, <1>3, <1>4, <1>5 DEF RunFits, States, LiveStages, Ahead, Under
  <1> QED BY <1>1, <1>2, <1>3, <1>6, RunMoved DEF LiveStages, Ahead, Left

LEMMA JobRunningKeeps ==
  ASSUME TypeOK, NEW j \in Jobs, NEW n \in 1..MaxRuns, JobInv(j), JobRunning(j, n)
  PROVE  JobInv(j)'
  <1>1. stage[j][n] = "marked" /\ Enter(j, n, "running") /\ UNCHANGED <<call, runs>>
    BY DEF JobRunning
  <1>2. Live(j, n) /\ RunFits(j, n)
    BY <1>1, LiveFits DEF LiveStages, Ahead
  <1>3. Unasked(j)'
    BY <1>1, <1>2, StillUnasked DEF RunFits, Ahead, Under, Stages, Hanging
  <1>4. db' = db /\ stats'[j] = "running" /\ registry'[j] = n /\ channels' = channels
    BY DEF JobRunning, SetStats, TypeOK, tableVars
  <1>5. stage'[j][n] = "running"
    BY <1>1 DEF Enter, TypeOK
  <1>6. RunFits(j, n)'
    BY <1>1, <1>2, <1>3, <1>4, <1>5 DEF RunFits, States, LiveStages, Ahead, Under
  <1> QED BY <1>1, <1>2, <1>3, <1>6, RunMoved DEF LiveStages, Ahead, Under, Left

LEMMA FinishJobKeeps ==
  ASSUME TypeOK, NEW j \in Jobs, NEW n \in 1..MaxRuns, JobInv(j), FinishJob(j, n)
  PROVE  JobInv(j)'
  <1>1. stage[j][n] = "finishing" /\ Enter(j, n, "clearing") /\ UNCHANGED <<call, runs>>
    BY DEF FinishJob, memoryVars
  <1>2. Live(j, n) /\ RunFits(j, n)
    BY <1>1, LiveFits DEF LiveStages
  <1>3. Unasked(j)'
    BY <1>1, <1>2, StillUnasked DEF RunFits, LiveStages, Ahead, Under, Behind, Stages, Hanging
  <1>4. db'[j] = "completed" /\ stats' = stats /\ registry' = registry /\ channels' = channels
    BY <1>1, <1>2
    DEF FinishJob, Update, Exists, RunStates, RunFits, States, TypeOK, memoryVars
  <1>5. stage'[j][n] = "clearing"
    BY <1>1 DEF Enter, TypeOK
  <1>6. RunFits(j, n)'
    BY <1>1, <1>2, <1>3, <1>4, <1>5 DEF RunFits, States, LiveStages, Ahead, Under
  <1> QED BY <1>1, <1>2, <1>3, <1>6, RunMoved DEF LiveStages, Left

LEMMA ClearFrontierKeeps ==
  ASSUME TypeOK, NEW j \in Jobs, NEW n \in 1..MaxRuns, JobInv(j), ClearFrontier(j, n)
  PROVE  JobInv(j)'
  <1>1. stage[j][n] = "clearing" /\ Enter(j, n, "cleared") /\ UNCHANGED <<call, runs>>
    BY DEF ClearFrontier, memoryVars
  <1>2. Live(j, n) /\ RunFits(j, n)
    BY <1>1, LiveFits DEF LiveStages
  <1>3. Unasked(j)'
    BY <1>1, <1>2, StillUnasked DEF RunFits, LiveStages, Ahead, Under, Behind, Stages, Hanging
  <1>4. /\ db' = db /\ stats' = stats /\ registry' = registry /\ channels' = channels
        /\ j \notin frontier'
    BY DEF ClearFrontier, memoryVars
  <1>5. stage'[j][n] = "cleared"
    BY <1>1 DEF Enter, TypeOK
  <1>6. RunFits(j, n)'
    BY <1>1, <1>2, <1>3, <1>4, <1>5 DEF RunFits, States, LiveStages, Ahead, Under
  <1> QED BY <1>1, <1>2, <1>3, <1>6, RunMoved DEF LiveStages, Left

(* A run that raises leaves a pause that waited for it hanging.            *)
LEMMA JobRaisesKeeps ==
  ASSUME TypeOK, NEW j \in Jobs, NEW n \in 1..MaxRuns, JobInv(j), JobRaises(j, n)
  PROVE  JobInv(j)'
  <1>1. stage[j][n] \in Under /\ Enter(j, n, "ending") /\ UNCHANGED <<call, runs>>
    BY DEF JobRaises, Remove
  <1>2. Live(j, n) /\ RunFits(j, n)
    BY <1>1, LiveFits DEF LiveStages
  <1>3. Unasked(j)'
    <2>1. CASE stage[j][n] = "running"
      BY <1>1, <1>2, <2>1, StillUnasked DEF RunFits, Behind, Stages, Hanging
    <2>2. CASE stage[j][n] = "cancelling"
      <3>1. PICK c \in Clients : Asks(c, j) /\ call[c].at = "pause:stopped" /\ call[c].run = n
        BY <1>2, <2>2 DEF RunFits
      <3>2. stage'[j][n] = "ending" /\ \A m \in 1..MaxRuns : m # n => stage'[j][m] = stage[j][m]
        BY <1>1 DEF Enter, TypeOK
      <3>3. Hangs(c)'
        BY <1>1, <3>1, <3>2 DEF Asks, Hangs
      <3>4. ASSUME NEW d \in Clients, d # c, call[d].job = j PROVE Hangs(d)'
        <4>1. Hangs(d) /\ call[d].run \in 1..MaxRuns /\ call[d].run # n
          BY <3>1, <3>4, <2>2 DEF JobInv, OneAsks, Asks, PausesFit, Hangs
        <4> QED BY <1>1, <3>2, <4>1, <3>4 DEF Hangs
      <3> QED BY <1>1, <3>3, <3>4 DEF Unasked, Asks
    <2> QED BY <1>1, <2>1, <2>2 DEF Under
  <1>4. db' = db /\ stats' = stats /\ registry'[j] = 0 /\ j \notin channels'
    BY DEF JobRaises, Remove, TypeOK, tableVars
  <1>5. stage'[j][n] = "ending"
    BY <1>1 DEF Enter, TypeOK
  <1>6. RunFits(j, n)'
    BY <1>1, <1>2, <1>3, <1>4, <1>5 DEF RunFits, States, LiveStages, Ahead, Under
  <1> QED BY <1>1, <1>2, <1>3, <1>6, RunMoved DEF LiveStages, Left

(* The channel of a run that has ended is closed, or of one that stopped.  *)
LEMMA JobRemovedKeeps ==
  ASSUME TypeOK, NEW j \in Jobs, NEW n \in 1..MaxRuns, JobInv(j), JobRemoved(j, n)
  PROVE  JobInv(j)'
  <1>1. UNCHANGED <<call, runs, db, stats, registry, channels, frontier, killed, valid>>
    BY DEF JobRemoved, tableVars, memoryVars, historyVars
  <1>2. CASE stage[j][n] = "ending" /\ Enter(j, n, "finishing")
    <2>1. Live(j, n) /\ RunFits(j, n)
      BY <1>2, LiveFits DEF LiveStages
    <2>2. Unasked(j)'
      BY <1>1, <1>2, <2>1, StillUnasked
      DEF RunFits, LiveStages, Ahead, Under, Behind, Stages, Hanging
    <2>3. stage'[j][n] = "finishing"
      BY <1>2 DEF Enter, TypeOK
    <2>4. RunFits(j, n)'
      BY <1>1, <1>2, <2>1, <2>2, <2>3 DEF RunFits, States, LiveStages, Ahead, Under
    <2> QED BY <1>1, <1>2, <2>1, <2>2, <2>4, RunMoved DEF LiveStages, Left
  <1>3. CASE stage[j][n] = "stopping" /\ Enter(j, n, "stopped")
    <2>1. /\ stage'[j][n] = "stopped"
          /\ \A m \in 1..MaxRuns : m # n => stage'[j][m] = stage[j][m]
      BY <1>3 DEF Enter, TypeOK
    <2>2. \A m \in 1..MaxRuns : (Live(j, m)' <=> Live(j, m)) /\ (Live(j, m) => m # n)
      BY <1>3, <2>1 DEF Live, LiveStages, Ahead, Under
    <2>3. \A c \in Clients : Asks(c, j)' <=> Asks(c, j)
      <3>1. ASSUME NEW c \in Clients, call[c].job = j PROVE Hangs(c)' <=> Hangs(c)
        <4>1. call[c].at = "pause:stopped" => call[c].run \in 1..MaxRuns
          BY <3>1 DEF JobInv, PausesFit
        <4> QED BY <1>1, <1>3, <2>1, <3>1, <4>1 DEF Hangs
      <3> QED BY <1>1, <3>1 DEF Asks
    <2>4. (Rests(j)' <=> Rests(j)) /\ (Unasked(j)' <=> Unasked(j))
      BY <2>2, <2>3 DEF Rests, Unasked
    <2>5. ASSUME NEW m \in 1..MaxRuns, Live(j, m)' PROVE RunFits(j, m)'
      <3>1. RunFits(j, m) /\ stage'[j][m] = stage[j][m]
        BY <2>1, <2>2, <2>5 DEF JobInv
      <3>2. stage[j][m] = "cancelling" =>
              \E c \in Clients : Asks(c, j)' /\ call'[c].at = "pause:stopped" /\ call'[c].run = m
        BY <1>1, <2>3, <3>1 DEF RunFits
      <3> QED BY <1>1, <2>4, <3>1, <3>2 DEF RunFits, States
    <2>6. ASSUME NEW c \in Clients, Asks(c, j)' PROVE AskFits(c, j)'
      <3>1. AskFits(c, j)
        BY <2>3, <2>6 DEF JobInv
      <3>2. AskFits(c, j) /\ stage[j][call[c].run] = "cancelling" =>
              call[c].at # "pause:stopped" \/ stage'[j][call[c].run] = "cancelling"
        <4>1. call[c].at = "pause:stopped" => call[c].run \in 1..MaxRuns
          BY <2>3, <2>6 DEF JobInv, PausesFit, Asks
        <4> QED BY <1>3, <2>1, <4>1
      <3> QED BY <1>1, <2>4, <3>1, <3>2 DEF AskFits, States
    <2>7. OneAsks(j)' /\ OneLives(j)'
      BY <2>2, <2>3 DEF JobInv, OneAsks, OneLives
    <2>8. /\ Rests(j)' => registry'[j] = 0 /\ j \notin channels'
          /\ Rests(j)' /\ Unasked(j)' => RestFits(j)'
      BY <1>1, <2>4 DEF JobInv, RestFits
    <2>9. PausesFit(j)'
      BY <1>1, <2>1 DEF JobInv, PausesFit, Left
    <2>10. Numbered(j)'
      BY <1>1, <1>3, <2>1 DEF JobInv, Numbered
    <2> QED BY <2>5, <2>6, <2>7, <2>8, <2>9, <2>10 DEF JobInv
  <1> QED BY <1>2, <1>3 DEF JobRemoved

(* A run is over: it stopped, or the job is complete.                      *)
LEMMA RunOver ==
  ASSUME TypeOK, NEW j \in Jobs, NEW n \in 1..MaxRuns, JobInv(j), Live(j, n),
         NEW s \in {"stopping", "ended"}, Enter(j, n, s), UNCHANGED <<call, runs>>,
         s \in Left \/ stage[j][n] \notin Left,
         registry'[j] = 0, j \notin channels',
         OneAsks(j)', \A c \in Clients : Asks(c, j)' /\ Rests(j)' => AskFits(c, j)',
         Unasked(j)' => RestFits(j)',
         \A c \in Clients : call[c].job = j /\ call[c].at = "pause:stopped" =>
           call[c].run # n \/ s \in Left
  PROVE  JobInv(j)'
  <1>1. /\ stage'[j][n] = s
        /\ \A m \in 1..MaxRuns : m # n => stage'[j][m] = stage[j][m]
    BY DEF Enter, TypeOK
  <1>2. \A m \in 1..MaxRuns : ~Live(j, m)'
    BY <1>1 DEF Live, JobInv, OneLives, LiveStages, Ahead, Under
  <1>3. OneLives(j)' /\ Rests(j)'
    BY <1>2 DEF OneLives, Rests
  <1>4. PausesFit(j)'
    BY <1>1 DEF PausesFit, JobInv
  <1>5. Numbered(j)'
    <2>1. stage[j][n] # "none"
      BY DEF Live, LiveStages, Ahead, Under
    <2> QED BY <1>1, <2>1 DEF Numbered, JobInv
  <1> QED BY <1>2, <1>3, <1>4, <1>5 DEF JobInv

LEMMA JobStopsKeeps ==
  ASSUME TypeOK, NEW j \in Jobs, NEW n \in 1..MaxRuns, JobInv(j), JobStops(j, n)
  PROVE  JobInv(j)'
  <1>1. stage[j][n] = "cancelling" /\ Enter(j, n, "stopping") /\ UNCHANGED <<call, runs>>
    BY DEF JobStops, Remove
  <1>2. Live(j, n) /\ RunFits(j, n)
    BY <1>1, LiveFits DEF LiveStages, Under
  <1>3. db' = db /\ stats' = stats /\ registry'[j] = 0 /\ j \notin channels'
    BY DEF JobStops, Remove, TypeOK, tableVars
  <1>4. PICK c \in Clients : Asks(c, j) /\ call[c].at = "pause:stopped" /\ call[c].run = n
    BY <1>1, <1>2 DEF RunFits
  <1>5. /\ stage'[j][n] = "stopping"
        /\ \A m \in 1..MaxRuns : m # n => stage'[j][m] = stage[j][m]
    BY <1>1 DEF Enter, TypeOK
  <1>6. Asks(c, j)'
    BY <1>1, <1>4, <1>5 DEF Asks, Hangs
  <1>7. ASSUME NEW d \in Clients, d # c PROVE ~Asks(d, j)'
    <2>1. call[d].job = j => Hangs(d) /\ call[d].run \in 1..MaxRuns /\ call[d].run # n
      BY <1>1, <1>4, <1>7 DEF JobInv, OneAsks, Asks, PausesFit, Hangs
    <2> QED BY <1>1, <1>5, <2>1 DEF Asks, Hangs
  <1>8. OneAsks(j)' /\ ~Unasked(j)'
    BY <1>6, <1>7 DEF OneAsks, Unasked
  <1>9. ASSUME Rests(j)' PROVE AskFits(c, j)'
    <2>1. States(j, {"running"}, {"running"})'
      BY <1>1, <1>2, <1>3 DEF RunFits, States, Under
    <2> QED BY <1>1, <1>4, <1>9, <2>1 DEF AskFits
  <1> QED BY <1>1, <1>2, <1>3, <1>7, <1>8, <1>9, RunOver DEF Left

LEMMA JobCompletedKeeps ==
  ASSUME TypeOK, NEW j \in Jobs, NEW n \in 1..MaxRuns, JobInv(j), JobCompleted(j, n)
  PROVE  JobInv(j)'
  <1>1. stage[j][n] = "cleared" /\ Enter(j, n, "ended") /\ UNCHANGED <<call, runs>>
    BY DEF JobCompleted
  <1>2. Live(j, n) /\ RunFits(j, n)
    BY <1>1, LiveFits DEF LiveStages, Under
  <1>3. /\ db' = db /\ stats'[j] = "completed" /\ registry' = registry /\ channels' = channels
        /\ frontier' = frontier
    BY DEF JobCompleted, SetStats, TypeOK, tableVars
  <1>4. Unasked(j)'
    BY <1>1, <1>2, StillUnasked DEF RunFits, LiveStages, Ahead, Under, Stages, Hanging
  <1>5. \A d \in Clients : ~Asks(d, j)'
    BY <1>4 DEF Unasked
  <1>6. db[j] = "completed" /\ registry[j] = 0 /\ j \notin channels /\ j \notin frontier
    BY <1>1, <1>2 DEF RunFits, States, LiveStages, Ahead, Under
  <1>7. RestFits(j)'
    BY <1>3, <1>6 DEF RestFits, RunStates
  <1>8. OneAsks(j)'
    BY <1>5 DEF OneAsks
  <1> QED BY <1>1, <1>2, <1>3, <1>5, <1>6, <1>7, <1>8, RunOver DEF Left

(* Links that are inserted late find the run still running.                *)
LEMMA InsertLinksKeeps ==
  ASSUME TypeOK, NEW j \in Jobs, NEW n \in 1..MaxRuns, JobInv(j), InsertLinks(j, n)
  PROVE  JobInv(j)'
  <1>1. stage[j][n] \in Under /\ UNCHANGED <<call, runs, stage, db, stats, registry, channels, killed>>
    BY DEF InsertLinks, memoryVars, historyVars
  <1>2. Live(j, n) /\ RunFits(j, n) /\ ~Rests(j) /\ \A m \in 1..MaxRuns : Live(j, m) => m = n
    BY <1>1, LiveFits DEF LiveStages
  <1>3. /\ \A m \in 1..MaxRuns : Live(j, m)' <=> Live(j, m)
        /\ \A c \in Clients : Asks(c, j)' <=> Asks(c, j)
    BY <1>1 DEF Live, Asks, Hangs
  <1>4. ~Rests(j)' /\ (Unasked(j)' <=> Unasked(j)) /\ OneAsks(j)' /\ OneLives(j)'
    BY <1>2, <1>3 DEF JobInv, Rests, Unasked, OneAsks, OneLives
  <1>5. RunFits(j, n)'
    <2>1. stage[j][n] = "cancelling" =>
            \E c \in Clients : Asks(c, j)' /\ call'[c].at = "pause:stopped" /\ call'[c].run = n
      BY <1>1, <1>2, <1>3 DEF RunFits
    <2> QED BY <1>1, <1>2, <1>4, <2>1 DEF RunFits, States, Under, Ahead, LiveStages
  <1>6. ASSUME NEW c \in Clients, Asks(c, j)' PROVE AskFits(c, j)'
    <2>1. AskFits(c, j) /\ call[c].at = "pause:stopped"
      BY <1>2, <1>3, <1>6 DEF JobInv, AskFits
    <2> QED BY <1>1, <1>2, <2>1 DEF AskFits, States
  <1>7. PausesFit(j)' /\ Numbered(j)'
    BY <1>1 DEF JobInv, PausesFit, Numbered
  <1> QED BY <1>2, <1>3, <1>4, <1>5, <1>6, <1>7 DEF JobInv

-----------------------------------------------------------------------------
(* The steps of a request *)

(* A request that waits for anything but a run finds the job at rest.      *)
LEMMA WaitsAlone ==
  ASSUME NEW c \in Clients, NEW j \in Jobs, JobInv(j), NEW at, at # "pause:stopped", At(c, at, j)
  PROVE  /\ AskFits(c, j) /\ Rests(j) /\ call[c].at = at /\ call[c].job = j
         /\ \A d \in Clients \ {c} : ~Asks(d, j)
  <1>1. Asks(c, j)
    BY DEF At, Asks, Hangs
  <1> QED BY <1>1, OnlyAsker DEF At, AskFits

(* A request that goes on waiting, or that returns.                        *)
LEMMA WaitFits ==
  ASSUME TypeOK, NEW c \in Clients, NEW j \in Jobs, JobInv(j), Rests(j),
         \A d \in Clients \ {c} : ~Asks(d, j), call[c].job = j,
         UNCHANGED <<registry, channels, runs, stage>>,
         NEW next \in Waits \ {"pause:stopped"}, Wait(c, next),
         call'[c].job = j /\ call'[c].at = next => AskFits(c, j)'
  PROVE  JobInv(j)'
  <1>1. call'[c].job = j /\ call'[c].at = next /\ \A d \in Clients \ {c} : call'[d] = call[d]
    BY DEF Wait, TypeOK
  <1> QED BY <1>1, HandledKeeps DEF Handled

LEMMA ReturnFits ==
  ASSUME TypeOK, NEW c \in Clients, NEW j \in Jobs, JobInv(j), Rests(j),
         \A d \in Clients \ {c} : ~Asks(d, j),
         UNCHANGED <<registry, channels, runs, stage>>, Return(c), RestFits(j)'
  PROVE  JobInv(j)'
  <1>1. call'[c] = Idle /\ \A d \in Clients \ {c} : call'[d] = call[d]
    BY DEF Return, TypeOK
  <1> QED BY <1>1, HandledKeeps, CrawlManagerAssumption DEF Handled, Idle

LEMMA RestsStay ==
  ASSUME NEW j \in Jobs, Rests(j), UNCHANGED stage
  PROVE  Rests(j)'
  BY DEF Rests, Live

(* What a request has done fits what it waits for next.                    *)
LEMMA HandleKeeps ==
  ASSUME TypeOK, RunsBounded, NEW c \in Clients, NEW j \in Jobs, JobInv(j), Unmade(j), Handle(c, j)
  PROVE  JobInv(j)'
  <1>1. CASE InsertSeeds(c, j)
    <2>1. /\ AskFits(c, j) /\ Rests(j) /\ call[c].at = "start:frontier" /\ call[c].job = j
          /\ \A d \in Clients \ {c} : ~Asks(d, j)
      BY <1>1, WaitsAlone DEF InsertSeeds
    <2>2. UNCHANGED <<registry, channels, runs, stage, stats, killed>> /\ Rests(j)'
      BY <1>1, <2>1, RestsStay DEF InsertSeeds, memoryVars, historyVars
    <2>3. Wait(c, "start:return")
      BY <1>1 DEF InsertSeeds
    <2>4. ASSUME call'[c].job = j, call'[c].at = "start:return" PROVE AskFits(c, j)'
      BY <1>1, <2>1, <2>2, <2>4 DEF InsertSeeds, AskFits, States
    <2> QED BY <2>1, <2>2, <2>3, <2>4, WaitFits DEF Waits
  <1>2. CASE SavePause(c, j)
    <2>1. /\ AskFits(c, j) /\ Rests(j) /\ call[c].at = "pause:save" /\ call[c].job = j
          /\ \A d \in Clients \ {c} : ~Asks(d, j)
      BY <1>2, WaitsAlone DEF SavePause
    <2>2. UNCHANGED <<registry, channels, runs, stage, stats, killed>> /\ Rests(j)'
      BY <1>2, <2>1, RestsStay DEF SavePause, memoryVars, historyVars
    <2>3. Wait(c, "pause:return")
      BY <1>2 DEF SavePause
    <2>4. ASSUME call'[c].job = j, call'[c].at = "pause:return" PROVE AskFits(c, j)'
      BY <1>2, <2>1, <2>2, <2>4
      DEF SavePause, Update, Exists, RunStates, FinishedStates, TypeOK, AskFits, States
    <2> QED BY <2>1, <2>2, <2>3, <2>4, WaitFits DEF Waits
  <1>3. CASE CancelFinish(c, j)
    <2>1. /\ AskFits(c, j) /\ Rests(j) /\ call[c].at = "cancel:finish" /\ call[c].job = j
          /\ \A d \in Clients \ {c} : ~Asks(d, j)
      BY <1>3, WaitsAlone DEF CancelFinish
    <2>2. UNCHANGED <<registry, channels, runs, stage, stats, killed>> /\ Rests(j)'
      BY <1>3, <2>1, RestsStay DEF CancelFinish, memoryVars, historyVars
    <2>3. Wait(c, "cancel:clear")
      BY <1>3 DEF CancelFinish
    <2>4. ASSUME call'[c].job = j, call'[c].at = "cancel:clear" PROVE AskFits(c, j)'
      BY <1>3, <2>1, <2>2, <2>4
      DEF CancelFinish, Update, Exists, RunStates, FinishedStates, TypeOK, AskFits, States
    <2> QED BY <2>1, <2>2, <2>3, <2>4, WaitFits DEF Waits
  <1>4. CASE CancelClear(c, j)
    <2>1. /\ AskFits(c, j) /\ Rests(j) /\ call[c].at = "cancel:clear" /\ call[c].job = j
          /\ \A d \in Clients \ {c} : ~Asks(d, j)
      BY <1>4, WaitsAlone DEF CancelClear
    <2>2. UNCHANGED <<registry, channels, runs, stage, stats, killed>> /\ Rests(j)'
      BY <1>4, <2>1, RestsStay DEF CancelClear, memoryVars, historyVars
    <2>3. Wait(c, "cancel:return")
      BY <1>4 DEF CancelClear
    <2>4. ASSUME call'[c].job = j, call'[c].at = "cancel:return" PROVE AskFits(c, j)'
      BY <1>4, <2>1, <2>2, <2>4 DEF CancelClear, AskFits, States
    <2> QED BY <2>1, <2>2, <2>3, <2>4, WaitFits DEF Waits
  <1>5. CASE DeleteRow(c, j)
    <2>1. /\ AskFits(c, j) /\ Rests(j) /\ call[c].at = "delete:delete" /\ call[c].job = j
          /\ \A d \in Clients \ {c} : ~Asks(d, j)
      BY <1>5, WaitsAlone DEF DeleteRow
    <2>2. UNCHANGED <<registry, channels, runs, stage, stats, killed>> /\ Rests(j)'
      BY <1>5, <2>1, RestsStay DEF DeleteRow, memoryVars, historyVars
    <2>3. Wait(c, "delete:return")
      BY <1>5 DEF DeleteRow
    <2>4. ASSUME call'[c].job = j, call'[c].at = "delete:return" PROVE AskFits(c, j)'
      BY <1>5, <2>1, <2>2, <2>4
      DEF DeleteRow, Update, Exists, RunStates, FinishedStates, TypeOK, AskFits, States
    <2> QED BY <2>1, <2>2, <2>3, <2>4, WaitFits DEF Waits
  <1>6. CASE JobPaused(c, j)
    <2>1. /\ AskFits(c, j) /\ Rests(j) /\ call[c].at = "pause:return" /\ call[c].job = j
          /\ \A d \in Clients \ {c} : ~Asks(d, j)
      BY <1>6, WaitsAlone DEF JobPaused
    <2>2. UNCHANGED <<registry, channels, runs, stage, db, frontier, killed>> /\ Return(c)
      BY <1>6 DEF JobPaused, tableVars, historyVars
    <2>3. RestFits(j)'
      BY <1>6, <2>1, <2>2, CrawlManagerAssumption
      DEF JobPaused, AskFits, RestFits, States, SetStats, FinishedStates, RunStates, TypeOK
    <2> QED BY <2>1, <2>2, <2>3, ReturnFits
  <1>7. CASE JobCancelled(c, j)
    <2>1. /\ AskFits(c, j) /\ Rests(j) /\ call[c].at = "cancel:return" /\ call[c].job = j
          /\ \A d \in Clients \ {c} : ~Asks(d, j)
      BY <1>7, WaitsAlone DEF JobCancelled
    <2>2. UNCHANGED <<registry, channels, runs, stage, db, frontier, killed>> /\ Return(c)
      BY <1>7 DEF JobCancelled, tableVars, historyVars
    <2>3. RestFits(j)'
      BY <1>7, <2>1, <2>2, CrawlManagerAssumption
      DEF JobCancelled, AskFits, RestFits, States, SetStats, FinishedStates, RunStates, TypeOK
    <2> QED BY <2>1, <2>2, <2>3, ReturnFits
  <1>8. CASE JobDeleted(c, j)
    <2>1. /\ AskFits(c, j) /\ Rests(j) /\ call[c].at = "delete:return" /\ call[c].job = j
          /\ \A d \in Clients \ {c} : ~Asks(d, j)
      BY <1>8, WaitsAlone DEF JobDeleted
    <2>2. UNCHANGED <<registry, channels, runs, stage, db, frontier, killed>> /\ Return(c)
      BY <1>8 DEF JobDeleted, tableVars, historyVars
    <2>3. RestFits(j)'
      BY <1>8, <2>1, <2>2, CrawlManagerAssumption
      DEF JobDeleted, AskFits, RestFits, States, SetStats, FinishedStates, RunStates, TypeOK
    <2> QED BY <2>1, <2>2, <2>3, ReturnFits
  <1>9. CASE JobStarted(c, j)
    <2>1. /\ AskFits(c, j) /\ Rests(j) /\ call[c].at = "start:return" /\ call[c].job = j
          /\ \A d \in Clients \ {c} : ~Asks(d, j)
      BY <1>9, WaitsAlone DEF JobStarted
    <2>2. UNCHANGED <<db, registry>> /\ Return(c) /\ MakeJob(j, "pending")
      BY <1>9 DEF JobStarted, tableVars
    <2>3. runs[j] + 1 \in 1..MaxRuns
      BY <2>1, <2>2, BoundUsed DEF Adding, AddRun, RunStates
    <2>4. db[j] = "pending"
      BY <2>1 DEF AskFits, States
    <2> QED BY <2>1, <2>2, <2>3, <2>4, RunAdded
  <1>10. CASE JobResumed(c, j)
    <2>1. /\ AskFits(c, j) /\ Rests(j) /\ call[c].at = "resume:return" /\ call[c].job = j
          /\ \A d \in Clients \ {c} : ~Asks(d, j)
      BY <1>10, WaitsAlone DEF JobResumed
    <2>2. UNCHANGED <<db, registry>> /\ Return(c) /\ MakeJob(j, "running")
      BY <1>10 DEF JobResumed, tableVars
    <2>3. runs[j] + 1 \in 1..MaxRuns
      BY <2>1, <2>2, BoundUsed DEF Adding, AddRun, RunStates
    <2>4. db[j] = "running"
      BY <2>1 DEF AskFits, States
    <2> QED BY <2>1, <2>2, <2>3, <2>4, RunAdded
  <1>11. CASE ResumeUpdate(c, j)
    <2>1. /\ AskFits(c, j) /\ Rests(j) /\ call[c].at = "resume:update" /\ call[c].job = j
          /\ \A d \in Clients \ {c} : ~Asks(d, j)
      BY <1>11, WaitsAlone DEF ResumeUpdate
    <2>2. db[j] = "paused" /\ stats[j] = "paused"
      BY <2>1 DEF AskFits, States
    <2>3. UNCHANGED <<registry, channels, runs, stage, stats, killed>> /\ Rests(j)'
      BY <1>11, <2>1, RestsStay DEF ResumeUpdate, memoryVars, historyVars
    <2>4. Wait(c, "resume:return") /\ db'[j] = "running"
      BY <1>11, <2>2 DEF ResumeUpdate, Update, Exists, RunStates, TypeOK
    <2>5. ASSUME call'[c].job = j, call'[c].at = "resume:return" PROVE AskFits(c, j)'
      BY <2>1, <2>2, <2>3, <2>4, <2>5 DEF AskFits, States
    <2> QED BY <2>1, <2>3, <2>4, <2>5, WaitFits DEF Waits
  <1>12. CASE DeleteCheck(c, j)
    <2>1. /\ AskFits(c, j) /\ Rests(j) /\ call[c].at = "delete:check" /\ call[c].job = j
          /\ \A d \in Clients \ {c} : ~Asks(d, j)
      BY <1>12, WaitsAlone DEF DeleteCheck
    <2>2. UNCHANGED <<registry, channels, runs, stage, stats, db, frontier, killed>> /\ Rests(j)'
      BY <1>12, <2>1, RestsStay DEF DeleteCheck, tableVars, memoryVars, historyVars
    <2>3. Wait(c, "delete:delete")
      BY <1>12, <2>1 DEF DeleteCheck, AskFits
    <2>4. ASSUME call'[c].job = j, call'[c].at = "delete:delete" PROVE AskFits(c, j)'
      BY <2>1, <2>2, <2>4 DEF AskFits, States
    <2> QED BY <2>1, <2>2, <2>3, <2>4, WaitFits DEF Waits
  <1>13. CASE AwaitStopped(c, j)
    <2>1. call[c].at = "pause:stopped" /\ call[c].job = j /\ Stopped(j, call[c].run)
      BY <1>13 DEF AwaitStopped, At
    <2>2. Asks(c, j)
      BY <2>1 DEF Asks, Hangs, Stopped
    <2>3. AskFits(c, j) /\ \A d \in Clients \ {c} : ~Asks(d, j)
      BY <2>2, OnlyAsker
    <2>4. Rests(j) /\ States(j, {"running"}, {"running"})
      BY <2>1, <2>3 DEF AskFits, Stopped
    <2>5. UNCHANGED <<registry, channels, runs, stage, stats, db, frontier, killed>> /\ Rests(j)'
      BY <1>13, <2>4, RestsStay DEF AwaitStopped, tableVars, memoryVars, historyVars
    <2>6. Wait(c, "pause:save")
      BY <1>13 DEF AwaitStopped
    <2>7. ASSUME call'[c].job = j, call'[c].at = "pause:save" PROVE AskFits(c, j)'
      BY <2>4, <2>5, <2>7 DEF AskFits, States
    <2> QED BY <2>1, <2>3, <2>4, <2>5, <2>6, <2>7, WaitFits DEF Waits
  <1>14. CASE JobStartRaises(c, j)
    <2>1. /\ AskFits(c, j) /\ Rests(j) /\ call[c].at = "start:return" /\ call[c].job = j
          /\ \A d \in Clients \ {c} : ~Asks(d, j)
      BY <1>14, WaitsAlone DEF JobStartRaises
    <2>2. /\ UNCHANGED <<registry, channels, runs, stage, stats, db, frontier, killed, valid>>
          /\ Return(c) /\ j \notin valid
      BY <1>14 DEF JobStartRaises, tableVars, memoryVars, historyVars
    <2>3. RestFits(j)'
      BY <2>1, <2>2 DEF AskFits, RestFits, States, FinishedStates
    <2> QED BY <2>1, <2>2, <2>3, ReturnFits
  <1>15. ~JobResumeRaises(c, j)
    <2>1. At(c, "resume:return", j) => db[j] = "running"
      BY WaitsAlone DEF AskFits, States
    <2> QED BY <2>1 DEF JobResumeRaises, Unmade
  <1> QED BY <1>1, <1>2, <1>3, <1>4, <1>5, <1>6, <1>7, <1>8, <1>9, <1>10, <1>11, <1>12,
             <1>13, <1>14, <1>15
          DEF Handle

(* A job that is shown to be neither pending nor running rests.            *)
LEMMA ShownAtRest ==
  ASSUME NEW j \in Jobs, JobInv(j), stats[j] \notin {"pending", "running"}
  PROVE  Rests(j)
  <1> SUFFICES ASSUME NEW n \in 1..MaxRuns, Live(j, n) PROVE FALSE
    BY DEF Rests
  <1> QED BY DEF JobInv, RunFits, States, Live, LiveStages, Ahead, Under

(* A request that is orderly begins when no other does anything.           *)
LEMMA AskAlone ==
  ASSUME TypeOK, NEW c \in Clients, NEW j \in Jobs, JobInv(j), NEW at \in Waits, NEW states,
         Ask(c, at, j, states), Orderly'
  PROVE  /\ stats[j] \in states /\ Unasked(j)
         /\ \A d \in Clients : ~Asks(d, j)
         /\ call'[c] = [at |-> at, job |-> j, run |-> registry[j]]
         /\ \A d \in Clients \ {c} : call'[d] = call[d]
         /\ killed' = killed
  <1>1. stats[j] \in states /\ Quiet(j)
    BY DEF Ask, Orderly, TypeOK
  <1> QED BY <1>1 DEF Ask, Begin, Quiet, Unasked, Asks, TypeOK

(* The request begins.                                                     *)
LEMMA RequestKeeps ==
  ASSUME TypeOK, NEW c \in Clients, NEW j \in Jobs, JobInv(j), Request(c, j), Orderly'
  PROVE  JobInv(j)'
  <1>1. CASE StartJob(c, j)
    <2>1. db[j] = "none" /\ db'[j] = "pending" /\ Begin(c, "start:frontier", j) /\ stats' = stats
      BY <1>1 DEF StartJob, TypeOK, memoryVars
    <2>2. \A d \in Clients : ~Asks(d, j)
      BY <2>1 DEF JobInv, AskFits, States, TypeOK, Waits, FinishedStates, Asks, Idle
    <2>3. Unasked(j) /\ Rests(j)
      <3>1. ASSUME NEW n \in 1..MaxRuns, Live(j, n) PROVE FALSE
        BY <2>1, <3>1 DEF JobInv, RunFits, States, Live, LiveStages, Ahead, Under
      <3> QED BY <2>2, <3>1 DEF Unasked, Rests
    <2>4. stats[j] = None
      BY <2>1, <2>3, CrawlManagerAssumption DEF JobInv, RestFits, RunStates
    <2>5. UNCHANGED <<registry, channels, runs, stage>> /\ Rests(j)'
      BY <1>1, <2>3, RestsStay DEF StartJob, memoryVars
    <2>6. /\ call'[c] = [at |-> "start:frontier", job |-> j, run |-> registry[j]]
          /\ \A d \in Clients \ {c} : call'[d] = call[d]
      BY <2>1 DEF Begin, TypeOK
    <2>7. AskFits(c, j)'
      BY <2>1, <2>4, <2>5, <2>6 DEF AskFits, States
    <2> QED BY <2>2, <2>3, <2>5, <2>6, <2>7, HandledKeeps DEF Handled
  <1>2. CASE ResumeJob(c, j)
    <2>1. /\ stats[j] = "paused" /\ Unasked(j) /\ \A d \in Clients : ~Asks(d, j)
          /\ call'[c] = [at |-> "resume:update", job |-> j, run |-> registry[j]]
          /\ \A d \in Clients \ {c} : call'[d] = call[d]
      <3> DEFINE shown == {"paused"}
      <3>1. Ask(c, "resume:update", j, shown)
        BY <1>2 DEF ResumeJob
      <3> HIDE DEF shown
      <3>2. /\ stats[j] \in shown /\ Unasked(j) /\ \A d \in Clients : ~Asks(d, j)
            /\ call'[c] = [at |-> "resume:update", job |-> j, run |-> registry[j]]
            /\ \A d \in Clients \ {c} : call'[d] = call[d]
        BY <3>1, AskAlone DEF Waits
      <3> QED BY <3>2 DEF shown
    <2>2. Rests(j) /\ RestFits(j)
      BY <2>1, ShownAtRest DEF JobInv
    <2>3. UNCHANGED <<db, stats, registry, channels, runs, stage>> /\ Rests(j)'
      BY <1>2, <2>2, RestsStay DEF ResumeJob, tableVars, memoryVars
    <2>4. AskFits(c, j)'
      BY <2>1, <2>2, <2>3, CrawlManagerAssumption DEF AskFits, RestFits, States
    <2> QED BY <2>1, <2>2, <2>3, <2>4, HandledKeeps DEF Handled
  <1>3. CASE CancelJob(c, j)
    <2>1. /\ stats[j] = "paused" /\ Unasked(j) /\ \A d \in Clients : ~Asks(d, j)
          /\ call'[c] = [at |-> "cancel:finish", job |-> j, run |-> registry[j]]
          /\ \A d \in Clients \ {c} : call'[d] = call[d]
      <3> DEFINE shown == {"paused"}
      <3>1. Ask(c, "cancel:finish", j, shown)
        BY <1>3 DEF CancelJob
      <3> HIDE DEF shown
      <3>2. /\ stats[j] \in shown /\ Unasked(j) /\ \A d \in Clients : ~Asks(d, j)
            /\ call'[c] = [at |-> "cancel:finish", job |-> j, run |-> registry[j]]
            /\ \A d \in Clients \ {c} : call'[d] = call[d]
        BY <3>1, AskAlone DEF Waits
      <3> QED BY <3>2 DEF shown
    <2>2. Rests(j) /\ RestFits(j)
      BY <2>1, ShownAtRest DEF JobInv
    <2>3. UNCHANGED <<db, stats, registry, channels, runs, stage>> /\ Rests(j)'
      BY <1>3, <2>2, RestsStay DEF CancelJob, tableVars, memoryVars
    <2>4. AskFits(c, j)'
      BY <2>1, <2>2, <2>3, CrawlManagerAssumption DEF AskFits, RestFits, States
    <2> QED BY <2>1, <2>2, <2>3, <2>4, HandledKeeps DEF Handled
  <1>4. CASE DeleteJob(c, j)
    <2>1. /\ stats[j] \in FinishedStates /\ Unasked(j) /\ \A d \in Clients : ~Asks(d, j)
          /\ call'[c] = [at |-> "delete:check", job |-> j, run |-> registry[j]]
          /\ \A d \in Clients \ {c} : call'[d] = call[d]
          /\ killed' = killed
      BY <1>4, AskAlone DEF DeleteJob, Waits
    <2>2. Rests(j) /\ RestFits(j)
      BY <2>1, ShownAtRest DEF JobInv, FinishedStates
    <2>3. UNCHANGED <<db, stats, registry, channels, runs, stage, frontier>> /\ Rests(j)'
      BY <1>4, <2>2, RestsStay DEF DeleteJob, tableVars, memoryVars
    <2>4. AskFits(c, j)'
      BY <2>1, <2>2, <2>3, CrawlManagerAssumption DEF AskFits, RestFits, States, FinishedStates
    <2> QED BY <2>1, <2>2, <2>3, <2>4, HandledKeeps DEF Handled
  <1>5. CASE PauseJob(c, j)
    <2>1. /\ stats[j] = "running" /\ \A d \in Clients : ~Asks(d, j)
          /\ call'[c] = [at |-> "pause:stopped", job |-> j, run |-> registry[j]]
          /\ \A d \in Clients \ {c} : call'[d] = call[d]
      <3> DEFINE shown == {"running"}
      <3>1. Ask(c, "pause:stopped", j, shown)
        BY <1>5 DEF PauseJob
      <3> HIDE DEF shown
      <3>2. /\ stats[j] \in shown /\ Unasked(j) /\ \A d \in Clients : ~Asks(d, j)
            /\ call'[c] = [at |-> "pause:stopped", job |-> j, run |-> registry[j]]
            /\ \A d \in Clients \ {c} : call'[d] = call[d]
        BY <3>1, AskAlone DEF Waits
      <3> QED BY <3>2 DEF shown
    <2>2. registry[j] # 0 /\ UNCHANGED <<db, stats, registry, channels, runs>>
      BY <1>5 DEF PauseJob, tableVars, memoryVars
    <2>3. PICK n \in 1..MaxRuns : Live(j, n)
      BY <2>2 DEF JobInv, Rests
    <2>4. RunFits(j, n) /\ \A m \in 1..MaxRuns : Live(j, m) => m = n
      BY <2>3 DEF JobInv, OneLives
    <2>5. /\ stage[j][n] = "running" /\ registry[j] = n /\ j \in channels
          /\ States(j, {"running"}, {"running"})
      BY <2>1, <2>2, <2>3, <2>4 DEF RunFits, Live, LiveStages, Under
    <2>6. /\ stage'[j][n] = "cancelling"
          /\ \A m \in 1..MaxRuns : m # n => stage'[j][m] = stage[j][m]
      BY <1>5, <2>5 DEF PauseJob, Enter, TypeOK
    <2>7. Live(j, n)' /\ \A m \in 1..MaxRuns : Live(j, m)' => m = n
      BY <2>4, <2>6 DEF Live, LiveStages, Under
    <2>8. ASSUME NEW d \in Clients \ {c} PROVE ~Asks(d, j)'
      <3>1. call[d].job = j => Hangs(d) /\ call[d].run \in 1..MaxRuns /\ call[d].run # n
        BY <2>1, <2>5 DEF JobInv, Asks, PausesFit, Hangs
      <3> QED BY <2>1, <2>6, <3>1 DEF Asks, Hangs
    <2>9. Asks(c, j)'
      BY <2>1, <2>5, <2>6 DEF Asks, Hangs
    <2>10. RunFits(j, n)'
      <3>1. States(j, {"running"}, {"running"})' /\ registry'[j] = n /\ j \in channels'
        BY <2>2, <2>5 DEF States
      <3>2. call'[c].at = "pause:stopped" /\ call'[c].run = n
        BY <2>1, <2>5
      <3> QED BY <2>6, <2>9, <3>1, <3>2 DEF RunFits, Under, Ahead, LiveStages
    <2>11. AskFits(c, j)'
      <3>1. States(j, {"running"}, {"running"})'
        BY <2>2, <2>5 DEF States
      <3>2. call'[c].at = "pause:stopped" /\ call'[c].run = n
        BY <2>1, <2>5
      <3> QED BY <2>6, <3>1, <3>2 DEF AskFits
    <2>12. OneAsks(j)' /\ OneLives(j)' /\ ~Rests(j)'
      BY <2>7, <2>8 DEF OneAsks, OneLives, Rests
    <2>13. PausesFit(j)'
      BY <2>1, <2>5, <2>6 DEF JobInv, PausesFit, Left
    <2>14. Numbered(j)'
      BY <2>2, <2>5, <2>6 DEF JobInv, Numbered
    <2>15. \A d \in Clients : Asks(d, j)' => AskFits(d, j)'
      BY <2>8, <2>11
    <2> QED BY <2>7, <2>10, <2>12, <2>13, <2>14, <2>15 DEF JobInv
  <1> QED BY <1>1, <1>2, <1>3, <1>4, <1>5 DEF Request

-----------------------------------------------------------------------------
(* Other jobs *)

(* What a request or a run changes is its job's.                           *)
Ours(j) ==
  /\ \A i \in Jobs \ {j} : db'[i] = db[i] /\ stats'[i] = stats[i]
  /\ \A i \in Jobs \ {j} : registry'[i] = registry[i] /\ runs'[i] = runs[i]
  /\ \A i \in Jobs \ {j} : stage'[i] = stage[i]
  /\ \A i \in Jobs \ {j} : (i \in channels' <=> i \in channels) /\ (i \in frontier' <=> i \in frontier)
  /\ killed' = killed /\ valid' = valid
  /\ \A c \in Clients : call'[c] # call[c] => call[c].job \in {j, None} /\ call'[c].job \in {j, None}

LEMMA OursApart ==
  ASSUME NEW j \in Jobs, Ours(j), NEW i \in Jobs \ {j}
  PROVE  Apart(i)
  <1>1. i # None
    BY CrawlManagerAssumption
  <1> QED BY <1>1 DEF Ours, Apart

LEMMA RequestOurs ==
  ASSUME TypeOK, NEW c \in Clients, NEW j \in Jobs, Request(c, j)
  PROVE  Ours(j)
  <1>1. \A at, d : d \in Clients /\ call[c] = Idle /\ Begin(c, at, j) /\ call'[d] # call[d] =>
          call[d].job \in {j, None} /\ call'[d].job \in {j, None}
    BY DEF Begin, Idle, TypeOK
  <1>2. CASE StartJob(c, j)
    BY <1>1, <1>2 DEF StartJob, Ask, Enter, TypeOK, Ours, tableVars, memoryVars, historyVars
  <1>3. CASE PauseJob(c, j)
    BY <1>1, <1>3 DEF PauseJob, Ask, Enter, TypeOK, Ours, tableVars, memoryVars, historyVars
  <1>4. CASE ResumeJob(c, j)
    BY <1>1, <1>4 DEF ResumeJob, Ask, Enter, TypeOK, Ours, tableVars, memoryVars, historyVars
  <1>5. CASE CancelJob(c, j)
    BY <1>1, <1>5 DEF CancelJob, Ask, Enter, TypeOK, Ours, tableVars, memoryVars, historyVars
  <1>6. CASE DeleteJob(c, j)
    BY <1>1, <1>6 DEF DeleteJob, Ask, Enter, TypeOK, Ours, tableVars, memoryVars, historyVars
  <1> QED BY <1>2, <1>3, <1>4, <1>5, <1>6 DEF Request

LEMMA HandleOurs ==
  ASSUME TypeOK, NEW c \in Clients, NEW j \in Jobs, Handle(c, j)
  PROVE  Ours(j)
  <1>a. \A at, d : d \in Clients /\ call[c].job = j /\ Wait(c, at) /\ call'[d] # call[d] =>
          call[d].job = j /\ call'[d].job = j
    BY DEF Wait, TypeOK
  <1>b. \A d \in Clients : call[c].job = j /\ Return(c) /\ call'[d] # call[d] =>
          call[d].job = j /\ call'[d].job = None
    BY DEF Return, Idle, TypeOK
  <1>c. \A s : Update(j, s) => \A i \in Jobs \ {j} : db'[i] = db[i]
    BY DEF Update, TypeOK
  <1>1. CASE InsertSeeds(c, j)
    BY <1>1, <1>a, <1>b, <1>c DEF InsertSeeds, At, TypeOK, Ours, tableVars, memoryVars, historyVars
  <1>2. CASE AwaitStopped(c, j)
    BY <1>2, <1>a, <1>b, <1>c DEF AwaitStopped, At, TypeOK, Ours, tableVars, memoryVars, historyVars
  <1>3. CASE SavePause(c, j)
    BY <1>3, <1>a, <1>b, <1>c DEF SavePause, At, TypeOK, Ours, tableVars, memoryVars, historyVars
  <1>4. CASE JobPaused(c, j)
    BY <1>4, <1>a, <1>b, <1>c
    DEF JobPaused, At, SetStats, TypeOK, Ours, tableVars, memoryVars, historyVars
  <1>5. CASE ResumeUpdate(c, j)
    BY <1>5, <1>a, <1>b, <1>c DEF ResumeUpdate, At, TypeOK, Ours, tableVars, memoryVars, historyVars
  <1>6. CASE CancelFinish(c, j)
    BY <1>6, <1>a, <1>b, <1>c DEF CancelFinish, At, TypeOK, Ours, tableVars, memoryVars, historyVars
  <1>7. CASE CancelClear(c, j)
    BY <1>7, <1>a, <1>b, <1>c DEF CancelClear, At, TypeOK, Ours, tableVars, memoryVars, historyVars
  <1>8. CASE JobCancelled(c, j)
    BY <1>8, <1>a, <1>b, <1>c
    DEF JobCancelled, At, SetStats, TypeOK, Ours, tableVars, memoryVars, historyVars
  <1>9. CASE DeleteCheck(c, j)
    BY <1>9, <1>a, <1>b, <1>c DEF DeleteCheck, At, TypeOK, Ours, tableVars, memoryVars, historyVars
  <1>10. CASE DeleteRow(c, j)
    BY <1>10, <1>a, <1>b, <1>c DEF DeleteRow, At, TypeOK, Ours, tableVars, memoryVars, historyVars
  <1>11. CASE JobDeleted(c, j)
    BY <1>11, <1>a, <1>b, <1>c
    DEF JobDeleted, At, SetStats, TypeOK, Ours, tableVars, memoryVars, historyVars
  <1>12. CASE JobStarted(c, j)
    BY <1>12, <1>a, <1>b, <1>c
    DEF JobStarted, At, MakeJob, Enter, SetStats, TypeOK, Ours, tableVars, memoryVars, historyVars
  <1>13. CASE JobResumed(c, j)
    BY <1>13, <1>a, <1>b, <1>c
    DEF JobResumed, At, MakeJob, Enter, SetStats, TypeOK, Ours, tableVars, memoryVars, historyVars
  <1>14. CASE JobStartRaises(c, j) \/ JobResumeRaises(c, j)
    BY <1>14, <1>a, <1>b, <1>c
    DEF JobStartRaises, JobResumeRaises, At, TypeOK, Ours, tableVars, memoryVars, historyVars
  <1> QED BY <1>1, <1>2, <1>3, <1>4, <1>5, <1>6, <1>7, <1>8, <1>9, <1>10, <1>11, <1>12,
             <1>13, <1>14
          DEF Handle

LEMMA WorkOurs ==
  ASSUME TypeOK, NEW j \in Jobs, NEW n \in 1..MaxRuns, Work(j, n)
  PROVE  Ours(j)
  <1>a. \A s : Update(j, s) => \A i \in Jobs \ {j} : db'[i] = db[i]
    BY DEF Update, TypeOK
  <1>b. \A s : Enter(j, n, s) => \A i \in Jobs \ {j} : stage'[i] = stage[i]
    BY DEF Enter, TypeOK
  <1>1. CASE RunJob(j, n)
    BY <1>1, <1>a, <1>b DEF RunJob, TypeOK, Ours, tableVars, memoryVars, historyVars
  <1>2. CASE JobRunning(j, n)
    BY <1>2, <1>a, <1>b DEF JobRunning, SetStats, TypeOK, Ours, tableVars, memoryVars, historyVars
  <1>3. CASE JobStops(j, n)
    BY <1>3, <1>a, <1>b DEF JobStops, Remove, TypeOK, Ours, tableVars, memoryVars, historyVars
  <1>4. CASE JobRaises(j, n)
    BY <1>4, <1>a, <1>b DEF JobRaises, Remove, TypeOK, Ours, tableVars, memoryVars, historyVars
  <1>5. CASE JobRemoved(j, n)
    BY <1>5, <1>a, <1>b DEF JobRemoved, TypeOK, Ours, tableVars, memoryVars, historyVars
  <1>6. CASE FinishJob(j, n)
    BY <1>6, <1>a, <1>b DEF FinishJob, TypeOK, Ours, tableVars, memoryVars, historyVars
  <1>7. CASE ClearFrontier(j, n)
    BY <1>7, <1>a, <1>b DEF ClearFrontier, TypeOK, Ours, tableVars, memoryVars, historyVars
  <1>8. CASE JobCompleted(j, n)
    BY <1>8, <1>a, <1>b DEF JobCompleted, SetStats, TypeOK, Ours, tableVars, memoryVars, historyVars
  <1>9. CASE InsertLinks(j, n)
    BY <1>9, <1>a, <1>b DEF InsertLinks, TypeOK, Ours, tableVars, memoryVars, historyVars
  <1>10. CASE RunJobRaises(j, n)
    BY <1>10, <1>a, <1>b DEF RunJobRaises, Crash, TypeOK, Ours, tableVars, memoryVars, historyVars
  <1> QED BY <1>1, <1>2, <1>3, <1>4, <1>5, <1>6, <1>7, <1>8, <1>9, <1>10 DEF Work, Run

-----------------------------------------------------------------------------
(* Events *)

(* The statistics of job i and its last event stay what they are.          *)
ShownStays(i) ==
  Settled(i)' /\ db'[i] # "deleted" =>
    Settled(i) /\ db[i] # "deleted" /\ stats'[i] = stats[i]

LEMMA ToldKept ==
  ASSUME EventsTold, UNCHANGED eventVars, \A i \in Jobs : ShownStays(i)
  PROVE  EventsTold'
  <1> SUFFICES ASSUME NEW i \in Jobs, Settled(i)', i \notin missed', db'[i] # "deleted"
               PROVE  Told(i)'
    BY DEF EventsTold
  <1>1. Told(i) /\ stats'[i] = stats[i]
    BY DEF EventsTold, ShownStays, eventVars
  <1> QED BY <1>1 DEF Told, LastOf, eventVars

(* An event is sent with the state that the statistics show from then on.  *)
LEMMA ToldSent ==
  ASSUME TypeOK, EventsTold, NEW j \in Jobs, NEW state \in RunStates, SendEvent(j, state),
         SetStats(j, state), \A i \in Jobs \ {j} : ShownStays(i)
  PROVE  EventsTold'
  <1> DEFINE Event == [job : Jobs, state : RunStates]
             event == [job |-> j, state |-> state]
  <1> SUFFICES ASSUME NEW i \in Jobs, Settled(i)', i \notin missed', db'[i] # "deleted"
               PROVE  Told(i)'
    BY DEF EventsTold
  <1>1. listener \in Seq(Event) /\ event \in Event /\ event.job = j /\ event.state = state
    BY DEF TypeOK
  <1>2. stats'[j] = state /\ heard' = heard
    BY DEF SetStats, SendEvent, TypeOK
  <1>3. i # j => Told(i) /\ stats'[i] = stats[i]
    BY DEF EventsTold, ShownStays, SendEvent
  <1>4. CASE Len(listener) < ChannelSize
    <2>1. listener' = Append(listener, event)
      BY <1>4 DEF SendEvent
    <2> HIDE DEF event, Event
    <2>2. /\ Len(listener) \in Nat /\ Len(listener') = Len(listener) + 1
          /\ \A k \in 1 .. Len(listener) : listener'[k] = listener[k]
          /\ listener'[Len(listener) + 1] = event
          /\ DOMAIN listener = 1 .. Len(listener) /\ DOMAIN listener' = 1 .. Len(listener')
          /\ listener' \in Seq(Event)
      BY <1>1, <2>1, AppendFacts
    <2>3. CASE i = j
      <3>1. ASSUME NEW k \in DOMAIN listener', LastOf(i, k)' PROVE listener'[k].state = stats'[i]
        <4>1. k = Len(listener) + 1
          BY <1>1, <2>2, <2>3, <3>1 DEF LastOf
        <4> QED BY <1>1, <1>2, <2>2, <2>3, <4>1
      <3>2. ~ \A k \in DOMAIN listener' : listener'[k].job # i
        BY <1>1, <2>2, <2>3
      <3> QED BY <3>1, <3>2 DEF Told
    <2>4. CASE i # j
      <3>1. ASSUME NEW k \in DOMAIN listener', LastOf(i, k)' PROVE listener'[k].state = stats'[i]
        <4>1. k \in 1 .. Len(listener) /\ LastOf(i, k)
          BY <1>1, <2>2, <2>4, <3>1 DEF LastOf
        <4> QED BY <1>3, <2>2, <2>4, <4>1 DEF Told
      <3>2. (\A k \in DOMAIN listener' : listener'[k].job # i) => heard'[i] \in {stats'[i], None}
        BY <1>2, <1>3, <2>2, <2>4 DEF Told
      <3> QED BY <3>1, <3>2 DEF Told
    <2> QED BY <2>3, <2>4
  <1>5. CASE ~(Len(listener) < ChannelSize)
    <2>1. listener' = listener /\ i # j
      BY <1>5 DEF SendEvent
    <2> QED BY <1>2, <1>3, <2>1 DEF Told, LastOf
  <1> QED BY <1>4, <1>5

(* A listener receives the first event that waits.                         *)
LEMMA ToldHeard ==
  ASSUME TypeOK, EventsTold, Listen
  PROVE  EventsTold'
  <1> DEFINE Event == [job : Jobs, state : RunStates]
  <1>1. listener \in Seq(Event) /\ listener # <<>> /\ listener' = Tail(listener)
        /\ heard' = [heard EXCEPT ![Head(listener).job] = Head(listener).state]
    BY DEF Listen, TypeOK
  <1>2. UNCHANGED <<stage, missed, db, stats>>
    BY DEF Listen, tableVars, memoryVars
  <1> HIDE DEF Event
  <1>3. /\ Head(listener) = listener[1] /\ Head(listener) \in Event
        /\ Len(listener) \in Nat \ {0} /\ Len(listener') = Len(listener) - 1
        /\ \A k \in 1 .. Len(listener) - 1 : listener'[k] = listener[k + 1]
        /\ DOMAIN listener = 1 .. Len(listener) /\ DOMAIN listener' = 1 .. Len(listener')
    BY <1>1, TailFacts
  <1>4. Head(listener).job \in Jobs
    BY <1>3 DEF Event
  <1> SUFFICES ASSUME NEW i \in Jobs, Settled(i)', i \notin missed', db'[i] # "deleted"
               PROVE  Told(i)'
    BY DEF EventsTold
  <1>5. Told(i)
    BY <1>2 DEF EventsTold, Settled
  <1>6. ASSUME NEW k \in DOMAIN listener', LastOf(i, k)' PROVE listener'[k].state = stats'[i]
    <2>1. k + 1 \in DOMAIN listener /\ listener'[k] = listener[k + 1]
      BY <1>3
    <2>2. ASSUME NEW l \in k + 2 .. Len(listener) PROVE listener[l].job # i
      <3>1. l - 1 \in k + 1 .. Len(listener') /\ listener'[l - 1] = listener[l]
        BY <1>3, <2>2
      <3> QED BY <1>6, <3>1 DEF LastOf
    <2>3. LastOf(i, k + 1)
      BY <1>3, <1>6, <2>1, <2>2 DEF LastOf
    <2> QED BY <1>2, <1>5, <2>1, <2>3 DEF Told
  <1>7. ASSUME \A k \in DOMAIN listener' : listener'[k].job # i
        PROVE  heard'[i] \in {stats'[i], None}
    <2>1. \A l \in 2 .. Len(listener) : listener[l].job # i
      <3> SUFFICES ASSUME NEW l \in 2 .. Len(listener) PROVE listener[l].job # i
        OBVIOUS
      <3>1. l - 1 \in DOMAIN listener' /\ listener'[l - 1] = listener[l]
        BY <1>3
      <3> QED BY <1>7, <3>1
    <2>2. CASE Head(listener).job = i
      <3>1. 1 \in DOMAIN listener /\ LastOf(i, 1)
        BY <1>3, <2>1, <2>2 DEF LastOf
      <3>2. heard'[i] = stats[i]
        BY <1>1, <1>3, <1>5, <2>2, <3>1 DEF Told, TypeOK
      <3> QED BY <1>2, <3>2
    <2>3. CASE Head(listener).job # i
      <3>1. \A l \in DOMAIN listener : listener[l].job # i
        BY <1>3, <2>1, <2>3
      <3>2. heard'[i] = heard[i]
        BY <1>1, <2>3 DEF TypeOK
      <3> QED BY <1>2, <1>5, <3>1, <3>2 DEF Told
    <2> QED BY <2>2, <2>3
  <1> QED BY <1>6, <1>7 DEF Told

-----------------------------------------------------------------------------
(* The events of a step *)

LEMMA OursShown ==
  ASSUME NEW j \in Jobs, Ours(j), NEW i \in Jobs \ {j}
  PROVE  ShownStays(i)
  BY DEF Ours, ShownStays, Settled

LEMMA RequestTold ==
  ASSUME TypeOK, NEW c \in Clients, NEW j \in Jobs, JobInv(j), EventsTold, Request(c, j)
  PROVE  EventsTold'
  <1>1. \A i \in Jobs \ {j} : ShownStays(i)
    BY RequestOurs, OursShown
  <1>2. CASE StartJob(c, j)
    <2>1. ShownStays(j)
      BY <1>2 DEF StartJob, ShownStays, Settled, memoryVars
    <2> QED BY <1>1, <1>2, <2>1, ToldKept DEF StartJob
  <1>3. CASE PauseJob(c, j)
    <2>1. UNCHANGED <<db, stats, eventVars>> /\ registry[j] # 0 /\ registry[j] \in 1..MaxRuns
      BY <1>3, CrawlManagerAssumption DEF PauseJob, tableVars, memoryVars, TypeOK
    <2>2. stage[j][registry[j]] \notin Ahead
      BY <2>1 DEF JobInv, Live, LiveStages, RunFits
    <2>3. \A m \in 1..MaxRuns : m # registry[j] => stage'[j][m] = stage[j][m]
      BY <1>3, <2>1 DEF PauseJob, Enter, TypeOK
    <2>4. ShownStays(j)
      BY <2>1, <2>2, <2>3 DEF ShownStays, Settled
    <2> QED BY <1>1, <2>1, <2>4, ToldKept
  <1>4. CASE ResumeJob(c, j) \/ CancelJob(c, j) \/ DeleteJob(c, j)
    <2>1. UNCHANGED <<db, stats, stage, eventVars>>
      BY <1>4 DEF ResumeJob, CancelJob, DeleteJob, tableVars, memoryVars
    <2>2. ShownStays(j)
      BY <2>1 DEF ShownStays, Settled
    <2> QED BY <1>1, <2>1, <2>2, ToldKept
  <1> QED BY <1>2, <1>3, <1>4 DEF Request

LEMMA HandleTold ==
  ASSUME TypeOK, RunsBounded, NEW c \in Clients, NEW j \in Jobs, JobInv(j), EventsTold, Handle(c, j)
  PROVE  EventsTold'
  <1>1. \A i \in Jobs \ {j} : ShownStays(i)
    BY HandleOurs, OursShown
  <1>2. \A state \in RunStates : Update(j, state) /\ db'[j] # "deleted" => db[j] # "deleted"
    BY DEF Update, Exists, RunStates
  <1>3. CASE \/ InsertSeeds(c, j) \/ AwaitStopped(c, j) \/ CancelClear(c, j) \/ DeleteCheck(c, j)
             \/ JobStartRaises(c, j) \/ JobResumeRaises(c, j)
    <2>1. UNCHANGED <<db, stats, stage, eventVars>>
      BY <1>3 DEF InsertSeeds, AwaitStopped, CancelClear, DeleteCheck, JobStartRaises,
                  JobResumeRaises, tableVars, memoryVars
    <2>2. ShownStays(j)
      BY <2>1 DEF ShownStays, Settled
    <2> QED BY <1>1, <2>1, <2>2, ToldKept
  <1>4. CASE SavePause(c, j) \/ ResumeUpdate(c, j) \/ CancelFinish(c, j)
    <2>1. UNCHANGED <<stats, stage, eventVars>>
      BY <1>4 DEF SavePause, ResumeUpdate, CancelFinish, memoryVars
    <2>2. db'[j] # "deleted" => db[j] # "deleted"
      BY <1>2, <1>4 DEF SavePause, ResumeUpdate, CancelFinish, RunStates
    <2>3. ShownStays(j)
      BY <2>1, <2>2 DEF ShownStays, Settled
    <2> QED BY <1>1, <2>1, <2>3, ToldKept
  <1>5. CASE DeleteRow(c, j)
    <2>1. UNCHANGED <<stats, stage, eventVars>>
      BY <1>5 DEF DeleteRow, memoryVars
    <2>2. db'[j] # "deleted" => db[j] # "deleted"
      BY <1>5 DEF DeleteRow, Update, TypeOK
    <2>3. ShownStays(j)
      BY <2>1, <2>2 DEF ShownStays, Settled
    <2> QED BY <1>1, <2>1, <2>3, ToldKept
  <1>6. CASE JobPaused(c, j) \/ JobCancelled(c, j)
    <2>1. CASE stats[j] = None
      <3>1. UNCHANGED <<db, stats, stage, eventVars>>
        BY <1>6, <2>1 DEF JobPaused, JobCancelled, tableVars
      <3>2. ShownStays(j)
        BY <3>1 DEF ShownStays, Settled
      <3> QED BY <1>1, <3>1, <3>2, ToldKept
    <2>2. CASE stats[j] # None
      BY <1>1, <1>6, <2>2, ToldSent DEF JobPaused, JobCancelled, RunStates
    <2> QED BY <2>1, <2>2
  <1>7. CASE JobDeleted(c, j)
    <2>1. db[j] = "deleted"
      BY <1>7, WaitsAlone DEF JobDeleted, AskFits, States
    <2>2. UNCHANGED <<db, eventVars>>
      BY <1>7 DEF JobDeleted, tableVars
    <2>3. ShownStays(j)
      BY <2>1, <2>2 DEF ShownStays
    <2> QED BY <1>1, <2>2, <2>3, ToldKept
  <1>8. CASE JobStarted(c, j) \/ JobResumed(c, j)
    <2>1. PICK state \in RunStates : MakeJob(j, state)
      BY <1>8 DEF JobStarted, JobResumed, RunStates
    <2>2. c \in Adding(j) /\ Return(c) /\ UNCHANGED eventVars
      BY <1>8 DEF JobStarted, JobResumed, At, Adding, AddRun
    <2>3. runs[j] + 1 \in 1..MaxRuns
      BY <2>1, <2>2, BoundUsed
    <2>4. stage'[j][runs[j] + 1] = "starting"
      BY <2>1, <2>3 DEF MakeJob, Enter, TypeOK
    <2>5. ~Settled(j)'
      BY <2>3, <2>4 DEF Settled, Ahead
    <2> QED BY <1>1, <2>2, <2>5, ToldKept DEF ShownStays
  <1> QED BY <1>3, <1>4, <1>5, <1>6, <1>7, <1>8 DEF Handle

LEMMA WorkTold ==
  ASSUME TypeOK, NEW j \in Jobs, NEW n \in 1..MaxRuns, EventsTold, Work(j, n)
  PROVE  EventsTold'
  <1>1. \A i \in Jobs \ {j} : ShownStays(i)
    BY WorkOurs, OursShown
  <1>2. CASE RunJob(j, n)
    <2>1. stage'[j][n] = "marked"
      BY <1>2 DEF RunJob, Enter, TypeOK
    <2>2. ~Settled(j)'
      BY <2>1 DEF Settled, Ahead
    <2> QED BY <1>1, <1>2, <2>2, ToldKept DEF ShownStays, RunJob
  <1>3. CASE JobRunning(j, n)
    BY <1>1, <1>3, ToldSent DEF JobRunning, RunStates
  <1>4. CASE JobCompleted(j, n)
    BY <1>1, <1>4, ToldSent DEF JobCompleted, RunStates
  <1>5. CASE \/ JobStops(j, n) \/ JobRaises(j, n) \/ JobRemoved(j, n) \/ FinishJob(j, n)
             \/ ClearFrontier(j, n)
    <2>1. UNCHANGED <<stats, eventVars>> /\ stage[j][n] \notin Ahead
      BY <1>5 DEF JobStops, JobRaises, JobRemoved, FinishJob, ClearFrontier, Remove, memoryVars,
                  Ahead, Under
    <2>2. db'[j] # "deleted" => db[j] # "deleted"
      BY <1>5 DEF JobStops, JobRaises, JobRemoved, FinishJob, ClearFrontier, Remove, tableVars,
                  Update, Exists, RunStates
    <2>3. \A m \in 1..MaxRuns : m # n => stage'[j][m] = stage[j][m]
      <3>1. PICK s \in {"stopping", "ending", "stopped", "finishing", "clearing", "cleared"} :
              Enter(j, n, s)
        BY <1>5 DEF JobStops, JobRaises, JobRemoved, FinishJob, ClearFrontier, Remove
      <3> QED BY <3>1 DEF Enter, TypeOK
    <2>4. ShownStays(j)
      BY <2>1, <2>2, <2>3 DEF ShownStays, Settled
    <2> QED BY <1>1, <2>1, <2>4, ToldKept
  <1>6. CASE InsertLinks(j, n) \/ RunJobRaises(j, n)
    <2>1. UNCHANGED <<db, stats, stage, eventVars>>
      BY <1>6 DEF InsertLinks, RunJobRaises, Crash, tableVars, memoryVars
    <2>2. ShownStays(j)
      BY <2>1 DEF ShownStays, Settled
    <2> QED BY <1>1, <2>1, <2>2, ToldKept
  <1> QED BY <1>2, <1>3, <1>4, <1>5, <1>6 DEF Work, Run

-----------------------------------------------------------------------------
(* Jobs that cannot be made *)

LEMMA RequestUnmade ==
  ASSUME TypeOK, NEW c \in Clients, NEW j \in Jobs, JobInv(j), Unmade(j), Request(c, j)
  PROVE  Unmade(j)'
  <1> SUFFICES ASSUME j \notin valid PROVE Unmade(j)'
    BY RequestOurs DEF Ours, Unmade
  <1>1. db[j] \in {"none", "pending"} /\ \A n \in 1..MaxRuns : stage[j][n] = "none"
    BY DEF Unmade
  <1>2. registry[j] = 0
    BY <1>1 DEF JobInv, Rests, Live, LiveStages, Ahead, Under
  <1>3. db'[j] \in {"none", "pending"} /\ stage' = stage
    BY <1>1, <1>2 DEF Request, StartJob, PauseJob, ResumeJob, CancelJob, DeleteJob, tableVars, TypeOK
  <1> QED BY <1>1, <1>3 DEF Unmade

LEMMA HandleUnmade ==
  ASSUME TypeOK, NEW c \in Clients, NEW j \in Jobs, JobInv(j), Unmade(j), Handle(c, j)
  PROVE  Unmade(j)'
  <1> SUFFICES ASSUME j \notin valid PROVE Unmade(j)'
    BY HandleOurs DEF Ours, Unmade
  <1>1. db[j] \in {"none", "pending"} /\ \A n \in 1..MaxRuns : stage[j][n] = "none"
    BY DEF Unmade
  <1>2. ASSUME NEW at \in {"pause:save", "resume:update", "cancel:finish", "delete:delete"}
        PROVE  ~At(c, at, j)
    BY <1>1, WaitsAlone DEF AskFits, States, FinishedStates
  <1>3. ~(SavePause(c, j) \/ ResumeUpdate(c, j) \/ CancelFinish(c, j) \/ DeleteRow(c, j))
    BY <1>2 DEF SavePause, ResumeUpdate, CancelFinish, DeleteRow
  <1>4. db' = db /\ stage' = stage
    BY <1>3 DEF Handle, InsertSeeds, AwaitStopped, JobPaused, CancelClear, JobCancelled, DeleteCheck,
                JobDeleted, JobStarted, JobResumed, JobStartRaises, JobResumeRaises, tableVars
  <1> QED BY <1>1, <1>4 DEF Unmade

LEMMA WorkUnmade ==
  ASSUME TypeOK, NEW j \in Jobs, NEW n \in 1..MaxRuns, Unmade(j), Work(j, n)
  PROVE  Unmade(j)'
  <1>1. stage[j][n] # "none"
    BY DEF Work, Run, RunJob, JobRunning, JobStops, JobRaises, JobRemoved, FinishJob, ClearFrontier,
           JobCompleted, InsertLinks, RunJobRaises, Under
  <1> QED BY <1>1, WorkOurs DEF Ours, Unmade

(* A step that is not about the job.                                       *)
LEMMA ApartUnmade ==
  ASSUME NEW i \in Jobs, Unmade(i), Apart(i)
  PROVE  Unmade(i)'
  BY DEF Apart, Unmade

-----------------------------------------------------------------------------
(* Steps *)

(* No run raises KeyError.                                                 *)
LEMMA NoKeyError ==
  ASSUME NEW j \in Jobs, NEW n \in 1..MaxRuns, JobInv(j), CrawlManagerAssumption
  PROVE  ~RunJobRaises(j, n)
  <1> SUFFICES ASSUME RunJobRaises(j, n) PROVE FALSE
    OBVIOUS
  <1>1. stage[j][n] \in LiveStages
    BY DEF RunJobRaises, LiveStages, Ahead
  <1>2. RunFits(j, n)
    BY <1>1, LiveFits
  <1>3. CASE stage[j][n] \in Under /\ ~Removable(j)
    BY <1>2, <1>3 DEF RunFits, Removable
  <1>4. CASE stage[j][n] \in {"marked", "cleared"} /\ stats[j] = None
    BY <1>2, <1>4, CrawlManagerAssumption DEF RunFits, States
  <1> QED BY <1>3, <1>4 DEF RunJobRaises

LEMMA WorkKeeps ==
  ASSUME TypeOK, NEW j \in Jobs, NEW n \in 1..MaxRuns, JobInv(j), Work(j, n)
  PROVE  JobInv(j)' /\ (alive => alive')
  <1>1. ~RunJobRaises(j, n)
    BY NoKeyError, CrawlManagerAssumption
  <1>2. alive => alive'
    BY <1>1 DEF Work, Run, RunJob, JobRunning, JobStops, JobRaises, Remove, JobRemoved, FinishJob,
                ClearFrontier, JobCompleted, InsertLinks
  <1> QED BY <1>1, <1>2, RunJobKeeps, JobRunningKeeps, JobStopsKeeps, JobRaisesKeeps, JobRemovedKeeps,
             FinishJobKeeps, ClearFrontierKeeps, JobCompletedKeeps, InsertLinksKeeps
          DEF Work, Run

(* After a restart every job is at rest.                                   *)
LEMMA RestartKeeps ==
  ASSUME TypeOK, Restart
  PROVE  /\ alive' /\ (\A j \in Jobs : JobInv(j)') /\ EventsTold'
         /\ \A j \in Jobs : Unmade(j) => Unmade(j)'
  <1>1. ASSUME NEW j \in Jobs PROVE JobInv(j)'
    <2>1. /\ \A n \in 1..MaxRuns : stage'[j][n] = "none"
          /\ \A c \in Clients : call'[c] = Idle
          /\ registry'[j] = 0 /\ j \notin channels' /\ killed'
      BY DEF Restart
    <2>2. \A n \in 1..MaxRuns : ~Live(j, n)'
      BY <2>1 DEF Live, LiveStages, Ahead, Under
    <2>3. \A c \in Clients : call'[c].job # j
      BY <2>1, CrawlManagerAssumption DEF Idle
    <2>4. RestFits(j)'
      <3>1. db'[j] = IF db[j] = "running" THEN "paused" ELSE db[j]
        BY DEF Restart
      <3>2. \/ stats'[j] = db'[j] /\ db[j] \in RunStates
            \/ stats'[j] = None /\ (db[j] \in RunStates => db[j] \in FinishedStates)
        BY DEF Restart, Exists
      <3> QED BY <2>1, <3>1, <3>2 DEF RestFits, RunStates, FinishedStates, TypeOK
    <2> QED BY <2>1, <2>2, <2>3, <2>4
          DEF JobInv, OneAsks, OneLives, Asks, PausesFit, Numbered
  <1>2. EventsTold'
    BY DEF Restart, EventsTold, Told, LastOf
  <1>3. \A j \in Jobs : Unmade(j) => Unmade(j)'
    BY DEF Restart, Unmade
  <1> QED BY <1>1, <1>2, <1>3 DEF Restart

(* The invariant holds at first, and every step keeps it.                  *)
LEMMA InvInit ==
  ASSUME Init
  PROVE  Inv
  <1>1. TypeOK
    <2>1. /\ db \in [Jobs -> RunStates \cup {"none", "deleted"}]
          /\ stats \in [Jobs -> RunStates \cup {None}]
          /\ heard \in [Jobs -> RunStates \cup {None}]
          /\ frontier \subseteq Jobs /\ channels \subseteq Jobs /\ missed \subseteq Jobs
          /\ valid \subseteq Jobs
      BY DEF Init
    <2>2. registry \in [Jobs -> 0..MaxRuns] /\ runs \in [Jobs -> 0..MaxRuns]
      BY CrawlManagerAssumption DEF Init
    <2>3. stage \in [Jobs -> [1..MaxRuns -> Stages]]
      BY DEF Init, Stages
    <2>4. call \in CallType
      BY CrawlManagerAssumption DEF Init, Idle
    <2>5. listener \in Seq([job : Jobs, state : RunStates]) /\ Len(listener) <= ChannelSize
      BY CrawlManagerAssumption DEF Init
    <2>6. disorder \in 0..MaxDisorder
      BY CrawlManagerAssumption DEF Init
    <2>7. killed \in BOOLEAN /\ alive \in BOOLEAN
      BY DEF Init
    <2> QED BY <2>1, <2>2, <2>3, <2>4, <2>5, <2>6, <2>7 DEF TypeOK
  <1>2. RunsBounded
    <2> SUFFICES ASSUME NEW j \in Jobs PROVE runs[j] + Cardinality(Adding(j)) <= MaxRuns
      BY DEF RunsBounded
    <2>1. Adding(j) = {} /\ runs[j] = 0
      BY DEF Init, Adding, Idle, AddRun
    <2>2. Cardinality(Adding(j)) = 0
      BY <2>1, FS_EmptySet
    <2> QED BY <2>1, <2>2, CrawlManagerAssumption
  <1>3. ASSUME NEW j \in Jobs PROVE JobInv(j)
    <2>1. \A n \in 1..MaxRuns : ~Live(j, n)
      BY DEF Init, Live, LiveStages, Ahead, Under
    <2>2. \A c \in Clients : call[c].job # j
      BY CrawlManagerAssumption DEF Init, Idle
    <2>3. RestFits(j)
      BY DEF Init, RestFits, FinishedStates
    <2> QED BY <2>1, <2>2, <2>3
          DEF Init, JobInv, OneAsks, OneLives, Asks, PausesFit, Numbered
  <1>4. EventsTold
    BY DEF Init, EventsTold, Told, LastOf
  <1>5. \A j \in Jobs : Unmade(j)
    BY DEF Init, Unmade
  <1> QED BY <1>1, <1>2, <1>3, <1>4, <1>5 DEF Inv, Init

(* The count of requests that were not orderly only grows.                 *)
LEMMA StaysDisorderly ==
  ASSUME TypeOK, [Next]_vars, Orderly'
  PROVE  Orderly
  <1>1. ASSUME NEW c \in Clients, NEW j \in Jobs, Request(c, j) PROVE Orderly
    <2>1. disorder' = disorder \/ disorder' = disorder + 1
      BY <1>1 DEF Request, StartJob, PauseJob, ResumeJob, CancelJob, DeleteJob, Ask, historyVars
    <2> QED BY <2>1 DEF Orderly, TypeOK
  <1>2. ASSUME NEW c \in Clients, NEW j \in Jobs, Handle(c, j) PROVE Orderly
    BY <1>2 DEF Handle, InsertSeeds, AwaitStopped, SavePause, JobPaused, ResumeUpdate, CancelFinish,
                CancelClear, JobCancelled, DeleteCheck, DeleteRow, JobDeleted, JobStarted,
                JobResumed, JobStartRaises, JobResumeRaises, historyVars, Orderly
  <1>3. ASSUME NEW j \in Jobs, NEW n \in 1..MaxRuns, Work(j, n) PROVE Orderly
    BY <1>3 DEF Work, Run, RunJob, JobRunning, JobStops, JobRaises, Remove, JobRemoved, FinishJob,
                ClearFrontier, JobCompleted, InsertLinks, RunJobRaises, Crash, historyVars, Orderly
  <1> QED BY <1>1, <1>2, <1>3 DEF Next, Listen, Restart, vars, historyVars, Orderly

LEMMA InvStep ==
  ASSUME Inv, [Next]_vars
  PROVE  Inv'
  <1>1. TypeOK' /\ RunsBounded' /\ TypeOK /\ RunsBounded
    BY TypeStep DEF Inv
  <1> SUFFICES ASSUME Orderly'
               PROVE  alive' /\ (\A j \in Jobs : JobInv(j)' /\ Unmade(j)') /\ EventsTold'
    BY <1>1 DEF Inv
  <1>2. Orderly /\ alive /\ (\A j \in Jobs : JobInv(j) /\ Unmade(j)) /\ EventsTold
    BY <1>1, StaysDisorderly DEF Inv
  <1>3. ASSUME NEW c \in Clients, NEW j \in Jobs, Request(c, j)
        PROVE  alive' /\ (\A i \in Jobs : JobInv(i)' /\ Unmade(i)') /\ EventsTold'
    <2>1. Ours(j) /\ JobInv(j)' /\ Unmade(j)' /\ EventsTold'
      BY <1>1, <1>2, <1>3, RequestOurs, RequestKeeps, RequestTold, RequestUnmade
    <2>2. alive'
      BY <1>2, <1>3 DEF Request, StartJob, PauseJob, ResumeJob, CancelJob, DeleteJob
    <2> QED BY <1>2, <2>1, <2>2, OursApart, ApartKeeps, ApartUnmade
  <1>4. ASSUME NEW c \in Clients, NEW j \in Jobs, Handle(c, j)
        PROVE  alive' /\ (\A i \in Jobs : JobInv(i)' /\ Unmade(i)') /\ EventsTold'
    <2>1. Ours(j) /\ JobInv(j)' /\ Unmade(j)' /\ EventsTold'
      BY <1>1, <1>2, <1>4, HandleOurs, HandleKeeps, HandleTold, HandleUnmade
    <2>2. alive'
      BY <1>2, <1>4 DEF Handle, InsertSeeds, AwaitStopped, SavePause, JobPaused, ResumeUpdate,
                        CancelFinish, CancelClear, JobCancelled, DeleteCheck, DeleteRow, JobDeleted,
                        JobStarted, JobResumed, JobStartRaises, JobResumeRaises
    <2> QED BY <1>2, <2>1, <2>2, OursApart, ApartKeeps, ApartUnmade
  <1>5. ASSUME NEW j \in Jobs, NEW n \in 1..MaxRuns, Work(j, n)
        PROVE  alive' /\ (\A i \in Jobs : JobInv(i)' /\ Unmade(i)') /\ EventsTold'
    <2>1. Ours(j) /\ JobInv(j)' /\ Unmade(j)' /\ EventsTold' /\ alive'
      BY <1>1, <1>2, <1>5, WorkOurs, WorkKeeps, WorkTold, WorkUnmade
    <2> QED BY <1>2, <2>1, OursApart, ApartKeeps, ApartUnmade
  <1>6. CASE Listen
    <2>1. \A i \in Jobs : Apart(i)
      BY <1>6 DEF Listen, Apart, tableVars, memoryVars, historyVars
    <2>2. alive'
      BY <1>2, <1>6 DEF Listen
    <2> QED BY <1>1, <1>2, <1>6, <2>1, <2>2, ApartKeeps, ApartUnmade, ToldHeard
  <1>7. CASE Restart
    BY <1>1, <1>2, <1>7, RestartKeeps
  <1>8. CASE UNCHANGED vars
    <2>1. \A i \in Jobs : Apart(i) /\ ShownStays(i)
      BY <1>8 DEF vars, Apart, ShownStays, Settled, tableVars, memoryVars, historyVars
    <2> QED BY <1>2, <1>8, <2>1, ApartKeeps, ApartUnmade, ToldKept DEF vars
  <1> QED BY <1>3, <1>4, <1>5, <1>6, <1>7, <1>8 DEF Next

-----------------------------------------------------------------------------
(* Theorems *)

(* The inductive invariant of the manager: what each place where the state *)
(* of a job is kept says while a request or a run is about to change it.   *)
THEOREM InvHolds == Spec => []Inv
  <1>1. Inv /\ [Next]_vars => Inv'
    BY InvStep
  <1> QED BY InvInit, <1>1, PTL DEF Spec

LEMMA InvExact == Inv => RegistryIsExact
  <1> SUFFICES ASSUME Inv, Orderly, NEW j \in Jobs
               PROVE  /\ \A n \in 1..MaxRuns : stage[j][n] \in Under <=> registry[j] = n
                      /\ j \in channels <=> \E n \in 1..MaxRuns : stage[j][n] \in Ahead \cup Under
    BY DEF Inv, RegistryIsExact
  <1>1. JobInv(j)
    BY DEF Inv
  <1>2. ASSUME NEW n \in 1..MaxRuns, stage[j][n] \in Ahead \cup Under
        PROVE  j \in channels /\ (stage[j][n] \in Under => registry[j] = n)
    <2>1. RunFits(j, n)
      BY <1>1, <1>2, LiveFits DEF LiveStages
    <2> QED BY <1>2, <2>1 DEF RunFits
  <1>3. ASSUME j \in channels \/ registry[j] # 0
        PROVE  \E n \in 1..MaxRuns : /\ stage[j][n] \in Ahead \cup Under
                                     /\ registry[j] # 0 => stage[j][n] \in Under /\ registry[j] = n
    <2>1. PICK n \in 1..MaxRuns : Live(j, n)
      BY <1>1, <1>3 DEF JobInv, Rests
    <2>2. RunFits(j, n)
      BY <1>1, <2>1 DEF JobInv
    <2> QED BY <1>3, <2>1, <2>2 DEF RunFits, Live
  <1>4. ASSUME NEW n \in 1..MaxRuns, registry[j] = n PROVE stage[j][n] \in Under
    BY <1>3, <1>4
  <1> QED BY <1>2, <1>3, <1>4

(* The manager's dictionary and the rate limiter's channels name exactly   *)
(* the jobs that run, and the latest run of each (job.py, run_job).        *)
THEOREM RegistryExactAlways == Spec => []RegistryIsExact
  BY InvHolds, InvExact, PTL

(* No two runs of a job overlap (pause_job awaits stop before it returns). *)
THEOREM OneRunAlways == Spec => []OneRunPerJob
  <1>1. Inv => OneRunPerJob
    <2> SUFFICES ASSUME Inv, Orderly, NEW j \in Jobs
                 PROVE  Cardinality({n \in 1..MaxRuns : stage[j][n] \in Ahead \cup Under}) <= 1
      BY DEF OneRunPerJob
    <2> DEFINE S == {n \in 1..MaxRuns : stage[j][n] \in Ahead \cup Under}
    <2>1. \A m, n \in S : m = n
      BY DEF Inv, JobInv, OneLives, Live, LiveStages
    <2>2. CASE S = {}
      BY <2>2, FS_EmptySet
    <2>3. CASE S # {}
      <3>1. PICK n \in S : TRUE
        BY <2>3
      <3>2. S = {n}
        BY <2>1, <3>1
      <3> HIDE DEF S
      <3>3. Cardinality(S) = 1
        BY <3>2, FS_Singleton
      <3> QED BY <3>3 DEF S
    <2> QED BY <2>2, <2>3
  <1> QED BY <1>1, InvHolds, PTL

(* No KeyError leaves a _run_job task, which would end the server.         *)
THEOREM ServerSurvivesAlways == Spec => []ServerSurvives
  <1>1. Inv => ServerSurvives
    BY DEF Inv, ServerSurvives
  <1> QED BY <1>1, InvHolds, PTL

(* The table, the statistics and the last event heard agree about a job    *)
(* that nobody is about to change, and a finished one has no frontier.     *)
THEOREM PlacesAgreeAlways == Spec => []PlacesAgree
  <1>1. Inv => PlacesAgree
    <2> SUFFICES ASSUME Inv, Orderly, NEW j \in Jobs, AtRest(j), Exists(j)
                 PROVE  /\ stats[j] \in {db[j], None}
                        /\ db[j] \notin FinishedStates =>
                             stats[j] = db[j] \/ (db[j] = "pending" /\ j \notin valid)
                        /\ j \notin missed /\ (\A k \in DOMAIN listener : listener[k].job # j)
                             => heard[j] \in {db[j], None}
                        /\ db[j] \in FinishedStates => killed \/ j \notin frontier
      BY DEF PlacesAgree
    <2>1. Rests(j) /\ Unasked(j) /\ Settled(j)
      BY DEF AtRest, Active, Quiet, Rests, Live, LiveStages, Behind, Unasked, Asks, Settled
    <2>2. RestFits(j) /\ EventsTold
      BY <2>1 DEF Inv, JobInv
    <2>3. db[j] \notin {"none", "deleted"}
      BY DEF Exists, RunStates
    <2>4. /\ stats[j] \in {db[j], None}
          /\ db[j] \notin FinishedStates =>
               stats[j] = db[j] \/ (db[j] = "pending" /\ j \notin valid)
          /\ db[j] \in FinishedStates => killed \/ j \notin frontier
      BY <2>2, <2>3 DEF RestFits
    <2>5. ASSUME j \notin missed, \A k \in DOMAIN listener : listener[k].job # j
          PROVE  heard[j] \in {db[j], None}
      BY <2>1, <2>2, <2>3, <2>4, <2>5 DEF EventsTold, Told
    <2> QED BY <2>4, <2>5
  <1> QED BY <1>1, InvHolds, PTL

(* A row only makes the steps of a job's life, whatever runs at the same   *)
(* time: nothing is finished twice, or changed after it was finished.      *)
THEOREM LifeCycleHolds == Spec => LifeCycle
  <1> DEFINE Steps == \A j \in Jobs : db'[j] # db[j] => <<db[j], db'[j]>> \in Transitions
  <1>1. ASSUME Inv, [Next]_vars, Orderly' PROVE Steps
    <2>1. TypeOK /\ \A j \in Jobs : JobInv(j)
      BY <1>1, StaysDisorderly DEF Inv
    <2>2. ASSUME NEW c \in Clients, NEW j \in Jobs, Request(c, j) PROVE Steps
      <3>1. \A i \in Jobs \ {j} : db'[i] = db[i]
        BY <2>1, <2>2, RequestOurs DEF Ours
      <3>2. db'[j] # db[j] => db[j] = "none" /\ db'[j] = "pending"
        BY <2>1, <2>2
        DEF Request, StartJob, PauseJob, ResumeJob, CancelJob, DeleteJob, tableVars, TypeOK
      <3> QED BY <3>1, <3>2 DEF Transitions
    <2>3. ASSUME NEW c \in Clients, NEW j \in Jobs, Handle(c, j) PROVE Steps
      <3>1. \A i \in Jobs \ {j} : db'[i] = db[i]
        BY <2>1, <2>3, HandleOurs DEF Ours
      <3>2. CASE SavePause(c, j)
        <4>1. At(c, "pause:save", j) /\ db'[j] \in {db[j], "paused"}
          BY <2>1, <3>2 DEF SavePause, Update, TypeOK
        <4>2. db[j] = "running"
          BY <2>1, <4>1, WaitsAlone DEF AskFits, States
        <4> QED BY <3>1, <4>1, <4>2 DEF Transitions
      <3>3. CASE ResumeUpdate(c, j)
        <4>1. At(c, "resume:update", j) /\ db'[j] \in {db[j], "running"}
          BY <2>1, <3>3 DEF ResumeUpdate, Update, TypeOK
        <4>2. db[j] = "paused"
          BY <2>1, <4>1, WaitsAlone DEF AskFits, States
        <4> QED BY <3>1, <4>1, <4>2 DEF Transitions
      <3>4. CASE CancelFinish(c, j)
        <4>1. At(c, "cancel:finish", j) /\ db'[j] \in {db[j], "cancelled"}
          BY <2>1, <3>4 DEF CancelFinish, Update, TypeOK
        <4>2. db[j] = "paused"
          BY <2>1, <4>1, WaitsAlone DEF AskFits, States
        <4> QED BY <3>1, <4>1, <4>2 DEF Transitions
      <3>5. CASE DeleteRow(c, j)
        BY <2>1, <3>1, <3>5, WaitsAlone
        DEF DeleteRow, AskFits, States, FinishedStates, Update, TypeOK, Transitions
      <3>6. CASE ~(SavePause(c, j) \/ ResumeUpdate(c, j) \/ CancelFinish(c, j) \/ DeleteRow(c, j))
        BY <2>3, <3>6
        DEF Handle, InsertSeeds, AwaitStopped, JobPaused, CancelClear, JobCancelled, DeleteCheck,
            JobDeleted, JobStarted, JobResumed, JobStartRaises, JobResumeRaises, tableVars
      <3> QED BY <3>2, <3>3, <3>4, <3>5, <3>6
    <2>4. ASSUME NEW j \in Jobs, NEW n \in 1..MaxRuns, Work(j, n) PROVE Steps
      <3>1. \A i \in Jobs \ {j} : db'[i] = db[i]
        BY <2>1, <2>4, WorkOurs DEF Ours
      <3>2. CASE RunJob(j, n)
        <4>1. db[j] \in {"pending", "running"}
          BY <2>1, <3>2, LiveFits DEF RunJob, RunFits, LiveStages, Ahead
        <4>2. db'[j] \in {db[j], "running"}
          BY <2>1, <3>2 DEF RunJob, Update, TypeOK
        <4> QED BY <3>1, <4>1, <4>2 DEF Transitions
      <3>3. CASE FinishJob(j, n)
        <4>1. db[j] = "running"
          BY <2>1, <3>3, LiveFits DEF FinishJob, RunFits, States, LiveStages
        <4>2. db'[j] \in {db[j], "completed"}
          BY <2>1, <3>3 DEF FinishJob, Update, TypeOK
        <4> QED BY <3>1, <4>1, <4>2 DEF Transitions
      <3>4. CASE ~(RunJob(j, n) \/ FinishJob(j, n))
        BY <2>4, <3>4
        DEF Work, Run, JobRunning, JobStops, JobRaises, Remove, JobRemoved, ClearFrontier,
            JobCompleted, InsertLinks, RunJobRaises, Crash, tableVars
      <3> QED BY <3>2, <3>3, <3>4
    <2>5. CASE Listen \/ UNCHANGED vars
      BY <2>5 DEF Listen, vars, tableVars
    <2>6. CASE Restart
      BY <2>6 DEF Restart, Transitions
    <2> QED BY <1>1, <2>2, <2>3, <2>4, <2>5, <2>6 DEF Next
  <1>2. Inv /\ [Next]_vars => [Orderly' => Steps]_vars
    BY <1>1
  <1> QED BY <1>2, InvHolds, PTL DEF LifeCycle, Spec
=============================================================================
