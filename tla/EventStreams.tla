---------------------------- MODULE EventStreams ----------------------------
(***************************************************************************)
(* The subscriptions of src/starbelly/subscription.py that keep a client's *)
(* picture of something up to date: the lists of policies, schedules and   *)
(* domain logins (changefeeds of their tables), the statuses of the jobs   *)
(* (what has changed since the last event, at intervals), and the          *)
(* measurements of the resource monitor (src/starbelly/resource_monitor.py;*)
(* some of the past ones, and then each new one).                          *)
(*                                                                         *)
(* A row of a table is the name that its event shows, the statistics of a  *)
(* job are the number of their changes, and a measurement is its number.   *)
(***************************************************************************)
EXTENDS Connection, SequencesExt

CONSTANTS
  Rows,            \* the IDs of rows
  Names,           \* what is shown of a row
  Jobs,            \* the jobs that the statistics tracker may know
  HistorySize,     \* past measurements that the client asks for
  BufferSize,      \* measurements that the monitor keeps (60)
  MonitorChannel,  \* measurements that wait for a subscription (10)
  MaxChanges,      \* bound: changes of tables and statistics, measurements, and
                   \*   failures of the database
  None             \* no row, no statistics

Lists == {"policies", "schedules", "logins"}
JobStatuses == "statuses"
Resources == "resources"

ASSUME StreamsAssumption ==
  /\ HistorySize \in Nat /\ BufferSize \in Nat \ {0} /\ MonitorChannel \in Nat \ {0}
  /\ MaxChanges \in Nat
  /\ Rows # {} /\ IsFiniteSet(Rows) /\ Names # {}
  /\ None \notin Names \cup Nat

VARIABLES
  tables,       \* for each list, the name in each row, or None
  opened,       \* the lists whose changefeed runs
  feed,         \* for each list, the changes that its subscription has yet to send
  view,         \* for each list, what the client makes of its events
  stats,        \* StatsTracker._jobs: how often the job's statistics have changed
  past,         \* jobs that have been deleted from it, or are too old for it
  lastSend,     \* JobStatusSubscription._last_send
  statusAt,     \* where its loop is: "new", "making", "sending" or "sleeping"
  out,          \* the event that it sends
  statusView,   \* what the client makes of the statuses
  measured,     \* the number of the last measurement
  measurements, \* ResourceMonitor._measurements
  listening,    \* has the subscription opened its channel?
  backlog,      \* past measurements that the subscription has yet to send
  recvChannel,  \* ResourceMonitorSubscription._recv_channel
  seen,         \* the measurements that the client has received
  lost,         \* history: measurements that found the channel full
  changes       \* how many of these there have been

listVars == <<tables, opened, feed, view>>
statusVars == <<stats, past, lastSend, statusAt, out, statusView>>
monitorVars == <<measured, measurements, listening, backlog, recvChannel, seen, lost>>
streamVars == <<listVars, statusVars, monitorVars, changes>>

NoRows == [r \in Rows |-> None]
NoJobs == [j \in Jobs |-> None]

StreamInit ==
  /\ tables = [l \in Lists |-> [NoRows EXCEPT ![CHOOSE r \in Rows : TRUE] = CHOOSE n \in Names : TRUE]]
  /\ opened = {} /\ feed = [l \in Lists |-> <<>>] /\ view = [l \in Lists |-> NoRows]
  /\ stats = NoJobs /\ past = {} /\ lastSend = NoJobs /\ statusAt = "new" /\ out = <<>>
  /\ statusView = NoJobs
  /\ measured = 0 /\ measurements = <<>> /\ listening = FALSE /\ backlog = <<>> /\ recvChannel = <<>>
  /\ seen = <<>> /\ lost = {}
  /\ changes = 0

Count == changes < MaxChanges /\ changes' = changes + 1

-----------------------------------------------------------------------------
(* The lists *)

(* ADDED, DELETED or UPDATED, from the two documents of a change.          *)
EventType(change) ==
  IF change.old = None /\ change.new # None THEN "ADDED"
  ELSE IF change.new = None /\ change.old # None THEN "DELETED"
  ELSE "UPDATED"

(* The document that the event describes.                                  *)
Document(change) == IF EventType(change) = "DELETED" THEN change.old ELSE change.new

PolicyEvent(change) ==
  [kind |-> "policies", type |-> EventType(change), row |-> change.row, name |-> Document(change)]

ScheduleEvent(change) ==
  [kind |-> "schedules", type |-> EventType(change), row |-> change.row, name |-> Document(change)]

(* A login is shown by its domain, which is its ID.                        *)
DomainLoginEvent(change) ==
  [kind |-> "logins", type |-> EventType(change), row |-> change.row, name |-> change.row]

ListEvent(l, change) ==
  CASE l = "policies" -> PolicyEvent(change)
    [] l = "schedules" -> ScheduleEvent(change)
    [] l = "logins" -> DomainLoginEvent(change)

(* changes(include_initial=True): the rows come first, without an old      *)
(* value.                                                                  *)
Initial(l) ==
  LET present == SetToSeq({r \in Rows : tables[l][r] # None})
  IN [i \in DOMAIN present |-> [row |-> present[i], old |-> None, new |-> tables[l][present[i]]]]

SubscribeList(l) ==
  /\ wire = <<>>
  /\ Subscribe(l)
  /\ view' = [view EXCEPT ![l] = NoRows]
  /\ UNCHANGED <<tables, opened, feed, statusVars, monitorVars, changes>>

(* _run_stream: the query is evaluated.                                    *)
OpenFeed(l) ==
  /\ Running(l) /\ l \notin opened
  /\ opened' = opened \cup {l}
  /\ feed' = [feed EXCEPT ![l] = Initial(l)]
  /\ UNCHANGED <<connVars, tables, view, statusVars, monitorVars, changes>>

(* A request, or the program itself, adds, changes or deletes a row.       *)
ChangeRow(l, r, n) ==
  /\ Count
  /\ tables[l][r] # n
  /\ tables' = [tables EXCEPT ![l][r] = n]
  /\ feed' = IF l \in opened
               THEN [feed EXCEPT ![l] = Append(@, [row |-> r, old |-> tables[l][r], new |-> n])]
               ELSE feed
  /\ UNCHANGED <<connVars, opened, view, statusVars, monitorVars>>

SendListEvent(l) ==
  /\ Running(l) /\ feed[l] # <<>>
  /\ Send(ListEvent(l, Head(feed[l])))
  /\ feed' = [feed EXCEPT ![l] = Tail(@)]
  /\ UNCHANGED <<link, conn, raised, server, subs, reconnects, unsubscribes, tables, opened,
                 view, statusVars, monitorVars, changes>>

CloseFeed(l) ==
  /\ Return(l)
  /\ opened' = opened \ {l}
  /\ feed' = [feed EXCEPT ![l] = <<>>]
  /\ UNCHANGED <<tables, view, statusVars, monitorVars>>

(* ReqlDriverError: the subscription ends, and the client is not told.     *)
FeedFails(l) ==
  /\ Count
  /\ Running(l) /\ l \in opened
  /\ CloseFeed(l)
  /\ UNCHANGED <<link, conn, raised, server, wire, reconnects, unsubscribes>>

UnsubscribeList(l) == Unsubscribe(l) /\ CloseFeed(l) /\ UNCHANGED changes

(* What a client does with an event.                                       *)
NameAfter(e) == IF e.type = "DELETED" THEN None ELSE e.name
Apply(rows, e) == [rows EXCEPT ![e.row] = NameAfter(e)]

ReceiveListEvent(l) ==
  /\ wire # <<>> /\ Head(wire).kind = l
  /\ wire' = Tail(wire)
  /\ view' = [view EXCEPT ![l] = Apply(@, Head(wire))]
  /\ UNCHANGED <<link, conn, raised, server, subs, reconnects, unsubscribes, tables, opened,
                 feed, statusVars, monitorVars, changes>>

-----------------------------------------------------------------------------
(* The statuses of the jobs *)

(* add_job, or a change of the job's statistics or its run state.          *)
UpdateStats(j) ==
  /\ Count /\ j \notin past
  /\ stats' = [stats EXCEPT ![j] = IF @ = None THEN 1 ELSE @ + 1]
  /\ UNCHANGED <<connVars, listVars, past, lastSend, statusAt, out, statusView, monitorVars>>

DeleteStats(j) ==
  /\ Count /\ stats[j] # None /\ j \notin past
  /\ past' = past \cup {j}
  /\ stats' = [stats EXCEPT ![j] = None]
  /\ UNCHANGED <<connVars, listVars, lastSend, statusAt, out, statusView, monitorVars>>

(* The job was completed too long ago.                                     *)
GrowOld(j) ==
  /\ Count /\ stats[j] # None /\ j \notin past
  /\ past' = past \cup {j}
  /\ UNCHANGED <<connVars, listVars, stats, lastSend, statusAt, out, statusView, monitorVars>>

(* Mutant of Snapshot: does not look at the age.                           *)
SnapshotOfAll == stats

(* StatsTracker.snapshot, which deletes what is too old.                   *)
Snapshot == [j \in Jobs |-> IF j \in past THEN None ELSE stats[j]]

SubscribeStatus ==
  /\ wire = <<>>
  /\ Subscribe(JobStatuses)
  /\ statusAt' = "new" /\ lastSend' = NoJobs /\ statusView' = NoJobs
  /\ UNCHANGED <<stats, past, out, listVars, monitorVars, changes>>

(* Mutant of Difference: jobs that are gone are not compared.              *)
DifferenceOfCurrent(current, last) ==
  [j \in {i \in Jobs : current[i] # None /\ current[i] # last[i]} |-> current[j]]

(* _make_event: jobs that are new or have changed, and those that are gone.*)
Difference(current, last) ==
  [j \in {i \in Jobs : current[i] # last[i]} |-> current[j]]

(* The first event is sent even if it is empty.                            *)
MakeEvent ==
  /\ Running(JobStatuses) /\ statusAt \in {"new", "making"}
  /\ stats' = Snapshot
  /\ out' = Difference(Snapshot, lastSend)
  /\ lastSend' = Snapshot
  /\ statusAt' = IF statusAt = "new" \/ DOMAIN out' # {} THEN "sending" ELSE "sleeping"
  /\ UNCHANGED <<connVars, past, statusView, listVars, monitorVars, changes>>

SendStatus ==
  /\ Running(JobStatuses) /\ statusAt = "sending"
  /\ Send([kind |-> JobStatuses, jobs |-> out])
  /\ statusAt' = "sleeping"
  /\ UNCHANGED <<link, conn, raised, server, subs, reconnects, unsubscribes, stats, past,
                 lastSend, out, statusView, listVars, monitorVars, changes>>

(* min_interval has passed.                                                *)
StatusWakes ==
  /\ Running(JobStatuses) /\ statusAt = "sleeping"
  /\ statusAt' = "making"
  /\ UNCHANGED <<connVars, stats, past, lastSend, out, statusView, listVars, monitorVars, changes>>

UnsubscribeStatus ==
  /\ Unsubscribe(JobStatuses) /\ Return(JobStatuses)
  /\ UNCHANGED streamVars

Merge(jobs, difference) ==
  [j \in Jobs |-> IF j \in DOMAIN difference THEN difference[j] ELSE jobs[j]]

ReceiveStatus ==
  /\ wire # <<>> /\ Head(wire).kind = JobStatuses
  /\ wire' = Tail(wire)
  /\ statusView' = Merge(statusView, Head(wire).jobs)
  /\ UNCHANGED <<link, conn, raised, server, subs, reconnects, unsubscribes, stats, past,
                 lastSend, statusAt, out, listVars, monitorVars, changes>>
-----------------------------------------------------------------------------
(* The resource monitor *)

(* What deque(maxlen=n) keeps.                                            *)
LastOf(n, s) == SubSeq(s, 1 + (IF Len(s) > n THEN Len(s) - n ELSE 0), Len(s))

(* history(n) *)
History == LastOf(HistorySize, measurements)

(* ResourceMonitor.run: a measurement is kept, and sent to the channels    *)
(* that have room; a deque drops its oldest element.                       *)
Measure ==
  /\ Count
  /\ measured' = measured + 1
  /\ measurements' = LastOf(BufferSize, Append(measurements, measured + 1))
  /\ IF ~listening THEN UNCHANGED <<recvChannel, lost>>
     ELSE IF Len(recvChannel) < MonitorChannel
       THEN recvChannel' = Append(recvChannel, measured + 1) /\ UNCHANGED lost
       ELSE lost' = lost \cup {measured + 1} /\ UNCHANGED recvChannel
  /\ UNCHANGED <<connVars, listVars, statusVars, backlog, listening, seen>>

SubscribeMonitor ==
  /\ wire = <<>>
  /\ Subscribe(Resources)
  /\ seen' = <<>> /\ lost' = {}
  /\ UNCHANGED <<measured, measurements, listening, backlog, recvChannel, listVars, statusVars,
                 changes>>

(* run opens the channel and takes the past measurements in one step.      *)
StartMonitor ==
  /\ Running(Resources) /\ ~listening
  /\ listening' = TRUE /\ recvChannel' = <<>>
  /\ backlog' = History
  /\ UNCHANGED <<connVars, measured, measurements, seen, lost, listVars, statusVars, changes>>

Measurement(i) == [kind |-> Resources, number |-> i]

(* The past ones first, then those of the channel.                         *)
SendMeasurement ==
  /\ Running(Resources) /\ listening
  /\ \/ /\ backlog # <<>> /\ Send(Measurement(Head(backlog)))
        /\ backlog' = Tail(backlog) /\ UNCHANGED recvChannel
     \/ /\ backlog = <<>> /\ recvChannel # <<>> /\ Send(Measurement(Head(recvChannel)))
        /\ recvChannel' = Tail(recvChannel) /\ UNCHANGED backlog
  /\ UNCHANGED <<link, conn, raised, server, subs, reconnects, unsubscribes, measured,
                 measurements, listening, seen, lost, listVars, statusVars, changes>>

(* The channel stays with the monitor, full: its receiving end is never    *)
(* closed.                                                                 *)
UnsubscribeMonitor ==
  /\ Unsubscribe(Resources) /\ Return(Resources)
  /\ listening' = FALSE /\ recvChannel' = <<>> /\ backlog' = <<>>
  /\ UNCHANGED <<measured, measurements, seen, lost, listVars, statusVars, changes>>

ReceiveMeasurement ==
  /\ wire # <<>> /\ Head(wire).kind = Resources
  /\ wire' = Tail(wire)
  /\ seen' = Append(seen, Head(wire).number)
  /\ UNCHANGED <<link, conn, raised, server, subs, reconnects, unsubscribes, measured,
                 measurements, listening, backlog, recvChannel, lost, listVars, statusVars,
                 changes>>

-----------------------------------------------------------------------------

Sending(k) ==
  \/ k \in Lists /\ feed[k] # <<>>
  \/ k = JobStatuses /\ statusAt = "sending"
  \/ k = Resources /\ (backlog # <<>> \/ recvChannel # <<>>)

(* A send finds the WebSocket closed.                                      *)
StreamSendFails(k) ==
  /\ subs[k] = "running" /\ link = "cut" /\ Sending(k)
  /\ Raise(k)
  /\ UNCHANGED streamVars

(* What a connection that closes leaves of the subscriptions.              *)
ForgetStreams ==
  /\ opened' = {} /\ feed' = [l \in Lists |-> <<>>]
  /\ listening' = FALSE /\ backlog' = <<>> /\ recvChannel' = <<>>
  /\ UNCHANGED <<tables, view, statusVars, measured, measurements, seen, lost, changes>>

ChangesNext ==
  \/ \E l \in Lists, r \in Rows, n \in Names \cup {None} : ChangeRow(l, r, n)
  \/ \E j \in Jobs : UpdateStats(j) \/ DeleteStats(j) \/ GrowOld(j)
  \/ Measure

(* The steps that the subscriptions take by themselves.                    *)
StreamStep(k) ==
  \/ k \in Lists /\ (OpenFeed(k) \/ SendListEvent(k))
  \/ k = JobStatuses /\ (MakeEvent \/ SendStatus \/ StatusWakes)
  \/ k = Resources /\ (StartMonitor \/ SendMeasurement)

(* The client reads an event.                                              *)
ReceiveEvent ==
  (\E l \in Lists : ReceiveListEvent(l)) \/ ReceiveStatus \/ ReceiveMeasurement

SubscribeStream(k) ==
  \/ k \in Lists /\ SubscribeList(k)
  \/ k = JobStatuses /\ SubscribeStatus
  \/ k = Resources /\ SubscribeMonitor

UnsubscribeStream(k) ==
  \/ k \in Lists /\ UnsubscribeList(k)
  \/ k = JobStatuses /\ UnsubscribeStatus
  \/ k = Resources /\ UnsubscribeMonitor
-----------------------------------------------------------------------------
(* Properties *)

(* What the client of list l is shown of a row.                            *)
Shown(l) == [r \in Rows |-> IF tables[l][r] # None /\ l = "logins" THEN r ELSE tables[l][r]]

(* The events about row r of list l that are in flight, and that are yet   *)
(* to be sent.                                                             *)
InFlight(l, r) == {k \in DOMAIN wire : wire[k].kind = l /\ wire[k].row = r}
Unsent(l, r) == {k \in DOMAIN feed[l] : feed[l][k].row = r}

(* A client that applies the events of a list, those in flight and those   *)
(* the subscription has yet to send, has the rows of the table: the last   *)
(* event about a row shows what is in it, so that no change is lost when   *)
(* the feed is opened and none comes after a later one.                    *)
ListAgrees ==
  \A l \in opened : link = "up" =>
    \A r \in Rows :
      Shown(l)[r] =
        IF Unsent(l, r) # {} THEN NameAfter(ListEvent(l, feed[l][Max(Unsent(l, r))]))
        ELSE IF InFlight(l, r) # {} THEN NameAfter(wire[Max(InFlight(l, r))])
        ELSE view[l][r]

(* The events about job j that are in flight.                              *)
Told(j) == {k \in DOMAIN wire : wire[k].kind = JobStatuses /\ j \in DOMAIN wire[k].jobs}

(* The differences that were sent since the subscription began add up to   *)
(* the last snapshot, whether jobs are added, changed or removed, by a     *)
(* request or because they are old: the last one that names a job shows it *)
(* as it was.                                                              *)
StatusAgrees ==
  subs[JobStatuses] = "running" /\ link = "up" =>
    \A j \in Jobs :
      lastSend[j] =
        IF statusAt = "sending" /\ j \in DOMAIN out THEN out[j]
        ELSE IF Told(j) # {} THEN wire[Max(Told(j))].jobs[j]
        ELSE statusView[j]

(* A client sees each measurement once and in order, from the past ones to *)
(* the new ones, and misses only those that found the channel full.        *)
MeasuredInOrder ==
  \A i \in 1..(Len(seen) - 1) :
    seen[i] < seen[i + 1] /\ (seen[i] + 1)..(seen[i + 1] - 1) \subseteq lost
=============================================================================
