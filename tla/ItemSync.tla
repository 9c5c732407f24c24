------------------------------ MODULE ItemSync ------------------------------
(***************************************************************************)
(* JobSyncSubscription of src/starbelly/subscription.py: a client receives *)
(* the items of a crawl job in the order of their sequence numbers, while  *)
(* the job runs and afterwards.  Each item comes with a sync token; after  *)
(* a disconnect, or after it has cancelled the subscription, the client    *)
(* subscribes again with the token of the last item it has received.       *)
(*                                                                         *)
(* The subscription polls the database (SubscriptionDb): a query is        *)
(* evaluated in one step and its result used in later ones.  It learns     *)
(* that the job has finished from the row it reads at its start and then   *)
(* from a bounded channel of state events.  The storage of the job         *)
(* inserts a response and its body by two queries.                         *)
(***************************************************************************)
EXTENDS Connection, SequencesExt

CONSTANTS
  MaxSequence, \* bound: the last sequence number
  ChannelSize  \* events that wait in the channel of a subscription (10)

ASSUME SyncAssumption ==
  MaxSequence \in Nat /\ ChannelSize \in Nat \ {0}

VARIABLES
  job,       \* the job's row: "running", "completed", "cancelled", "deleting"
             \*   (finished, and its items deleted) or "deleted"
  event,     \* the state event of its end: "none", "due" or "sent"
  sequence,  \* the last sequence number that any job's storage has taken
  rows,      \* table response: the sequence numbers of the job's items
  bodies,    \* those of them whose body get_body finds (or that need none)
  writing,   \* the item whose body the storage is about to insert, or 0
  phase,     \* where JobSyncSubscription.run is
  current,   \* _current_sequence
  page,      \* the rest of the query's result: the items and their bodies
  empty,     \* item_count = 0
  completed, \* _job_completed
  channel,   \* _job_state_recv: for each event, is it that of this job's end?
  received,  \* the items that the client has received, on all connections
  ended,     \* has the client received COMPLETE without having asked for it?
  horizon,   \* history: the last sequence number when an empty page was evaluated
  dropped    \* history: an event found the channel full

jobVars == <<job, event, sequence, rows, bodies, writing>>
runVars == <<current, page, empty, completed, channel>>
clientVars == <<received, ended>>
syncVars == <<jobVars, phase, runVars, clientVars, horizon, dropped>>

Sync == "sync"
(* Mutant of Finished: a cancelled job does not count.                     *)
OnlyCompleted == {"completed"}

Finished == {"completed", "cancelled", "deleting"}

Listening == phase \in {"querying", "paging"}
Item(s) == [kind |-> Sync, item |-> s]
Complete(wanted) == [kind |-> Sync, item |-> 0, wanted |-> wanted]

(* The token of the last item that was received, or none.                  *)
Token == IF received = <<>> THEN 0 ELSE Last(received)

-----------------------------------------------------------------------------
(* The job and its storage *)

(* _send_job_state_event: the channel exists from the request on.          *)
Notify(isEnd) ==
  IF phase = "none" THEN UNCHANGED <<channel, dropped>>
  ELSE IF Len(channel) < ChannelSize
    THEN channel' = Append(channel, isEnd) /\ UNCHANGED dropped
    ELSE channel' = channel /\ dropped' = (dropped \/ isEnd)

(* Another job stores an item: the sequence is shared.                     *)
StoreOther ==
  /\ sequence < MaxSequence
  /\ sequence' = sequence + 1
  /\ UNCHANGED <<job, event, rows, bodies, writing, phase, runVars, clientVars, horizon, dropped>>

(* save_response inserts the row.  It needs no body (an exception), or the *)
(* same body is in the table already, or it follows.  The crawl of a       *)
(* cancelled job may go on.                                                *)
StoreItem ==
  /\ job \in {"running", "cancelled"} /\ writing = 0 /\ sequence < MaxSequence
  /\ sequence' = sequence + 1
  /\ rows' = rows \cup {sequence + 1}
  /\ \/ bodies' = bodies \cup {sequence + 1} /\ UNCHANGED writing
     \/ writing' = sequence + 1 /\ UNCHANGED bodies
  /\ UNCHANGED <<job, event, phase, runVars, clientVars, horizon, dropped>>

StoreBody ==
  /\ writing # 0
  /\ bodies' = bodies \cup {writing} /\ writing' = 0
  /\ UNCHANGED <<job, event, sequence, rows, phase, runVars, clientVars, horizon, dropped>>

(* The storage is cancelled between its two queries: the job is paused, or *)
(* the server killed.                                                      *)
AbandonBody ==
  /\ writing # 0
  /\ writing' = 0
  /\ UNCHANGED <<job, event, sequence, rows, bodies, phase, runVars, clientVars, horizon, dropped>>

(* finish_job: a job completes when its storage has ended, and may be      *)
(* cancelled at any time.                                                  *)
FinishJob ==
  /\ job = "running"
  /\ \/ job' = "completed" /\ writing = 0
     \/ job' = "cancelled"
  /\ event' = "due"
  /\ UNCHANGED <<sequence, rows, bodies, writing, phase, runVars, clientVars, horizon, dropped>>

SendEvent ==
  /\ event = "due"
  /\ event' = "sent"
  /\ Notify(TRUE)
  /\ UNCHANGED <<job, sequence, rows, bodies, writing, phase, current, page, empty, completed, clientVars, horizon>>

(* An event of another job, or one that is not an end.                     *)
OtherEvent ==
  /\ phase # "none"
  /\ Len(channel) < ChannelSize
  /\ Notify(FALSE)
  /\ UNCHANGED <<jobVars, phase, current, page, empty, completed, clientVars, horizon>>

(* delete_job: the items first, then the job.                              *)
DeleteItems ==
  /\ job \in {"completed", "cancelled"} /\ event = "sent" /\ writing = 0
  /\ job' = "deleting" /\ rows' = {} /\ bodies' = {}
  /\ UNCHANGED <<event, sequence, writing, phase, runVars, clientVars, horizon, dropped>>

DeleteRow ==
  /\ job = "deleting"
  /\ job' = "deleted"
  /\ UNCHANGED <<event, sequence, rows, bodies, writing, phase, runVars, clientVars, horizon, dropped>>

StorageNext ==
  /\ \/ StoreOther \/ StoreItem \/ StoreBody \/ AbandonBody
     \/ FinishJob \/ SendEvent \/ OtherEvent \/ DeleteItems \/ DeleteRow
  /\ UNCHANGED connVars

-----------------------------------------------------------------------------
(* The subscription *)

SyncInit ==
  /\ job = "running" /\ event = "none" /\ sequence = 0
  /\ rows = {} /\ bodies = {} /\ writing = 0
  /\ phase = "none" /\ current = 0 /\ page = <<>> /\ empty = TRUE /\ completed = FALSE
  /\ channel = <<>>
  /\ received = <<>> /\ ended = FALSE /\ horizon = 0 /\ dropped = FALSE

(* Mutant of FirstSequence: the token is not decoded.                      *)
FromTheStart == 0

(* SyncTokenInt.decode gives back what encode was given.                   *)
FirstSequence == Token

(* The state of a new subscription; that of an old one is gone.            *)
Fresh ==
  /\ current' = 0 /\ page' = <<>> /\ empty' = TRUE /\ completed' = FALSE
  /\ channel' = <<>> /\ dropped' = FALSE

(* The handler opens the channel and makes the subscription.  The client   *)
(* waits for the end of one before it subscribes again.                    *)
SubscribeSync ==
  /\ ~ended /\ wire = <<>>
  /\ Subscribe(Sync)
  /\ phase' = "made" /\ current' = FirstSequence
  /\ UNCHANGED <<jobVars, page, empty, completed, channel, clientVars, horizon, dropped>>

(* get_job_run_state is evaluated; a job that is gone raises.              *)
ReadJob ==
  /\ phase = "made" /\ Running(Sync) /\ job # "deleted"
  /\ phase' = "answered" /\ completed' = (job \in Finished)
  /\ UNCHANGED <<connVars, jobVars, current, page, empty, channel, clientVars,
                 horizon, dropped>>

ReadJobRaises ==
  /\ phase = "made" /\ Running(Sync) /\ job = "deleted"
  /\ Raise(Sync)
  /\ UNCHANGED syncVars

(* The answer has arrived: _job_status_task and _run_sync start.           *)
StartSync ==
  /\ phase = "answered" /\ Running(Sync)
  /\ phase' = "querying"
  /\ UNCHANGED <<connVars, jobVars, runVars, clientVars, horizon, dropped>>

(* _job_status_task receives an event.                                     *)
JobStatus ==
  /\ Listening /\ Running(Sync) /\ channel # <<>>
  /\ channel' = Tail(channel)
  /\ completed' = (completed \/ Head(channel))
  /\ UNCHANGED <<connVars, jobVars, phase, current, page, empty, clientVars,
                 horizon, dropped>>

(* Mutant of Page: not ordered by the index.                               *)
PageInReverse(after) ==
  Reverse(SetToSortSeq({s \in rows : s > after}, <))

(* get_job_sync_items: the items after a number, which itself is left out, *)
(* in the order of the index.                                              *)
Page(after) ==
  CHOOSE p \in SetToSeqs({s \in rows : s > after}) :
    \A i, j \in DOMAIN p : i < j => p[i] < p[j]

(* The query is evaluated, with the subquery for each body.                *)
Query ==
  /\ phase = "querying" /\ Running(Sync)
  /\ LET items == Page(current)
     IN page' = [i \in DOMAIN items |-> [item |-> items[i], joined |-> items[i] \in bodies]]
  /\ phase' = "paging"
  /\ horizon' = IF page' = <<>> THEN sequence ELSE 0
  /\ UNCHANGED <<connVars, jobVars, current, empty, completed, channel, clientVars, dropped>>

(* What the loop of _run_sync makes of the number of the item it sent.     *)
NextSequence(s) == s + 1

(* _send_item *)
SendItem ==
  /\ phase = "paging" /\ Running(Sync) /\ page # <<>>
  /\ Head(page).joined
  /\ Send(Item(Head(page).item))
  /\ page' = Tail(page) /\ empty' = FALSE
  /\ current' = NextSequence(Head(page).item)
  /\ UNCHANGED <<link, conn, raised, server, subs, reconnects, unsubscribes, jobVars, phase,
                 completed, channel, clientVars, horizon, dropped>>

(* _send_item of an item whose join is None: TypeError.                    *)
SendItemRaises ==
  /\ phase = "paging" /\ Running(Sync) /\ page # <<>>
  /\ ~Head(page).joined
  /\ Raise(Sync)
  /\ UNCHANGED syncVars

(* Mutant of AllSent: the first empty page ends the sync.                  *)
NothingNew == empty

AllSent == empty /\ completed

(* The end of a page: only now is _job_completed looked at.  The next      *)
(* round, after a delay (module Backoff), sets item_count to zero.          *)
EndPage ==
  /\ phase = "paging" /\ Running(Sync) /\ page = <<>>
  /\ IF AllSent
       THEN phase' = "closing" /\ UNCHANGED horizon
       ELSE phase' = "querying" /\ horizon' = 0
  /\ empty' = TRUE
  /\ UNCHANGED <<connVars, jobVars, current, page, completed, channel, clientVars, dropped>>

(* cancel() ends the nursery; COMPLETE is sent all the same.               *)
UnsubscribeSync ==
  /\ phase \notin {"none", "closing", "unsubscribed"}
  /\ Unsubscribe(Sync)
  /\ phase' = "unsubscribed"
  /\ UNCHANGED <<jobVars, runVars, clientVars, horizon, dropped, subs>>

(* _send_complete, and run returns.                                        *)
SendComplete ==
  /\ phase \in {"closing", "unsubscribed"} /\ Running(Sync)
  /\ Send(Complete(phase = "unsubscribed")) /\ Return(Sync)
  /\ phase' = "none" /\ Fresh
  /\ UNCHANGED <<link, conn, raised, server, reconnects, unsubscribes, jobVars, clientVars,
                 horizon>>

(* A send finds the WebSocket closed.                                      *)
SyncSendFails ==
  /\ subs[Sync] = "running" /\ link = "cut"
  /\ phase \in {"closing", "unsubscribed"} \/ (phase = "paging" /\ page # <<>>)
  /\ Raise(Sync)
  /\ UNCHANGED syncVars

(* The client reads a message of the subscription.                         *)
ReceiveSync ==
  /\ wire # <<>> /\ Head(wire).kind = Sync
  /\ wire' = Tail(wire)
  /\ IF Head(wire).item # 0
       THEN received' = Append(received, Head(wire).item) /\ UNCHANGED ended
       ELSE ended' = (ended \/ ~Head(wire).wanted) /\ UNCHANGED received
  /\ UNCHANGED <<link, conn, raised, server, subs, reconnects, unsubscribes, jobVars, phase,
                 runVars, horizon, dropped>>

(* What a connection that closes leaves of the subscription.               *)
ForgetSync ==
  /\ phase' = "none" /\ Fresh
  /\ UNCHANGED <<jobVars, clientVars, horizon>>

SyncTask ==
  \/ ReadJob \/ ReadJobRaises \/ StartSync \/ Query \/ SendItem \/ SendItemRaises
  \/ EndPage \/ SendComplete

SyncNext ==
  \/ StorageNext \/ SyncTask \/ JobStatus \/ SubscribeSync \/ UnsubscribeSync \/ SyncSendFails
  \/ ReceiveSync
-----------------------------------------------------------------------------
(* Properties *)

(* The variables of a sync have their types.                               *)
SyncTypeOK ==
  /\ job \in {"running", "completed", "cancelled", "deleting", "deleted"}
  /\ event \in {"none", "due", "sent"}
  /\ sequence \in 0..MaxSequence /\ horizon \in 0..MaxSequence
  /\ rows \subseteq 1..sequence /\ bodies \subseteq 1..sequence /\ writing \in 0..sequence
  /\ phase \in {"none", "made", "answered", "querying", "paging", "closing",
                "unsubscribed"}
  /\ current \in 0..(sequence + 1)
  /\ page \in Seq([item : 1..sequence, joined : BOOLEAN])
  /\ empty \in BOOLEAN /\ completed \in BOOLEAN
  /\ channel \in Seq(BOOLEAN) /\ Len(channel) <= ChannelSize
  /\ received \in Seq(1..sequence) /\ ended \in BOOLEAN /\ dropped \in BOOLEAN

(* A client receives each item once and in the order in which they were    *)
(* stored, over all of its connections and subscriptions, whatever is lost *)
(* when a connection breaks.                                               *)
InOrder == \A i, j \in DOMAIN received : i < j => received[i] < received[j]

Reached == IF ended THEN horizon ELSE Token

Missed == {s \in rows : s <= Reached} \ ToSet(received)

(* Of the items that a sync has passed, and of all those that were stored  *)
(* when the last query of a completed sync was evaluated, a client misses  *)
(* none but an item whose number follows that of the last of a page.       *)
MissedAreSuccessors == \A s \in Missed : s - 1 \in ToSet(received)

(* A sync token lets a client reconnect without missing any items          *)
(* (JobSyncSubscription).                                                  *)
NoItemMissed == Missed = {}

(* COMPLETE comes to a client that has not asked for it only if the job    *)
(* has finished: neither the events of other jobs nor an empty page end a  *)
(* sync.                                                                   *)
EndsWhenFinished == ended => job # "running"
=============================================================================
