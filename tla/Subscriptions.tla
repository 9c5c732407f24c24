--------------------------- MODULE Subscriptions ---------------------------
(***************************************************************************)
(* The subscriptions of a client, composed on its connections: an item     *)
(* sync (ItemSync), event streams (EventStreams), or several at a time.    *)
(***************************************************************************)
EXTENDS ItemSync, EventStreams, Backoff

CONSTANT Interests  \* the sets of kinds that a client may want

ASSUME SubscriptionsAssumption ==
  /\ Kinds = Lists \cup {Sync, JobStatuses, Resources}
  /\ Interests \subseteq SUBSET Kinds

VARIABLE wanted     \* the kinds that this client subscribes to

vars == <<connVars, syncVars, streamVars, wanted>>

Init ==
  /\ ConnectionInit /\ SyncInit /\ StreamInit
  /\ wanted \in Interests

SyncStep == SyncNext /\ Sync \in wanted /\ UNCHANGED <<streamVars, wanted>>

(* Only what the client watches changes.                                   *)
Changes ==
  \/ \E l \in Lists \cap wanted, r \in Rows, n \in Names \cup {None} : ChangeRow(l, r, n)
  \/ JobStatuses \in wanted /\ \E j \in Jobs : UpdateStats(j) \/ DeleteStats(j) \/ GrowOld(j)
  \/ Resources \in wanted /\ Measure

StreamKinds == Kinds \ {Sync}

Stream(k) ==
  /\ k \in wanted
  /\ StreamStep(k) \/ SubscribeStream(k) \/ UnsubscribeStream(k) \/ StreamSendFails(k)
  /\ UNCHANGED <<syncVars, wanted>>

Read == ReceiveEvent /\ UNCHANGED <<syncVars, wanted>>

FeedEnds(l) == l \in wanted /\ FeedFails(l) /\ UNCHANGED <<syncVars, wanted>>

Fail == (CutLink \/ ReadFails \/ BadRequest) /\ UNCHANGED <<syncVars, streamVars, wanted>>

Close == CloseConnection /\ ForgetSync /\ ForgetStreams /\ UNCHANGED wanted

NewConnection == Reconnect /\ UNCHANGED <<syncVars, streamVars, wanted>>

Next ==
  \/ SyncStep
  \/ Changes /\ UNCHANGED <<syncVars, wanted>>
  \/ \E k \in StreamKinds : Stream(k)
  \/ Read
  \/ \E l \in Lists : FeedEnds(l)
  \/ Fail \/ Close \/ NewConnection

Spec == Init /\ [][Next]_vars

(* The end of a connection, and the next one.                              *)
Connecting ==
  \/ ReadFails /\ UNCHANGED <<syncVars, streamVars, wanted>>
  \/ Close \/ NewConnection

(* What the client does of its own accord, as long as it stays.            *)
Client ==
  \/ Sync \in wanted /\ (SubscribeSync \/ ReceiveSync) /\ UNCHANGED <<streamVars, wanted>>
  \/ \E k \in StreamKinds \cap wanted : SubscribeStream(k) /\ UNCHANGED <<syncVars, wanted>>
  \/ Read
-----------------------------------------------------------------------------
(* Properties *)

(* The variables have their types.                                         *)
TypeOK ==
  /\ SyncTypeOK
  /\ link \in {"up", "cut"} /\ conn \in {"open", "failing", "closed"}
  /\ raised \subseteq Tasks /\ (conn = "failing" <=> raised # {})
  /\ server \in {"up", "down"} /\ Len(wire) <= WireSize
  /\ subs \in [Kinds -> {"none", "running", "over"}]
  /\ reconnects \in Nat /\ unsubscribes \in Nat /\ reconnects + unsubscribes <= MaxAgain
  /\ tables \in [Lists -> [Rows -> Names \cup {None}]] /\ opened \subseteq Lists
  /\ stats \in [Jobs -> (1..MaxChanges) \cup {None}] /\ past \subseteq Jobs
  /\ statusAt \in {"new", "making", "sending", "sleeping"}
  /\ measured \in 0..MaxChanges /\ Len(measurements) <= BufferSize
  /\ Len(recvChannel) <= MonitorChannel /\ changes \in 0..MaxChanges

(* What a client makes of the events agrees with what is shown, of each    *)
(* kind of stream: the lists of policies, schedules and logins, the job    *)
(* statuses and the measurements.  (The types are checked with it.)        *)
ViewsAgree == TypeOK /\ ListAgrees /\ StatusAgrees /\ MeasuredInOrder

(* A sync that polls backs off (BacksOff has no variables: TLC evaluates   *)
(* it once).                                                               *)
PollsBackOff == phase = "querying" => BacksOff

(* Tasks that can run do run -- of the streams it is enough that one of    *)
(* those that can does --, the client subscribes, reads and connects       *)
(* again; nothing is assumed of the jobs, the storage, the network and the *)
(* requests to unsubscribe.                                                *)
Fairness ==
  /\ WF_vars(SyncTask /\ UNCHANGED <<streamVars, wanted>>)
  /\ WF_vars(JobStatus /\ UNCHANGED <<streamVars, wanted>>)
  /\ WF_vars(\E k \in StreamKinds : StreamStep(k) /\ UNCHANGED <<syncVars, wanted>>)
  /\ WF_vars(Client \/ Connecting)

FairSpec == Spec /\ Fairness

(* A job that has finished, with its event sent, ends the sync of a client *)
(* that stays -- unless the event was dropped, the client cancels, an item *)
(* has lost its body, the job is deleted, or the client or the server is   *)
(* gone for good.                                                          *)
SyncEnds ==
  (Sync \in wanted /\ event = "sent")
    ~> (ended \/ dropped \/ unsubscribes > 0 \/ rows # bodies \/ GivenUp)

(* A client that stays connected and subscribed comes to see the table and *)
(* the statistics as they are.                                             *)
ViewsCatchUp ==
  /\ \A l \in Lists :
       <>[](link = "cut" \/ subs[l] # "running" \/ view[l] = Shown(l))
  /\ <>[](\/ link = "cut" \/ subs[JobStatuses] # "running"
          \/ statusView = [j \in Jobs |-> IF j \in past THEN None ELSE stats[j]])
=============================================================================
