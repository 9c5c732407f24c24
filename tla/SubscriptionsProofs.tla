------------------------- MODULE SubscriptionsProofs ------------------------
(* Theorems about Subscriptions, for all clients, items, tables, jobs and  *)
(* sizes of channels and of the network.                                   *)
EXTENDS Subscriptions, DequeLemmas, FiniteSetTheorems

-----------------------------------------------------------------------------
(* Sequences *)

LEMMA AppendFacts ==
  ASSUME NEW S, NEW s \in Seq(S), NEW e \in S
  PROVE  /\ Append(s, e) \in Seq(S) /\ Len(Append(s, e)) = Len(s) + 1
         /\ Len(s) \in Nat /\ DOMAIN s = 1..Len(s)
         /\ \A k \in 1..Len(s) : Append(s, e)[k] = s[k]
         /\ Append(s, e)[Len(s) + 1] = e
         /\ DOMAIN Append(s, e) = 1..(Len(s) + 1)
OBVIOUS

LEMMA TailFacts ==
  ASSUME NEW S, NEW s \in Seq(S), s # <<>>
  PROVE  /\ Head(s) = s[1] /\ Head(s) \in S
         /\ Tail(s) \in Seq(S)
         /\ Len(s) \in Nat \ {0} /\ DOMAIN s = 1..Len(s)
         /\ Len(Tail(s)) = Len(s) - 1
         /\ \A k \in 1..(Len(s) - 1) : Tail(s)[k] = s[k + 1]
         /\ DOMAIN Tail(s) = 1..(Len(s) - 1)
OBVIOUS

LEMMA SeqElement ==
  ASSUME NEW S, NEW s \in Seq(S), NEW i \in DOMAIN s
  PROVE  s[i] \in S /\ i \in 1..Len(s) /\ i \in Nat
OBVIOUS

LEMMA RangesGrow ==
  ASSUME NEW m \in Nat, NEW n \in Nat, m <= n
  PROVE  1..m \subseteq 1..n /\ 0..m \subseteq 0..n /\ 0..(m + 1) \subseteq 0..(n + 1)
OBVIOUS

LEMMA SeqOfElements ==
  ASSUME NEW S, NEW T, NEW s \in Seq(S), \A k \in DOMAIN s : s[k] \in T
  PROVE  s \in Seq(T)
OBVIOUS

-----------------------------------------------------------------------------
(* The page of a query *)

Ascends(p) == \A i, j \in DOMAIN p : i < j => p[i] < p[j]

(* A set of numbers up to n has an ascending enumeration.                  *)
LEMMA AscendingExists ==
  ASSUME NEW n \in Nat, NEW S \in SUBSET (1..n)
  PROVE  \E p \in SetToSeqs(S) : Ascends(p)
<1> DEFINE Sorted(T) == \E p \in SetToSeqs(T) : Ascends(p)
           Bad == {m \in Nat : \E T \in SUBSET (1..m) : ~Sorted(T)}
<1>1. SUFFICES ASSUME Bad # {} PROVE FALSE
  <2>1. ~(n \in Bad) => Sorted(S)
    OBVIOUS
  <2> QED BY <2>1
<1>2. PICK m \in Bad : \A k \in Bad : m <= k
  BY <1>1, LeastNatural
<1>3. PICK T \in SUBSET (1..m) : ~Sorted(T)
  BY <1>2
<1>4. m \in Nat /\ \A k \in Nat : k < m => k \notin Bad
  <2>1. m \in Nat
    BY <1>2
  <2> HIDE DEF Bad
  <2> QED BY <1>2, <2>1
<1> HIDE DEF Bad
<1>5. IsFiniteSet(T) /\ Cardinality(T) \in Nat
  <2>1. IsFiniteSet(1..m)
    BY <1>4, FS_Interval
  <2> QED BY <2>1, FS_Subset, FS_CardinalityType
<1>6. CASE T = {}
  <2>1. Cardinality(T) = 0
    BY <1>6, FS_EmptySet
  <2> DEFINE p == [i \in 1..Cardinality(T) |-> i]
  <2>2. p \in [1..Cardinality(T) -> T] /\ \A i \in DOMAIN p : FALSE
    BY <2>1
  <2>3. p \in SetToSeqs(T) /\ Ascends(p)
    BY <2>2 DEF SetToSeqs, Ascends
  <2> QED BY <1>3, <2>3
<1>7. CASE T # {}
  <2>1. m \in Nat /\ m > 0
    <3>1. PICK x \in T : TRUE
      BY <1>7
    <3>2. x \in 1..m
      BY <3>1
    <3> QED BY <1>4, <3>2
  <2>2. \A U \in SUBSET (1..(m - 1)) : Sorted(U)
    <3>1. m - 1 \in Nat /\ m - 1 \notin Bad
      BY <1>4, <2>1
    <3> QED BY <3>1 DEF Bad
  <2>3. m \in T
    <3>1. SUFFICES ASSUME m \notin T PROVE FALSE
      OBVIOUS
    <3>2. T \in SUBSET (1..(m - 1))
      BY <2>1, <3>1
    <3> QED BY <1>3, <2>2, <3>2
  <2> DEFINE U == T \ {m}
             c == Cardinality(U)
  <2>4. /\ U \in SUBSET (1..(m - 1)) /\ c \in Nat /\ Cardinality(T) = c + 1
    <3>1. IsFiniteSet(U) /\ c = Cardinality(T) - 1
      BY <1>5, <2>3, FS_RemoveElement
    <3> QED BY <1>5, <2>1, <3>1, FS_CardinalityType
  <2>5. PICK q \in SetToSeqs(U) : Ascends(q)
    BY <2>2, <2>4
  <2>6. q \in [1..c -> U] /\ \A i, j \in 1..c : (i # j => q[i] # q[j]) /\ (i < j => q[i] < q[j])
    BY <2>5 DEF SetToSeqs, Ascends
  <2> HIDE DEF U, c
  <2> DEFINE p == [i \in 1..(c + 1) |-> IF i = c + 1 THEN m ELSE q[i]]
  <2>7. \A i \in 1..c : q[i] \in T /\ q[i] \in 1..(m - 1) /\ p[i] = q[i]
    <3>1. TAKE i \in 1..c
    <3>2. q[i] \in U
      BY <2>6
    <3>3. i # c + 1 /\ i \in 1..(c + 1)
      BY <2>4
    <3>4. q[i] \in T /\ q[i] \in 1..(m - 1)
      BY <2>4, <3>2 DEF U
    <3> QED BY <3>3, <3>4
  <2>8. p[c + 1] = m /\ DOMAIN p = 1..(c + 1)
    BY <2>4
  <2>9. p \in [1..(c + 1) -> T]
    <3>1. \A i \in 1..(c + 1) : i # c + 1 => i \in 1..c
      BY <2>4
    <3>2. \A i \in 1..(c + 1) : (IF i = c + 1 THEN m ELSE q[i]) \in T
      BY <2>3, <2>7, <3>1
    <3> QED BY <3>2
  <2> HIDE DEF p
  <2>10. \A i, j \in 1..(c + 1) : i < j => p[i] < p[j]
    <3>1. TAKE i, j \in 1..(c + 1)
    <3>2. HAVE i < j
    <3>3. i \in 1..c
      BY <2>4, <3>2
    <3>4. CASE j = c + 1
      BY <2>1, <2>7, <2>8, <3>3, <3>4
    <3>5. CASE j # c + 1
      <4>1. j \in 1..c
        BY <2>4, <3>5
      <4> QED BY <2>6, <2>7, <3>2, <3>3, <4>1
    <3> QED BY <3>4, <3>5
  <2>11. \A i, j \in 1..(c + 1) : i # j => p[i] # p[j]
    <3>1. \A i \in 1..(c + 1) : p[i] \in 1..m
      BY <2>9
    <3> QED BY <2>4, <2>10, <3>1
  <2>12. p \in SetToSeqs(T) /\ Ascends(p)
    BY <2>4, <2>8, <2>9, <2>10, <2>11 DEF SetToSeqs, Ascends
  <2> QED BY <1>3, <2>12
<1> QED BY <1>6, <1>7

(* An enumeration has every element.                                       *)
LEMMA Enumerates ==
  ASSUME NEW S, IsFiniteSet(S), NEW p \in SetToSeqs(S)
  PROVE  /\ p \in Seq(S) /\ \A x \in S : \E i \in DOMAIN p : p[i] = x
<1> DEFINE n == Cardinality(S)
<1>1. n \in Nat /\ p \in [1..n -> S] /\ \A i, j \in 1..n : i # j => p[i] # p[j]
  BY FS_CardinalityType DEF SetToSeqs
<1> DEFINE R == {p[i] : i \in 1..n}
<1>2. R \subseteq S
  BY <1>1
<1>3. IsFiniteSet(1..n) /\ Cardinality(1..n) = n
  BY <1>1, FS_Interval
<1>4. p \in Bijection(1..n, R)
  BY <1>1 DEF Bijection, Injection, Surjection, IsInjective
<1>5. Cardinality(R) = n
  BY <1>3, <1>4, FS_Bijection DEF ExistsBijection
<1>6. R = S
  BY <1>2, <1>5, FS_Subset
<1> QED BY <1>1, <1>6

-----------------------------------------------------------------------------
(* Types *)

(* The messages of each kind of subscription.                              *)
ItemMessages == [kind : {Sync}, item : Nat \ {0}]
CompleteMessages == [kind : {Sync}, item : {0}, wanted : BOOLEAN]
ListEvents == [kind : Lists, type : {"ADDED", "DELETED", "UPDATED"}, row : Rows,
               name : Rows \cup Names \cup {None}]
Counts == Nat \cup {None}
Differences == UNION {[S -> Counts] : S \in SUBSET Jobs}
StatusEvents == [kind : {JobStatuses}, jobs : Differences]
Numbers == [kind : {Resources}, number : Nat]
Messages == ItemMessages \cup CompleteMessages \cup ListEvents \cup StatusEvents \cup Numbers

(* The changes of a row: the two documents of a change are not the same.   *)
RowChanges == {c \in [row : Rows, old : Names \cup {None}, new : Names \cup {None}] : c.old # c.new}

ConnTypes ==
  /\ link \in {"up", "cut"} /\ conn \in {"open", "failing", "closed"}
  /\ conn = "closed" => link = "cut"
  /\ raised \subseteq Tasks /\ (conn = "failing" <=> raised # {})
  /\ server \in {"up", "down"}
  /\ subs \in [Kinds -> {"none", "running", "over"}]
  /\ conn = "closed" => \A k \in Kinds : subs[k] = "none"
  /\ reconnects \in Nat /\ unsubscribes \in Nat /\ reconnects + unsubscribes <= MaxAgain
  /\ wanted \in SUBSET Kinds
WireTypes == wire \in Seq(Messages) /\ Len(wire) <= WireSize
StorageTypes ==
  /\ job \in {"running", "completed", "cancelled", "deleting", "deleted"}
  /\ event \in {"none", "due", "sent"}
  /\ sequence \in 0..MaxSequence
  /\ rows \subseteq 1..sequence /\ bodies \subseteq 1..sequence /\ writing \in 0..sequence
PhaseTypes ==
  /\ phase \in {"none", "made", "answered", "querying", "paging", "closing", "unsubscribed"}
  /\ current \in 0..(sequence + 1) /\ horizon \in 0..sequence
  /\ empty \in BOOLEAN /\ completed \in BOOLEAN /\ ended \in BOOLEAN /\ dropped \in BOOLEAN
PageTypes == page \in Seq([item : 1..sequence, joined : BOOLEAN])
ChannelTypes == channel \in Seq(BOOLEAN) /\ Len(channel) <= ChannelSize
ReceivedTypes == received \in Seq(1..sequence)
SyncTypes == PhaseTypes /\ PageTypes /\ ChannelTypes /\ ReceivedTypes
WireItems == \A k \in DOMAIN wire : wire[k].kind = Sync => wire[k].item <= sequence
ListTypes ==
  /\ tables \in [Lists -> [Rows -> Names \cup {None}]]
  /\ opened \subseteq Lists \cap Kinds
  /\ \A l \in opened : subs[l] = "running"
  /\ feed \in [Lists -> Seq(RowChanges)]
  /\ view \in [Lists -> [Rows -> Rows \cup Names \cup {None}]]
StatusTypes ==
  /\ stats \in [Jobs -> (1..changes) \cup {None}] /\ past \subseteq Jobs
  /\ lastSend \in [Jobs -> Counts] /\ statusView \in [Jobs -> Counts]
  /\ statusAt \in {"new", "making", "sending", "sleeping"}
  /\ statusAt = "sending" => out \in Differences
CountTypes == changes \in 0..MaxChanges /\ measured \in 0..changes
ListenTypes ==
  /\ listening \in BOOLEAN
  /\ listening => Resources \in Kinds /\ subs[Resources] = "running"
QueueTypes ==
  /\ measurements \in Seq(Nat) /\ Len(measurements) <= BufferSize
  /\ backlog \in Seq(Nat) /\ recvChannel \in Seq(Nat) /\ Len(recvChannel) <= MonitorChannel
  /\ seen \in Seq(Nat)
MonitorTypes == CountTypes /\ ListenTypes /\ QueueTypes

Types == /\ ConnTypes /\ WireTypes /\ StorageTypes /\ SyncTypes /\ WireItems
         /\ ListTypes /\ StatusTypes /\ MonitorTypes

LEMMA MessageKinds ==
  ASSUME NEW m \in Messages
  PROVE  /\ m.kind = Sync => m.item \in Nat /\ (m.item = 0 => m.wanted \in BOOLEAN)
         /\ m.kind \in Lists => m \in ListEvents
         /\ m.kind = JobStatuses => m.jobs \in Differences
         /\ m.kind = Resources => m.number \in Nat
         /\ m.kind \in Lists \cup {Sync, JobStatuses, Resources}
<1>1. CASE m \in ItemMessages
  BY <1>1 DEF ItemMessages, Sync, Lists, JobStatuses, Resources
<1>2. CASE m \in CompleteMessages
  BY <1>2 DEF CompleteMessages, Sync, Lists, JobStatuses, Resources
<1>3. CASE m \in ListEvents
  BY <1>3 DEF ListEvents, Sync, Lists, JobStatuses, Resources
<1>4. CASE m \in StatusEvents
  BY <1>4 DEF StatusEvents, Sync, Lists, JobStatuses, Resources
<1>5. CASE m \in Numbers
  BY <1>5 DEF Numbers, Sync, Lists, JobStatuses, Resources
<1> QED BY <1>1, <1>2, <1>3, <1>4, <1>5 DEF Messages

(* What each operation of the connection does to its types.                *)
LEMMA ConnSteps ==
  ASSUME ConnTypes, wanted' = wanted
  PROVE  /\ UNCHANGED <<link, conn, raised, server, subs, reconnects, unsubscribes>> => ConnTypes'
         /\ \A k \in Kinds : Subscribe(k) => ConnTypes'
         /\ \A k \in Kinds : Unsubscribe(k) /\ UNCHANGED subs => ConnTypes'
         /\ \A k \in Kinds : Unsubscribe(k) /\ Return(k) => ConnTypes'
         /\ \A k \in Kinds : Running(k) /\ Return(k)
              /\ UNCHANGED <<link, conn, raised, server, reconnects, unsubscribes>> => ConnTypes'
         /\ \A t \in Tasks : Raise(t) => ConnTypes'
         /\ CutLink \/ CloseConnection \/ Reconnect => ConnTypes'
<1> USE DEF ConnTypes
<1>1. UNCHANGED <<link, conn, raised, server, subs, reconnects, unsubscribes>> => ConnTypes'
  OBVIOUS
<1>2. ASSUME NEW k \in Kinds, Subscribe(k) PROVE ConnTypes'
  BY <1>2 DEF Subscribe, Up
<1>3. ASSUME NEW k \in Kinds, Unsubscribe(k), UNCHANGED subs PROVE ConnTypes'
  BY <1>3, ConnectionAssumption DEF Unsubscribe, Up
<1>4. ASSUME NEW k \in Kinds, Unsubscribe(k), Return(k) PROVE ConnTypes'
  BY <1>4, ConnectionAssumption DEF Unsubscribe, Up, Return
<1>5. ASSUME NEW k \in Kinds, Running(k), Return(k),
             UNCHANGED <<link, conn, raised, server, reconnects, unsubscribes>>
      PROVE  ConnTypes'
  BY <1>5 DEF Return, Running
<1>6. ASSUME NEW t \in Tasks, Raise(t) PROVE ConnTypes'
  BY <1>6 DEF Raise
<1>7. CASE CutLink
  BY <1>7 DEF CutLink
<1>8. CASE CloseConnection
  BY <1>8 DEF CloseConnection
<1>9. CASE Reconnect
  BY <1>9, ConnectionAssumption DEF Reconnect
<1> QED BY <1>1, <1>2, <1>3, <1>4, <1>5, <1>6, <1>7, <1>8, <1>9

LEMMA ConnTypeStep == ConnTypes /\ [Next]_vars => ConnTypes'
<1> SUFFICES ASSUME ConnTypes, [Next]_vars PROVE ConnTypes'
  OBVIOUS
<1> DEFINE Same == UNCHANGED <<link, conn, raised, server, subs, reconnects, unsubscribes>>
<1>1. CASE UNCHANGED vars
  BY <1>1 DEF vars, connVars, ConnTypes
<1>2. CASE SyncStep
  <2>1. Sync \in Kinds /\ Sync \in Tasks /\ wanted' = wanted
    BY <1>2 DEF SyncStep, ConnTypes, Tasks
  <2>2. CASE StorageNext
    BY <2>1, <2>2, ConnSteps DEF StorageNext, connVars
  <2>3. CASE SyncTask
    <3>1. CASE ReadJob \/ StartSync \/ Query \/ EndPage \/ SendItem
      BY <2>1, <3>1, ConnSteps DEF ReadJob, StartSync, Query, EndPage, SendItem, connVars
    <3>2. CASE ReadJobRaises \/ SendItemRaises
      BY <2>1, <3>2, ConnSteps DEF ReadJobRaises, SendItemRaises
    <3>3. CASE SendComplete
      BY <2>1, <3>3, ConnSteps DEF SendComplete
    <3> QED BY <2>3, <3>1, <3>2, <3>3 DEF SyncTask
  <2>4. CASE JobStatus \/ ReceiveSync
    BY <2>1, <2>4, ConnSteps DEF JobStatus, ReceiveSync, connVars
  <2>5. CASE SubscribeSync \/ UnsubscribeSync
    BY <2>1, <2>5, ConnSteps DEF SubscribeSync, UnsubscribeSync
  <2>6. CASE SyncSendFails
    BY <2>1, <2>6, ConnSteps DEF SyncSendFails
  <2> QED BY <1>2, <2>2, <2>3, <2>4, <2>5, <2>6 DEF SyncStep, SyncNext
<1>3. CASE Changes /\ UNCHANGED <<syncVars, wanted>>
  BY <1>3, ConnSteps DEF Changes, ChangeRow, UpdateStats, DeleteStats, GrowOld, Measure, connVars
<1>4. ASSUME NEW k \in StreamKinds, Stream(k) PROVE ConnTypes'
  <2>1. k \in Kinds /\ k \in Tasks /\ wanted' = wanted
    BY <1>4 DEF Stream, StreamKinds, Tasks
  <2>2. CASE StreamStep(k)
    BY <2>1, <2>2, ConnSteps DEF StreamStep, OpenFeed, SendListEvent, MakeEvent, SendStatus,
      StatusWakes, StartMonitor, SendMeasurement, connVars
  <2>3. CASE SubscribeStream(k)
    BY <2>1, <2>3, ConnSteps DEF SubscribeStream, SubscribeList, SubscribeStatus, SubscribeMonitor
  <2>4. CASE UnsubscribeStream(k)
    BY <2>1, <2>4, ConnSteps DEF UnsubscribeStream, UnsubscribeList, UnsubscribeStatus,
      UnsubscribeMonitor, CloseFeed
  <2>5. CASE StreamSendFails(k)
    BY <2>1, <2>5, ConnSteps DEF StreamSendFails
  <2> QED BY <1>4, <2>2, <2>3, <2>4, <2>5 DEF Stream
<1>5. CASE Read
  BY <1>5, ConnSteps DEF Read, ReceiveEvent, ReceiveListEvent, ReceiveStatus, ReceiveMeasurement
<1>6. ASSUME NEW l \in Lists, FeedEnds(l) PROVE ConnTypes'
  <2>1. l \in Kinds /\ wanted' = wanted
    BY <1>6 DEF FeedEnds, ConnTypes
  <2> QED BY <1>6, <2>1, ConnSteps DEF FeedEnds, FeedFails, CloseFeed
<1>7. CASE Fail
  <2>1. "reader" \in Tasks /\ "handler" \in Tasks
    BY DEF Tasks
  <2> QED BY <1>7, <2>1, ConnSteps DEF Fail, ReadFails, BadRequest
<1>8. CASE Close \/ NewConnection
  BY <1>8, ConnSteps DEF Close, NewConnection
<1> QED BY <1>1, <1>2, <1>3, <1>4, <1>5, <1>6, <1>7, <1>8 DEF Next

(* The network: a message of one kind is added or taken, or all are lost.  *)
Adds(k) == \E m \in Messages :
             m.kind = k /\ Up /\ Len(wire) < WireSize /\ wire' = Append(wire, m)
Takes(k) == wire # <<>> /\ Head(wire).kind = k /\ wire' = Tail(wire)
WireMoves(k) == wire' = wire \/ Adds(k) \/ Takes(k)

LEMMA ListEventTyped ==
  ASSUME NEW l \in Lists, NEW c \in RowChanges
  PROVE  /\ ListEvent(l, c) \in ListEvents /\ ListEvent(l, c) \in Messages
         /\ ListEvent(l, c).kind = l /\ ListEvent(l, c).row = c.row
         /\ NameAfter(ListEvent(l, c)) = IF c.new # None /\ l = "logins" THEN c.row ELSE c.new
<1> USE DEF ListEvent, RowChanges, EventType, Document, NameAfter
<1>1. CASE l = "policies"
  BY <1>1 DEF PolicyEvent, ListEvents, Messages, Lists
<1>2. CASE l = "schedules"
  BY <1>2 DEF ScheduleEvent, ListEvents, Messages, Lists
<1>3. CASE l = "logins"
  BY <1>3 DEF DomainLoginEvent, ListEvents, Messages, Lists
<1> QED BY <1>1, <1>2, <1>3 DEF Lists

LEMMA SyncWire ==
  ASSUME Types, SyncStep PROVE WireMoves(Sync)
<1> USE DEF WireMoves
<1>1. CASE SendItem
  <2>1. page # <<>> /\ page \in Seq([item : 1..sequence, joined : BOOLEAN]) /\ sequence \in Nat
    BY <1>1, SyncAssumption DEF SendItem, Types, SyncTypes, PageTypes, StorageTypes
  <2>2. Head(page) \in [item : 1..sequence, joined : BOOLEAN]
    BY <2>1, TailFacts
  <2>3. Item(Head(page).item) \in Messages /\ Item(Head(page).item).kind = Sync
    BY <2>1, <2>2 DEF Item, Messages, ItemMessages
  <2> QED BY <1>1, <2>3 DEF SendItem, Send, Adds
<1>2. CASE SendComplete
  <2>1. Complete(phase = "unsubscribed") \in Messages /\ Complete(phase = "unsubscribed").kind = Sync
    BY DEF Complete, Messages, CompleteMessages
  <2> QED BY <1>2, <2>1 DEF SendComplete, Send, Adds
<1>3. CASE ReceiveSync
  BY <1>3 DEF ReceiveSync, Takes
<1>4. CASE StorageNext \/ JobStatus
  BY <1>4 DEF StorageNext, JobStatus, connVars
<1>5. CASE ReadJob \/ StartSync \/ Query \/ EndPage
  BY <1>5 DEF ReadJob, StartSync, Query, EndPage, connVars
<1>6. CASE ReadJobRaises \/ SendItemRaises \/ SyncSendFails
  BY <1>6 DEF ReadJobRaises, SendItemRaises, SyncSendFails, Raise
<1>7. CASE SubscribeSync \/ UnsubscribeSync
  BY <1>7 DEF SubscribeSync, UnsubscribeSync, Subscribe, Unsubscribe
<1> QED BY <1>1, <1>2, <1>3, <1>4, <1>5, <1>6, <1>7 DEF SyncStep, SyncNext, SyncTask

LEMMA StreamWire ==
  ASSUME Types, NEW k \in StreamKinds, Stream(k)
  PROVE  /\ WireMoves(k) /\ k \in Lists \cup {JobStatuses, Resources} /\ k # Sync
         /\ wire' = wire \/ Adds(k)
<1>1. k \in Lists \cup {JobStatuses, Resources}
  BY DEF Stream, StreamStep, SubscribeStream, UnsubscribeStream, StreamSendFails, Sending
<1>2. wire' = wire \/ Adds(k)
  <2>1. CASE StreamStep(k)
    <3>1. CASE k \in Lists /\ SendListEvent(k)
      <4>1. Head(feed[k]) \in RowChanges
        BY <3>1 DEF SendListEvent, Types, ListTypes
      <4> QED BY <3>1, <4>1, ListEventTyped DEF SendListEvent, Send, Adds
    <3>2. CASE k = JobStatuses /\ SendStatus
      <4> DEFINE m == [kind |-> JobStatuses, jobs |-> out]
      <4>1. m \in Messages /\ m.kind = k
        BY <3>2 DEF SendStatus, Types, StatusTypes, Messages, StatusEvents
      <4> QED BY <3>2, <4>1 DEF SendStatus, Send, Adds
    <3>3. CASE k = Resources /\ SendMeasurement
      <4>1. \A i \in Nat : Measurement(i) \in Messages /\ Measurement(i).kind = Resources
        BY DEF Measurement, Messages, Numbers
      <4>2. /\ backlog # <<>> => Head(backlog) \in Nat
            /\ recvChannel # <<>> => Head(recvChannel) \in Nat
        BY DEF Types, MonitorTypes, QueueTypes
      <4> QED BY <3>3, <4>1, <4>2 DEF SendMeasurement, Send, Adds
    <3>4. CASE OpenFeed(k) \/ MakeEvent \/ StatusWakes \/ StartMonitor
      BY <3>4 DEF OpenFeed, MakeEvent, StatusWakes, StartMonitor, connVars
    <3> QED BY <2>1, <3>1, <3>2, <3>3, <3>4 DEF StreamStep
  <2>2. CASE SubscribeStream(k)
    BY <2>2 DEF SubscribeStream, SubscribeList, SubscribeStatus, SubscribeMonitor, Subscribe
  <2>3. CASE UnsubscribeStream(k)
    BY <2>3 DEF UnsubscribeStream, UnsubscribeList, UnsubscribeStatus, UnsubscribeMonitor, Unsubscribe
  <2>4. CASE StreamSendFails(k)
    BY <2>4 DEF StreamSendFails, Raise
  <2> QED BY <2>1, <2>2, <2>3, <2>4 DEF Stream
<1> QED BY <1>1, <1>2 DEF WireMoves, Lists, JobStatuses, Resources, Sync

(* The other steps.                                                        *)
LEMMA OtherWire ==
  /\ Changes => wire' = wire
  /\ Read => \E k \in Lists \cup {JobStatuses, Resources} : Takes(k) /\ k # Sync
  /\ \A l \in Lists : FeedEnds(l) => wire' = wire
  /\ Fail => (wire' = wire /\ link' = link) \/ (wire' = <<>> /\ link' = "cut")
  /\ Close => wire' = wire
  /\ NewConnection => wire' = wire /\ wire = <<>> /\ conn = "closed"
<1>1. Changes => wire' = wire
  BY DEF Changes, ChangeRow, UpdateStats, DeleteStats, GrowOld, Measure, connVars
<1>2. Read => \E k \in Lists \cup {JobStatuses, Resources} : Takes(k) /\ k # Sync
  BY DEF Read, ReceiveEvent, ReceiveListEvent, ReceiveStatus, ReceiveMeasurement, Takes,
    Lists, JobStatuses, Resources, Sync
<1>3. \A l \in Lists : FeedEnds(l) => wire' = wire
  BY DEF FeedEnds, FeedFails
<1>4. Fail => (wire' = wire /\ link' = link) \/ (wire' = <<>> /\ link' = "cut")
  BY DEF Fail, CutLink, ReadFails, BadRequest, Raise
<1>5. (Close => wire' = wire) /\ (NewConnection => wire' = wire /\ wire = <<>> /\ conn = "closed")
  BY DEF Close, CloseConnection, NewConnection, Reconnect
<1> QED BY <1>1, <1>2, <1>3, <1>4, <1>5

LEMMA WireTypeStep == Types /\ [Next]_vars => WireTypes'
<1> SUFFICES ASSUME Types, [Next]_vars PROVE WireTypes'
  OBVIOUS
<1>1. wire \in Seq(Messages) /\ Len(wire) <= WireSize /\ Len(wire) \in Nat /\ WireSize \in Nat \ {0}
  BY ConnectionAssumption DEF Types, WireTypes
<1>2. CASE wire' = wire
  BY <1>1, <1>2 DEF WireTypes
<1>3. CASE wire' = <<>>
  BY <1>1, <1>3 DEF WireTypes
<1>4. ASSUME NEW k, Adds(k) PROVE WireTypes'
  BY <1>1, <1>4, AppendFacts DEF Adds, WireTypes
<1>5. ASSUME NEW k, Takes(k) PROVE WireTypes'
  BY <1>1, <1>5, TailFacts DEF Takes, WireTypes
<1> QED
  BY <1>2, <1>3, <1>4, <1>5, SyncWire, StreamWire, OtherWire
    DEF Next, vars, connVars, WireMoves

(* Which steps leave the sync, and which the streams.                      *)
LEMMA SyncStays ==
  ASSUME [Next]_vars, ~SyncStep, ~Close PROVE UNCHANGED syncVars
BY DEF Next, vars, Stream, Read, FeedEnds, Fail, NewConnection

LEMMA StreamsStay ==
  SyncStep \/ Fail \/ NewConnection \/ UNCHANGED vars => UNCHANGED streamVars
BY DEF SyncStep, Fail, NewConnection, vars

LEMMA JobStays ==
  ASSUME [Next]_vars, ~StorageNext PROVE UNCHANGED jobVars
<1>1. CASE SyncNext
  BY <1>1 DEF SyncNext, SyncTask, ReadJob, ReadJobRaises, StartSync, Query, SendItem, SendItemRaises,
    EndPage, SendComplete, JobStatus, SubscribeSync, UnsubscribeSync, SyncSendFails, ReceiveSync,
    syncVars, jobVars
<1>2. CASE ~SyncStep
  BY <1>2, SyncStays DEF syncVars, Close, ForgetSync
<1> QED BY <1>1, <1>2 DEF SyncStep

(* The sequence grows by one at most, and what is numbered stays numbered. *)
LEMMA StorageSteps ==
  ASSUME StorageTypes, StorageNext
  PROVE  /\ StorageTypes' /\ sequence' \in {sequence, sequence + 1}
         /\ rows' \subseteq rows \cup {sequence'}
         /\ rows' \subseteq rows \/ (sequence' = sequence + 1 /\ rows' = rows \cup {sequence'})
<1> USE SyncAssumption DEF StorageTypes
<1>1. CASE StoreOther
  BY <1>1 DEF StoreOther
<1>2. CASE StoreItem
  <2>1. /\ sequence \in Nat /\ MaxSequence \in Nat /\ sequence < MaxSequence
        /\ sequence' = sequence + 1 /\ rows' = rows \cup {sequence + 1}
        /\ UNCHANGED <<job, event>>
    BY <1>2 DEF StoreItem
  <2>2. \A S \in SUBSET (1..sequence) :
          S \subseteq 1..(sequence + 1) /\ S \cup {sequence + 1} \subseteq 1..(sequence + 1)
    BY <2>1
  <2>3. bodies' \subseteq 1..(sequence + 1) /\ writing' \in 0..(sequence + 1)
    <3>1. /\ bodies' = bodies \cup {sequence + 1} \/ bodies' = bodies
          /\ writing' = sequence + 1 \/ writing' = 0
      BY <1>2 DEF StoreItem
    <3>2. bodies' \subseteq 1..(sequence + 1)
      BY <2>2, <3>1
    <3> QED BY <2>1, <3>1, <3>2
  <2>4. rows' \subseteq 1..(sequence + 1) /\ sequence' \in 0..MaxSequence
    BY <2>1, <2>2
  <2> QED BY <2>1, <2>3, <2>4
<1>3. CASE StoreBody \/ AbandonBody
  <2>1. writing \in 0..sequence /\ bodies \subseteq 1..sequence /\ sequence \in Nat
    OBVIOUS
  <2>2. writing' = 0 /\ bodies' \subseteq bodies \cup {writing} /\ writing # 0
    BY <1>3 DEF StoreBody, AbandonBody
  <2>3. bodies' \subseteq 1..sequence /\ writing' \in 0..sequence
    BY <2>1, <2>2
  <2>4. UNCHANGED <<job, event, sequence, rows>>
    BY <1>3 DEF StoreBody, AbandonBody
  <2> QED BY <2>3, <2>4
<1>4. CASE FinishJob \/ SendEvent \/ OtherEvent
  BY <1>4 DEF FinishJob, SendEvent, OtherEvent, jobVars
<1>5. CASE DeleteItems \/ DeleteRow
  BY <1>5 DEF DeleteItems, DeleteRow
<1> QED BY <1>1, <1>2, <1>3, <1>4, <1>5 DEF StorageNext

LEMMA StorageTypeStep == StorageTypes /\ [Next]_vars => StorageTypes'
<1> SUFFICES ASSUME StorageTypes, [Next]_vars PROVE StorageTypes'
  OBVIOUS
<1>1. CASE StorageNext
  BY <1>1, StorageSteps
<1>2. CASE ~StorageNext
  BY <1>2, JobStays DEF StorageTypes, jobVars
<1> QED BY <1>1, <1>2

LEMMA SyncTypesGrow ==
  ASSUME StorageTypes, SyncTypes, sequence' \in {sequence, sequence + 1},
         UNCHANGED <<phase, current, page, empty, completed, received, ended, horizon>>,
         channel' \in Seq(BOOLEAN), Len(channel') <= ChannelSize, dropped' \in BOOLEAN
  PROVE  SyncTypes'
<1>1. sequence \in Nat /\ sequence' \in Nat /\ sequence <= sequence'
  BY SyncAssumption DEF StorageTypes
<1>2. current' \in 0..(sequence' + 1) /\ horizon' \in 0..sequence'
  <2>1. current \in 0..(sequence + 1) /\ horizon \in 0..sequence
    BY DEF SyncTypes, PhaseTypes, PageTypes, ChannelTypes, ReceivedTypes
  <2>2. 0..(sequence + 1) \subseteq 0..(sequence' + 1) /\ 0..sequence \subseteq 0..sequence'
    BY <1>1, RangesGrow
  <2> QED BY <2>1, <2>2
<1>3. received' \in Seq(1..sequence')
  <2>1. received \in Seq(1..sequence)
    BY DEF SyncTypes, PhaseTypes, PageTypes, ChannelTypes, ReceivedTypes
  <2>2. \A k \in DOMAIN received : received[k] \in 1..sequence'
    BY <1>1, <2>1
  <2> QED BY <2>1, <2>2, SeqOfElements
<1>4. page' \in Seq([item : 1..sequence', joined : BOOLEAN])
  <2>1. page \in Seq([item : 1..sequence, joined : BOOLEAN])
    BY DEF SyncTypes, PhaseTypes, PageTypes, ChannelTypes, ReceivedTypes
  <2>2. \A p \in [item : 1..sequence, joined : BOOLEAN] : p \in [item : 1..sequence', joined : BOOLEAN]
    <3>1. \A n \in 1..sequence : n \in 1..sequence'
      BY <1>1
    <3> QED BY <3>1
  <2>3. \A k \in DOMAIN page : page[k] \in [item : 1..sequence, joined : BOOLEAN]
    BY <2>1, SeqElement
  <2>4. \A k \in DOMAIN page : page[k] \in [item : 1..sequence', joined : BOOLEAN]
    BY <2>2, <2>3
  <2> QED BY <2>1, <2>4, SeqOfElements
<1> QED BY <1>2, <1>3, <1>4 DEF SyncTypes, PhaseTypes, PageTypes, ChannelTypes, ReceivedTypes

(* What a query gives: the items behind current, in order.                 *)
LEMMA QueryPage ==
  ASSUME StorageTypes, SyncTypes, Query
  PROVE  /\ page' \in Seq([item : 1..sequence, joined : BOOLEAN])
         /\ \A i, j \in DOMAIN page' : i < j => page'[i].item < page'[j].item
         /\ \A i \in DOMAIN page' : page'[i].item \in rows /\ page'[i].item > current
         /\ \A s \in rows : s > current => \E i \in DOMAIN page' : page'[i].item = s
<1> DEFINE S == {s \in rows : s > current}
           items == Page(current)
<1>1. sequence \in Nat /\ S \in SUBSET (1..sequence) /\ current \in Nat
  <2>1. sequence \in 0..MaxSequence /\ rows \in SUBSET (1..sequence) /\ current \in 0..(sequence + 1)
    BY DEF StorageTypes, SyncTypes, PhaseTypes, PageTypes, ChannelTypes, ReceivedTypes
  <2>2. sequence \in Nat
    BY <2>1, SyncAssumption
  <2>3. current \in Nat
    BY <2>1, <2>2
  <2> QED BY <2>1, <2>2, <2>3
<1>2. IsFiniteSet(S)
  <2>1. IsFiniteSet(1..sequence)
    BY <1>1, FS_Interval
  <2> QED BY <1>1, <2>1, FS_Subset
<1>3. \E p \in SetToSeqs(S) : \A i, j \in DOMAIN p : i < j => p[i] < p[j]
  BY <1>1, AscendingExists DEF Ascends
<1>4. items \in SetToSeqs(S) /\ \A i, j \in DOMAIN items : i < j => items[i] < items[j]
  BY <1>3 DEF Page
<1> HIDE DEF S, items
<1>5. items \in Seq(S) /\ \A x \in S : \E i \in DOMAIN items : items[i] = x
  BY <1>2, <1>4, Enumerates
<1>6. page' = [i \in DOMAIN items |-> [item |-> items[i], joined |-> items[i] \in bodies]]
  BY DEF Query, items
<1>7. DOMAIN page' = DOMAIN items /\ \A i \in DOMAIN items : page'[i].item = items[i] /\ items[i] \in S
  BY <1>5, <1>6
<1>8. page' \in Seq([item : 1..sequence, joined : BOOLEAN])
  <2>1. \A i \in DOMAIN items : items[i] \in 1..sequence
    BY <1>1, <1>7
  <2>2. Len(items) \in Nat /\ DOMAIN items = 1..Len(items)
    BY <1>5
  <2> QED BY <1>6, <2>1, <2>2
<1>9. \A i \in DOMAIN page' : page'[i].item \in rows /\ page'[i].item > current
  BY <1>7 DEF S
<1>10. \A s \in rows : s > current => \E i \in DOMAIN page' : page'[i].item = s
  BY <1>5, <1>7 DEF S
<1> QED BY <1>4, <1>7, <1>8, <1>9, <1>10

(* What is known of the first message, and of the first item of a page.    *)
LEMMA FirstMessage ==
  ASSUME Types, wire # <<>>
  PROVE  /\ Head(wire) = wire[1] /\ wire[1] \in Messages /\ 1 \in DOMAIN wire
         /\ Head(wire).kind = Sync =>
              /\ Head(wire).item \in 0..sequence
              /\ Head(wire).item = 0 => Head(wire).wanted \in BOOLEAN
<1>1. wire \in Seq(Messages) /\ sequence \in Nat
  BY SyncAssumption DEF Types, WireTypes, StorageTypes
<1>2. Head(wire) = wire[1] /\ wire[1] \in Messages /\ 1 \in DOMAIN wire
  BY <1>1, TailFacts
<1>3. Head(wire).kind = Sync => Head(wire).item <= sequence
  BY <1>2 DEF Types, WireItems
<1> QED BY <1>1, <1>2, <1>3, MessageKinds

LEMMA FirstOfPage ==
  ASSUME StorageTypes, SyncTypes, page # <<>>
  PROVE  /\ Head(page) = page[1] /\ 1 \in DOMAIN page /\ Head(page).item \in 1..sequence
         /\ Tail(page) \in Seq([item : 1..sequence, joined : BOOLEAN])
         /\ Len(page) \in Nat \ {0} /\ DOMAIN page = 1..Len(page)
         /\ DOMAIN Tail(page) = 1..(Len(page) - 1)
         /\ \A k \in 1..(Len(page) - 1) : Tail(page)[k] = page[k + 1]
<1>1. page \in Seq([item : 1..sequence, joined : BOOLEAN])
  BY DEF SyncTypes, PhaseTypes, PageTypes, ChannelTypes, ReceivedTypes
<1> DEFINE R == [item : 1..sequence, joined : BOOLEAN]
<1>2. \A p \in R : p.item \in 1..sequence
  OBVIOUS
<1> HIDE DEF R
<1>3. page \in Seq(R)
  BY <1>1 DEF R
<1>4. /\ Head(page) = page[1] /\ Head(page) \in R /\ Tail(page) \in Seq(R)
      /\ Len(page) \in Nat \ {0} /\ DOMAIN page = 1..Len(page) /\ 1 \in DOMAIN page
      /\ DOMAIN Tail(page) = 1..(Len(page) - 1)
      /\ \A k \in 1..(Len(page) - 1) : Tail(page)[k] = page[k + 1]
  BY <1>3, TailFacts
<1> QED BY <1>2, <1>4 DEF R

LEMMA TokenTyped ==
  ASSUME StorageTypes, SyncTypes PROVE Token \in 0..sequence
<1>1. received \in Seq(1..sequence) /\ sequence \in Nat
  BY SyncAssumption DEF StorageTypes, SyncTypes, PhaseTypes, PageTypes, ChannelTypes, ReceivedTypes
<1>2. received # <<>> => received[Len(received)] \in 1..sequence
  BY <1>1
<1> QED BY <1>1, <1>2 DEF Token, Last

LEMMA EmptyTyped ==
  /\ <<>> \in Seq(BOOLEAN) /\ Len(<<>>) = 0
  /\ <<>> \in Seq([item : 1..sequence, joined : BOOLEAN])
OBVIOUS

LEMMA SyncTypeStep ==
  ASSUME Types, [Next]_vars PROVE SyncTypes'
<1>0. /\ StorageTypes /\ SyncTypes /\ PhaseTypes /\ PageTypes /\ ChannelTypes /\ ReceivedTypes
      /\ sequence \in Nat /\ ChannelSize \in Nat \ {0}
  BY SyncAssumption DEF Types, StorageTypes, SyncTypes
<1>1. CASE StorageNext
  <2>1. sequence' \in {sequence, sequence + 1}
    BY <1>0, <1>1, StorageSteps
  <2>2. UNCHANGED <<phase, current, page, empty, completed, received, ended, horizon>>
    BY <1>1 DEF StorageNext, StoreOther, StoreItem, StoreBody, AbandonBody, FinishJob, SendEvent,
      OtherEvent, DeleteItems, DeleteRow, runVars, clientVars
  <2>3. channel' \in Seq(BOOLEAN) /\ Len(channel') <= ChannelSize /\ dropped' \in BOOLEAN
    <3>1. dropped \in BOOLEAN
      BY <1>0 DEF PhaseTypes
    <3>2. CASE UNCHANGED <<channel, dropped>>
      BY <1>0, <3>1, <3>2 DEF ChannelTypes
    <3>3. ASSUME NEW isEnd \in BOOLEAN, Notify(isEnd)
          PROVE  channel' \in Seq(BOOLEAN) /\ Len(channel') <= ChannelSize /\ dropped' \in BOOLEAN
      <4>1. CASE channel' = Append(channel, isEnd) /\ Len(channel) < ChannelSize /\ UNCHANGED dropped
        <5> DEFINE B == BOOLEAN
        <5>1. isEnd \in B /\ channel \in Seq(B)
          BY <1>0 DEF ChannelTypes
        <5> HIDE DEF B
        <5>2. channel' \in Seq(B) /\ Len(channel') = Len(channel) + 1 /\ Len(channel) \in Nat
          BY <4>1, <5>1, AppendFacts
        <5> QED BY <1>0, <3>1, <4>1, <5>2 DEF B
      <4>2. CASE channel' = channel /\ dropped' \in BOOLEAN
        BY <1>0, <4>2 DEF ChannelTypes
      <4> QED BY <3>1, <3>2, <3>3, <4>1, <4>2 DEF Notify
    <3>4. UNCHANGED <<channel, dropped>> \/ Notify(TRUE) \/ Notify(FALSE)
      BY <1>1 DEF StorageNext, StoreOther, StoreItem, StoreBody, AbandonBody, FinishJob, SendEvent,
        OtherEvent, DeleteItems, DeleteRow, runVars
    <3> QED BY <3>2, <3>3, <3>4
  <2> QED BY <1>0, <2>1, <2>2, <2>3, SyncTypesGrow
<1>2. ASSUME sequence' = sequence
      PROVE  /\ page' = page \/ page' = <<>> => PageTypes'
             /\ channel' = channel \/ channel' = <<>> => ChannelTypes'
             /\ received' = received => ReceivedTypes'
  <2>1. page' = page \/ page' = <<>> => PageTypes'
    BY <1>0, <1>2, EmptyTyped DEF PageTypes
  <2>2. channel' = channel \/ channel' = <<>> => ChannelTypes'
    <3> DEFINE B == BOOLEAN
    <3>1. channel \in Seq(B) /\ Len(channel) <= ChannelSize
      BY <1>0 DEF ChannelTypes
    <3> HIDE DEF B
    <3>2. <<>> \in Seq(B) /\ Len(<<>>) <= ChannelSize
      BY <1>0
    <3>3. channel' = channel \/ channel' = <<>> => channel' \in Seq(B) /\ Len(channel') <= ChannelSize
      BY <3>1, <3>2, Zenon
    <3> QED BY <3>3 DEF B, ChannelTypes
  <2>3. received' = received => ReceivedTypes'
    BY <1>0, <1>2 DEF ReceivedTypes
  <2> QED BY <2>1, <2>2, <2>3
<1>3. CASE SyncNext /\ ~StorageNext
  <2>0. sequence' = sequence /\ ~StorageNext
    BY <1>3, JobStays DEF jobVars
  <2>1. CASE ReadJob \/ StartSync \/ EndPage \/ UnsubscribeSync
    <3>1. PhaseTypes'
      <4>1. CASE ReadJob
        BY <1>0, <2>0, <4>1 DEF ReadJob, PhaseTypes, clientVars
      <4>2. CASE StartSync \/ UnsubscribeSync
        BY <1>0, <2>0, <4>2 DEF StartSync, UnsubscribeSync, PhaseTypes, runVars, clientVars
      <4>3. CASE EndPage
        BY <1>0, <2>0, <4>3 DEF EndPage, PhaseTypes, clientVars
      <4> QED BY <2>1, <4>1, <4>2, <4>3
    <3>2. UNCHANGED <<page, channel, received>>
      BY <2>1 DEF ReadJob, StartSync, EndPage, UnsubscribeSync, runVars, clientVars
    <3> QED BY <1>2, <2>0, <3>1, <3>2 DEF SyncTypes
  <2>2. CASE ReadJobRaises \/ SendItemRaises \/ SyncSendFails
    BY <1>0, <2>0, <2>2, <1>2 DEF ReadJobRaises, SendItemRaises, SyncSendFails, SyncTypes, PhaseTypes,
      syncVars, runVars, clientVars
  <2>3. CASE Query
    <3>1. PageTypes'
      BY <1>0, <2>0, <2>3, QueryPage DEF PageTypes
    <3>2. /\ horizon' \in {0, sequence} /\ phase' = "paging"
          /\ UNCHANGED <<current, empty, completed, channel, clientVars, dropped>>
      BY <2>3 DEF Query
    <3> QED BY <1>0, <1>2, <2>0, <3>1, <3>2 DEF SyncTypes, PhaseTypes, clientVars
  <2>4. CASE SendItem
    <3>1. PageTypes' /\ Head(page).item \in 1..sequence
      BY <1>0, <2>0, <2>4, FirstOfPage DEF SendItem, PageTypes
    <3>2. current' \in 0..(sequence + 1)
      BY <1>0, <2>4, <3>1 DEF SendItem, NextSequence
    <3>3. empty' = FALSE /\ UNCHANGED <<phase, completed, channel, clientVars, horizon, dropped>>
      BY <2>4 DEF SendItem
    <3> QED BY <1>0, <1>2, <2>0, <3>1, <3>2, <3>3 DEF SyncTypes, PhaseTypes, clientVars
  <2>5. CASE SendComplete
    <3>1. PhaseTypes'
      <4>1. current' = 0 /\ sequence' = sequence /\ UNCHANGED <<horizon, ended>>
        BY <1>0, <2>0, <2>5 DEF SendComplete, Fresh, clientVars, jobVars
      <4>2. current' \in 0..(sequence' + 1) /\ horizon' \in 0..sequence' /\ ended' \in BOOLEAN
        BY <1>0, <4>1 DEF PhaseTypes
      <4>3. phase' = "none" /\ empty' = TRUE /\ completed' = FALSE /\ dropped' = FALSE
        BY <1>0, <2>0, <2>5 DEF SendComplete, Fresh
      <4> QED BY <4>2, <4>3 DEF PhaseTypes
    <3>2. page' = <<>> /\ channel' = <<>> /\ received' = received
      BY <2>5 DEF SendComplete, Fresh, clientVars
    <3> QED BY <1>2, <2>0, <3>1, <3>2 DEF SyncTypes
  <2>6. CASE JobStatus
    <3>1. ChannelTypes' /\ Head(channel) \in BOOLEAN
      <4> DEFINE B == BOOLEAN
      <4>1. channel \in Seq(B) /\ Len(channel) <= ChannelSize /\ channel # <<>> /\ channel' = Tail(channel)
        BY <1>0, <2>6 DEF ChannelTypes, JobStatus
      <4> HIDE DEF B
      <4>2. channel' \in Seq(B) /\ Len(channel') <= ChannelSize /\ Head(channel) \in B
        BY <1>0, <4>1, TailFacts
      <4> QED BY <4>2 DEF B, ChannelTypes
    <3> QED BY <1>0, <1>2, <2>0, <2>6, <3>1 DEF JobStatus, SyncTypes, PhaseTypes, clientVars
  <2>7. CASE SubscribeSync
    <3>1. current' \in 0..(sequence + 1)
      BY <1>0, <2>7, TokenTyped DEF SubscribeSync, FirstSequence
    <3> QED BY <1>0, <1>2, <2>0, <2>7, <3>1 DEF SubscribeSync, SyncTypes, PhaseTypes, clientVars
  <2>8. CASE ReceiveSync
    <3>1. wire # <<>> /\ Head(wire).kind = Sync
      BY <2>8 DEF ReceiveSync
    <3>2. Head(wire).item \in 0..sequence /\ (Head(wire).item = 0 => Head(wire).wanted \in BOOLEAN)
      BY <3>1, FirstMessage
    <3>3. ReceivedTypes'
      <4>1. CASE Head(wire).item # 0
        <5>1. Head(wire).item \in 1..sequence /\ received' = Append(received, Head(wire).item)
          BY <1>0, <2>8, <3>2, <4>1 DEF ReceiveSync
        <5> QED BY <1>0, <2>0, <5>1, AppendFacts DEF ReceivedTypes
      <4>2. CASE Head(wire).item = 0
        BY <1>2, <2>0, <2>8, <4>2 DEF ReceiveSync
      <4> QED BY <4>1, <4>2
    <3>4. ended' \in BOOLEAN
      BY <1>0, <2>8, <3>2 DEF ReceiveSync, PhaseTypes
    <3>5. UNCHANGED <<phase, current, page, empty, completed, channel, horizon, dropped>>
      BY <2>8 DEF ReceiveSync, runVars
    <3> QED BY <1>0, <1>2, <2>0, <3>3, <3>4, <3>5 DEF SyncTypes, PhaseTypes
  <2> QED BY <1>3, <2>1, <2>2, <2>3, <2>4, <2>5, <2>6, <2>7, <2>8 DEF SyncNext, SyncTask
<1>4. CASE Close
  <2>1. sequence' = sequence /\ page' = <<>> /\ channel' = <<>> /\ received' = received
    BY <1>4 DEF Close, ForgetSync, Fresh, jobVars, clientVars
  <2>2. PhaseTypes'
    <3>1. current' = 0 /\ sequence' = sequence /\ UNCHANGED <<horizon, ended>>
      BY <1>0, <1>4 DEF Close, ForgetSync, Fresh, clientVars, jobVars
    <3>2. current' \in 0..(sequence' + 1) /\ horizon' \in 0..sequence' /\ ended' \in BOOLEAN
      BY <1>0, <3>1 DEF PhaseTypes
    <3>3. phase' = "none" /\ empty' = TRUE /\ completed' = FALSE /\ dropped' = FALSE
      BY <1>0, <1>4 DEF Close, ForgetSync, Fresh
    <3> QED BY <3>2, <3>3 DEF PhaseTypes
  <2> QED BY <1>2, <2>1, <2>2 DEF SyncTypes
<1>5. CASE ~SyncStep /\ ~Close
  BY <1>0, <1>2, <1>5, SyncStays DEF SyncTypes, PhaseTypes, syncVars, jobVars, runVars, clientVars
<1> QED BY <1>1, <1>3, <1>4, <1>5 DEF SyncStep

(* The sequence does not shrink.                                           *)
LEMMA SequenceGrows ==
  ASSUME Types, [Next]_vars PROVE sequence \in Nat /\ sequence' \in Nat /\ sequence <= sequence'
<1>1. StorageTypes /\ sequence \in Nat
  BY SyncAssumption DEF Types, StorageTypes
<1>2. CASE StorageNext
  BY <1>1, <1>2, StorageSteps
<1>3. CASE ~StorageNext
  BY <1>1, <1>3, JobStays DEF jobVars
<1> QED BY <1>2, <1>3

(* What holds of all messages and depends on the sequence, and how each    *)
(* step changes the wire.                                                  *)
LEMMA WireItemsStep ==
  ASSUME Types, [Next]_vars PROVE WireItems'
<1>1. /\ wire \in Seq(Messages) /\ WireItems /\ sequence \in Nat /\ sequence' \in Nat
      /\ sequence <= sequence' /\ DOMAIN wire = 1..Len(wire) /\ Len(wire) \in Nat
  BY SequenceGrows DEF Types, WireTypes
<1>2. \A k \in DOMAIN wire : wire[k].kind = Sync => wire[k].item <= sequence'
  <2>1. TAKE k \in DOMAIN wire
  <2>2. HAVE wire[k].kind = Sync
  <2>3. wire[k].item \in Nat /\ wire[k].item <= sequence
    BY <1>1, <2>2, SeqElement, MessageKinds DEF WireItems
  <2> QED BY <1>1, <2>3
<1>3. CASE wire' = wire \/ wire' = <<>>
  BY <1>2, <1>3 DEF WireItems
<1>4. ASSUME NEW k, Takes(k) PROVE WireItems'
  <2>1. wire # <<>> /\ wire' = Tail(wire)
    BY <1>4 DEF Takes
  <2>2. \A i \in DOMAIN wire' : i + 1 \in DOMAIN wire /\ wire'[i] = wire[i + 1]
    <3>1. DOMAIN wire' = 1..(Len(wire) - 1) /\ \A i \in 1..(Len(wire) - 1) : wire'[i] = wire[i + 1]
      BY <1>1, <2>1, TailFacts
    <3> QED BY <1>1, <3>1
  <2> QED BY <1>2, <2>2 DEF WireItems
<1>5. ASSUME NEW m \in Messages, wire' = Append(wire, m), m.kind = Sync => m.item <= sequence'
      PROVE  WireItems'
  <2>1. \A i \in DOMAIN wire' : (i \in DOMAIN wire /\ wire'[i] = wire[i]) \/ wire'[i] = m
    <3>1. /\ DOMAIN wire' = 1..(Len(wire) + 1) /\ wire'[Len(wire) + 1] = m
          /\ \A i \in 1..Len(wire) : wire'[i] = wire[i]
      BY <1>1, <1>5, AppendFacts
    <3> QED BY <1>1, <3>1
  <2> QED BY <1>2, <1>5, <2>1 DEF WireItems
<1>6. CASE SyncStep
  <2>1. CASE SendItem
    <3>1. page # <<>> /\ wire' = Append(wire, Item(Head(page).item))
      BY <2>1 DEF SendItem, Send
    <3>2. Head(page).item \in 1..sequence
      BY <3>1, FirstOfPage DEF Types
    <3>3. Item(Head(page).item) \in Messages /\ Item(Head(page).item).item <= sequence'
      BY <1>1, <3>2 DEF Item, Messages, ItemMessages
    <3> QED BY <1>5, <3>1, <3>3
  <2>2. CASE SendComplete
    <3> DEFINE m == Complete(phase = "unsubscribed")
    <3>1. m \in Messages /\ m.item <= sequence'
      BY <1>1 DEF Complete, Messages, CompleteMessages
    <3>2. wire' = Append(wire, m)
      BY <2>2 DEF SendComplete, Send
    <3> QED BY <1>5, <3>1, <3>2
  <2>3. CASE ~SendItem /\ ~SendComplete
    <3>1. wire' = wire \/ Takes(Sync)
      BY <1>6, <2>3 DEF SyncStep, SyncNext, SyncTask, ReceiveSync, Takes, StorageNext, JobStatus,
        connVars, ReadJob, StartSync, Query, EndPage, ReadJobRaises, SendItemRaises, SyncSendFails,
        Raise, SubscribeSync, UnsubscribeSync, Subscribe, Unsubscribe
    <3> QED BY <1>3, <1>4, <3>1
  <2> QED BY <2>1, <2>2, <2>3
<1>7. ASSUME NEW k \in StreamKinds, Stream(k) PROVE WireItems'
  <2>1. wire' = wire \/ (Adds(k) /\ k # Sync)
    BY <1>7, StreamWire
  <2> QED BY <1>3, <1>5, <2>1 DEF Adds
<1> QED
  BY <1>3, <1>4, <1>6, <1>7, OtherWire DEF Next, vars, connVars

-----------------------------------------------------------------------------
(* The steps of the streams, by the variables that they change *)

ListStep(l) ==
  \/ \E r \in Rows, n \in Names \cup {None} : ChangeRow(l, r, n)
  \/ OpenFeed(l) \/ SendListEvent(l) \/ SubscribeList(l) \/ UnsubscribeList(l) \/ FeedFails(l)
  \/ ReceiveListEvent(l)

StatusStep ==
  \/ \E j \in Jobs : UpdateStats(j) \/ DeleteStats(j) \/ GrowOld(j)
  \/ MakeEvent \/ SendStatus \/ StatusWakes \/ SubscribeStatus \/ UnsubscribeStatus
  \/ ReceiveStatus

MonitorStep ==
  \/ Measure \/ StartMonitor \/ SendMeasurement \/ SubscribeMonitor \/ UnsubscribeMonitor
  \/ ReceiveMeasurement

(* A step that leaves all streams, and their subscriptions, as they are.   *)
Aside ==
  /\ UNCHANGED streamVars
  /\ \A k \in Kinds \ {Sync} : subs'[k] = subs[k]
  /\ \/ UNCHANGED <<wire, link>>
     \/ (Adds(Sync) \/ Takes(Sync)) /\ UNCHANGED link
     \/ link' = "cut" /\ wire' = <<>> /\ UNCHANGED subs
     \/ conn = "closed" /\ wire = <<>> /\ wire' = <<>> /\ UNCHANGED subs

LEMMA StepsOfStreams ==
  ASSUME Types, [Next]_vars
  PROVE  \/ \E l \in Lists : ListStep(l) /\ UNCHANGED syncVars /\ (l \in Kinds \/ ReceiveListEvent(l))
         \/ StatusStep /\ UNCHANGED syncVars /\ (JobStatuses \in Kinds \/ ReceiveStatus)
         \/ MonitorStep /\ UNCHANGED syncVars /\ (Resources \in Kinds \/ ReceiveMeasurement)
         \/ Close
         \/ Aside
<1> wanted \subseteq Kinds /\ subs \in [Kinds -> {"none", "running", "over"}]
  BY DEF Types, ConnTypes
<1>1. CASE UNCHANGED vars
  BY <1>1 DEF vars, connVars, Aside
<1>2. CASE SyncStep
  <2>1. UNCHANGED streamVars /\ WireMoves(Sync)
    BY <1>2, SyncWire DEF SyncStep
  <2>2. UNCHANGED link /\ \A k \in Kinds \ {Sync} : subs'[k] = subs[k]
    BY <1>2 DEF SyncStep, SyncNext, SyncTask, ReceiveSync, StorageNext, JobStatus,
        connVars, ReadJob, StartSync, Query, EndPage, ReadJobRaises, SendItemRaises, SyncSendFails,
        Raise, SubscribeSync, UnsubscribeSync, Subscribe, Unsubscribe, SendItem, SendComplete, Return
  <2> QED BY <2>1, <2>2 DEF Aside, WireMoves
<1>3. CASE Changes /\ UNCHANGED <<syncVars, wanted>>
  BY <1>3 DEF Changes, ListStep, StatusStep, MonitorStep
<1>4. ASSUME NEW k \in StreamKinds, Stream(k)
      PROVE  \/ \E l \in Lists : ListStep(l) /\ UNCHANGED syncVars /\ l \in Kinds
             \/ StatusStep /\ UNCHANGED syncVars /\ JobStatuses \in Kinds
             \/ MonitorStep /\ UNCHANGED syncVars /\ Resources \in Kinds
             \/ Aside
  <2>0. k \in Kinds /\ UNCHANGED syncVars
    BY <1>4 DEF Stream, StreamKinds
  <2>1. CASE StreamStep(k)
    BY <2>0, <2>1 DEF StreamStep, ListStep, StatusStep, MonitorStep
  <2>2. CASE SubscribeStream(k)
    BY <2>0, <2>2 DEF SubscribeStream, ListStep, StatusStep, MonitorStep
  <2>3. CASE UnsubscribeStream(k)
    BY <2>0, <2>3 DEF UnsubscribeStream, ListStep, StatusStep, MonitorStep
  <2>4. CASE StreamSendFails(k)
    BY <2>4 DEF StreamSendFails, Raise, Aside
  <2> QED BY <1>4, <2>1, <2>2, <2>3, <2>4 DEF Stream
<1>5. CASE Read
  BY <1>5 DEF Read, ReceiveEvent, ListStep, StatusStep, MonitorStep
<1>6. ASSUME NEW l \in Lists, FeedEnds(l) PROVE ListStep(l) /\ UNCHANGED syncVars /\ l \in Kinds
  BY <1>6 DEF FeedEnds, ListStep
<1>7. CASE Fail
  BY <1>7 DEF Fail, CutLink, ReadFails, BadRequest, Raise, Aside
<1>8. CASE NewConnection
  BY <1>8 DEF NewConnection, Reconnect, Aside
<1> QED BY <1>1, <1>2, <1>3, <1>4, <1>5, <1>6, <1>7, <1>8 DEF Next

(* What the steps of the one leave of the others.                          *)
LEMMA ListStepLeaves ==
  ASSUME Types, NEW l \in Lists, ListStep(l)
  PROVE  /\ UNCHANGED <<statusVars, monitorVars, link, conn>>
         /\ \A k \in Kinds \ {l} : subs'[k] = subs[k]
         /\ wire' = wire \/ Adds(l) \/ Takes(l)
<1> subs \in [Kinds -> {"none", "running", "over"}]
  BY DEF Types, ConnTypes
<1>1. UNCHANGED <<statusVars, monitorVars, link, conn>> /\ \A k \in Kinds \ {l} : subs'[k] = subs[k]
  BY DEF ListStep, ChangeRow, OpenFeed, SendListEvent, SubscribeList, UnsubscribeList, FeedFails,
    ReceiveListEvent, CloseFeed, Subscribe, Unsubscribe, Return, connVars
<1>2. wire' = wire \/ Adds(l) \/ Takes(l)
  <2>1. CASE SendListEvent(l)
    <3>1. Head(feed[l]) \in RowChanges
      BY <2>1 DEF SendListEvent, Types, ListTypes
    <3> QED BY <2>1, <3>1, ListEventTyped DEF SendListEvent, Send, Adds
  <2>2. CASE ~SendListEvent(l)
    BY <2>2 DEF ListStep, ChangeRow, OpenFeed, SubscribeList, UnsubscribeList, FeedFails,
      ReceiveListEvent, Subscribe, Unsubscribe, connVars, Takes
  <2> QED BY <2>1, <2>2
<1> QED BY <1>1, <1>2

LEMMA StatusStepLeaves ==
  ASSUME Types, StatusStep
  PROVE  /\ UNCHANGED <<listVars, monitorVars, link, conn>>
         /\ \A k \in Kinds \ {JobStatuses} : subs'[k] = subs[k]
         /\ wire' = wire \/ Adds(JobStatuses) \/ Takes(JobStatuses)
<1> subs \in [Kinds -> {"none", "running", "over"}]
  BY DEF Types, ConnTypes
<1>1. /\ UNCHANGED <<listVars, monitorVars, link, conn>>
      /\ \A k \in Kinds \ {JobStatuses} : subs'[k] = subs[k]
  BY DEF StatusStep, UpdateStats, DeleteStats, GrowOld, MakeEvent, SendStatus, StatusWakes,
    SubscribeStatus, UnsubscribeStatus, ReceiveStatus, Subscribe, Unsubscribe, Return, connVars,
    streamVars
<1>2. wire' = wire \/ Adds(JobStatuses) \/ Takes(JobStatuses)
  <2>1. CASE SendStatus
    <3> DEFINE m == [kind |-> JobStatuses, jobs |-> out]
    <3>1. m \in Messages /\ m.kind = JobStatuses
      BY <2>1 DEF SendStatus, Types, StatusTypes, Messages, StatusEvents
    <3> QED BY <2>1, <3>1 DEF SendStatus, Send, Adds
  <2>2. CASE ~SendStatus
    BY <2>2 DEF StatusStep, UpdateStats, DeleteStats, GrowOld, MakeEvent, StatusWakes,
      SubscribeStatus, UnsubscribeStatus, ReceiveStatus, Subscribe, Unsubscribe, connVars, Takes
  <2> QED BY <2>1, <2>2
<1> QED BY <1>1, <1>2

LEMMA MonitorStepLeaves ==
  ASSUME Types, MonitorStep
  PROVE  /\ UNCHANGED <<listVars, statusVars, link, conn>>
         /\ \A k \in Kinds \ {Resources} : subs'[k] = subs[k]
         /\ wire' = wire \/ Adds(Resources) \/ Takes(Resources)
<1> subs \in [Kinds -> {"none", "running", "over"}]
  BY DEF Types, ConnTypes
<1>1. /\ UNCHANGED <<listVars, statusVars, link, conn>>
      /\ \A k \in Kinds \ {Resources} : subs'[k] = subs[k]
  BY DEF MonitorStep, Measure, StartMonitor, SendMeasurement, SubscribeMonitor, UnsubscribeMonitor,
    ReceiveMeasurement, Subscribe, Unsubscribe, Return, connVars
<1>2. wire' = wire \/ Adds(Resources) \/ Takes(Resources)
  <2>1. CASE SendMeasurement
    <3>1. \A i \in Nat : Measurement(i) \in Messages /\ Measurement(i).kind = Resources
      BY DEF Measurement, Messages, Numbers
    <3>2. /\ backlog # <<>> => Head(backlog) \in Nat
          /\ recvChannel # <<>> => Head(recvChannel) \in Nat
      BY DEF Types, MonitorTypes, QueueTypes
    <3> QED BY <2>1, <3>1, <3>2 DEF SendMeasurement, Send, Adds
  <2>2. CASE ~SendMeasurement
    BY <2>2 DEF MonitorStep, Measure, StartMonitor, SubscribeMonitor, UnsubscribeMonitor,
      ReceiveMeasurement, Subscribe, Unsubscribe, connVars, Takes
  <2> QED BY <2>1, <2>2
<1> QED BY <1>1, <1>2

-----------------------------------------------------------------------------
(* The types of the streams *)

LEMMA InitialTyped ==
  ASSUME Types, NEW l \in Lists
  PROVE  /\ Initial(l) \in Seq(RowChanges)
         /\ \A i \in DOMAIN Initial(l) :
              /\ Initial(l)[i].row \in Rows /\ Initial(l)[i].old = None
              /\ Initial(l)[i].new = tables[l][Initial(l)[i].row]
         /\ \A r \in Rows : tables[l][r] # None => \E i \in DOMAIN Initial(l) : Initial(l)[i].row = r
<1> DEFINE S == {r \in Rows : tables[l][r] # None}
           present == SetToSeq(S)
<1>1. IsFiniteSet(S)
  BY StreamsAssumption, FS_Subset
<1>2. \E p : p \in SetToSeqs(S)
  <2>1. PICK n \in Nat : ExistsBijection(1..n, S)
    BY <1>1, FS_NatBijection
  <2>2. PICK p \in Bijection(1..n, S) : TRUE
    BY <2>1 DEF ExistsBijection
  <2>3. IsFiniteSet(1..n) /\ Cardinality(1..n) = n
    BY FS_Interval
  <2>4. Cardinality(S) = n
    BY <2>1, <2>3, FS_Bijection
  <2>5. p \in [1..n -> S] /\ \A i, j \in 1..n : i # j => p[i] # p[j]
    BY <2>2 DEF Bijection, Injection, IsInjective
  <2> QED BY <2>4, <2>5 DEF SetToSeqs
<1>3. present \in SetToSeqs(S)
  <2>1. SetToSeqs(S) = {f \in [1..Cardinality(S) -> S] : \A i, j \in 1..Cardinality(S) : i # j => f[i] # f[j]}
    BY DEF SetToSeqs
  <2>2. \E f \in [1..Cardinality(S) -> S] : IsInjective(f)
    BY <1>2, <2>1 DEF IsInjective
  <2>3. present \in [1..Cardinality(S) -> S] /\ IsInjective(present)
    BY <2>2 DEF SetToSeq
  <2> QED BY <2>1, <2>3 DEF IsInjective
<1>4. present \in Seq(S) /\ \A x \in S : \E i \in DOMAIN present : present[i] = x
  BY <1>1, <1>3, Enumerates
<1>5. Initial(l) = [i \in DOMAIN present |-> [row |-> present[i], old |-> None, new |-> tables[l][present[i]]]]
  BY DEF Initial
<1>6. Len(present) \in Nat /\ DOMAIN present = 1..Len(present) /\ \A i \in DOMAIN present : present[i] \in S
  <2> HIDE DEF present, S
  <2> QED BY <1>4, SeqElement
<1>7. \A i \in DOMAIN present :
        [row |-> present[i], old |-> None, new |-> tables[l][present[i]]] \in RowChanges
  BY <1>6 DEF RowChanges, Types, ListTypes
<1> HIDE DEF present
<1>8. Initial(l) \in Seq(RowChanges)
  BY <1>5, <1>6, <1>7
<1>9. /\ DOMAIN Initial(l) = DOMAIN present
      /\ \A i \in DOMAIN present : /\ Initial(l)[i].row = present[i] /\ Initial(l)[i].old = None
                                   /\ Initial(l)[i].new = tables[l][present[i]]
  BY <1>5
<1> QED BY <1>4, <1>6, <1>8, <1>9

LEMMA ListTypesStep == ASSUME Types, [Next]_vars PROVE ListTypes'
<1>0. /\ ListTypes /\ subs \in [Kinds -> {"none", "running", "over"}]
      /\ Lists \subseteq Lists \cup {JobStatuses, Resources} /\ Sync \notin Lists
      /\ JobStatuses \notin Lists /\ Resources \notin Lists
  BY DEF Types, ConnTypes, Lists, JobStatuses, Resources, Sync
<1>1. CASE UNCHANGED listVars /\ \A k \in Kinds \cap Lists : subs'[k] = subs[k]
  BY <1>0, <1>1 DEF ListTypes, listVars
<1>2. ASSUME NEW l \in Lists, ListStep(l), l \in Kinds \/ ReceiveListEvent(l) PROVE ListTypes'
  <2>0. \A k \in Kinds \ {l} : subs'[k] = subs[k]
    BY <1>2, ListStepLeaves
  <2>1. ASSUME NEW r \in Rows, NEW n \in Names \cup {None}, ChangeRow(l, r, n) PROVE ListTypes'
    <3>1. UNCHANGED <<subs, opened, view>> /\ tables' = [tables EXCEPT ![l][r] = n]
      BY <2>1 DEF ChangeRow, connVars
    <3>2. tables' \in [Lists -> [Rows -> Names \cup {None}]]
      BY <1>0, <3>1 DEF ListTypes
    <3>3. feed' \in [Lists -> Seq(RowChanges)]
      <4> DEFINE c == [row |-> r, old |-> tables[l][r], new |-> n]
      <4>1. c \in RowChanges
        BY <1>0, <2>1 DEF ChangeRow, RowChanges, ListTypes
      <4> HIDE DEF c
      <4>2. feed' = feed \/ feed' = [feed EXCEPT ![l] = Append(feed[l], c)]
        BY <2>1 DEF ChangeRow, c
      <4>3. feed \in [Lists -> Seq(RowChanges)]
        BY <1>0 DEF ListTypes
      <4>4. Append(feed[l], c) \in Seq(RowChanges)
        BY <4>1, <4>3, AppendFacts
      <4> QED BY <4>2, <4>3, <4>4
    <3> QED BY <1>0, <3>1, <3>2, <3>3 DEF ListTypes
  <2>2. CASE OpenFeed(l)
    <3>1. Initial(l) \in Seq(RowChanges)
      BY InitialTyped
    <3>2. /\ UNCHANGED <<subs, tables, view>> /\ opened' = opened \cup {l} /\ subs[l] = "running"
          /\ feed' = [feed EXCEPT ![l] = Initial(l)]
      BY <2>2 DEF OpenFeed, connVars, Running
    <3>3. feed' \in [Lists -> Seq(RowChanges)]
      BY <1>0, <3>1, <3>2 DEF ListTypes
    <3>4. l \in Kinds
      BY <1>2, <2>2 DEF OpenFeed, ReceiveListEvent, connVars, listVars
    <3> QED BY <1>0, <3>2, <3>3, <3>4 DEF ListTypes
  <2>3. CASE SendListEvent(l)
    <3>1. feed[l] # <<>> /\ feed' = [feed EXCEPT ![l] = Tail(feed[l])] /\ UNCHANGED <<subs, tables, opened, view>>
      BY <2>3 DEF SendListEvent
    <3>2. feed \in [Lists -> Seq(RowChanges)]
      BY <1>0 DEF ListTypes
    <3>3. Tail(feed[l]) \in Seq(RowChanges)
      BY <3>1, <3>2, TailFacts
    <3>4. feed' \in [Lists -> Seq(RowChanges)]
      BY <3>1, <3>2, <3>3
    <3> QED BY <1>0, <3>1, <3>4 DEF ListTypes
  <2>4. CASE SubscribeList(l)
    <3>1. /\ UNCHANGED <<tables, opened, feed>> /\ view' = [view EXCEPT ![l] = NoRows]
          /\ subs' = [subs EXCEPT ![l] = "running"]
      BY <2>4 DEF SubscribeList, Subscribe
    <3>2. NoRows \in [Rows -> Rows \cup Names \cup {None}]
      BY DEF NoRows
    <3> QED BY <1>0, <3>1, <3>2 DEF ListTypes
  <2>5. CASE UnsubscribeList(l) \/ FeedFails(l)
    <3>1. /\ opened' = opened \ {l} /\ feed' = [feed EXCEPT ![l] = <<>>] /\ UNCHANGED <<tables, view>>
      BY <2>5 DEF UnsubscribeList, FeedFails, CloseFeed
    <3>2. <<>> \in Seq(RowChanges)
      OBVIOUS
    <3> QED BY <1>0, <2>0, <3>1, <3>2 DEF ListTypes
  <2>6. CASE ReceiveListEvent(l)
    <3>1. /\ UNCHANGED <<subs, tables, opened, feed>> /\ wire # <<>> /\ Head(wire).kind = l
          /\ view' = [view EXCEPT ![l] = Apply(view[l], Head(wire))]
      BY <2>6 DEF ReceiveListEvent
    <3>2. Head(wire) \in ListEvents
      BY <3>1, FirstMessage, MessageKinds
    <3>3. Apply(view[l], Head(wire)) \in [Rows -> Rows \cup Names \cup {None}]
      BY <1>0, <3>2 DEF Apply, NameAfter, ListTypes, ListEvents
    <3> QED BY <1>0, <3>1, <3>3 DEF ListTypes
  <2> QED BY <1>2, <2>1, <2>2, <2>3, <2>4, <2>5, <2>6 DEF ListStep
<1>3. CASE Close
  <2>1. <<>> \in Seq(RowChanges)
    OBVIOUS
  <2> QED BY <1>0, <1>3, <2>1 DEF Close, ForgetStreams, ListTypes
<1>4. CASE StatusStep
  BY <1>0, <1>1, <1>4, StatusStepLeaves
<1>5. CASE MonitorStep
  BY <1>0, <1>1, <1>5, MonitorStepLeaves
<1>6. CASE Aside
  BY <1>0, <1>1, <1>6 DEF Aside, streamVars
<1> QED BY <1>2, <1>3, <1>4, <1>5, <1>6, StepsOfStreams

LEMMA StatusTypesStep == ASSUME Types, [Next]_vars PROVE StatusTypes'
<1>0. /\ StatusTypes /\ changes \in 0..MaxChanges /\ changes \in Nat /\ MaxChanges \in Nat
      /\ None \notin Nat
  BY StreamsAssumption DEF Types, MonitorTypes, CountTypes
<1>1. ASSUME UNCHANGED statusVars, changes' \in {changes, changes + 1} PROVE StatusTypes'
  <2>1. 1..changes \subseteq 1..changes'
    BY <1>0, <1>1
  <2> QED BY <1>0, <1>1, <2>1 DEF StatusTypes, statusVars
<1>2. ASSUME NEW l \in Lists, ListStep(l) PROVE StatusTypes'
  BY <1>1, <1>2, ListStepLeaves DEF ListStep, ChangeRow, OpenFeed, SendListEvent, SubscribeList,
    UnsubscribeList, FeedFails, ReceiveListEvent, Count
<1>3. CASE MonitorStep
  BY <1>1, <1>3, MonitorStepLeaves DEF MonitorStep, Measure, StartMonitor, SendMeasurement,
    SubscribeMonitor, UnsubscribeMonitor, ReceiveMeasurement, Count
<1>4. CASE Aside \/ Close
  BY <1>1, <1>4 DEF Aside, streamVars, Close, ForgetStreams
<1>5. CASE StatusStep
  <2>1. ASSUME NEW j \in Jobs, UpdateStats(j) PROVE StatusTypes'
    <3>1. /\ changes' = changes + 1 /\ UNCHANGED <<past, lastSend, statusAt, out, statusView>>
          /\ stats' = [stats EXCEPT ![j] = IF stats[j] = None THEN 1 ELSE stats[j] + 1]
      BY <2>1 DEF UpdateStats, Count
    <3>2. \A i \in Jobs : stats[i] \in 1..changes \/ stats[i] = None
      BY <1>0 DEF StatusTypes
    <3>3. \A c \in 1..changes : c \in 1..(changes + 1) /\ c + 1 \in 1..(changes + 1)
      BY <1>0
    <3>4. 1 \in 1..(changes + 1)
      BY <1>0
    <3>5. stats' \in [Jobs -> (1..(changes + 1)) \cup {None}]
      BY <1>0, <3>1, <3>2, <3>3, <3>4 DEF StatusTypes
    <3> QED BY <1>0, <3>1, <3>5 DEF StatusTypes
  <2>2. ASSUME NEW j \in Jobs, DeleteStats(j) \/ GrowOld(j) PROVE StatusTypes'
    <3>1. /\ changes' = changes + 1 /\ UNCHANGED <<lastSend, statusAt, out, statusView>>
          /\ stats' = stats \/ stats' = [stats EXCEPT ![j] = None]
          /\ past' = past \cup {j}
      BY <2>2 DEF DeleteStats, GrowOld, Count
    <3>2. 1..changes \subseteq 1..changes'
      BY <1>0, <3>1
    <3> QED BY <1>0, <3>1, <3>2 DEF StatusTypes
  <2>3. CASE MakeEvent
    <3>1. Snapshot \in [Jobs -> (1..changes) \cup {None}] /\ Snapshot \in [Jobs -> Counts]
      BY <1>0 DEF Snapshot, StatusTypes, Counts
    <3>2. Difference(Snapshot, lastSend) \in Differences
      <4> DEFINE D == {i \in Jobs : Snapshot[i] # lastSend[i]}
      <4>1. D \in SUBSET Jobs
        OBVIOUS
      <4>2. [j \in D |-> Snapshot[j]] \in [D -> Counts]
        BY <3>1
      <4>3. Difference(Snapshot, lastSend) = [j \in D |-> Snapshot[j]]
        BY DEF Difference
      <4> QED BY <4>1, <4>2, <4>3 DEF Differences
    <3>3. /\ stats' = Snapshot /\ lastSend' = Snapshot /\ out' = Difference(Snapshot, lastSend)
          /\ statusAt' \in {"sending", "sleeping"} /\ UNCHANGED <<past, statusView, changes>>
      BY <2>3 DEF MakeEvent
    <3> QED BY <1>0, <3>1, <3>2, <3>3 DEF StatusTypes
  <2>4. CASE SendStatus \/ StatusWakes \/ UnsubscribeStatus
    BY <1>0, <2>4 DEF SendStatus, StatusWakes, UnsubscribeStatus, streamVars, statusVars, StatusTypes
  <2>5. CASE SubscribeStatus
    <3>1. NoJobs \in [Jobs -> Counts]
      BY DEF NoJobs, Counts
    <3> QED BY <1>0, <2>5, <3>1 DEF SubscribeStatus, StatusTypes
  <2>6. CASE ReceiveStatus
    <3>1. Head(wire).jobs \in Differences
      BY <2>6, FirstMessage, MessageKinds DEF ReceiveStatus
    <3>2. \A d \in Differences : Merge(statusView, d) \in [Jobs -> Counts]
      <4>1. TAKE d \in Differences
      <4>2. PICK S \in SUBSET Jobs : d \in [S -> Counts]
        BY DEF Differences
      <4>3. statusView \in [Jobs -> Counts]
        BY <1>0 DEF StatusTypes
      <4> QED BY <4>2, <4>3 DEF Merge
    <3> QED BY <1>0, <2>6, <3>1, <3>2 DEF ReceiveStatus, StatusTypes
  <2> QED BY <1>5, <2>1, <2>2, <2>3, <2>4, <2>5, <2>6 DEF StatusStep
<1> QED BY <1>2, <1>3, <1>4, <1>5, StepsOfStreams

(* A deque with a bound: its last elements.                                *)
LEMMA LastOfFacts ==
  ASSUME NEW S, NEW s \in Seq(S), NEW n \in Nat
  PROVE  /\ LastOf(n, s) \in Seq(S)
         /\ Len(LastOf(n, s)) = IF Len(s) > n THEN n ELSE Len(s)
         /\ \A i \in 1..Len(LastOf(n, s)) : LastOf(n, s)[i] = s[Len(s) - Len(LastOf(n, s)) + i]
<1>1. PICK m \in Nat : m = Len(s)
  OBVIOUS
<1>2. PICK k \in Nat : k <= m /\ k = IF m > n THEN m - n ELSE 0
  BY <1>1
<1> DEFINE last == SubSeq(s, 1 + k, m)
<1>3. LastOf(n, s) = last
  BY <1>1, <1>2 DEF LastOf
<1>4. last \in Seq(S) /\ Len(last) = m - k /\ \A i \in 1..(m - k) : last[i] = s[k + i]
  <2>1. 1 + k \in Nat \ {0} /\ m = Len(s)
    BY <1>1
  <2>2. \A a \in Nat \ {0} : a <= Len(s) + 1 =>
          /\ SubSeq(s, a, Len(s)) \in Seq(S) /\ Len(SubSeq(s, a, Len(s))) = Len(s) + 1 - a
          /\ \A i \in 1..(Len(s) + 1 - a) : SubSeq(s, a, Len(s))[i] = s[a + i - 1]
    OBVIOUS
  <2>3. m + 1 - (1 + k) = m - k /\ 1 + k <= m + 1 /\ \A i \in 1..(m - k) : 1 + k + i - 1 = k + i
    BY <1>2
  <2> QED BY <2>1, <2>2, <2>3
<1>5. m - (m - k) = k /\ m - k = IF m > n THEN n ELSE m
  BY <1>1, <1>2
<1> QED BY <1>1, <1>3, <1>4, <1>5

(* Appending to a deque with a bound, and to a channel with room.          *)
LEMMA BoundedFacts ==
  ASSUME NEW S, NEW s \in Seq(S), NEW e \in S, NEW n \in Nat
  PROVE  /\ LastOf(n, Append(s, e)) \in Seq(S) /\ Len(LastOf(n, Append(s, e))) <= n
         /\ Len(s) < n => Append(s, e) \in Seq(S) /\ Len(Append(s, e)) <= n
         /\ Len(s) <= n /\ s # <<>> => Len(Tail(s)) <= n
         /\ <<>> \in Seq(S) /\ Len(<<>>) <= n
<1>1. Append(s, e) \in Seq(S) /\ Len(Append(s, e)) = Len(s) + 1 /\ Len(s) \in Nat
  BY AppendFacts
<1>2. LastOf(n, Append(s, e)) \in Seq(S) /\ Len(LastOf(n, Append(s, e))) <= n
  <2>1. PICK longer : longer = Append(s, e)
    OBVIOUS
  <2>2. longer \in Seq(S) /\ Len(longer) \in Nat
    BY <1>1, <2>1
  <2>3. LastOf(n, longer) \in Seq(S) /\ Len(LastOf(n, longer)) <= n
    BY <2>2, LastOfFacts
  <2> QED BY <2>1, <2>3
<1>3. s # <<>> => Len(Tail(s)) = Len(s) - 1
  BY TailFacts
<1>4. <<>> \in Seq(S) /\ Len(<<>>) <= n
  OBVIOUS
<1> QED BY <1>1, <1>2, <1>3, <1>4

LEMMA MonitorTypesStep == ASSUME Types, [Next]_vars PROVE MonitorTypes'
<1>0. /\ CountTypes /\ ListenTypes /\ QueueTypes
      /\ subs \in [Kinds -> {"none", "running", "over"}]
      /\ MonitorChannel \in Nat /\ BufferSize \in Nat /\ MaxChanges \in Nat
      /\ changes \in Nat /\ measured \in Nat /\ Len(recvChannel) \in Nat
      /\ Resources \notin Lists /\ Resources # JobStatuses /\ Resources # Sync
  BY StreamsAssumption DEF Types, MonitorTypes, CountTypes, QueueTypes, ConnTypes, Resources, Lists,
    JobStatuses, Sync
<1>1. ASSUME UNCHANGED measured, changes' = changes \/ Count PROVE CountTypes'
  BY <1>0, <1>1 DEF Count, CountTypes
<1>2. ASSUME UNCHANGED <<measurements, backlog, recvChannel, seen>> PROVE QueueTypes'
  BY <1>0, <1>2 DEF QueueTypes
<1>3. ASSUME UNCHANGED monitorVars, changes' = changes \/ Count,
             Resources \in Kinds => subs'[Resources] = subs[Resources]
      PROVE  MonitorTypes'
  <2>1. UNCHANGED <<measured, measurements, listening, backlog, recvChannel, seen>>
    BY <1>3 DEF monitorVars
  <2> QED BY <1>0, <1>1, <1>2, <1>3, <2>1 DEF MonitorTypes, ListenTypes
<1>4. ASSUME NEW l \in Lists, ListStep(l) PROVE MonitorTypes'
  <2>1. changes' = changes \/ Count
    BY <1>4 DEF ListStep, ChangeRow, OpenFeed, SendListEvent, SubscribeList,
      UnsubscribeList, FeedFails, ReceiveListEvent
  <2> QED BY <1>0, <1>3, <1>4, <2>1, ListStepLeaves
<1>5. CASE StatusStep
  <2>1. changes' = changes \/ Count
    BY <1>5 DEF StatusStep, UpdateStats, DeleteStats, GrowOld, MakeEvent, SendStatus, StatusWakes,
      SubscribeStatus, UnsubscribeStatus, ReceiveStatus, streamVars
  <2> QED BY <1>0, <1>3, <1>5, <2>1, StatusStepLeaves
<1>6. CASE Aside
  BY <1>0, <1>3, <1>6 DEF Aside, streamVars
<1>7. ASSUME backlog' = <<>>, recvChannel' = <<>>, UNCHANGED <<measurements, seen>> PROVE QueueTypes'
  BY <1>0, <1>7, BoundedFacts DEF QueueTypes
<1>8. CASE Close
  BY <1>1, <1>7, <1>8 DEF Close, ForgetStreams, MonitorTypes, ListenTypes
<1>9. CASE MonitorStep /\ (Resources \in Kinds \/ ReceiveMeasurement)
  <2>1. CASE Measure
    <3>1. /\ measured' = measured + 1 /\ changes' = changes + 1 /\ changes < MaxChanges
          /\ UNCHANGED <<backlog, listening, seen, subs>>
          /\ measurements' = LastOf(BufferSize, Append(measurements, measured + 1))
          /\ recvChannel' = recvChannel
             \/ (Len(recvChannel) < MonitorChannel /\ recvChannel' = Append(recvChannel, measured + 1))
      BY <2>1 DEF Measure, Count, connVars
    <3>2. CountTypes'
      BY <1>0, <3>1 DEF CountTypes
    <3>3. QueueTypes'
      <4>1. measurements \in Seq(Nat) /\ recvChannel \in Seq(Nat) /\ measured + 1 \in Nat
        BY <1>0 DEF QueueTypes
      <4>2. measurements' \in Seq(Nat) /\ Len(measurements') <= BufferSize
        BY <1>0, <3>1, <4>1, BoundedFacts
      <4>3. recvChannel' \in Seq(Nat) /\ Len(recvChannel') <= MonitorChannel
        <5>1. CASE recvChannel' = recvChannel
          BY <1>0, <5>1 DEF QueueTypes
        <5>2. CASE Len(recvChannel) < MonitorChannel /\ recvChannel' = Append(recvChannel, measured + 1)
          BY <1>0, <4>1, <5>2, BoundedFacts
        <5> QED BY <3>1, <5>1, <5>2
      <4> QED BY <1>0, <3>1, <4>2, <4>3 DEF QueueTypes
    <3> QED BY <1>0, <3>1, <3>2, <3>3 DEF MonitorTypes, ListenTypes
  <2>2. CASE SubscribeMonitor
    <3>1. UNCHANGED <<measurements, backlog, recvChannel>> /\ seen' = <<>>
      BY <2>2 DEF SubscribeMonitor
    <3>2. QueueTypes'
      BY <1>0, <3>1, BoundedFacts DEF QueueTypes
    <3> QED BY <1>0, <1>1, <2>2, <3>2 DEF SubscribeMonitor, Subscribe, MonitorTypes, ListenTypes
  <2>3. CASE StartMonitor
    <3>1. History \in Seq(Nat)
      BY <1>0, StreamsAssumption, LastOfFacts DEF History, QueueTypes
    <3>2. Resources \in Kinds /\ subs'[Resources] = "running"
      BY <1>9, <2>3 DEF StartMonitor, ReceiveMeasurement, Running, connVars
    <3>3. /\ UNCHANGED <<measured, measurements, seen, changes>> /\ listening' = TRUE
          /\ recvChannel' = <<>> /\ backlog' = History
      BY <2>3 DEF StartMonitor
    <3>4. QueueTypes'
      BY <1>0, <3>1, <3>3, BoundedFacts DEF QueueTypes
    <3> QED BY <1>1, <3>2, <3>3, <3>4 DEF MonitorTypes, ListenTypes
  <2>4. CASE SendMeasurement
    <3>1. /\ UNCHANGED <<measured, measurements, seen, changes, listening, subs>>
          /\ \/ backlog # <<>> /\ backlog' = Tail(backlog) /\ UNCHANGED recvChannel
             \/ recvChannel # <<>> /\ recvChannel' = Tail(recvChannel) /\ UNCHANGED backlog
      BY <2>4 DEF SendMeasurement
    <3>2. QueueTypes'
      <4>1. CASE backlog # <<>> /\ backlog' = Tail(backlog) /\ UNCHANGED recvChannel
        BY <1>0, <3>1, <4>1, TailFacts DEF QueueTypes
      <4>2. CASE recvChannel # <<>> /\ recvChannel' = Tail(recvChannel) /\ UNCHANGED backlog
        <5>1. recvChannel' \in Seq(Nat) /\ Len(recvChannel') <= MonitorChannel
          BY <1>0, <4>2, TailFacts, BoundedFacts DEF QueueTypes
        <5> QED BY <1>0, <3>1, <4>2, <5>1 DEF QueueTypes
      <4> QED BY <3>1, <4>1, <4>2
    <3> QED BY <1>0, <1>1, <3>1, <3>2 DEF MonitorTypes, ListenTypes
  <2>5. CASE UnsubscribeMonitor
    BY <1>1, <1>7, <2>5 DEF UnsubscribeMonitor, MonitorTypes, ListenTypes
  <2>6. CASE ReceiveMeasurement
    <3>1. Head(wire).number \in Nat
      BY <2>6, FirstMessage, MessageKinds DEF ReceiveMeasurement
    <3>2. /\ UNCHANGED <<measured, measurements, changes, listening, subs, backlog, recvChannel>>
          /\ seen' = Append(seen, Head(wire).number)
      BY <2>6 DEF ReceiveMeasurement
    <3>3. QueueTypes'
      BY <1>0, <3>1, <3>2, AppendFacts DEF QueueTypes
    <3> QED BY <1>0, <1>1, <3>2, <3>3 DEF MonitorTypes, ListenTypes
  <2> QED BY <1>9, <2>1, <2>2, <2>3, <2>4, <2>5, <2>6 DEF MonitorStep
<1> QED BY <1>4, <1>5, <1>6, <1>8, <1>9, StepsOfStreams

LEMMA TypesInit == Init => Types
<1> SUFFICES ASSUME Init PROVE Types
  OBVIOUS
<1> USE ConnectionAssumption, SyncAssumption, StreamsAssumption, SubscriptionsAssumption
<1>1. ConnTypes
  BY DEF Init, ConnectionInit, ConnTypes
<1>2. <<>> \in Seq(Messages) /\ <<>> \in Seq(Nat) /\ <<>> \in Seq(RowChanges) /\ Len(<<>>) = 0
      /\ <<>> \in Seq([item : 1..0, joined : BOOLEAN]) /\ <<>> \in Seq(1..0) /\ DOMAIN <<>> = {}
  OBVIOUS
<1>3. WireTypes /\ WireItems
  BY <1>2 DEF Init, ConnectionInit, WireTypes, WireItems
<1>4. StorageTypes
  BY DEF Init, SyncInit, StorageTypes
<1>5. SyncTypes
  <2>1. PhaseTypes
    <3>1. current \in 0..(sequence + 1) /\ horizon \in 0..sequence
      BY DEF Init, SyncInit
    <3> QED BY <3>1 DEF Init, SyncInit, PhaseTypes
  <2>2. PageTypes /\ ReceivedTypes
    BY <1>2 DEF Init, SyncInit, PageTypes, ReceivedTypes
  <2>3. ChannelTypes
    <3> DEFINE B == BOOLEAN
    <3> HIDE DEF B
    <3>1. channel \in Seq(B) /\ Len(channel) <= ChannelSize
      BY DEF Init, SyncInit
    <3> QED BY <3>1 DEF B, ChannelTypes
  <2> QED BY <2>1, <2>2, <2>3 DEF SyncTypes
<1>6. ListTypes
  <2>1. (CHOOSE r \in Rows : TRUE) \in Rows /\ (CHOOSE n \in Names : TRUE) \in Names
    OBVIOUS
  <2> QED BY <1>2, <2>1 DEF Init, StreamInit, ListTypes, NoRows
<1>7. StatusTypes
  BY DEF Init, StreamInit, StatusTypes, NoJobs, Counts
<1>8. MonitorTypes
  <2>1. QueueTypes
    <3>1. <<>> \in Seq(Nat) /\ Len(<<>>) <= BufferSize /\ Len(<<>>) <= MonitorChannel
      BY BoundedFacts
    <3> QED BY <3>1 DEF Init, StreamInit, QueueTypes
  <2>2. CountTypes
    BY DEF Init, StreamInit, CountTypes
  <2>3. ListenTypes
    BY DEF Init, StreamInit, ListenTypes
  <2> QED BY <2>1, <2>2, <2>3 DEF MonitorTypes
<1> QED BY <1>1, <1>3, <1>4, <1>5, <1>6, <1>7, <1>8 DEF Types

LEMMA TypesStep == ASSUME Types, [Next]_vars PROVE Types'
BY ConnTypeStep, WireTypeStep, StorageTypeStep, SyncTypeStep, WireItemsStep, ListTypesStep,
  StatusTypesStep, MonitorTypesStep DEF Types

LEMMA TypesSuffice == Types => TypeOK
<1> SUFFICES ASSUME Types PROVE TypeOK
  OBVIOUS
<1>1. sequence \in Nat /\ MaxSequence \in Nat /\ sequence <= MaxSequence /\ changes \in Nat
      /\ MaxChanges \in Nat /\ changes <= MaxChanges
  BY SyncAssumption, StreamsAssumption DEF Types, StorageTypes, MonitorTypes, CountTypes
<1>2. SyncTypeOK
  <2>1. horizon \in 0..MaxSequence
    BY <1>1 DEF Types, SyncTypes, PhaseTypes
  <2> QED BY <2>1 DEF Types, SyncTypes, StorageTypes, PhaseTypes, PageTypes, ChannelTypes,
        ReceivedTypes, SyncTypeOK
<1>3. stats \in [Jobs -> (1..MaxChanges) \cup {None}] /\ past \subseteq Jobs
  <2>1. 1..changes \subseteq 1..MaxChanges
    BY <1>1
  <2> QED BY <2>1 DEF Types, StatusTypes
<1>4. measured \in 0..MaxChanges /\ changes \in 0..MaxChanges
  BY <1>1 DEF Types, MonitorTypes, CountTypes
<1> QED BY <1>2, <1>3, <1>4 DEF Types, ConnTypes, WireTypes, ListTypes, StatusTypes,
      MonitorTypes, QueueTypes, TypeOK

-----------------------------------------------------------------------------
(* A sync that ends unasked has seen the end of its job *)

(* As long as the job runs nothing says that it has ended.                 *)
Unfinished ==
  /\ event = "none" /\ ~completed /\ ~ended /\ phase # "closing"
  /\ \A k \in DOMAIN channel : ~channel[k]
  /\ \A k \in DOMAIN wire : wire[k].kind = Sync /\ wire[k].item = 0 => wire[k].wanted
EndFits == job = "running" => Unfinished

(* The messages that a step leaves in the network.                         *)
LEMMA WireElements ==
  ASSUME Types
  PROVE  /\ \A m \in Messages : wire' = Append(wire, m) =>
              \A i \in DOMAIN wire' : wire'[i] = m \/ \E j \in DOMAIN wire : wire'[i] = wire[j]
         /\ \A k : Takes(k) => \A i \in DOMAIN wire' : \E j \in DOMAIN wire : wire'[i] = wire[j]
<1>1. wire \in Seq(Messages) /\ Len(wire) \in Nat /\ DOMAIN wire = 1..Len(wire)
  BY DEF Types, WireTypes
<1>2. ASSUME NEW m \in Messages, wire' = Append(wire, m), NEW i \in DOMAIN wire'
      PROVE  wire'[i] = m \/ \E j \in DOMAIN wire : wire'[i] = wire[j]
  <2>1. /\ DOMAIN wire' = 1..(Len(wire) + 1) /\ wire'[Len(wire) + 1] = m
        /\ \A j \in 1..Len(wire) : wire'[j] = wire[j]
    BY <1>1, <1>2, AppendFacts
  <2> QED BY <1>1, <2>1
<1>3. ASSUME NEW k, Takes(k), NEW i \in DOMAIN wire' PROVE \E j \in DOMAIN wire : wire'[i] = wire[j]
  <2>1. wire # <<>> /\ wire' = Tail(wire)
    BY <1>3 DEF Takes
  <2>2. DOMAIN wire' = 1..(Len(wire) - 1) /\ \A j \in 1..(Len(wire) - 1) : wire'[j] = wire[j + 1]
    BY <1>1, <2>1, TailFacts
  <2>3. i + 1 \in DOMAIN wire
    BY <1>1, <2>2
  <2> QED BY <2>2, <2>3
<1> QED BY <1>2, <1>3

LEMMA EndFitsStep == ASSUME Types, EndFits, [Next]_vars PROVE EndFits'
<1> SUFFICES ASSUME job' = "running" PROVE Unfinished'
  BY DEF EndFits
<1>0. job = "running"
  <2>1. CASE StorageNext
    BY <2>1 DEF StorageNext, StoreOther, StoreItem, StoreBody, AbandonBody, FinishJob, SendEvent,
      OtherEvent, DeleteItems, DeleteRow, jobVars
  <2>2. CASE ~StorageNext
    BY <2>2, JobStays DEF jobVars
  <2> QED BY <2>1, <2>2
<1>1. Unfinished
  BY <1>0 DEF EndFits
<1> DEFINE Wanted == \A k \in DOMAIN wire : wire[k].kind = Sync /\ wire[k].item = 0 => wire[k].wanted
           Others == \A k \in DOMAIN channel : ~channel[k]
<1>2. Wanted /\ Others /\ event = "none" /\ ~completed /\ ~ended /\ phase # "closing"
  BY <1>1 DEF Unfinished
<1>3. Wanted'
  <2>1. CASE wire' = wire \/ wire' = <<>>
    BY <1>2, <2>1
  <2>2. ASSUME NEW k, Takes(k) PROVE Wanted'
    BY <1>2, <2>2, WireElements
  <2>3. ASSUME NEW m \in Messages, wire' = Append(wire, m), m.kind = Sync /\ m.item = 0 => m.wanted
        PROVE  Wanted'
    BY <1>2, <2>3, WireElements
  <2>4. CASE SyncStep
    <3>1. CASE SendItem
      <4>1. page # <<>> /\ wire' = Append(wire, Item(Head(page).item))
        BY <3>1 DEF SendItem, Send
      <4>2. Head(page).item \in Nat \ {0}
        BY <4>1, FirstOfPage, SyncAssumption DEF Types, StorageTypes
      <4>3. Item(Head(page).item) \in Messages /\ Item(Head(page).item).item # 0
        BY <4>2 DEF Item, Messages, ItemMessages
      <4> QED BY <2>3, <4>1, <4>3
    <3>2. CASE SendComplete
      <4> DEFINE m == Complete(phase = "unsubscribed")
      <4>1. m \in Messages /\ m.wanted = TRUE
        BY <1>2, <3>2 DEF SendComplete, Complete, Messages, CompleteMessages
      <4>2. wire' = Append(wire, m)
        BY <3>2 DEF SendComplete, Send
      <4> QED BY <2>3, <4>1, <4>2
    <3>3. CASE ~SendItem /\ ~SendComplete
      <4>1. wire' = wire \/ Takes(Sync)
        BY <2>4, <3>3 DEF SyncStep, SyncNext, SyncTask, ReceiveSync, Takes, StorageNext, JobStatus,
          connVars, ReadJob, StartSync, Query, EndPage, ReadJobRaises, SendItemRaises, SyncSendFails,
          Raise, SubscribeSync, UnsubscribeSync, Subscribe, Unsubscribe
      <4> QED BY <2>1, <2>2, <4>1
    <3> QED BY <3>1, <3>2, <3>3
  <2>5. ASSUME NEW k \in StreamKinds, Stream(k) PROVE Wanted'
    <3>1. wire' = wire \/ (Adds(k) /\ k # Sync)
      BY <2>5, StreamWire
    <3> QED BY <2>1, <2>3, <3>1 DEF Adds
  <2> QED BY <2>1, <2>2, <2>4, <2>5, OtherWire DEF Next, vars, connVars
<1>4. Others' /\ event' = "none" /\ ~completed' /\ ~ended' /\ phase' # "closing"
  <2>0. /\ DOMAIN channel = 1..Len(channel) /\ Len(channel) \in Nat
        /\ channel' = <<>> => Others'
        /\ channel' = channel => Others'
        /\ channel # <<>> /\ channel' = Tail(channel) => Others' /\ ~Head(channel)
        /\ channel' = Append(channel, FALSE) => Others'
    <3> DEFINE B == BOOLEAN
    <3>1. channel \in Seq(B) /\ FALSE \in B
      BY DEF Types, SyncTypes, ChannelTypes
    <3> HIDE DEF B
    <3>2. DOMAIN channel = 1..Len(channel) /\ Len(channel) \in Nat
      BY <3>1
    <3>3. channel # <<>> /\ channel' = Tail(channel) => Others' /\ ~Head(channel)
      <4>1. HAVE channel # <<>> /\ channel' = Tail(channel)
      <4>2. /\ Head(channel) = channel[1] /\ DOMAIN channel' = 1..(Len(channel) - 1)
            /\ \A k \in 1..(Len(channel) - 1) : channel'[k] = channel[k + 1]
            /\ Len(channel) \in Nat \ {0}
        BY <3>1, <4>1, TailFacts
      <4>3. \A k \in 1..(Len(channel) - 1) : k + 1 \in DOMAIN channel
        BY <3>2, <4>2
      <4>4. 1 \in DOMAIN channel
        BY <3>2, <4>2
      <4> QED BY <1>2, <4>2, <4>3, <4>4
    <3>4. channel' = Append(channel, FALSE) => Others'
      <4>1. HAVE channel' = Append(channel, FALSE)
      <4>2. /\ DOMAIN channel' = 1..(Len(channel) + 1) /\ channel'[Len(channel) + 1] = FALSE
            /\ \A k \in 1..Len(channel) : channel'[k] = channel[k]
        BY <3>1, <4>1, AppendFacts
      <4>3. \A k \in 1..(Len(channel) + 1) : k \in DOMAIN channel \/ k = Len(channel) + 1
        BY <3>2
      <4> QED BY <1>2, <3>2, <4>2, <4>3
    <3>5. (channel' = <<>> => Others') /\ (channel' = channel => Others')
      BY <1>2
    <3> QED BY <3>2, <3>3, <3>4, <3>5
  <2> HIDE DEF Others
  <2>1. CASE StorageNext
    <3>1. channel' = channel \/ channel' = Append(channel, FALSE)
      BY <1>2, <2>1 DEF StorageNext, StoreOther, StoreItem, StoreBody, AbandonBody, FinishJob, SendEvent,
        OtherEvent, DeleteItems, DeleteRow, Notify, runVars
    <3>2. event' = event /\ UNCHANGED <<completed, ended, phase>>
      BY <1>2, <2>1 DEF StorageNext, StoreOther, StoreItem, StoreBody, AbandonBody, FinishJob, SendEvent,
        OtherEvent, DeleteItems, DeleteRow, runVars, clientVars, jobVars
    <3> QED BY <1>2, <2>0, <3>1, <3>2
  <2>2. CASE SyncNext /\ ~StorageNext
    <3>0. event' = "none"
      BY <1>2, <2>2, JobStays DEF jobVars
    <3>1. CASE ReadJob \/ StartSync \/ Query \/ EndPage \/ UnsubscribeSync \/ SubscribeSync \/ SendItem
      <4>1. UNCHANGED <<channel, ended>>
        BY <3>1 DEF ReadJob, StartSync, Query, EndPage, UnsubscribeSync, SubscribeSync, SendItem,
          runVars, clientVars
      <4>2. ~completed' /\ phase' # "closing"
        <5>1. CASE ReadJob
          <6>1. job \notin Finished
            BY <1>0 DEF Finished
          <6> QED BY <5>1, <6>1 DEF ReadJob
        <5>2. CASE EndPage
          BY <1>2, <5>2 DEF EndPage, AllSent
        <5>3. CASE StartSync \/ Query \/ UnsubscribeSync \/ SubscribeSync \/ SendItem
          <6>1. completed' = completed /\ (phase' = phase \/ phase' \in {"querying", "paging", "unsubscribed", "made"})
            BY <5>3 DEF StartSync, Query, UnsubscribeSync, SubscribeSync, SendItem, runVars
          <6> QED BY <1>2, <6>1
        <5> QED BY <3>1, <5>1, <5>2, <5>3
      <4> QED BY <1>2, <2>0, <3>0, <4>1, <4>2
    <3>2. CASE ReadJobRaises \/ SendItemRaises \/ SyncSendFails
      <4>1. UNCHANGED <<channel, completed, ended, phase>>
        BY <3>2 DEF ReadJobRaises, SendItemRaises, SyncSendFails, syncVars, runVars, clientVars
      <4> QED BY <1>2, <2>0, <3>0, <4>1
    <3>3. CASE JobStatus
      BY <1>2, <2>0, <3>0, <3>3 DEF JobStatus, clientVars
    <3>4. CASE SendComplete
      BY <1>2, <2>0, <3>0, <3>4 DEF SendComplete, Fresh, clientVars
    <3>5. CASE ReceiveSync
      <4>1. wire # <<>> /\ Head(wire).kind = Sync /\ Head(wire) = wire[1] /\ 1 \in DOMAIN wire
        BY <3>5, FirstMessage DEF ReceiveSync
      <4>2. Head(wire).item = 0 => Head(wire).wanted
        BY <1>2, <4>1
      <4>3. UNCHANGED <<channel, completed, phase>> /\ ~ended'
        BY <1>2, <3>5, <4>2 DEF ReceiveSync, runVars
      <4> QED BY <1>2, <2>0, <3>0, <4>3
    <3> QED BY <2>2, <3>1, <3>2, <3>3, <3>4, <3>5 DEF SyncNext, SyncTask
  <2>3. CASE Close
    BY <1>2, <2>0, <2>3 DEF Close, ForgetSync, Fresh, jobVars, clientVars
  <2>4. CASE ~SyncStep /\ ~Close
    <3>1. UNCHANGED <<channel, completed, ended, phase, event>>
      BY <2>4, SyncStays DEF syncVars, jobVars, runVars, clientVars
    <3> QED BY <1>2, <2>0, <3>1
  <2> QED BY <2>1, <2>2, <2>3, <2>4 DEF SyncStep
<1> QED BY <1>3, <1>4 DEF Unfinished

LEMMA EndFitsInit == Init => EndFits
BY DEF Init, ConnectionInit, SyncInit, EndFits, Unfinished

(* The variables of a client's subscriptions have their types, whatever    *)
(* it subscribes to.                                                       *)
THEOREM TypesHold == Spec => []Types
<1>1. Types /\ [Next]_vars => Types'
  BY TypesStep
<1> QED BY <1>1, TypesInit, PTL DEF Spec

(* COMPLETE comes unasked only when the job has finished.                  *)
THEOREM EndsAlways == Spec => []EndsWhenFinished
<1>1. Types /\ EndFits /\ [Next]_vars => EndFits'
  BY EndFitsStep
<1>2. Types /\ EndFits => EndsWhenFinished
  BY DEF EndFits, Unfinished, EndsWhenFinished
<1> QED BY <1>1, <1>2, EndFitsInit, TypesHold, PTL DEF Spec

-----------------------------------------------------------------------------
(* The items that were sent *)

(* The places in the network of items, and of a COMPLETE that nobody asked *)
(* for.                                                                    *)
Flights == {k \in DOMAIN wire : wire[k].kind = Sync /\ wire[k].item # 0}
Endings == {k \in DOMAIN wire : wire[k].kind = Sync /\ wire[k].item = 0 /\ ~wire[k].wanted}

Got == {received[i] : i \in DOMAIN received}
Flying == {wire[k].item : k \in Flights}
Sent == Got \cup Flying

(* The sync is over, or its COMPLETE is on its way.                        *)
Final == ended \/ Endings # {}

(* What was received and what is in flight is in order, and COMPLETE comes *)
(* last.                                                                   *)
WireOrder ==
  /\ \A i, j \in Flights : i < j => wire[i].item < wire[j].item
  /\ \A i \in Flights, j \in Endings : i < j
  /\ \A n \in Got, i \in Flights : n < wire[i].item
  /\ ended => Flights = {}

LEMMA WirePositions ==
  ASSUME Types
  PROVE  /\ DOMAIN wire = 1..Len(wire) /\ Len(wire) \in Nat
         /\ \A m \in Messages : wire' = Append(wire, m) =>
              /\ DOMAIN wire' = DOMAIN wire \cup {Len(wire) + 1} /\ wire'[Len(wire) + 1] = m
              /\ \A k \in DOMAIN wire : k < Len(wire) + 1 /\ wire'[k] = wire[k]
         /\ wire # <<>> /\ wire' = Tail(wire) =>
              /\ DOMAIN wire' = 1..(Len(wire) - 1) /\ 1 \in DOMAIN wire
              /\ \A k \in DOMAIN wire' : k + 1 \in DOMAIN wire /\ wire'[k] = wire[k + 1] /\ k \in Nat
              /\ \A k \in DOMAIN wire : k # 1 => k - 1 \in DOMAIN wire' /\ (k - 1) + 1 = k /\ k > 1
<1>1. wire \in Seq(Messages) /\ Len(wire) \in Nat /\ DOMAIN wire = 1..Len(wire)
  BY DEF Types, WireTypes
<1>2. ASSUME NEW m \in Messages, wire' = Append(wire, m)
      PROVE  /\ DOMAIN wire' = DOMAIN wire \cup {Len(wire) + 1} /\ wire'[Len(wire) + 1] = m
             /\ \A k \in DOMAIN wire : k < Len(wire) + 1 /\ wire'[k] = wire[k]
  <2>1. /\ DOMAIN wire' = 1..(Len(wire) + 1) /\ wire'[Len(wire) + 1] = m
        /\ \A j \in 1..Len(wire) : wire'[j] = wire[j]
    BY <1>1, <1>2, AppendFacts
  <2> QED BY <1>1, <2>1
<1>3. ASSUME wire # <<>>, wire' = Tail(wire)
      PROVE  /\ DOMAIN wire' = 1..(Len(wire) - 1) /\ 1 \in DOMAIN wire
             /\ \A k \in DOMAIN wire' : k + 1 \in DOMAIN wire /\ wire'[k] = wire[k + 1] /\ k \in Nat
             /\ \A k \in DOMAIN wire : k # 1 => k - 1 \in DOMAIN wire' /\ (k - 1) + 1 = k /\ k > 1
  <2>1. /\ DOMAIN wire' = 1..(Len(wire) - 1) /\ \A j \in 1..(Len(wire) - 1) : wire'[j] = wire[j + 1]
        /\ Len(wire) \in Nat \ {0}
    BY <1>1, <1>3, TailFacts
  <2> QED BY <1>1, <2>1
<1> QED BY <1>1, <1>2, <1>3

(* Messages of other subscriptions come and go.                            *)
LEMMA QuietWire ==
  ASSUME Types, WireOrder, UNCHANGED <<received, ended>>,
         wire' = wire \/ \E k : k # Sync /\ (Takes(k) \/ Adds(k))
  PROVE  WireOrder' /\ Got' = Got /\ Flying' = Flying /\ (Final' => Final)
<1>1. Got' = Got
  BY DEF Got
<1>2. CASE wire' = wire
  BY <1>2 DEF WireOrder, Flights, Endings, Got, Flying, Final
<1>3. ASSUME NEW k, k # Sync, Adds(k) PROVE WireOrder' /\ Flying' = Flying /\ (Final' => Final)
  <2>1. PICK m \in Messages : m.kind # Sync /\ wire' = Append(wire, m)
    BY <1>3 DEF Adds
  <2>2. /\ Flights' = Flights /\ Endings' = Endings /\ Flights \subseteq DOMAIN wire
        /\ \A i \in DOMAIN wire : wire'[i] = wire[i]
    <3>1. /\ DOMAIN wire' = DOMAIN wire \cup {Len(wire) + 1} /\ wire'[Len(wire) + 1] = m
          /\ \A i \in DOMAIN wire : wire'[i] = wire[i]
      BY <2>1, WirePositions
    <3> QED BY <2>1, <3>1 DEF Flights, Endings
  <2> QED BY <1>1, <2>2 DEF WireOrder, Flying, Final
<1>4. ASSUME NEW k, k # Sync, Takes(k) PROVE WireOrder' /\ Flying' = Flying /\ (Final' => Final)
  <2>1. wire # <<>> /\ wire' = Tail(wire) /\ wire[1].kind # Sync
    BY <1>4, FirstMessage DEF Takes
  <2>2. /\ \A i \in DOMAIN wire' : i + 1 \in DOMAIN wire /\ wire'[i] = wire[i + 1] /\ i \in Nat
        /\ \A i \in DOMAIN wire : i # 1 => i - 1 \in DOMAIN wire' /\ (i - 1) + 1 = i
    BY <2>1, WirePositions
  <2>3. /\ \A i \in Flights' : i + 1 \in Flights /\ wire'[i] = wire[i + 1] /\ i \in Nat
        /\ \A i \in Endings' : i + 1 \in Endings /\ i \in Nat
        /\ \A i \in Flights : i - 1 \in Flights' /\ (i - 1) + 1 = i
    BY <2>1, <2>2 DEF Flights, Endings
  <2>4. Flying' = Flying /\ (Final' => Final)
    BY <1>1, <2>3 DEF Flying, Final
  <2>5. \A i, j \in Nat : i < j <=> i + 1 < j + 1
    OBVIOUS
  <2>6. /\ \A i, j \in Flights' : i < j => wire'[i].item < wire'[j].item
        /\ \A i \in Flights', j \in Endings' : i < j
    BY <2>3, <2>5 DEF WireOrder
  <2>7. \A n \in Got', i \in Flights' : n < wire'[i].item
    BY <1>1, <2>3 DEF WireOrder
  <2>8. ended' => Flights' = {}
    BY <2>3 DEF WireOrder
  <2> QED BY <2>4, <2>6, <2>7, <2>8 DEF WireOrder
<1> QED BY <1>1, <1>2, <1>3, <1>4

(* What is in flight is lost.                                              *)
LEMMA LostWire ==
  ASSUME WireOrder, UNCHANGED <<received, ended>>, wire' = <<>>
  PROVE  WireOrder' /\ Got' = Got /\ Flying' = {} /\ (Final' => ended)
BY DEF WireOrder, Flights, Endings, Got, Flying, Final

(* An item is sent.                                                        *)
LEMMA SentWire ==
  ASSUME Types, WireOrder, ~Final, UNCHANGED <<received, ended>>,
         NEW n \in Nat \ {0}, wire' = Append(wire, Item(n)), \A x \in Sent : x < n
  PROVE  WireOrder' /\ Got' = Got /\ Flying' = Flying \cup {n} /\ ~Final'
<1>1. Item(n) \in Messages /\ Item(n).kind = Sync /\ Item(n).item = n
  BY DEF Item, Messages, ItemMessages
<1>2. /\ DOMAIN wire' = DOMAIN wire \cup {Len(wire) + 1} /\ wire'[Len(wire) + 1] = Item(n)
      /\ \A k \in DOMAIN wire : k < Len(wire) + 1 /\ wire'[k] = wire[k]
      /\ Len(wire) \in Nat /\ DOMAIN wire = 1..Len(wire)
  BY <1>1, WirePositions
<1>3. Flights' = Flights \cup {Len(wire) + 1} /\ Endings' = Endings /\ Flights \subseteq DOMAIN wire
  BY <1>1, <1>2 DEF Flights, Endings
<1>4. Endings = {} /\ ~ended /\ Got' = Got
  BY DEF Final, Got
<1>5. Flying' = Flying \cup {n}
  BY <1>1, <1>2, <1>3 DEF Flying
<1>6. \A i, j \in Flights' : i < j => wire'[i].item < wire'[j].item
  <2>1. TAKE i, j \in Flights'
  <2>2. HAVE i < j
  <2>3. i # Len(wire) + 1
    BY <1>2, <1>3, <2>2
  <2>4. i \in Flights /\ wire'[i] = wire[i]
    BY <1>2, <1>3, <2>3
  <2>5. CASE j = Len(wire) + 1
    BY <1>1, <1>2, <2>4, <2>5 DEF Sent, Flying
  <2>6. CASE j # Len(wire) + 1
    BY <1>2, <1>3, <2>2, <2>4, <2>6 DEF WireOrder
  <2> QED BY <2>5, <2>6
<1>7. \A x \in Got', i \in Flights' : x < wire'[i].item
  BY <1>1, <1>2, <1>3, <1>4 DEF WireOrder, Sent
<1> QED BY <1>3, <1>4, <1>5, <1>6, <1>7 DEF WireOrder, Final

(* COMPLETE is sent.                                                       *)
LEMMA CompletedWire ==
  ASSUME Types, WireOrder, ~Final, UNCHANGED <<received, ended>>,
         NEW w \in BOOLEAN, wire' = Append(wire, Complete(w))
  PROVE  WireOrder' /\ Got' = Got /\ Flying' = Flying /\ (Final' => ~w)
<1>1. Complete(w) \in Messages /\ Complete(w).kind = Sync /\ Complete(w).item = 0 /\ Complete(w).wanted = w
  BY DEF Complete, Messages, CompleteMessages
<1>2. /\ DOMAIN wire' = DOMAIN wire \cup {Len(wire) + 1} /\ wire'[Len(wire) + 1] = Complete(w)
      /\ \A k \in DOMAIN wire : k < Len(wire) + 1 /\ wire'[k] = wire[k]
      /\ Len(wire) \in Nat /\ DOMAIN wire = 1..Len(wire)
  BY <1>1, WirePositions
<1>3. Endings = {} /\ ~ended /\ Got' = Got
  BY DEF Final, Got
<1>4. /\ Flights' = Flights /\ Flights \subseteq DOMAIN wire
      /\ Endings' \subseteq {Len(wire) + 1} /\ (w => Endings' = {})
  BY <1>1, <1>2, <1>3 DEF Flights, Endings
<1>5. Flying' = Flying
  BY <1>2, <1>4 DEF Flying
<1> QED BY <1>2, <1>3, <1>4, <1>5 DEF WireOrder, Final

(* The client receives a message of the sync.                              *)
LEMMA ReceivedWire ==
  ASSUME Types, WireOrder, InOrder, ReceiveSync
  PROVE  WireOrder' /\ InOrder' /\ Sent' = Sent /\ (Final' => Final)
<1>1. /\ wire # <<>> /\ wire' = Tail(wire) /\ Head(wire) = wire[1] /\ wire[1].kind = Sync
      /\ wire[1].item \in Nat
  BY FirstMessage, SyncAssumption DEF ReceiveSync, Types, StorageTypes
<1>2. /\ \A i \in DOMAIN wire' : i + 1 \in DOMAIN wire /\ wire'[i] = wire[i + 1] /\ i \in Nat
      /\ \A i \in DOMAIN wire : i # 1 => i - 1 \in DOMAIN wire' /\ (i - 1) + 1 = i /\ i > 1
      /\ 1 \in DOMAIN wire
  BY <1>1, WirePositions
<1>3. /\ \A i \in Flights' : i + 1 \in Flights /\ wire'[i] = wire[i + 1] /\ i \in Nat
      /\ \A i \in Endings' : i + 1 \in Endings /\ i \in Nat
      /\ \A i \in Flights : i # 1 => i - 1 \in Flights' /\ (i - 1) + 1 = i /\ i > 1
  BY <1>1, <1>2 DEF Flights, Endings
<1>4. \A i, j \in Nat : i < j <=> i + 1 < j + 1
  OBVIOUS
<1>5. /\ \A i, j \in Flights' : i < j => wire'[i].item < wire'[j].item
      /\ \A i \in Flights', j \in Endings' : i < j
  BY <1>3, <1>4 DEF WireOrder
<1>6. received \in Seq(1..sequence)
  BY DEF Types, SyncTypes, ReceivedTypes
<1>7. CASE wire[1].item # 0
  <2>1. received' = Append(received, wire[1].item) /\ ended' = ended /\ 1 \in Flights
    BY <1>1, <1>2, <1>7 DEF ReceiveSync, Flights
  <2>2. PICK n \in Nat : n = wire[1].item
    BY <1>1
  <2>3. /\ DOMAIN received = 1..Len(received) /\ Len(received) \in Nat
        /\ DOMAIN received' = 1..(Len(received) + 1) /\ received'[Len(received) + 1] = n
        /\ \A i \in 1..Len(received) : received'[i] = received[i]
    <3>1. received \in Seq(Nat)
      BY <1>6, SyncAssumption DEF Types, StorageTypes
    <3> QED BY <2>1, <2>2, <3>1, AppendFacts
  <2>4. Got' = Got \cup {n}
    BY <2>3 DEF Got
  <2>5. \A x \in Got : x < n
    BY <2>1, <2>2 DEF WireOrder
  <2>6. \A i \in Flights' : n < wire'[i].item
    <3>1. \A i \in Flights : i # 1 => 1 < i /\ wire[1].item < wire[i].item
      BY <1>3, <2>1 DEF WireOrder
    <3>2. \A i \in Flights' : i + 1 \in Flights /\ i + 1 # 1 /\ wire'[i] = wire[i + 1]
      <4>1. \A i \in Nat : i + 1 = 1 => i = 0
        OBVIOUS
      <4>2. \A i \in Flights' : i # 0
        <5>1. DOMAIN wire' = 1..(Len(wire) - 1) /\ Len(wire) \in Nat
          BY <1>1, WirePositions
        <5> QED BY <5>1 DEF Flights
      <4> QED BY <1>3, <4>1, <4>2
    <3> QED BY <2>2, <3>1, <3>2
  <2>7. Sent' = Sent
    <3>1. Flying' \subseteq Flying
      BY <1>3 DEF Flying
    <3>2. n \in Flying
      BY <2>1, <2>2 DEF Flying
    <3>3. \A x \in Flying : x = n \/ x \in Flying'
      BY <1>3, <2>2 DEF Flying
    <3> QED BY <2>4, <3>1, <3>2, <3>3 DEF Sent
  <2>8. InOrder'
    <3>1. \A i \in DOMAIN received : received[i] \in Got /\ received[i] < n
      BY <2>5 DEF Got
    <3> SUFFICES ASSUME NEW i \in DOMAIN received', NEW j \in DOMAIN received', i < j
                 PROVE  received'[i] < received'[j]
      BY DEF InOrder
    <3>2. i \in DOMAIN received /\ received'[i] = received[i]
      BY <2>3
    <3>3. CASE j = Len(received) + 1
      BY <2>3, <3>1, <3>2, <3>3
    <3>4. CASE j # Len(received) + 1
      <4>1. j \in DOMAIN received /\ received'[j] = received[j]
        BY <2>3, <3>4
      <4> QED BY <3>2, <4>1 DEF InOrder
    <3> QED BY <3>3, <3>4
  <2>9. ~ended
    BY <2>1 DEF WireOrder
  <2>10. WireOrder'
    BY <1>5, <2>1, <2>4, <2>6, <2>9, <1>3 DEF WireOrder
  <2>11. Final' => Final
    BY <1>3, <2>1 DEF Final
  <2> QED BY <2>7, <2>8, <2>10, <2>11
<1>8. CASE wire[1].item = 0
  <2>1. received' = received /\ ended' = (ended \/ ~wire[1].wanted) /\ 1 \notin Flights
    BY <1>1, <1>8 DEF ReceiveSync, Flights
  <2>2. Got' = Got /\ InOrder'
    BY <2>1 DEF Got, InOrder
  <2>3. Flying' = Flying
    BY <1>3, <2>1 DEF Flying
  <2>4. ~wire[1].wanted => 1 \in Endings
    BY <1>1, <1>2, <1>8 DEF Endings
  <2>5. ended' => Flights' = {}
    <3>1. CASE ended
      BY <1>3, <3>1 DEF WireOrder
    <3>2. CASE ~wire[1].wanted
      <4>1. \A i \in Flights : i < 1
        BY <2>4, <3>2 DEF WireOrder
      <4>2. \A i \in Flights : i \in Nat /\ i # 0
        BY WirePositions DEF Flights
      <4>3. Flights = {}
        BY <4>1, <4>2
      <4> QED BY <1>3, <4>3
    <3> QED BY <2>1, <3>1, <3>2
  <2>6. \A n \in Got', i \in Flights' : n < wire'[i].item
    BY <1>3, <2>2 DEF WireOrder
  <2>7. Final' => Final
    BY <1>3, <2>1, <2>4 DEF Final
  <2> QED BY <1>5, <2>2, <2>3, <2>5, <2>6, <2>7 DEF WireOrder, Sent
<1> QED BY <1>7, <1>8

-----------------------------------------------------------------------------
(* What a sync has passed *)

(* The subscription goes on sending.                                       *)
Active == link = "up" /\ phase \notin {"none", "unsubscribed"}
Ahead == IF phase = "paging" THEN {page[i].item : i \in DOMAIN page} ELSE {}

(* An item was sent, or follows one that was: NextSequence skips it.       *)
Covered(s) == s \in Sent \/ s - 1 \in Sent

PageOrder == phase = "paging" => \A i, j \in DOMAIN page : i < j => page[i].item < page[j].item
Behind ==
  Active => /\ \A n \in Sent : n <= current
            /\ \A n \in Sent, p \in Ahead : n < p
            /\ current = 0 \/ Covered(current)
PrefixCovered == \A m \in Sent, s \in rows : s <= m => Covered(s)
(* What is neither sent nor on the page comes after the page.              *)
Passed ==
  Active => \A s \in rows : Covered(s) \/ s \in Ahead \/ (s > current /\ \A p \in Ahead : s > p)
HorizonCovered ==
  (Active /\ phase \in {"paging", "closing"}) \/ Final => \A s \in rows : s <= horizon => Covered(s)
FinalRests == Final => phase = "none"

CoverInv == Behind /\ PrefixCovered /\ Passed /\ HorizonCovered /\ FinalRests
OrderInv == InOrder /\ WireOrder /\ PageOrder /\ (conn = "closed" => phase = "none")
SyncInv == OrderInv /\ CoverInv

LEMMA SentTyped ==
  ASSUME Types
  PROVE  Sent \subseteq 1..sequence /\ Ahead \subseteq 1..sequence /\ rows \subseteq 1..sequence
         /\ current \in Nat /\ horizon \in Nat /\ horizon <= sequence /\ current <= sequence + 1
         /\ sequence \in Nat
<1>1. /\ received \in Seq(1..sequence) /\ rows \subseteq 1..sequence /\ current \in 0..(sequence + 1)
      /\ horizon \in 0..sequence /\ sequence \in Nat
  BY SyncAssumption DEF Types, StorageTypes, SyncTypes, ReceivedTypes, PhaseTypes
<1>2. Got \subseteq 1..sequence
  BY <1>1 DEF Got
<1>3. Flying \subseteq 1..sequence
  <2>1. SUFFICES ASSUME NEW k \in Flights PROVE wire[k].item \in 1..sequence
    BY DEF Flying
  <2>2. k \in DOMAIN wire /\ wire[k].kind = Sync /\ wire[k].item # 0
    BY <2>1 DEF Flights
  <2>3. wire[k] \in Messages
    BY <2>2, SeqElement DEF Types, WireTypes
  <2> QED BY <1>1, <2>2, <2>3, MessageKinds DEF Types, WireItems
<1>4. Ahead \subseteq 1..sequence
  <2> DEFINE R == [item : 1..sequence, joined : BOOLEAN]
  <2>1. page \in Seq(R)
    BY DEF Types, SyncTypes, PageTypes
  <2>2. \A p \in R : p.item \in 1..sequence
    OBVIOUS
  <2> HIDE DEF R
  <2>3. \A i \in DOMAIN page : page[i] \in R
    BY <2>1, SeqElement
  <2> QED BY <2>2, <2>3 DEF Ahead
<1>5. current \in Nat /\ horizon \in Nat /\ horizon <= sequence /\ current <= sequence + 1
  BY <1>1
<1> QED BY <1>1, <1>2, <1>3, <1>4, <1>5 DEF Sent

(* The steps that send nothing and pass nothing.                           *)
LEMMA CoverSame ==
  ASSUME Types, CoverInv, UNCHANGED <<rows, current>>, horizon' = horizon \/ horizon' = 0, Sent' = Sent,
         Active' => Active /\ Ahead' = Ahead,
         Active' /\ phase' \in {"paging", "closing"} => phase \in {"paging", "closing"},
         Final' => Final \/ (Active /\ phase = "closing"), FinalRests'
  PROVE  CoverInv'
<1>1. \A s : Covered(s)' <=> Covered(s)
  BY DEF Covered
<1>2. Behind' /\ PrefixCovered'
  BY <1>1 DEF CoverInv, Behind, PrefixCovered
<1>3. Passed'
  BY <1>1 DEF CoverInv, Passed
<1>4. HorizonCovered'
  <2>1. \A s \in rows : s > 0 /\ s \in Nat
    BY SentTyped
  <2> QED BY <1>1, <2>1 DEF CoverInv, HorizonCovered
<1> QED BY <1>2, <1>3, <1>4 DEF CoverInv

(* Items are stored or deleted.                                            *)
LEMMA CoverStored ==
  ASSUME Types, CoverInv, UNCHANGED <<current, horizon, page, phase, link>>, Sent' = Sent, Final' => Final,
         rows' \subseteq rows \/ (sequence' = sequence + 1 /\ rows' = rows \cup {sequence'})
  PROVE  CoverInv'
<1>1. (\A s : Covered(s)' <=> Covered(s)) /\ (Active' <=> Active) /\ Ahead' = Ahead
  BY DEF Covered, Active, Ahead
<1>2. \A s \in rows' : s \in rows \/ s = sequence + 1
  OBVIOUS
<1>3. /\ sequence \in Nat /\ current \in Nat /\ current <= sequence + 1
      /\ horizon \in Nat /\ horizon <= sequence
      /\ \A n \in Sent : n \in Nat /\ n <= sequence
      /\ \A n \in Ahead : n \in Nat /\ n <= sequence
  BY SentTyped
<1>4. Behind' /\ FinalRests'
  BY <1>1 DEF CoverInv, Behind, FinalRests
<1>5. PrefixCovered'
  <2>1. \A m \in Sent : ~(sequence + 1 <= m)
    BY <1>3
  <2> QED BY <1>1, <1>2, <2>1 DEF CoverInv, PrefixCovered
<1>6. Passed'
  <2>1. (sequence + 1 > current /\ \A p \in Ahead : sequence + 1 > p) \/ current = sequence + 1
    BY <1>3
  <2>2. current = sequence + 1 /\ Active => Covered(sequence + 1)
    BY <1>3 DEF CoverInv, Behind
  <2> QED BY <1>1, <1>2, <2>1, <2>2 DEF CoverInv, Passed
<1>7. HorizonCovered'
  <2>1. ~(sequence + 1 <= horizon)
    BY <1>3
  <2> QED BY <1>1, <1>2, <2>1 DEF CoverInv, HorizonCovered
<1> QED BY <1>4, <1>5, <1>6, <1>7 DEF CoverInv

(* A query passes what is not behind the last item.                        *)
LEMMA CoverQueried ==
  ASSUME Types, SyncInv, Query, UNCHANGED jobVars PROVE SyncInv'
<1>1. /\ \A i, j \in DOMAIN page' : i < j => page'[i].item < page'[j].item
      /\ \A i \in DOMAIN page' : page'[i].item \in rows /\ page'[i].item > current
      /\ \A s \in rows : s > current => \E i \in DOMAIN page' : page'[i].item = s
  BY QueryPage DEF Types
<1>2. /\ phase = "querying" /\ phase' = "paging" /\ conn = "open" /\ Ahead = {}
      /\ UNCHANGED <<link, conn, wire, received, ended, current, rows, sequence>>
      /\ horizon' = IF page' = <<>> THEN sequence ELSE 0
  BY DEF Query, Running, connVars, clientVars, jobVars, Ahead
<1>3. /\ Got' = Got /\ Flights' = Flights /\ Flying' = Flying /\ Endings' = Endings /\ Sent' = Sent
      /\ (Final' <=> Final) /\ ~Final
  BY <1>2 DEF Got, Flights, Flying, Endings, Sent, Final, SyncInv, CoverInv, FinalRests
<1>4. OrderInv'
  BY <1>1, <1>2, <1>3 DEF SyncInv, OrderInv, InOrder, WireOrder, PageOrder
<1>5. Ahead' = {page'[i].item : i \in DOMAIN page'} /\ (Active' <=> Active) /\ (Active <=> link = "up")
  BY <1>2 DEF Ahead, Active
<1>6. \A s : Covered(s)' <=> Covered(s)
  BY <1>3 DEF Covered
<1>7. /\ current \in Nat /\ \A n \in Sent : n \in Nat /\ \A p \in Ahead' : p \in Nat /\ p > current
      /\ \A s \in rows : s \in Nat
  BY <1>1, <1>5, SentTyped
<1>8. Behind'
  BY <1>2, <1>3, <1>5, <1>6, <1>7 DEF SyncInv, CoverInv, Behind
<1>9. PrefixCovered'
  BY <1>2, <1>3, <1>6 DEF SyncInv, CoverInv, PrefixCovered
<1>10. Active => \A s \in rows : Covered(s) \/ s \in Ahead'
  BY <1>1, <1>2, <1>5 DEF SyncInv, CoverInv, Passed
<1>11. Passed'
  BY <1>2, <1>5, <1>6, <1>10 DEF Passed
<1>12. HorizonCovered'
  <2>1. CASE page' = <<>>
    <3>1. Ahead' = {}
      BY <1>5, <2>1
    <3> QED BY <1>2, <1>3, <1>5, <1>6, <1>10, <3>1 DEF HorizonCovered
  <2>2. CASE page' # <<>>
    <3>1. \A s \in rows : ~(s <= 0)
      BY SentTyped
    <3> QED BY <1>2, <2>2, <3>1 DEF HorizonCovered
  <2> QED BY <2>1, <2>2
<1> QED BY <1>3, <1>4, <1>8, <1>9, <1>11, <1>12 DEF SyncInv, CoverInv, FinalRests

(* An item of the page is sent.                                            *)
LEMMA CoverSentItem ==
  ASSUME Types, SyncInv, SendItem, UNCHANGED jobVars PROVE SyncInv'
<1>0. PICK n \in 1..sequence : n = Head(page).item
  <2>1. page # <<>>
    BY DEF SendItem
  <2> QED BY <2>1, FirstOfPage DEF Types
<1>1. /\ phase = "paging" /\ link = "up" /\ page # <<>> /\ wire' = Append(wire, Item(n))
      /\ page' = Tail(page) /\ current' = n + 1
      /\ UNCHANGED <<link, conn, received, ended, phase, rows, sequence, horizon>>
  BY <1>0 DEF SendItem, Send, Up, NextSequence, clientVars, jobVars
<1>2. /\ Head(page) = page[1] /\ 1 \in DOMAIN page
      /\ DOMAIN page = 1..Len(page) /\ Len(page) \in Nat \ {0} /\ DOMAIN page' = 1..(Len(page) - 1)
      /\ \A k \in 1..(Len(page) - 1) : page'[k] = page[k + 1]
  BY <1>1, FirstOfPage DEF Types
<1>3. n \in Nat \ {0} /\ n <= sequence /\ sequence \in Nat
  BY <1>0, SentTyped
<1>4. /\ \A k \in DOMAIN page' : k + 1 \in DOMAIN page /\ page'[k].item = page[k + 1].item /\ 1 < k + 1
      /\ \A k \in DOMAIN page : k # 1 => k - 1 \in DOMAIN page' /\ page'[k - 1].item = page[k].item /\ 1 < k
      /\ \A j, k \in DOMAIN page' : j < k => j + 1 < k + 1
  <2>1. \A k \in 1..(Len(page) - 1) : k + 1 \in 1..Len(page) /\ 1 < k + 1
    BY <1>2
  <2>2. \A k \in 1..Len(page) : k # 1 => k - 1 \in 1..(Len(page) - 1) /\ (k - 1) + 1 = k /\ 1 < k
    BY <1>2
  <2>3. \A j, k \in 1..(Len(page) - 1) : j < k => j + 1 < k + 1
    BY <1>2
  <2> QED BY <1>2, <2>1, <2>2, <2>3
<1>5. Ahead = {page[i].item : i \in DOMAIN page} /\ Ahead' = {page'[i].item : i \in DOMAIN page'}
      /\ Active /\ Active' /\ n = page[1].item
  BY <1>0, <1>1, <1>2 DEF Ahead, Active
<1>6. n \in Ahead /\ Ahead' \subseteq Ahead /\ (\A p \in Ahead' : n < p) /\ \A p \in Ahead : p = n \/ p \in Ahead'
  <2>1. \A i \in DOMAIN page : i # 1 => n < page[i].item
    BY <1>1, <1>2, <1>4, <1>5 DEF SyncInv, OrderInv, PageOrder
  <2>2. \A k \in DOMAIN page' : k + 1 # 1
    BY <1>4, <1>2
  <2>3. n \in Ahead
    BY <1>2, <1>5
  <2>4. ASSUME NEW p \in Ahead, p # n PROVE p \in Ahead'
    <3>1. PICK i \in DOMAIN page : p = page[i].item
      BY <1>5
    <3>2. i - 1 \in DOMAIN page' /\ page'[i - 1].item = p
      BY <1>4, <1>5, <2>4, <3>1
    <3>3. page'[i - 1].item \in Ahead'
      BY <1>5, <3>2
    <3> QED BY <3>2, <3>3
  <2>5. \A p \in Ahead' : p \in Ahead /\ n < p
    BY <1>4, <1>5, <2>1, <2>2
  <2> QED BY <2>3, <2>4, <2>5
<1>7. PageOrder'
  BY <1>1, <1>4 DEF SyncInv, OrderInv, PageOrder
<1>8. ~Final /\ \A x \in Sent : x < n
  BY <1>1, <1>5, <1>6 DEF SyncInv, CoverInv, FinalRests, Behind
<1>9. WireOrder' /\ Got' = Got /\ Flying' = Flying \cup {n} /\ ~Final'
  BY <1>1, <1>3, <1>8, SentWire DEF SyncInv, OrderInv
<1>10. Sent' = Sent \cup {n}
  BY <1>9 DEF Sent
<1>11. OrderInv'
  BY <1>1, <1>7, <1>9 DEF SyncInv, OrderInv, InOrder
<1>12. /\ \A x \in Sent : x \in Nat /\ x < n
       /\ \A x \in Ahead' : x \in Nat /\ n < x
       /\ \A s \in rows : s \in Nat
  <2>1. /\ \A x \in Sent : x \in Nat
        /\ \A x \in Ahead : x \in Nat
        /\ \A s \in rows : s \in Nat
    BY SentTyped
  <2> QED BY <1>6, <1>8, <2>1
<1>13. /\ \A s : Covered(s) => Covered(s)'
       /\ Covered(n)' /\ Covered(n + 1)'
  <2>1. (n + 1) - 1 = n
    BY <1>3
  <2> QED BY <1>10, <2>1 DEF Covered
<1>14. Behind'
  <2>1. \A x \in Sent' : x <= n + 1
    BY <1>3, <1>10, <1>12
  <2>2. \A x \in Sent', p \in Ahead' : x < p
    BY <1>3, <1>10, <1>12
  <2> QED BY <1>1, <1>13, <2>1, <2>2 DEF Behind
<1>15. \A s \in rows : Covered(s) \/ s \in Ahead \/ (s > current /\ \A p \in Ahead : s > p)
  BY <1>5 DEF SyncInv, CoverInv, Passed
<1>16. Passed'
  <2>1. SUFFICES ASSUME NEW s \in rows
                 PROVE  Covered(s)' \/ s \in Ahead' \/ (s > n + 1 /\ \A p \in Ahead' : s > p)
    BY <1>1 DEF Passed
  <2>2. CASE Covered(s)
    BY <1>13, <2>2
  <2>3. CASE s \in Ahead
    BY <1>6, <1>13, <2>3
  <2>4. CASE \A p \in Ahead : s > p
    <3>1. s > n /\ \A p \in Ahead' : s > p
      BY <1>6, <2>4
    <3>2. s = n + 1 \/ s > n + 1
      BY <1>3, <1>12, <3>1
    <3> QED BY <1>13, <3>1, <3>2
  <2> QED BY <1>15, <2>2, <2>3, <2>4
<1>17. PrefixCovered'
  <2>1. SUFFICES ASSUME NEW s \in rows, s <= n PROVE Covered(s)'
    BY <1>1, <1>10, <1>13 DEF SyncInv, CoverInv, PrefixCovered
  <2>2. ~(\A p \in Ahead : s > p)
    BY <1>3, <1>6, <1>12, <2>1
  <2>3. CASE s \in Ahead
    <3>1. ~(n < s)
      BY <1>3, <1>12, <2>1
    <3> QED BY <1>6, <1>13, <2>3, <3>1
  <2> QED BY <1>13, <1>15, <2>2, <2>3
<1>18. HorizonCovered'
  BY <1>1, <1>5, <1>9, <1>13 DEF SyncInv, CoverInv, HorizonCovered
<1> QED BY <1>9, <1>11, <1>14, <1>16, <1>17, <1>18 DEF SyncInv, CoverInv, FinalRests

(* A client subscribes with the token of the last item it has received.    *)
LEMMA CoverSubscribed ==
  ASSUME Types, SyncInv, SubscribeSync, UNCHANGED jobVars PROVE SyncInv'
<1>1. /\ link = "up" /\ conn = "open" /\ wire = <<>> /\ ~ended /\ phase' = "made" /\ current' = Token
      /\ UNCHANGED <<link, conn, wire, received, ended, rows, sequence, horizon, page>>
  BY DEF SubscribeSync, Subscribe, Up, FirstSequence, clientVars, jobVars
<1>2. /\ Flights = {} /\ Endings = {} /\ Flights' = {} /\ Endings' = {} /\ Got' = Got
      /\ ~Final /\ ~Final' /\ Ahead' = {}
  BY <1>1 DEF Flights, Endings, Got, Final, Ahead
<1>3. Sent = Got /\ Sent' = Sent
  BY <1>2 DEF Sent, Flying
<1>4. OrderInv'
  BY <1>1, <1>2 DEF SyncInv, OrderInv, InOrder, WireOrder, PageOrder
<1>5. \A s : Covered(s)' <=> Covered(s)
  BY <1>3 DEF Covered
<1>6. received \in Seq(Nat)
  <2>1. received \in Seq(1..sequence) /\ \A s \in 1..sequence : s \in Nat
    BY SentTyped DEF Types, SyncTypes, ReceivedTypes
  <2>2. \A i \in DOMAIN received : received[i] \in Nat
    BY <2>1, SeqElement
  <2> QED BY <2>1, <2>2, SeqOfElements
<1>7. /\ received # <<>> => Token \in Got
      /\ \A n \in Got : n <= Token
      /\ received = <<>> => Token = 0 /\ Got = {}
  <2>1. CASE received = <<>>
    BY <2>1 DEF Token, Got
  <2>2. CASE received # <<>>
    <3>1. /\ Token = received[Len(received)] /\ Len(received) \in Nat \ {0}
          /\ DOMAIN received = 1..Len(received)
      BY <1>6, <2>2 DEF Token, Last
    <3>2. \A i \in DOMAIN received : i < Len(received) => received[i] < Token
      BY <3>1 DEF SyncInv, OrderInv, InOrder
    <3>3. \A i \in DOMAIN received : i < Len(received) \/ i = Len(received)
      BY <3>1
    <3>4. \A i \in DOMAIN received : received[i] \in Nat
      BY <1>6, SeqElement
    <3>5. Len(received) \in DOMAIN received
      BY <3>1
    <3>6. ASSUME NEW i \in DOMAIN received PROVE received[i] <= Token
      BY <3>1, <3>2, <3>3, <3>4, <3>5
    <3> QED BY <2>2, <3>1, <3>5, <3>6 DEF Got
  <2> QED BY <2>1, <2>2
<1>8. Behind'
  <2>1. \A n \in Sent' : n <= current'
    BY <1>1, <1>3, <1>7
  <2>2. current' = 0 \/ Covered(current)'
    <3>1. current' = 0 \/ current' \in Sent'
      BY <1>1, <1>3, <1>7
    <3> QED BY <3>1 DEF Covered
  <2> QED BY <1>2, <2>1, <2>2 DEF Behind
<1>9. PrefixCovered'
  BY <1>1, <1>3, <1>5 DEF SyncInv, CoverInv, PrefixCovered
<1>10. Passed'
  <2>1. ASSUME NEW s \in rows PROVE Covered(s) \/ s > Token
    <3>1. s \in Nat /\ s > 0
      BY SentTyped
    <3>2. CASE received = <<>>
      BY <1>7, <3>1, <3>2
    <3>3. CASE received # <<>>
      <4>1. s <= Token => Covered(s)
        BY <1>3, <1>7, <3>3 DEF SyncInv, CoverInv, PrefixCovered
      <4>2. Token \in Nat
        BY SentTyped, <1>7, <1>3, <3>3
      <4> QED BY <3>1, <4>1, <4>2
    <3> QED BY <3>2, <3>3
  <2> QED BY <1>1, <1>2, <1>5, <2>1 DEF Passed
<1>11. HorizonCovered' /\ FinalRests'
  BY <1>1, <1>2 DEF HorizonCovered, FinalRests
<1> QED BY <1>4, <1>8, <1>9, <1>10, <1>11 DEF SyncInv, CoverInv

(* What is in flight is lost with the link.                                *)
LEMMA CoverLost ==
  ASSUME Types, SyncInv, wire' = <<>>, link' = "cut", UNCHANGED <<syncVars, conn>>
  PROVE  SyncInv'
<1>1. UNCHANGED <<received, ended, rows, sequence, horizon, page, phase, current>>
  BY DEF syncVars, clientVars, runVars, jobVars
<1>2. WireOrder' /\ Got' = Got /\ Flying' = {} /\ (Final' => ended) /\ Sent' = Got /\ ~Active'
  BY <1>1, LostWire DEF SyncInv, OrderInv, Sent, Active
<1>3. OrderInv'
  BY <1>1, <1>2 DEF SyncInv, OrderInv, InOrder, PageOrder
<1>4. Behind' /\ Passed' /\ FinalRests'
  BY <1>1, <1>2 DEF SyncInv, CoverInv, Behind, Passed, FinalRests, Final
<1>5. /\ \A n \in Got, i \in Flights : n < wire[i].item
      /\ \A n \in Sent : n \in Nat
      /\ \A s \in rows : s \in Nat /\ s - 1 <= s
  BY SentTyped DEF SyncInv, OrderInv, WireOrder
<1>6. ASSUME NEW m \in Got, NEW w \in Sent, w <= m PROVE w \in Got
  <2>1. SUFFICES ASSUME w \notin Got PROVE FALSE
    OBVIOUS
  <2>2. w \in Flying /\ m \in Sent
    BY <2>1 DEF Sent
  <2>3. m < w
    BY <1>5, <2>2 DEF Flying
  <2> QED BY <1>5, <1>6, <2>2, <2>3
<1>7. PrefixCovered'
  <2>1. SUFFICES ASSUME NEW m \in Got, NEW s \in rows, s <= m PROVE s \in Got \/ s - 1 \in Got
    BY <1>1, <1>2 DEF PrefixCovered, Covered
  <2>2. m \in Sent /\ m \in Nat /\ s \in Nat /\ s - 1 <= m
    BY <1>5, <2>1 DEF Sent
  <2>3. s \in Sent \/ s - 1 \in Sent
    BY <2>1, <2>2 DEF SyncInv, CoverInv, PrefixCovered, Covered
  <2> QED BY <1>6, <2>1, <2>2, <2>3
<1>8. HorizonCovered'
  <2>1. Final' => Final /\ Sent' = Sent
    <3>1. ended => Flights = {}
      BY DEF SyncInv, OrderInv, WireOrder
    <3> QED BY <1>2, <3>1 DEF Sent, Flying, Final
  <2> QED BY <1>1, <1>2, <2>1 DEF SyncInv, CoverInv, HorizonCovered, Covered
<1> QED BY <1>3, <1>4, <1>7, <1>8 DEF SyncInv, CoverInv

LEMMA SyncInvStep == ASSUME Types, SyncInv, [Next]_vars PROVE SyncInv'
<1>0. OrderInv /\ CoverInv /\ InOrder /\ WireOrder /\ PageOrder /\ FinalRests
  BY DEF SyncInv, OrderInv, CoverInv
<1>1. ASSUME UNCHANGED <<received, ended, wire>>
      PROVE  WireOrder' /\ InOrder' /\ Sent' = Sent /\ (Final' => Final)
  BY <1>0, <1>1 DEF WireOrder, InOrder, Sent, Got, Flying, Flights, Endings, Final
<1>2. CASE StorageNext
  <2>1. /\ UNCHANGED <<current, horizon, page, phase, received, ended>>
        /\ UNCHANGED <<link, conn, wire>>
    BY <1>2 DEF StorageNext, StoreOther, StoreItem, StoreBody, AbandonBody, FinishJob, SendEvent,
      OtherEvent, DeleteItems, DeleteRow, runVars, clientVars, connVars
  <2>2. CoverInv'
    BY <1>0, <1>1, <1>2, <2>1, StorageSteps, CoverStored DEF Types
  <2>3. OrderInv'
    BY <1>0, <1>1, <2>1 DEF OrderInv, PageOrder
  <2> QED BY <2>2, <2>3 DEF SyncInv
<1>3. CASE SyncNext /\ ~StorageNext
  <2>0. UNCHANGED jobVars /\ UNCHANGED <<rows, sequence>>
    BY <1>3, JobStays DEF jobVars
  <2>1. CASE ReadJob \/ StartSync \/ UnsubscribeSync \/ EndPage
    <3>1. /\ UNCHANGED <<received, ended, wire, link, page, current>> /\ (horizon' = horizon \/ horizon' = 0)
          /\ phase # "none" /\ phase' # "none" /\ conn' = conn /\ conn = "open"
      BY <2>1 DEF ReadJob, StartSync, UnsubscribeSync, EndPage, clientVars, runVars, connVars, Unsubscribe,
        Up, Running
    <3>2. /\ Active' => Active /\ Ahead' = Ahead
          /\ Active' /\ phase' \in {"paging", "closing"} => phase \in {"paging", "closing"}
          /\ phase' # "paging"
      <4>1. CASE ReadJob \/ StartSync
        BY <4>1 DEF ReadJob, StartSync, Active, Ahead, connVars
      <4>2. CASE UnsubscribeSync
        BY <4>2 DEF UnsubscribeSync, Active
      <4>3. CASE EndPage
        <5>1. Ahead = {} /\ Ahead' = {}
          BY <4>3 DEF EndPage, Ahead
        <5> QED BY <4>3, <5>1 DEF EndPage, Active, connVars
      <4> QED BY <2>1, <4>1, <4>2, <4>3
    <3>3. FinalRests'
      BY <1>0, <1>1, <3>1 DEF FinalRests
    <3>4. CoverInv'
      BY <1>0, <1>1, <2>0, <3>1, <3>2, <3>3, CoverSame
    <3>5. OrderInv'
      BY <1>0, <1>1, <3>1, <3>2 DEF OrderInv, PageOrder
    <3> QED BY <3>4, <3>5 DEF SyncInv
  <2>2. CASE ReadJobRaises \/ SendItemRaises \/ SyncSendFails \/ JobStatus
    <3>1. /\ UNCHANGED <<received, ended, wire, link, page, current, horizon, phase>>
          /\ conn' # "closed"
      BY <2>2 DEF ReadJobRaises, SendItemRaises, SyncSendFails, JobStatus, clientVars, runVars, connVars,
        syncVars, Raise, Running
    <3>2. (Active' <=> Active) /\ Ahead' = Ahead
      BY <3>1 DEF Active, Ahead
    <3>3. FinalRests'
      BY <1>0, <1>1, <3>1 DEF FinalRests
    <3>4. CoverInv'
      BY <1>0, <1>1, <2>0, <3>1, <3>2, <3>3, CoverSame
    <3>5. OrderInv'
      BY <1>0, <1>1, <3>1 DEF OrderInv, PageOrder
    <3> QED BY <3>4, <3>5 DEF SyncInv
  <2>3. CASE Query
    BY <2>0, <2>3, CoverQueried
  <2>4. CASE SendItem
    BY <2>0, <2>4, CoverSentItem
  <2>5. CASE SendComplete
    <3>1. /\ UNCHANGED <<received, ended, link, conn, horizon>>
          /\ phase \in {"closing", "unsubscribed"} /\ phase' = "none" /\ link = "up"
          /\ wire' = Append(wire, Complete(phase = "unsubscribed"))
      BY <2>5 DEF SendComplete, Send, Up, clientVars
    <3>2. PICK w \in BOOLEAN : w = (phase = "unsubscribed")
      OBVIOUS
    <3>3. WireOrder' /\ Got' = Got /\ Flying' = Flying /\ (Final' => ~w)
      BY <1>0, <3>1, <3>2, CompletedWire DEF FinalRests
    <3>4. Sent' = Sent /\ ~Active' /\ (Final' => Active /\ phase = "closing") /\ FinalRests'
      BY <3>1, <3>2, <3>3 DEF Sent, Active, FinalRests
    <3>5. Behind' /\ Passed' /\ PrefixCovered'
      BY <1>0, <2>0, <3>4 DEF CoverInv, Behind, Passed, PrefixCovered, Covered
    <3>6. HorizonCovered'
      BY <1>0, <2>0, <3>1, <3>4 DEF CoverInv, HorizonCovered, Covered
    <3>7. OrderInv'
      BY <1>0, <3>1, <3>3 DEF OrderInv, PageOrder, InOrder
    <3> QED BY <3>4, <3>5, <3>6, <3>7 DEF SyncInv, CoverInv
  <2>6. CASE SubscribeSync
    BY <2>0, <2>6, CoverSubscribed
  <2>7. CASE ReceiveSync
    <3>1. UNCHANGED <<link, conn, page, current, horizon, phase>>
      BY <2>7 DEF ReceiveSync, runVars
    <3>2. WireOrder' /\ InOrder' /\ Sent' = Sent /\ (Final' => Final)
      BY <1>0, <2>7, ReceivedWire
    <3>3. (Active' <=> Active) /\ Ahead' = Ahead
      BY <3>1 DEF Active, Ahead
    <3>4. FinalRests'
      BY <1>0, <3>1, <3>2 DEF FinalRests
    <3>5. CoverInv'
      BY <1>0, <2>0, <3>1, <3>2, <3>3, <3>4, CoverSame
    <3>6. OrderInv'
      BY <1>0, <3>1, <3>2 DEF OrderInv, PageOrder
    <3> QED BY <3>5, <3>6 DEF SyncInv
  <2> QED BY <1>3, <2>1, <2>2, <2>3, <2>4, <2>5, <2>6, <2>7 DEF SyncNext, SyncTask
<1>4. CASE Close
  <2>1. /\ UNCHANGED <<received, ended, wire, horizon, rows>> /\ phase' = "none" /\ link' = "cut"
    BY <1>4 DEF Close, CloseConnection, ForgetSync, clientVars, jobVars
  <2>2. ~Active' /\ FinalRests'
    BY <2>1 DEF Active, FinalRests
  <2>3. CoverInv'
    BY <1>0, <1>1, <2>1, <2>2 DEF CoverInv, Behind, Passed, PrefixCovered, HorizonCovered, Covered
  <2>4. OrderInv'
    BY <1>0, <1>1, <2>1 DEF OrderInv, PageOrder
  <2> QED BY <2>3, <2>4 DEF SyncInv
<1>5. CASE ~SyncStep /\ ~Close
  <2>1. UNCHANGED syncVars /\ UNCHANGED <<received, ended, rows, sequence, horizon, page, phase, current>>
    BY <1>5, SyncStays DEF syncVars, clientVars, runVars, jobVars
  <2>2. ASSUME wire' = wire \/ \E k : k # Sync /\ (Takes(k) \/ Adds(k)),
               link' = link \/ phase = "none", conn' = "closed" => conn = "closed"
        PROVE  SyncInv'
    <3>1. WireOrder' /\ Got' = Got /\ Flying' = Flying /\ (Final' => Final) /\ Sent' = Sent
      BY <1>0, <2>1, <2>2, QuietWire DEF Sent
    <3>2. (Active' => Active) /\ Ahead' = Ahead
      BY <2>1, <2>2 DEF Active, Ahead
    <3>3. FinalRests'
      BY <1>0, <2>1, <3>1 DEF FinalRests
    <3>4. CoverInv'
      BY <1>0, <2>1, <3>1, <3>2, <3>3, CoverSame
    <3>5. OrderInv'
      BY <1>0, <2>1, <2>2, <3>1 DEF OrderInv, PageOrder, InOrder
    <3> QED BY <3>4, <3>5 DEF SyncInv
  <2>3. CASE UNCHANGED vars
    BY <2>2, <2>3 DEF vars, connVars
  <2>4. CASE Changes
    BY <2>2, <2>4 DEF Changes, ChangeRow, UpdateStats, DeleteStats, GrowOld, Measure, connVars
  <2>5. ASSUME NEW k \in StreamKinds, Stream(k) PROVE SyncInv'
    <3>1. k # Sync /\ (wire' = wire \/ Adds(k))
      BY <2>5, StreamWire
    <3>2. conn' # "closed" \/ conn' = conn
      BY <2>5 DEF Stream, StreamStep, OpenFeed, SendListEvent, MakeEvent, SendStatus,
        StatusWakes, StartMonitor, SendMeasurement, connVars, SubscribeStream, SubscribeList,
        SubscribeStatus, SubscribeMonitor, UnsubscribeStream, UnsubscribeList, UnsubscribeStatus,
        UnsubscribeMonitor, Subscribe, Unsubscribe, StreamSendFails, Raise
    <3>3. link' = link
      BY <2>5 DEF Stream, StreamStep, OpenFeed, SendListEvent, MakeEvent, SendStatus,
        StatusWakes, StartMonitor, SendMeasurement, connVars, SubscribeStream, SubscribeList,
        SubscribeStatus, SubscribeMonitor, UnsubscribeStream, UnsubscribeList, UnsubscribeStatus,
        UnsubscribeMonitor, Subscribe, Unsubscribe, StreamSendFails, Raise
    <3> QED BY <2>2, <3>1, <3>2, <3>3
  <2>6. CASE Read
    <3>1. \E k : k # Sync /\ Takes(k)
      BY <2>6, OtherWire
    <3>2. UNCHANGED <<link, conn>>
      BY <2>6 DEF Read, ReceiveEvent, ReceiveListEvent, ReceiveStatus, ReceiveMeasurement
    <3> QED BY <2>2, <3>1, <3>2
  <2>7. ASSUME NEW l \in Lists, FeedEnds(l) PROVE SyncInv'
    BY <2>2, <2>7 DEF FeedEnds, FeedFails
  <2>8. CASE Fail
    <3>1. CASE CutLink
      BY <2>1, <3>1, CoverLost DEF CutLink
    <3>2. CASE ReadFails \/ BadRequest
      BY <2>2, <3>2 DEF ReadFails, BadRequest, Raise
    <3> QED BY <2>8, <3>1, <3>2 DEF Fail
  <2>9. CASE NewConnection
    <3>1. wire' = wire /\ conn = "closed"
      BY <2>9 DEF NewConnection, Reconnect
    <3> QED BY <1>0, <2>2, <3>1 DEF OrderInv
  <2> QED BY <1>5, <2>3, <2>4, <2>5, <2>6, <2>7, <2>8, <2>9 DEF Next
<1> QED BY <1>2, <1>3, <1>4, <1>5 DEF SyncStep

LEMMA SyncInvInit == Init => SyncInv
<1> SUFFICES ASSUME Init PROVE SyncInv
  OBVIOUS
<1>1. /\ wire = <<>> /\ received = <<>> /\ phase = "none" /\ rows = {} /\ ~ended
  BY DEF Init, ConnectionInit, SyncInit
<1>2. Flights = {} /\ Endings = {} /\ Got = {} /\ Sent = {} /\ ~Final /\ ~Active
  BY <1>1 DEF Flights, Endings, Got, Flying, Sent, Final, Active
<1> QED BY <1>1, <1>2 DEF SyncInv, OrderInv, InOrder, WireOrder, PageOrder, CoverInv, Behind,
      PrefixCovered, Passed, HorizonCovered, FinalRests

(* Nothing was skipped but what follows an item that was received.         *)
LEMMA MissedFollow == ASSUME Types, SyncInv PROVE MissedAreSuccessors
<1>1. ToSet(received) = Got
  BY DEF ToSet, Got
<1>2. SUFFICES ASSUME NEW s \in rows, s <= Reached, s \notin Got PROVE s - 1 \in Got
  BY <1>1 DEF MissedAreSuccessors, Missed
<1>3. /\ \A n \in Sent : n \in Nat
      /\ s \in Nat /\ s > 0 /\ horizon \in Nat
  BY SentTyped
<1>4. CASE ended
  <2>1. Sent = Got
    BY <1>4 DEF SyncInv, OrderInv, WireOrder, Sent, Flying
  <2>2. Covered(s)
    BY <1>2, <1>4 DEF SyncInv, CoverInv, HorizonCovered, Final, Reached
  <2> QED BY <1>2, <2>1, <2>2 DEF Covered
<1>5. CASE ~ended
  <2>1. s <= Token
    BY <1>2, <1>5 DEF Reached
  <2>2. received # <<>>
    BY <1>3, <2>1 DEF Token
  <2>3. Token \in Got
    <3>1. received \in Seq(1..sequence)
      BY DEF Types, SyncTypes, ReceivedTypes
    <3>2. Len(received) \in DOMAIN received
      BY <2>2, <3>1
    <3> QED BY <2>2, <3>2 DEF Token, Last, Got
  <2>4. Covered(s) /\ Token \in Nat
    BY <1>3, <2>1, <2>3 DEF SyncInv, CoverInv, PrefixCovered, Sent
  <2>5. ASSUME NEW w \in Sent, w <= Token PROVE w \in Got
    <3>1. w \in Flying => Token < w
      BY <2>3 DEF SyncInv, OrderInv, WireOrder, Flying
    <3>2. w \in Nat
      BY <1>3
    <3> QED BY <2>4, <2>5, <3>1, <3>2 DEF Sent
  <2>6. s - 1 <= Token
    BY <1>3, <2>1, <2>4
  <2> QED BY <1>2, <2>1, <2>4, <2>5, <2>6 DEF Covered
<1> QED BY <1>4, <1>5

(* A client receives each item once and in order, over all of its          *)
(* connections and subscriptions: the sync token of a page goes on where   *)
(* the last one ended.                                                     *)
THEOREM OrderAlways == Spec => []InOrder
<1>1. Types /\ SyncInv /\ [Next]_vars => SyncInv'
  BY SyncInvStep
<1>2. SyncInv => InOrder
  BY DEF SyncInv, OrderInv
<1> QED BY <1>1, <1>2, SyncInvInit, TypesHold, PTL DEF Spec

(* Of the items that a sync has passed, and at its end of all those that   *)
(* its last query found, the client misses none but one that follows an    *)
(* item it has received: what is skipped where a page ends.                *)
THEOREM MissedAlways == Spec => []MissedAreSuccessors
<1>1. Types /\ SyncInv /\ [Next]_vars => SyncInv'
  BY SyncInvStep
<1>2. Types /\ SyncInv => MissedAreSuccessors
  BY MissedFollow
<1> QED BY <1>1, <1>2, SyncInvInit, TypesHold, PTL DEF Spec

-----------------------------------------------------------------------------
(* The newest element of a kind in a queue *)

Places(q, X) == {k \in DOMAIN q : q[k] \in X}
Newest(q, X, e) == \E k \in Places(q, X) : q[k] = e /\ \A y \in Places(q, X) : y <= k

LEMMA NewestAppended ==
  ASSUME NEW S, NEW q \in Seq(S), NEW e \in S, NEW X
  PROVE  /\ e \in X => /\ Places(Append(q, e), X) # {}
                       /\ \A x : Newest(Append(q, e), X, x) => x = e
         /\ e \notin X => /\ (Places(Append(q, e), X) = {}) <=> (Places(q, X) = {})
                          /\ \A x : Newest(Append(q, e), X, x) => Newest(q, X, x)
<1>1. PICK longer : longer = Append(q, e)
  OBVIOUS
<1>2. PICK n \in Nat : n = Len(q)
  OBVIOUS
<1>3. /\ DOMAIN longer = 1..(n + 1) /\ DOMAIN q = 1..n /\ longer[n + 1] = e
      /\ \A k \in 1..n : longer[k] = q[k]
  BY <1>1, <1>2, AppendFacts
<1>4. \A k \in 1..(n + 1) : k \in 1..n \/ k = n + 1
  BY <1>2
<1>5. n + 1 \in 1..(n + 1) /\ (\A k \in 1..n : k \in 1..(n + 1) /\ ~(n + 1 <= k))
  BY <1>2
<1>6. CASE e \in X
  <2>1. n + 1 \in Places(longer, X)
    BY <1>3, <1>5, <1>6 DEF Places
  <2>2. ASSUME NEW x, Newest(longer, X, x) PROVE x = e
    <3>1. PICK k \in Places(longer, X) : longer[k] = x /\ \A y \in Places(longer, X) : y <= k
      BY <2>2 DEF Newest
    <3>2. k = n + 1
      BY <1>3, <1>4, <1>5, <2>1, <3>1 DEF Places
    <3> QED BY <1>3, <3>1, <3>2
  <2> QED BY <1>1, <1>6, <2>1, <2>2
<1>7. CASE e \notin X
  <2>1. Places(longer, X) = Places(q, X) /\ \A k \in Places(q, X) : longer[k] = q[k]
    BY <1>3, <1>4, <1>5, <1>7 DEF Places
  <2>2. \A x : Newest(longer, X, x) => Newest(q, X, x)
    BY <2>1 DEF Newest
  <2> QED BY <1>1, <1>7, <2>1, <2>2
<1> QED BY <1>6, <1>7

LEMMA NewestTaken ==
  ASSUME NEW S, NEW q \in Seq(S), q # <<>>, NEW X
  PROVE  /\ \A x : Newest(Tail(q), X, x) => Newest(q, X, x)
         /\ Places(Tail(q), X) # {} => Places(q, X) # {}
         /\ Places(Tail(q), X) = {} /\ Head(q) \in X => Newest(q, X, Head(q))
         /\ Places(Tail(q), X) = {} /\ Head(q) \notin X => Places(q, X) = {}
<1>1. PICK shorter : shorter = Tail(q)
  OBVIOUS
<1>2. PICK n \in Nat \ {0} : n = Len(q)
  OBVIOUS
<1>3. /\ DOMAIN shorter = 1..(n - 1) /\ DOMAIN q = 1..n /\ Head(q) = q[1]
      /\ \A k \in 1..(n - 1) : shorter[k] = q[k + 1]
  BY <1>1, <1>2, TailFacts
<1>4. /\ \A k \in 1..(n - 1) : k + 1 \in 1..n /\ k \in Nat
      /\ \A k \in 1..n : k # 1 => k - 1 \in 1..(n - 1) /\ (k - 1) + 1 = k
      /\ 1 \in 1..n /\ \A k \in 1..n : 1 <= k
      /\ \A j \in 1..n, k \in 1..(n - 1) : j - 1 <= k => j <= k + 1
  BY <1>2
<1>5. /\ \A k \in Places(shorter, X) : k + 1 \in Places(q, X) /\ shorter[k] = q[k + 1]
      /\ \A k \in Places(q, X) : k # 1 => k - 1 \in Places(shorter, X)
      /\ Places(q, X) \subseteq 1..n /\ Places(shorter, X) \subseteq 1..(n - 1)
  BY <1>3, <1>4 DEF Places
<1>6. ASSUME NEW x, Newest(shorter, X, x) PROVE Newest(q, X, x)
  <2>1. PICK k \in Places(shorter, X) : shorter[k] = x /\ \A y \in Places(shorter, X) : y <= k
    BY <1>6 DEF Newest
  <2>2. k + 1 \in Places(q, X) /\ q[k + 1] = x
    BY <1>5, <2>1
  <2>3. ASSUME NEW y \in Places(q, X) PROVE y <= k + 1
    <3>1. CASE y = 1
      BY <1>4, <1>5, <2>1, <3>1
    <3>2. CASE y # 1
      BY <1>4, <1>5, <2>1, <3>2
    <3> QED BY <3>1, <3>2
  <2> QED BY <2>2, <2>3 DEF Newest
<1>7. Places(shorter, X) # {} => Places(q, X) # {}
  BY <1>5
<1>8. ASSUME Places(shorter, X) = {} PROVE Places(q, X) \subseteq {1}
  BY <1>5, <1>8
<1>9. ASSUME Places(shorter, X) = {}, Head(q) \in X PROVE Newest(q, X, Head(q))
  <2>1. 1 \in Places(q, X) /\ Places(q, X) \subseteq {1}
    BY <1>3, <1>4, <1>8, <1>9 DEF Places
  <2> QED BY <1>3, <2>1 DEF Newest
<1>10. ASSUME Places(shorter, X) = {}, Head(q) \notin X PROVE Places(q, X) = {}
  <2>1. 1 \notin Places(q, X)
    BY <1>3, <1>10 DEF Places
  <2> QED BY <1>8, <1>10, <2>1
<1> QED BY <1>1, <1>6, <1>7, <1>9, <1>10

(* Max gives the place of the newest.                                      *)
LEMMA MaxIsNewest ==
  ASSUME NEW S, NEW q \in Seq(S), NEW X, Places(q, X) # {}
  PROVE  /\ Max(Places(q, X)) \in Places(q, X) /\ Newest(q, X, q[Max(Places(q, X))])
<1>1. PICK n \in Nat : n = Len(q)
  OBVIOUS
<1>2. PICK P : P = Places(q, X)
  OBVIOUS
<1>3. P \subseteq 1..n /\ P # {}
  BY <1>1, <1>2 DEF Places
<1> DEFINE Left == {n - k : k \in P}
<1>4. Left \in SUBSET Nat /\ Left # {}
  <2>1. \A k \in P : n - k \in Nat
    BY <1>3
  <2> QED BY <1>3, <2>1
<1>5. PICK m \in Left : \A x \in Left : m <= x
  BY <1>4, LeastNatural
<1>6. PICK k \in P : m = n - k
  BY <1>5
<1>7. \A y \in P : n - k <= n - y
  BY <1>5, <1>6
<1>8. \A y \in P : y <= k /\ k >= y
  <2>1. \A y \in P : y \in Nat /\ y <= n
    BY <1>3
  <2> QED BY <1>7, <2>1
<1>9. Max(P) \in P /\ \A y \in P : Max(P) >= y
  <2>1. \E x \in P : \A y \in P : x >= y
    BY <1>8
  <2>2. Max(P) = CHOOSE x \in P : \A y \in P : x >= y
    BY DEF Max
  <2> QED BY <2>1, <2>2
<1>10. \A y \in P : y <= Max(P)
  <2>1. \A y \in P : y \in Nat
    BY <1>3
  <2> QED BY <1>9, <2>1
<1> QED BY <1>2, <1>9, <1>10 DEF Newest

-----------------------------------------------------------------------------
(* The lists agree with their tables *)

ChangesOf(r) == {c \in RowChanges : c.row = r}
EventsOf(l, r) == {m \in ListEvents : m.kind = l /\ m.row = r}
After(l, change) == NameAfter(ListEvent(l, change))

(* The newest word about a row shows it as it is.                          *)
RowFits(l, r) ==
  /\ \A c \in RowChanges : Newest(feed[l], ChangesOf(r), c) => After(l, c) = Shown(l)[r]
  /\ Places(feed[l], ChangesOf(r)) = {} =>
       /\ \A m \in ListEvents : Newest(wire, EventsOf(l, r), m) => NameAfter(m) = Shown(l)[r]
       /\ Places(wire, EventsOf(l, r)) = {} => view[l][r] = Shown(l)[r]

(* Until the feed is opened the client has heard nothing.                  *)
ListInv(l) ==
  /\ l \notin opened => feed[l] = <<>>
  /\ link = "up" /\ l \in opened => \A r \in Rows : RowFits(l, r)
  /\ link = "up" /\ l \notin opened /\ l \in Kinds /\ subs[l] = "running" =>
       view[l] = NoRows /\ \A k \in DOMAIN wire : wire[k].kind # l

(* What a step does to the messages of other kinds.                        *)
LEMMA OtherMessages ==
  ASSUME Types, NEW l, wire' = wire \/ \E k : k # l /\ (Adds(k) \/ Takes(k)), NEW X, \A m \in X : m.kind = l
  PROVE  /\ (Places(wire, X) = {}) <=> (Places(wire', X) = {})
         /\ \A x : Newest(wire', X, x) => Newest(wire, X, x)
         /\ (\A k \in DOMAIN wire : wire[k].kind # l) => \A k \in DOMAIN wire' : wire'[k].kind # l
<1>1. wire \in Seq(Messages)
  BY DEF Types, WireTypes
<1>2. CASE wire' = wire
  BY <1>2
<1>3. ASSUME NEW k, k # l, Takes(k)
      PROVE  /\ (Places(wire, X) = {}) <=> (Places(wire', X) = {})
             /\ \A x : Newest(wire', X, x) => Newest(wire, X, x)
             /\ (\A i \in DOMAIN wire : wire[i].kind # l) => \A i \in DOMAIN wire' : wire'[i].kind # l
  <2>1. wire # <<>> /\ wire' = Tail(wire) /\ Head(wire) \notin X
    BY <1>3 DEF Takes
  <2>2. /\ (Places(wire, X) = {}) <=> (Places(Tail(wire), X) = {})
        /\ \A x : Newest(Tail(wire), X, x) => Newest(wire, X, x)
    BY <1>1, <2>1, NewestTaken
  <2> QED BY <1>3, <2>1, <2>2, WireElements
<1>4. ASSUME NEW k, k # l, Adds(k)
      PROVE  /\ (Places(wire, X) = {}) <=> (Places(wire', X) = {})
             /\ \A x : Newest(wire', X, x) => Newest(wire, X, x)
             /\ (\A i \in DOMAIN wire : wire[i].kind # l) => \A i \in DOMAIN wire' : wire'[i].kind # l
  <2>1. PICK m \in Messages : m.kind = k /\ wire' = Append(wire, m)
    BY <1>4 DEF Adds
  <2>2. m \notin X
    BY <1>4, <2>1
  <2>3. /\ (Places(Append(wire, m), X) = {}) <=> (Places(wire, X) = {})
        /\ \A x : Newest(Append(wire, m), X, x) => Newest(wire, X, x)
    BY <1>1, <2>2, NewestAppended
  <2> QED BY <1>4, <2>1, <2>3, WireElements
<1> QED BY <1>2, <1>3, <1>4

(* The steps that are not about list l.                                    *)
LEMMA ListAside ==
  ASSUME Types, NEW l \in Lists, ListInv(l),
         feed'[l] = feed[l], tables'[l] = tables[l], view'[l] = view[l],
         (l \in opened') <=> (l \in opened), l \in Kinds => subs'[l] = subs[l],
         \/ link' = "cut" \/ conn = "closed"
         \/ link' = link /\ (wire' = wire \/ \E k : k # l /\ (Adds(k) \/ Takes(k)))
  PROVE  ListInv(l)'
<1>1. CASE link' = "cut"
  BY <1>1 DEF ListInv
<1>2. CASE conn = "closed"
  BY <1>2 DEF ListInv, Types, ConnTypes, ListTypes
<1>3. CASE link' = link /\ (wire' = wire \/ \E k : k # l /\ (Adds(k) \/ Takes(k)))
  <2>1. \A r \in Rows : \A m \in EventsOf(l, r) : m.kind = l
    BY DEF EventsOf
  <2>2. \A r \in Rows :
          /\ (Places(wire, EventsOf(l, r)) = {}) <=> (Places(wire', EventsOf(l, r)) = {})
          /\ \A x : Newest(wire', EventsOf(l, r), x) => Newest(wire, EventsOf(l, r), x)
    BY <1>3, <2>1, OtherMessages
  <2>3. (\A k \in DOMAIN wire : wire[k].kind # l) => \A k \in DOMAIN wire' : wire'[k].kind # l
    <3>1. PICK r \in Rows : TRUE
      BY StreamsAssumption
    <3> QED BY <1>3, <2>1, <3>1, OtherMessages
  <2>4. Shown(l)' = Shown(l)
    BY DEF Shown
  <2>5. ASSUME NEW r \in Rows, RowFits(l, r) PROVE RowFits(l, r)'
    BY <2>2, <2>4, <2>5 DEF RowFits
  <2> QED BY <1>3, <2>3, <2>5 DEF ListInv
<1> QED BY <1>1, <1>2, <1>3

LEMMA ListRowTyped ==
  ASSUME Types, NEW l \in Lists, NEW c \in RowChanges, c.new = tables[l][c.row]
  PROVE  c.row \in Rows /\ After(l, c) = Shown(l)[c.row]
<1>1. c.row \in Rows
  BY DEF RowChanges
<1> QED BY <1>1, ListEventTyped DEF After, Shown

LEMMA FeedOpened ==
  ASSUME Types, NEW l \in Lists, ListInv(l), OpenFeed(l), l \in Kinds PROVE ListInv(l)'
<1>1. /\ subs[l] = "running" /\ l \notin opened /\ l \in opened' /\ feed'[l] = Initial(l)
      /\ UNCHANGED <<link, wire, tables, view>>
  BY DEF OpenFeed, Running, connVars, Types, ListTypes
<1>2. SUFFICES ASSUME link = "up", NEW r \in Rows PROVE RowFits(l, r)'
  BY <1>1 DEF ListInv
<1>3. view[l] = NoRows /\ \A k \in DOMAIN wire : wire[k].kind # l
  BY <1>1, <1>2 DEF ListInv
<1>4. /\ Initial(l) \in Seq(RowChanges)
      /\ \A i \in DOMAIN Initial(l) : Initial(l)[i].new = tables[l][Initial(l)[i].row]
      /\ tables[l][r] # None => \E i \in DOMAIN Initial(l) : Initial(l)[i].row = r
  BY <1>2, InitialTyped
<1>5. Shown(l)' = Shown(l)
  BY <1>1 DEF Shown
<1>6. ASSUME NEW c \in RowChanges, Newest(Initial(l), ChangesOf(r), c) PROVE After(l, c) = Shown(l)[r]
  <2>1. PICK k \in DOMAIN Initial(l) : Initial(l)[k] = c /\ c \in ChangesOf(r)
    BY <1>6 DEF Newest, Places
  <2>2. c.row = r /\ c.new = tables[l][c.row]
    BY <1>4, <2>1 DEF ChangesOf
  <2> QED BY <2>2, ListRowTyped
<1>7. Places(wire, EventsOf(l, r)) = {} /\ \A m : ~Newest(wire, EventsOf(l, r), m)
  BY <1>3 DEF Places, EventsOf, Newest
<1>8. Places(Initial(l), ChangesOf(r)) = {} => view[l][r] = Shown(l)[r]
  <2>1. HAVE Places(Initial(l), ChangesOf(r)) = {}
  <2>2. tables[l][r] = None
    <3>1. \A i \in DOMAIN Initial(l) : Initial(l)[i] \in RowChanges
      BY <1>4, SeqElement
    <3> QED BY <1>4, <2>1, <3>1 DEF Places, ChangesOf
  <2> QED BY <1>2, <1>3, <2>2 DEF NoRows, Shown
<1> QED BY <1>1, <1>5, <1>6, <1>7, <1>8 DEF RowFits

LEMMA RowChanged ==
  ASSUME Types, NEW l \in Lists, ListInv(l), NEW r \in Rows, NEW n \in Names \cup {None},
         ChangeRow(l, r, n)
  PROVE  ListInv(l)'
<1> DEFINE c == [row |-> r, old |-> tables[l][r], new |-> n]
<1>1. /\ UNCHANGED <<link, wire, opened, view, subs>> /\ tables' = [tables EXCEPT ![l][r] = n]
      /\ l \in opened => feed' = [feed EXCEPT ![l] = Append(feed[l], c)]
      /\ l \notin opened => feed' = feed
      /\ tables[l][r] # n
  BY DEF ChangeRow, connVars
<1>2. /\ tables \in [Lists -> [Rows -> Names \cup {None}]] /\ feed \in [Lists -> Seq(RowChanges)]
      /\ c \in RowChanges /\ c.row = r /\ c.new = n
  BY <1>1 DEF Types, ListTypes, RowChanges
<1>3. tables'[l][r] = n /\ \A s \in Rows : s # r => Shown(l)'[s] = Shown(l)[s]
  BY <1>1, <1>2 DEF Shown
<1>4. Shown(l)'[r] = After(l, c)
  BY <1>2, <1>3, ListEventTyped DEF After, Shown
<1>5. SUFFICES ASSUME link = "up", l \in opened, NEW s \in Rows PROVE RowFits(l, s)'
  BY <1>1 DEF ListInv
<1> HIDE DEF c
<1>6. feed'[l] = Append(feed[l], c) /\ feed[l] \in Seq(RowChanges) /\ RowFits(l, s)
  BY <1>1, <1>2, <1>5 DEF ListInv
<1>7. CASE s = r
  <2>1. c \in ChangesOf(s)
    BY <1>2, <1>7 DEF ChangesOf
  <2>2. /\ Places(feed'[l], ChangesOf(s)) # {}
        /\ \A x : Newest(feed'[l], ChangesOf(s), x) => x = c
    BY <1>2, <1>6, <2>1, NewestAppended
  <2> QED BY <1>4, <1>7, <2>2 DEF RowFits
<1>8. CASE s # r
  <2>1. c \notin ChangesOf(s)
    BY <1>2, <1>8 DEF ChangesOf
  <2>2. /\ (Places(feed'[l], ChangesOf(s)) = {}) <=> (Places(feed[l], ChangesOf(s)) = {})
        /\ \A x : Newest(feed'[l], ChangesOf(s), x) => Newest(feed[l], ChangesOf(s), x)
    BY <1>2, <1>6, <2>1, NewestAppended
  <2> QED BY <1>1, <1>3, <1>5, <1>6, <1>8, <2>2 DEF RowFits
<1> QED BY <1>7, <1>8

LEMMA ListEventSent ==
  ASSUME Types, NEW l \in Lists, ListInv(l), SendListEvent(l) PROVE ListInv(l)'
<1>1. /\ UNCHANGED <<link, opened, view, subs, tables>> /\ feed[l] # <<>>
      /\ wire' = Append(wire, ListEvent(l, Head(feed[l])))
      /\ feed'[l] = Tail(feed[l]) /\ feed[l] \in Seq(RowChanges)
  BY DEF SendListEvent, Send, Types, ListTypes
<1>2. l \in opened
  BY <1>1 DEF ListInv
<1>3. PICK c \in RowChanges : c = Head(feed[l])
  BY <1>1, TailFacts
<1>4. /\ ListEvent(l, c) \in ListEvents /\ ListEvent(l, c) \in Messages
      /\ ListEvent(l, c).kind = l /\ ListEvent(l, c).row = c.row
  BY ListEventTyped
<1>5. wire \in Seq(Messages)
  BY DEF Types, WireTypes
<1>6. SUFFICES ASSUME link = "up", NEW r \in Rows PROVE RowFits(l, r)'
  BY <1>1, <1>2 DEF ListInv
<1>7. RowFits(l, r) /\ Shown(l)' = Shown(l)
  BY <1>1, <1>2, <1>6 DEF ListInv, Shown
<1>8. /\ \A x : Newest(feed'[l], ChangesOf(r), x) => Newest(feed[l], ChangesOf(r), x)
      /\ Places(feed'[l], ChangesOf(r)) # {} => Places(feed[l], ChangesOf(r)) # {}
      /\ Places(feed'[l], ChangesOf(r)) = {} /\ c \in ChangesOf(r) => Newest(feed[l], ChangesOf(r), c)
      /\ Places(feed'[l], ChangesOf(r)) = {} /\ c \notin ChangesOf(r) => Places(feed[l], ChangesOf(r)) = {}
  BY <1>1, <1>3, NewestTaken
<1>9. CASE c.row = r
  <2>1. c \in ChangesOf(r) /\ ListEvent(l, c) \in EventsOf(l, r)
    BY <1>4, <1>9 DEF ChangesOf, EventsOf
  <2>2. /\ Places(wire', EventsOf(l, r)) # {}
        /\ \A x : Newest(wire', EventsOf(l, r), x) => x = ListEvent(l, c)
    BY <1>1, <1>3, <1>4, <1>5, <2>1, NewestAppended
  <2>3. Places(feed'[l], ChangesOf(r)) = {} => After(l, c) = Shown(l)[r]
    BY <1>7, <1>8, <2>1 DEF RowFits
  <2> QED BY <1>7, <1>8, <2>2, <2>3 DEF RowFits, After
<1>10. CASE c.row # r
  <2>1. c \notin ChangesOf(r) /\ ListEvent(l, c) \notin EventsOf(l, r)
    BY <1>4, <1>10 DEF ChangesOf, EventsOf
  <2>2. /\ (Places(wire', EventsOf(l, r)) = {}) <=> (Places(wire, EventsOf(l, r)) = {})
        /\ \A x : Newest(wire', EventsOf(l, r), x) => Newest(wire, EventsOf(l, r), x)
    BY <1>1, <1>3, <1>4, <1>5, <2>1, NewestAppended
  <2> QED BY <1>1, <1>7, <1>8, <2>1, <2>2 DEF RowFits
<1> QED BY <1>9, <1>10

LEMMA ListEventReceived ==
  ASSUME Types, NEW l \in Lists, ListInv(l), ReceiveListEvent(l) PROVE ListInv(l)'
<1>1. /\ UNCHANGED <<link, opened, feed, subs, tables>> /\ wire # <<>> /\ wire' = Tail(wire)
      /\ Head(wire).kind = l /\ view'[l] = Apply(view[l], Head(wire)) /\ Head(wire) = wire[1]
      /\ 1 \in DOMAIN wire
  BY FirstMessage DEF ReceiveListEvent, Types, ListTypes
<1>2. wire \in Seq(Messages) /\ view[l] \in [Rows -> Rows \cup Names \cup {None}]
  BY DEF Types, WireTypes, ListTypes
<1>3. PICK m \in ListEvents : m = Head(wire) /\ m.kind = l
  BY <1>1, FirstMessage, MessageKinds
<1>4. ~(l \notin opened /\ l \in Kinds /\ subs[l] = "running" /\ link = "up")
  BY <1>1 DEF ListInv
<1>5. SUFFICES ASSUME link = "up", l \in opened, NEW r \in Rows PROVE RowFits(l, r)'
  BY <1>1, <1>4 DEF ListInv
<1>6. RowFits(l, r) /\ Shown(l)' = Shown(l)
  BY <1>1, <1>5 DEF ListInv, Shown
<1>7. /\ \A x : Newest(wire', EventsOf(l, r), x) => Newest(wire, EventsOf(l, r), x)
      /\ Places(wire', EventsOf(l, r)) # {} => Places(wire, EventsOf(l, r)) # {}
      /\ Places(wire', EventsOf(l, r)) = {} /\ m \in EventsOf(l, r) => Newest(wire, EventsOf(l, r), m)
      /\ Places(wire', EventsOf(l, r)) = {} /\ m \notin EventsOf(l, r) => Places(wire, EventsOf(l, r)) = {}
  BY <1>1, <1>2, <1>3, NewestTaken
<1>8. CASE m.row = r
  <2>1. m \in EventsOf(l, r) /\ view'[l][r] = NameAfter(m)
    BY <1>1, <1>2, <1>3, <1>8 DEF EventsOf, Apply
  <2> QED BY <1>1, <1>6, <1>7, <2>1 DEF RowFits
<1>9. CASE m.row # r
  <2>1. m \notin EventsOf(l, r) /\ view'[l][r] = view[l][r]
    BY <1>1, <1>2, <1>3, <1>9 DEF EventsOf, Apply
  <2> QED BY <1>1, <1>6, <1>7, <2>1 DEF RowFits
<1> QED BY <1>8, <1>9

LEMMA ListInvStep ==
  ASSUME Types, NEW l \in Lists, ListInv(l), [Next]_vars PROVE ListInv(l)'
<1>0. /\ feed \in [Lists -> Seq(RowChanges)] /\ view \in [Lists -> [Rows -> Rows \cup Names \cup {None}]]
      /\ tables \in [Lists -> [Rows -> Names \cup {None}]]
      /\ l # JobStatuses /\ l # Resources /\ l # Sync
      /\ subs \in [Kinds -> {"none", "running", "over"}]
  BY DEF Types, ListTypes, ConnTypes, Lists, JobStatuses, Resources, Sync
<1>1. ASSUME UNCHANGED listVars, \E k \in {Sync, JobStatuses, Resources} :
               /\ \A i \in Kinds \ {k} : subs'[i] = subs[i]
               /\ link' = link /\ (wire' = wire \/ Adds(k) \/ Takes(k))
      PROVE  ListInv(l)'
  BY <1>0, <1>1, ListAside DEF listVars
<1>2. ASSUME NEW i \in Lists, ListStep(i), i # l PROVE ListInv(l)'
  <2>1. /\ UNCHANGED link /\ (l \in Kinds => subs'[l] = subs[l])
        /\ wire' = wire \/ Adds(i) \/ Takes(i)
    BY <1>2, ListStepLeaves
  <2>2. /\ feed'[l] = feed[l] /\ tables'[l] = tables[l] /\ view'[l] = view[l]
        /\ (l \in opened') <=> (l \in opened)
    BY <1>0, <1>2 DEF ListStep, ChangeRow, OpenFeed, SendListEvent, SubscribeList, UnsubscribeList,
      FeedFails, CloseFeed, ReceiveListEvent
  <2> QED BY <1>2, <2>1, <2>2, ListAside
<1>3. CASE ListStep(l) /\ (l \in Kinds \/ ReceiveListEvent(l))
  <2>1. CASE \E r \in Rows, n \in Names \cup {None} : ChangeRow(l, r, n)
    BY <2>1, RowChanged
  <2>2. CASE OpenFeed(l)
    <3>1. l \in Kinds
      BY <1>3, <2>2 DEF OpenFeed, ReceiveListEvent, connVars, listVars
    <3> QED BY <2>2, <3>1, FeedOpened
  <2>3. CASE SendListEvent(l)
    BY <2>3, ListEventSent
  <2>4. CASE SubscribeList(l)
    <3>1. /\ wire = <<>> /\ wire' = <<>> /\ view'[l] = NoRows /\ UNCHANGED <<opened, feed>>
          /\ l \in Kinds => subs[l] # "running"
      BY <1>0, <2>4 DEF SubscribeList, Subscribe
    <3>2. l \notin opened
      BY <3>1 DEF Types, ListTypes
    <3> QED BY <3>1, <3>2 DEF ListInv
  <2>5. CASE UnsubscribeList(l) \/ FeedFails(l)
    <3>1. /\ l \notin opened' /\ feed'[l] = <<>> /\ (l \in Kinds => subs'[l] = "over")
      BY <1>0, <2>5 DEF UnsubscribeList, FeedFails, CloseFeed, Return
    <3> QED BY <3>1 DEF ListInv
  <2>6. CASE ReceiveListEvent(l)
    BY <2>6, ListEventReceived
  <2> QED BY <1>3, <2>1, <2>2, <2>3, <2>4, <2>5, <2>6 DEF ListStep
<1>4. CASE StatusStep
  BY <1>1, <1>4, StatusStepLeaves
<1>5. CASE MonitorStep
  BY <1>1, <1>5, MonitorStepLeaves
<1>6. CASE Close
  <2>1. link' = "cut" /\ opened' = {} /\ feed'[l] = <<>>
    BY <1>6 DEF Close, CloseConnection, ForgetStreams
  <2> QED BY <2>1 DEF ListInv
<1>7. CASE Aside
  <2>1. UNCHANGED listVars /\ (l \in Kinds => subs'[l] = subs[l])
    BY <1>0, <1>7 DEF Aside, streamVars
  <2> QED BY <1>0, <1>7, <2>1, ListAside DEF Aside, listVars
<1> QED BY <1>2, <1>3, <1>4, <1>5, <1>6, <1>7, StepsOfStreams

LEMMA ListInvSuffices ==
  ASSUME Types, \A l \in Lists : ListInv(l) PROVE ListAgrees
<1>1. SUFFICES ASSUME NEW l \in opened, link = "up", NEW r \in Rows
      PROVE  Shown(l)[r] =
               IF Unsent(l, r) # {} THEN NameAfter(ListEvent(l, feed[l][Max(Unsent(l, r))]))
               ELSE IF InFlight(l, r) # {} THEN NameAfter(wire[Max(InFlight(l, r))])
               ELSE view[l][r]
  BY DEF ListAgrees
<1>2. l \in Lists /\ feed[l] \in Seq(RowChanges) /\ wire \in Seq(Messages)
  BY DEF Types, ListTypes, WireTypes
<1>3. RowFits(l, r)
  BY <1>1, <1>2 DEF ListInv
<1>4. Unsent(l, r) = Places(feed[l], ChangesOf(r))
  <2>1. \A k \in DOMAIN feed[l] : feed[l][k] \in RowChanges
    BY <1>2, SeqElement
  <2> QED BY <2>1 DEF Unsent, Places, ChangesOf
<1>5. InFlight(l, r) = Places(wire, EventsOf(l, r))
  <2>1. \A k \in DOMAIN wire : wire[k] \in Messages
    BY <1>2, SeqElement
  <2>2. \A k \in DOMAIN wire : wire[k].kind = l => wire[k] \in ListEvents
    BY <1>2, <2>1, MessageKinds
  <2> QED BY <2>2 DEF InFlight, Places, EventsOf
<1>6. CASE Unsent(l, r) # {}
  <2>1. /\ Max(Unsent(l, r)) \in Unsent(l, r)
        /\ Newest(feed[l], ChangesOf(r), feed[l][Max(Unsent(l, r))])
    BY <1>2, <1>4, <1>6, MaxIsNewest
  <2>2. feed[l][Max(Unsent(l, r))] \in RowChanges
    BY <1>4, <2>1 DEF Places, ChangesOf
  <2> QED BY <1>3, <1>6, <2>1, <2>2 DEF RowFits, After
<1>7. CASE Unsent(l, r) = {} /\ InFlight(l, r) # {}
  <2>1. /\ Max(InFlight(l, r)) \in InFlight(l, r)
        /\ Newest(wire, EventsOf(l, r), wire[Max(InFlight(l, r))])
    BY <1>2, <1>5, <1>7, MaxIsNewest
  <2>2. wire[Max(InFlight(l, r))] \in ListEvents
    BY <1>5, <2>1 DEF Places, EventsOf
  <2> QED BY <1>3, <1>4, <1>7, <2>1, <2>2 DEF RowFits
<1>8. CASE Unsent(l, r) = {} /\ InFlight(l, r) = {}
  BY <1>3, <1>4, <1>5, <1>8 DEF RowFits
<1> QED BY <1>6, <1>7, <1>8

-----------------------------------------------------------------------------
(* The statuses agree with the last snapshot *)

ToldOf(j) == {m \in StatusEvents : j \in DOMAIN m.jobs}

(* The newest word about a job is what the snapshot says.                  *)
JobFits(j) ==
  IF statusAt = "sending" /\ j \in DOMAIN out THEN out[j] = lastSend[j]
  ELSE /\ \A m \in StatusEvents : Newest(wire, ToldOf(j), m) => m.jobs[j] = lastSend[j]
       /\ Places(wire, ToldOf(j)) = {} => statusView[j] = lastSend[j]

StatusInv == subs[JobStatuses] = "running" /\ link = "up" => \A j \in Jobs : JobFits(j)

LEMMA StatusAside ==
  ASSUME Types, StatusInv, UNCHANGED <<lastSend, statusAt, out, statusView>>,
         subs'[JobStatuses] = subs[JobStatuses],
         \/ link' = "cut" \/ conn = "closed"
         \/ link' = link /\ (wire' = wire \/ \E k : k # JobStatuses /\ (Adds(k) \/ Takes(k)))
  PROVE  StatusInv'
<1>1. CASE link' = "cut"
  BY <1>1 DEF StatusInv
<1>2. CASE conn = "closed"
  BY <1>2, SubscriptionsAssumption DEF StatusInv, Types, ConnTypes
<1>3. CASE link' = link /\ (wire' = wire \/ \E k : k # JobStatuses /\ (Adds(k) \/ Takes(k)))
  <2>1. SUFFICES ASSUME NEW j \in Jobs, JobFits(j) PROVE JobFits(j)'
    BY <1>3 DEF StatusInv
  <2>2. \A m \in ToldOf(j) : m.kind = JobStatuses
    BY DEF ToldOf, StatusEvents
  <2>3. /\ (Places(wire, ToldOf(j)) = {}) <=> (Places(wire', ToldOf(j)) = {})
        /\ \A x : Newest(wire', ToldOf(j), x) => Newest(wire, ToldOf(j), x)
    BY <1>3, <2>2, OtherMessages
  <2> QED BY <2>1, <2>3 DEF JobFits
<1> QED BY <1>1, <1>2, <1>3

LEMMA EventMade ==
  ASSUME Types, StatusInv, MakeEvent PROVE StatusInv'
<1>1. /\ UNCHANGED <<link, wire, subs, statusView>> /\ statusAt \in {"new", "making"}
      /\ lastSend' = Snapshot /\ out' = Difference(Snapshot, lastSend)
      /\ statusAt' = IF statusAt = "new" \/ DOMAIN out' # {} THEN "sending" ELSE "sleeping"
  BY DEF MakeEvent, connVars
<1>2. SUFFICES ASSUME NEW j \in Jobs, JobFits(j) PROVE JobFits(j)'
  BY <1>1 DEF StatusInv
<1>3. /\ DOMAIN out' = {i \in Jobs : Snapshot[i] # lastSend[i]}
      /\ \A i \in DOMAIN out' : out'[i] = Snapshot[i]
  BY <1>1 DEF Difference
<1>4. CASE j \in DOMAIN out'
  BY <1>1, <1>3, <1>4 DEF JobFits
<1>5. CASE j \notin DOMAIN out'
  <2>1. lastSend'[j] = lastSend[j]
    BY <1>1, <1>3, <1>5
  <2>2. /\ \A m \in StatusEvents : Newest(wire, ToldOf(j), m) => m.jobs[j] = lastSend[j]
        /\ Places(wire, ToldOf(j)) = {} => statusView[j] = lastSend[j]
    BY <1>1, <1>2 DEF JobFits
  <2> QED BY <1>1, <1>5, <2>1, <2>2 DEF JobFits
<1> QED BY <1>4, <1>5

LEMMA StatusSent ==
  ASSUME Types, StatusInv, SendStatus PROVE StatusInv'
<1> DEFINE e == [kind |-> JobStatuses, jobs |-> out]
<1>1. /\ UNCHANGED <<link, subs, statusView, lastSend, out>> /\ statusAt = "sending" /\ statusAt' = "sleeping"
      /\ wire' = Append(wire, e)
  BY DEF SendStatus, Send
<1>2. e \in StatusEvents /\ e \in Messages /\ e.jobs = out
  BY <1>1 DEF Types, StatusTypes, Messages, StatusEvents
<1>3. wire \in Seq(Messages)
  BY DEF Types, WireTypes
<1> HIDE DEF e
<1>4. PICK m \in StatusEvents : m = e /\ m \in Messages
  BY <1>2
<1>5. SUFFICES ASSUME NEW j \in Jobs, JobFits(j) PROVE JobFits(j)'
  BY <1>1 DEF StatusInv
<1>6. CASE j \in DOMAIN out
  <2>1. m \in ToldOf(j) /\ out[j] = lastSend[j]
    BY <1>1, <1>2, <1>4, <1>5, <1>6 DEF ToldOf, JobFits
  <2>2. Places(wire', ToldOf(j)) # {} /\ \A x : Newest(wire', ToldOf(j), x) => x = m
    BY <1>1, <1>3, <1>4, <2>1, NewestAppended
  <2> QED BY <1>1, <1>2, <1>4, <2>1, <2>2 DEF JobFits
<1>7. CASE j \notin DOMAIN out
  <2>1. m \notin ToldOf(j)
    BY <1>2, <1>4, <1>7 DEF ToldOf
  <2>2. /\ (Places(wire', ToldOf(j)) = {}) <=> (Places(wire, ToldOf(j)) = {})
        /\ \A x : Newest(wire', ToldOf(j), x) => Newest(wire, ToldOf(j), x)
    BY <1>1, <1>3, <1>4, <2>1, NewestAppended
  <2> QED BY <1>1, <1>5, <1>7, <2>2 DEF JobFits
<1> QED BY <1>6, <1>7

LEMMA StatusReceived ==
  ASSUME Types, StatusInv, ReceiveStatus PROVE StatusInv'
<1>1. /\ UNCHANGED <<link, subs, statusAt, lastSend, out>> /\ wire # <<>> /\ wire' = Tail(wire)
      /\ Head(wire).kind = JobStatuses /\ statusView' = Merge(statusView, Head(wire).jobs)
  BY DEF ReceiveStatus
<1>2. PICK m \in Messages : m = Head(wire) /\ m.kind = JobStatuses
  BY <1>1, FirstMessage
<1>3. m \in StatusEvents
  BY <1>2 DEF Messages, ItemMessages, CompleteMessages, ListEvents, StatusEvents, Numbers, Sync, Lists,
    JobStatuses, Resources
<1>4. wire \in Seq(Messages)
  BY DEF Types, WireTypes
<1>5. SUFFICES ASSUME NEW j \in Jobs, JobFits(j) PROVE JobFits(j)'
  BY <1>1 DEF StatusInv
<1>6. /\ \A x : Newest(wire', ToldOf(j), x) => Newest(wire, ToldOf(j), x)
      /\ Places(wire', ToldOf(j)) # {} => Places(wire, ToldOf(j)) # {}
      /\ Places(wire', ToldOf(j)) = {} /\ m \in ToldOf(j) => Newest(wire, ToldOf(j), m)
      /\ Places(wire', ToldOf(j)) = {} /\ m \notin ToldOf(j) => Places(wire, ToldOf(j)) = {}
  BY <1>1, <1>2, <1>4, NewestTaken
<1>7. statusView'[j] = IF m \in ToldOf(j) THEN m.jobs[j] ELSE statusView[j]
  BY <1>1, <1>2, <1>3 DEF Merge, ToldOf
<1> QED BY <1>1, <1>3, <1>5, <1>6, <1>7 DEF JobFits

LEMMA StatusInvStep ==
  ASSUME Types, StatusInv, [Next]_vars PROVE StatusInv'
<1>0. /\ JobStatuses \in Kinds /\ JobStatuses \notin Lists /\ JobStatuses # Sync /\ JobStatuses # Resources
      /\ subs \in [Kinds -> {"none", "running", "over"}]
  BY SubscriptionsAssumption DEF Types, ConnTypes, Lists, JobStatuses, Resources, Sync
<1>1. ASSUME NEW l \in Lists, ListStep(l) PROVE StatusInv'
  BY <1>0, <1>1, ListStepLeaves, StatusAside DEF statusVars
<1>2. CASE MonitorStep
  BY <1>0, <1>2, MonitorStepLeaves, StatusAside DEF statusVars
<1>3. CASE Close
  BY <1>3 DEF Close, CloseConnection, StatusInv
<1>4. CASE Aside
  BY <1>0, <1>4, StatusAside DEF Aside, streamVars, statusVars
<1>5. CASE StatusStep
  <2>1. ASSUME NEW j \in Jobs, UpdateStats(j) \/ DeleteStats(j) \/ GrowOld(j) PROVE StatusInv'
    BY <2>1, StatusAside DEF UpdateStats, DeleteStats, GrowOld, connVars
  <2>2. CASE MakeEvent
    BY <2>2, EventMade
  <2>3. CASE SendStatus
    BY <2>3, StatusSent
  <2>4. CASE StatusWakes
    <3>1. /\ UNCHANGED <<link, subs, wire, lastSend, out, statusView>> /\ statusAt = "sleeping" /\ statusAt' = "making"
      BY <2>4 DEF StatusWakes, connVars
    <3>2. \A j \in Jobs : JobFits(j) => JobFits(j)'
      BY <3>1 DEF JobFits
    <3> QED BY <3>1, <3>2 DEF StatusInv
  <2>5. CASE SubscribeStatus
    <3>1. wire' = <<>> /\ statusAt' = "new" /\ lastSend' = NoJobs /\ statusView' = NoJobs
      BY <2>5 DEF SubscribeStatus, Subscribe
    <3>2. \A j : Places(wire', ToldOf(j)) = {} /\ \A x : ~Newest(wire', ToldOf(j), x)
      BY <3>1 DEF Places, Newest
    <3> QED BY <3>1, <3>2 DEF StatusInv, JobFits
  <2>6. CASE UnsubscribeStatus
    BY <1>0, <2>6 DEF UnsubscribeStatus, Return, StatusInv
  <2>7. CASE ReceiveStatus
    BY <2>7, StatusReceived
  <2> QED BY <1>5, <2>1, <2>2, <2>3, <2>4, <2>5, <2>6, <2>7 DEF StatusStep
<1> QED BY <1>1, <1>2, <1>3, <1>4, <1>5, StepsOfStreams

LEMMA StatusInvSuffices ==
  ASSUME Types, StatusInv PROVE StatusAgrees
<1>1. SUFFICES ASSUME subs[JobStatuses] = "running", link = "up", NEW j \in Jobs
      PROVE  lastSend[j] =
               IF statusAt = "sending" /\ j \in DOMAIN out THEN out[j]
               ELSE IF Told(j) # {} THEN wire[Max(Told(j))].jobs[j]
               ELSE statusView[j]
  BY DEF StatusAgrees
<1>2. wire \in Seq(Messages) /\ JobFits(j)
  BY <1>1 DEF Types, WireTypes, StatusInv
<1>3. Told(j) = Places(wire, ToldOf(j))
  <2>1. \A k \in DOMAIN wire : wire[k] \in Messages
    BY <1>2, SeqElement
  <2>2. \A m \in Messages : m.kind = JobStatuses => m \in StatusEvents
    BY DEF Messages, ItemMessages, CompleteMessages, ListEvents, StatusEvents, Numbers, Sync, Lists,
      JobStatuses, Resources
  <2>3. \A m \in StatusEvents : m.kind = JobStatuses
    BY DEF StatusEvents
  <2> QED BY <2>1, <2>2, <2>3 DEF Told, Places, ToldOf
<1>4. CASE Told(j) # {}
  <2>1. /\ Max(Told(j)) \in Told(j)
        /\ Newest(wire, ToldOf(j), wire[Max(Told(j))])
    BY <1>2, <1>3, <1>4, MaxIsNewest
  <2>2. wire[Max(Told(j))] \in StatusEvents
    BY <1>3, <2>1 DEF Places, ToldOf
  <2> QED BY <1>2, <1>4, <2>1, <2>2 DEF JobFits
<1>5. CASE Told(j) = {}
  BY <1>2, <1>3, <1>5 DEF JobFits
<1> QED BY <1>4, <1>5
-----------------------------------------------------------------------------
(* The measurements arrive in order *)

Increases(s) == \A i, j \in DOMAIN s : i < j => s[i] < s[j]
Els(s) == {s[i] : i \in DOMAIN s}
Before(S, T) == \A a \in S, b \in T : a < b

LEMMA IncreasesAppended ==
  ASSUME NEW s \in Seq(Nat), NEW e \in Nat, Increases(s), Before(Els(s), {e})
  PROVE  Increases(Append(s, e)) /\ Els(Append(s, e)) = Els(s) \cup {e}
<1>1. PICK n \in Nat : n = Len(s)
  OBVIOUS
<1>2. /\ DOMAIN Append(s, e) = 1..(n + 1) /\ DOMAIN s = 1..n
      /\ \A k \in 1..n : Append(s, e)[k] = s[k] /\ s[k] \in Nat
      /\ Append(s, e)[n + 1] = e
  BY <1>1, AppendFacts, SeqElement
<1>3. \A k \in 1..n : s[k] < e
  BY <1>2 DEF Before, Els
<1>4. Increases(Append(s, e))
  <2>1. \A i, j \in 1..(n + 1) : i < j => i \in 1..n /\ (j \in 1..n \/ j = n + 1)
    OBVIOUS
  <2> QED BY <1>2, <1>3, <2>1 DEF Increases
<1>5. 1..(n + 1) = 1..n \cup {n + 1}
  OBVIOUS
<1> QED BY <1>2, <1>4, <1>5 DEF Els

LEMMA IncreasesTaken ==
  ASSUME NEW s \in Seq(Nat), s # <<>>, Increases(s)
  PROVE  /\ Increases(Tail(s)) /\ Els(s) = Els(Tail(s)) \cup {Head(s)}
         /\ Before({Head(s)}, Els(Tail(s)))
<1>1. PICK n \in Nat \ {0} : n = Len(s)
  BY TailFacts
<1>2. /\ DOMAIN Tail(s) = 1..(n - 1) /\ DOMAIN s = 1..n
      /\ \A k \in 1..(n - 1) : Tail(s)[k] = s[k + 1]
      /\ Head(s) = s[1]
  BY <1>1, TailFacts
<1>3. \A k \in 1..(n - 1) : k + 1 \in 1..n /\ 1 < k + 1
  OBVIOUS
<1>4. \A k \in 1..n : k = 1 \/ (k - 1 \in 1..(n - 1) /\ (k - 1) + 1 = k)
  OBVIOUS
<1>5. 1 \in 1..n
  OBVIOUS
<1>6. Increases(Tail(s))
  <2>1. \A i, j \in 1..(n - 1) : i < j => i + 1 < j + 1
    OBVIOUS
  <2> QED BY <1>2, <1>3, <2>1 DEF Increases
<1>7. Els(s) \subseteq Els(Tail(s)) \cup {Head(s)}
  <2> DEFINE Rest == Els(Tail(s))
  <2>1. ASSUME NEW k \in 1..n PROVE s[k] \in Rest \cup {Head(s)}
    <3>1. CASE k = 1
      BY <1>2, <3>1
    <3>2. CASE k # 1
      <4>1. k - 1 \in 1..(n - 1) /\ (k - 1) + 1 = k
        BY <1>4, <3>2
      <4>2. Tail(s)[k - 1] = s[k]
        BY <1>2, <4>1
      <4> QED BY <1>2, <4>1, <4>2 DEF Els
    <3> QED BY <3>1, <3>2
  <2> HIDE DEF Rest
  <2>2. Els(s) \subseteq Rest \cup {Head(s)}
    BY <1>2, <2>1 DEF Els
  <2> QED BY <2>2 DEF Rest
<1>8. Els(Tail(s)) \cup {Head(s)} \subseteq Els(s)
  BY <1>2, <1>3, <1>5 DEF Els
<1>9. Before({Head(s)}, Els(Tail(s)))
  BY <1>2, <1>3, <1>5 DEF Before, Els, Increases
<1> QED BY <1>6, <1>7, <1>8, <1>9

LEMMA ElsOfNats == ASSUME NEW s \in Seq(Nat) PROVE Els(s) \subseteq Nat
BY SeqElement DEF Els

(* The measurements that are in flight.                                    *)
Metered == {k \in DOMAIN wire : wire[k].kind = Resources}
Metering == {wire[k].number : k \in Metered}
MeteredInOrder == \A i, j \in Metered : i < j => wire[i].number < wire[j].number

LEMMA MeteredTyped ==
  ASSUME Types PROVE Metering \subseteq Nat /\ \A k \in Metered : wire[k].number \in Nat
<1>1. \A k \in Metered : wire[k] \in Messages /\ wire[k].kind = Resources
  BY SeqElement DEF Types, WireTypes, Metered
<1>2. \A k \in Metered : wire[k].number \in Nat
  BY <1>1, MessageKinds
<1> QED BY <1>2 DEF Metering

LEMMA MeteredElsewhere ==
  ASSUME Types, NEW k, k # Resources, Adds(k) \/ Takes(k) \/ wire' = wire
  PROVE  Metering' = Metering /\ (MeteredInOrder => MeteredInOrder')
<1>1. CASE wire' = wire
  BY <1>1 DEF Metering, Metered, MeteredInOrder
<1>2. CASE Adds(k)
  <2>1. PICK m \in Messages : m.kind = k /\ wire' = Append(wire, m)
    BY <1>2 DEF Adds
  <2>2. /\ DOMAIN wire' = DOMAIN wire \cup {Len(wire) + 1} /\ wire'[Len(wire) + 1] = m
        /\ \A i \in DOMAIN wire : i < Len(wire) + 1 /\ wire'[i] = wire[i]
    BY <2>1, WirePositions
  <2>3. Metered' = Metered /\ \A i \in Metered : wire'[i] = wire[i]
    BY <2>1, <2>2 DEF Metered
  <2> QED BY <2>3 DEF Metering, MeteredInOrder
<1>3. CASE Takes(k)
  <2>1. wire # <<>> /\ wire' = Tail(wire) /\ Head(wire).kind = k /\ Head(wire) = wire[1]
    BY <1>3, TailFacts DEF Takes, Types, WireTypes
  <2>2. /\ DOMAIN wire' = 1..(Len(wire) - 1) /\ 1 \in DOMAIN wire
        /\ \A i \in DOMAIN wire' : i + 1 \in DOMAIN wire /\ wire'[i] = wire[i + 1] /\ i \in Nat
        /\ \A i \in DOMAIN wire : i # 1 => i - 1 \in DOMAIN wire' /\ (i - 1) + 1 = i /\ i > 1
    BY <2>1, WirePositions
  <2>3. \A i \in Metered' : i + 1 \in Metered /\ wire'[i] = wire[i + 1] /\ i \in Nat
    BY <2>2 DEF Metered
  <2>4. \A i \in Metered : i - 1 \in Metered' /\ wire'[i - 1] = wire[i]
    BY <2>1, <2>2 DEF Metered
  <2>5. Metering' = Metering
    BY <2>3, <2>4 DEF Metering
  <2>6. \A i, j \in Metered' : i < j => i + 1 < j + 1
    BY <2>3
  <2> QED BY <2>3, <2>5, <2>6 DEF MeteredInOrder
<1> QED BY <1>1, <1>2, <1>3

LEMMA MeteredSent ==
  ASSUME Types, NEW x \in Nat, wire' = Append(wire, Measurement(x)), MeteredInOrder, Before(Metering, {x})
  PROVE  Metering' = Metering \cup {x} /\ MeteredInOrder'
<1>1. /\ Measurement(x) \in Messages /\ Measurement(x).kind = Resources /\ Measurement(x).number = x
  BY DEF Measurement, Messages, Numbers
<1>2. /\ DOMAIN wire' = DOMAIN wire \cup {Len(wire) + 1} /\ wire'[Len(wire) + 1] = Measurement(x)
      /\ \A i \in DOMAIN wire : i < Len(wire) + 1 /\ wire'[i] = wire[i]
      /\ DOMAIN wire = 1..Len(wire) /\ Len(wire) \in Nat
  BY <1>1, WirePositions
<1>3. Metered' = Metered \cup {Len(wire) + 1} /\ \A i \in Metered : wire'[i] = wire[i] /\ i < Len(wire) + 1 /\ i \in Nat
  BY <1>1, <1>2 DEF Metered
<1>4. wire'[Len(wire) + 1].number = x
  BY <1>1, <1>2
<1>5. Metering' = Metering \cup {x}
  BY <1>3, <1>4 DEF Metering
<1>6. MeteredInOrder'
  <2>1. SUFFICES ASSUME NEW i \in Metered', NEW j \in Metered', i < j
        PROVE  wire'[i].number < wire'[j].number
    BY DEF MeteredInOrder
  <2>2. i \in Metered
    BY <1>2, <1>3, <2>1
  <2>3. CASE j \in Metered
    BY <1>3, <2>1, <2>2, <2>3 DEF MeteredInOrder
  <2>4. CASE j = Len(wire) + 1
    BY <1>3, <1>4, <2>2, <2>4 DEF Before, Metering
  <2> QED BY <1>3, <2>3, <2>4
<1> QED BY <1>5, <1>6

LEMMA MeteredReceived ==
  ASSUME Types, wire # <<>>, wire' = Tail(wire), Head(wire).kind = Resources, MeteredInOrder
  PROVE  /\ Metering = Metering' \cup {Head(wire).number} /\ MeteredInOrder'
         /\ Before({Head(wire).number}, Metering')
<1>1. Head(wire) = wire[1]
  BY TailFacts DEF Types, WireTypes
<1>2. /\ DOMAIN wire' = 1..(Len(wire) - 1) /\ 1 \in DOMAIN wire
      /\ \A i \in DOMAIN wire' : i + 1 \in DOMAIN wire /\ wire'[i] = wire[i + 1] /\ i \in Nat
      /\ \A i \in DOMAIN wire : i # 1 => i - 1 \in DOMAIN wire' /\ (i - 1) + 1 = i /\ i > 1
  BY WirePositions
<1>3. 1 \in Metered
  BY <1>1, <1>2 DEF Metered
<1>4. \A i \in Metered' : i + 1 \in Metered /\ wire'[i] = wire[i + 1] /\ 1 < i + 1 /\ i \in Nat
  <2>1. \A i \in DOMAIN wire' : i >= 1
    <3>1. Len(wire) \in Nat
      BY WirePositions
    <3> QED BY <1>2, <3>1
  <2>2. \A i \in DOMAIN wire' : i \in Nat /\ 1 < i + 1
    BY <1>2, <2>1
  <2> QED BY <1>2, <2>2 DEF Metered
<1>5. \A i \in Metered : i # 1 => i - 1 \in Metered' /\ wire'[i - 1] = wire[i]
  BY <1>2 DEF Metered
<1>6. Metering \subseteq Metering' \cup {Head(wire).number}
  <2>1. ASSUME NEW i \in Metered PROVE wire[i].number \in Metering' \cup {Head(wire).number}
    <3>1. CASE i = 1
      BY <1>1, <3>1
    <3>2. CASE i # 1
      BY <1>5, <3>2 DEF Metering
    <3> QED BY <3>1, <3>2
  <2> QED BY <2>1 DEF Metering
<1>7. Metering' \cup {Head(wire).number} \subseteq Metering
  BY <1>1, <1>3, <1>4 DEF Metering
<1>8. \A i, j \in Metered' : i < j => i + 1 < j + 1
  BY <1>4
<1>9. MeteredInOrder'
  BY <1>4, <1>8 DEF MeteredInOrder
<1>10. Before({Head(wire).number}, Metering')
  BY <1>1, <1>3, <1>4 DEF Before, Metering, MeteredInOrder
<1> QED BY <1>6, <1>7, <1>9, <1>10

(* What the client has seen, what is on its way to it, and what waits.     *)
Arriving == Els(seen) \cup Metering
Waiting == Els(backlog) \cup Els(recvChannel)

(* The client's measurements and those in flight are in order, and between *)
(* two of them there are those that were lost, and no others.              *)
SeenFits ==
  /\ Increases(seen) /\ MeteredInOrder /\ Before(Els(seen), Metering)
  /\ \A a, b \in Arriving, n \in Nat : a <= n /\ n <= b => n \in Arriving \cup lost

(* What waits comes after them, and goes on to the last measurement.       *)
QueuesFit ==
  /\ Increases(backlog) /\ Increases(recvChannel) /\ Before(Els(backlog), Els(recvChannel))
  /\ Before(Arriving, Waiting)
  /\ \A a \in Arriving \cup Waiting : a <= measured
  /\ \A a \in Arriving \cup Waiting, n \in Nat :
       a <= n /\ n <= measured => n \in Arriving \cup Waiting \cup lost

(* Nothing arrives before the subscription has opened its channel.         *)
Silent == seen = <<>> /\ Metering = {}

(* The monitor keeps the last measurements, one by one.                    *)
KeptFits ==
  \A i \in DOMAIN measurements : measurements[i] = measured - Len(measurements) + i

MeterInv ==
  /\ SeenFits /\ KeptFits
  /\ listening /\ link = "up" => QueuesFit
  /\ Resources \in Kinds /\ subs[Resources] = "running" /\ ~listening => Silent

LEMMA ArrivingTyped ==
  ASSUME Types
  PROVE  /\ Els(seen) \subseteq Nat /\ Metering \subseteq Nat
         /\ Els(backlog) \subseteq Nat /\ Els(recvChannel) \subseteq Nat
         /\ Arriving \subseteq Nat /\ Waiting \subseteq Nat /\ measured \in Nat
         /\ seen \in Seq(Nat) /\ backlog \in Seq(Nat) /\ recvChannel \in Seq(Nat)
         /\ measurements \in Seq(Nat)
<1>1. /\ seen \in Seq(Nat) /\ backlog \in Seq(Nat) /\ recvChannel \in Seq(Nat)
      /\ measurements \in Seq(Nat)
  BY DEF Types, MonitorTypes, QueueTypes
<1>2. measured \in Nat
  BY StreamsAssumption DEF Types, MonitorTypes, CountTypes
<1> QED BY <1>1, <1>2, MeteredTyped, ElsOfNats DEF Arriving, Waiting

(* A step that leaves the measurements, and the messages about them, alone.*)
LEMMA MeterAside ==
  ASSUME Types, MeterInv, UNCHANGED monitorVars, Resources \in Kinds => subs'[Resources] = subs[Resources],
         \/ UNCHANGED <<wire, link>>
         \/ link' = link /\ \E k : k # Resources /\ (Adds(k) \/ Takes(k))
  PROVE  MeterInv'
<1>1. Metering' = Metering /\ MeteredInOrder' /\ link' = link
  BY MeteredElsewhere DEF MeterInv, SeenFits, Resources
<1>2. Arriving' = Arriving /\ Waiting' = Waiting
  BY <1>1 DEF monitorVars, Arriving, Waiting
<1>3. SeenFits'
  BY <1>1, <1>2 DEF MeterInv, SeenFits, monitorVars
<1>4. KeptFits'
  BY DEF MeterInv, KeptFits, monitorVars
<1>5. QueuesFit => QueuesFit'
  BY <1>2 DEF QueuesFit, monitorVars
<1>6. Silent => Silent'
  BY <1>1 DEF Silent, monitorVars
<1> QED BY <1>1, <1>3, <1>4, <1>5, <1>6 DEF MeterInv, monitorVars

(* What is in flight is lost.                                              *)
LEMMA MeterLost ==
  ASSUME Types, MeterInv, wire' = <<>>, UNCHANGED <<seen, lost, measured, measurements>>
  PROVE  SeenFits' /\ KeptFits' /\ Metering' = {}
<1>1. Metered' = {} /\ Metering' = {}
  BY DEF Metered, Metering
<1>2. \A a, b \in Els(seen), n \in Nat : a <= n /\ n <= b => n \in Els(seen) \cup lost
  <2>1. SUFFICES ASSUME NEW a \in Els(seen), NEW b \in Els(seen), NEW n \in Nat, a <= n, n <= b
        PROVE  n \in Els(seen) \cup lost
    OBVIOUS
  <2>2. n \in Els(seen) \cup Metering \cup lost
    BY <2>1 DEF MeterInv, SeenFits, Arriving
  <2>3. n \notin Metering
    <3>1. SUFFICES ASSUME n \in Metering PROVE FALSE
      OBVIOUS
    <3>2. b < n /\ b \in Nat
      BY <3>1, ArrivingTyped DEF MeterInv, SeenFits, Before
    <3> QED BY <2>1, <3>2
  <2> QED BY <2>2, <2>3
<1>3. SeenFits'
  BY <1>1, <1>2 DEF MeterInv, SeenFits, Arriving, MeteredInOrder, Before
<1>4. KeptFits'
  BY DEF MeterInv, KeptFits
<1> QED BY <1>1, <1>3, <1>4

LEMMA MeterMeasured ==
  ASSUME Types, MeterInv, Measure PROVE MeterInv'
<1>1. /\ UNCHANGED <<wire, link, subs, backlog, listening, seen>>
      /\ measured' = measured + 1
      /\ measurements' = LastOf(BufferSize, Append(measurements, measured + 1))
      /\ \/ ~listening /\ UNCHANGED <<recvChannel, lost>>
         \/ recvChannel' = Append(recvChannel, measured + 1) /\ lost' = lost
         \/ lost' = lost \cup {measured + 1} /\ recvChannel' = recvChannel
  BY DEF Measure, connVars
<1>2. Metering' = Metering /\ Metered' = Metered /\ Arriving' = Arriving /\ lost \subseteq lost'
  BY <1>1 DEF Metering, Metered, Arriving
<1>3. SeenFits'
  BY <1>1, <1>2 DEF MeterInv, SeenFits, MeteredInOrder
<1>4. KeptFits'
  <2>1. PICK m \in Nat : m = Len(measurements)
    BY ArrivingTyped
  <2>2. PICK more \in Seq(Nat) : more = Append(measurements, measured + 1)
    <3>1. measured + 1 \in Nat /\ measurements \in Seq(Nat)
      BY ArrivingTyped
    <3> QED BY <3>1, AppendFacts
  <2>3. /\ Len(more) = m + 1 /\ more[m + 1] = measured + 1
        /\ \A k \in 1..m : more[k] = measurements[k] /\ measurements[k] = measured - m + k
    <3>1. DOMAIN measurements = 1..m
      BY <2>1, ArrivingTyped
    <3>2. \A k \in 1..m : measurements[k] = measured - m + k
      BY <2>1, <3>1 DEF MeterInv, KeptFits
    <3>3. measured + 1 \in Nat
      BY ArrivingTyped
    <3> QED BY <2>1, <2>2, <3>2, <3>3, ArrivingTyped, AppendFacts
  <2>4. \A k \in 1..(m + 1) : more[k] = measured - m + k
    <3>1. \A k \in 1..(m + 1) : k \in 1..m \/ k = m + 1
      OBVIOUS
    <3>2. measured - m + (m + 1) = measured + 1
      BY ArrivingTyped
    <3> QED BY <2>3, <3>1, <3>2
  <2>5. BufferSize \in Nat
    BY StreamsAssumption
  <2>6. PICK kept \in Seq(Nat) : kept = LastOf(BufferSize, more)
    BY <2>2, <2>5, LastOfFacts
  <2>7. PICK n \in Nat : n = Len(kept) /\ n <= m + 1 /\ \A i \in 1..n : kept[i] = more[m + 1 - n + i]
    <3>1. /\ Len(kept) = IF Len(more) > BufferSize THEN BufferSize ELSE Len(more)
          /\ \A i \in 1..Len(kept) : kept[i] = more[Len(more) - Len(kept) + i]
      BY <2>5, <2>6, LastOfFacts
    <3>2. Len(kept) \in Nat
      BY <2>6
    <3> QED BY <2>3, <2>5, <3>1, <3>2
  <2>8. \A i \in 1..n : kept[i] = (measured + 1) - n + i
    <3>1. TAKE i \in 1..n
    <3>2. m + 1 - n + i \in 1..(m + 1)
      BY <2>7
    <3>3. kept[i] = measured - m + (m + 1 - n + i)
      BY <2>4, <2>7, <3>2
    <3>4. measured - m + (m + 1 - n + i) = (measured + 1) - n + i
      BY ArrivingTyped
    <3> QED BY <3>3, <3>4
  <2>9. DOMAIN kept = 1..n
    BY <2>6, <2>7
  <2> QED BY <1>1, <2>2, <2>6, <2>7, <2>8, <2>9 DEF KeptFits
<1>5. ASSUME listening, QueuesFit PROVE QueuesFit'
  <2>1. /\ \A a \in Arriving \cup Waiting : a <= measured /\ a \in Nat
        /\ measured \in Nat /\ backlog \in Seq(Nat) /\ recvChannel \in Seq(Nat)
    BY <1>5, ArrivingTyped DEF QueuesFit
  <2>2. /\ Increases(recvChannel)'
        /\ \/ Els(recvChannel') = Els(recvChannel) \cup {measured + 1}
           \/ Els(recvChannel') = Els(recvChannel) /\ lost' = lost \cup {measured + 1}
    <3>1. CASE recvChannel' = Append(recvChannel, measured + 1)
      <4>1. Before(Els(recvChannel), {measured + 1}) /\ measured + 1 \in Nat
        BY <2>1 DEF Before, Waiting
      <4> QED BY <1>5, <2>1, <3>1, <4>1, IncreasesAppended DEF QueuesFit
    <3>2. CASE recvChannel' = recvChannel /\ lost' = lost \cup {measured + 1}
      BY <1>5, <3>2 DEF QueuesFit
    <3> QED BY <1>1, <1>5, <3>1, <3>2
  <2>3. /\ Waiting \subseteq Waiting' /\ Waiting' \subseteq Waiting \cup {measured + 1}
        /\ measured + 1 \in Waiting' \cup lost'
    BY <1>1, <2>2 DEF Waiting
  <2>4. Before(Els(backlog), Els(recvChannel))' /\ Before(Arriving, Waiting)'
    <3>1. \A a \in Arriving \cup Waiting : a < measured + 1
      BY <2>1
    <3>2. Els(backlog)' = Els(backlog) /\ Els(backlog) \subseteq Waiting
      BY <1>1 DEF Waiting
    <3>3. Before(Els(backlog), Els(recvChannel')) /\ Before(Arriving, Waiting')
      BY <1>5, <2>2, <2>3, <3>1, <3>2 DEF QueuesFit, Before
    <3> QED BY <1>2, <3>2, <3>3
  <2>5. \A a \in Arriving \cup Waiting' : a <= measured + 1
    BY <2>1, <2>3
  <2>6. ASSUME NEW a \in Arriving \cup Waiting', NEW n \in Nat, a <= n, n <= measured + 1
        PROVE  n \in Arriving \cup Waiting' \cup lost'
    <3>1. CASE n = measured + 1
      BY <2>3, <3>1
    <3>2. CASE n # measured + 1
      <4>1. n <= measured /\ a # measured + 1
        BY <2>1, <2>3, <2>6, <3>2
      <4>2. a \in Arriving \cup Waiting
        BY <2>3, <2>6, <4>1
      <4>3. n \in Arriving \cup Waiting \cup lost
        BY <1>5, <2>6, <4>1, <4>2 DEF QueuesFit
      <4> QED BY <1>2, <2>3, <4>3
    <3> QED BY <3>1, <3>2
  <2>7. Increases(backlog)'
    BY <1>1, <1>5 DEF QueuesFit
  <2> QED BY <1>1, <1>2, <2>2, <2>4, <2>5, <2>6, <2>7 DEF QueuesFit
<1>6. Silent => Silent'
  BY <1>1, <1>2 DEF Silent
<1> QED BY <1>1, <1>3, <1>4, <1>5, <1>6 DEF MeterInv

(* The past measurements: the last ones, one by one.                       *)
LEMMA HistoryFits ==
  ASSUME Types, KeptFits
  PROVE  /\ Increases(History)
         /\ \A a \in Els(History) : a <= measured
         /\ \A a \in Els(History), n \in Nat : a <= n /\ n <= measured => n \in Els(History)
<1>1. PICK m \in Nat : m = Len(measurements)
  BY ArrivingTyped
<1>2. HistorySize \in Nat /\ measured \in Nat /\ measurements \in Seq(Nat)
  BY StreamsAssumption, ArrivingTyped
<1>3. PICK h \in Seq(Nat) : h = History
  BY <1>2, LastOfFacts DEF History
<1>4. PICK l \in Nat : l = Len(h) /\ l <= m /\ \A i \in 1..l : h[i] = measurements[m - l + i]
  <2>1. Len(h) \in Nat /\ Len(h) = IF m > HistorySize THEN HistorySize ELSE m
    BY <1>1, <1>2, <1>3, LastOfFacts DEF History
  <2>2. \A i \in 1..Len(h) : h[i] = measurements[m - Len(h) + i]
    BY <1>1, <1>2, <1>3, LastOfFacts DEF History
  <2> QED BY <1>2, <2>1, <2>2
<1>5. \A i \in 1..l : h[i] = measured - l + i
  <2>1. TAKE i \in 1..l
  <2>2. m - l + i \in 1..m
    BY <1>4
  <2>3. DOMAIN measurements = 1..m
    BY <1>1, <1>2
  <2>4. measurements[m - l + i] = measured - m + (m - l + i)
    BY <1>1, <2>2, <2>3 DEF KeptFits
  <2>5. measured - m + (m - l + i) = measured - l + i
    BY <1>2
  <2> QED BY <1>4, <2>4, <2>5
<1>6. DOMAIN h = 1..l
  BY <1>3, <1>4
<1>7. Increases(h)
  BY <1>2, <1>4, <1>5, <1>6 DEF Increases
<1>8. \A a \in Els(h) : a <= measured
  BY <1>2, <1>4, <1>5, <1>6 DEF Els
<1>9. ASSUME NEW a \in Els(h), NEW n \in Nat, a <= n, n <= measured PROVE n \in Els(h)
  <2>1. PICK i \in 1..l : a = measured - l + i
    BY <1>5, <1>6 DEF Els
  <2>2. n - measured + l \in 1..l /\ measured - l + (n - measured + l) = n
    BY <1>2, <1>4, <1>9, <2>1
  <2>3. h[n - measured + l] = n
    BY <1>5, <2>2
  <2> QED BY <1>6, <2>2, <2>3 DEF Els
<1> QED BY <1>3, <1>7, <1>8, <1>9

LEMMA MeterStarted ==
  ASSUME Types, MeterInv, StartMonitor, Resources \in Kinds PROVE MeterInv'
<1>1. /\ UNCHANGED <<wire, link, subs, measured, measurements, seen, lost>>
      /\ subs[Resources] = "running" /\ ~listening /\ listening'
      /\ recvChannel' = <<>> /\ backlog' = History
  BY DEF StartMonitor, Running, connVars
<1>2. Metering' = Metering /\ Metered' = Metered /\ Arriving' = Arriving
  BY <1>1 DEF Metering, Metered, Arriving
<1>3. SeenFits' /\ KeptFits'
  BY <1>1, <1>2 DEF MeterInv, SeenFits, MeteredInOrder, KeptFits
<1>4. Arriving = {}
  BY <1>1 DEF MeterInv, Silent, Arriving, Els
<1>5. Els(recvChannel') = {} /\ Increases(recvChannel')
  BY <1>1 DEF Els, Increases
<1>6. Waiting' = Els(History)
  BY <1>1, <1>5 DEF Waiting
<1>7. QueuesFit'
  <2>1. KeptFits
    BY DEF MeterInv
  <2>2. Before(Els(backlog), Els(recvChannel))' /\ Before(Arriving, Waiting)'
    BY <1>2, <1>4, <1>5 DEF Before
  <2> QED BY <1>1, <1>2, <1>4, <1>5, <1>6, <2>1, <2>2, HistoryFits DEF QueuesFit
<1> QED BY <1>1, <1>3, <1>7 DEF MeterInv

(* One of those that wait, before the others, goes on its way.             *)
LEMMA MeterMoved ==
  ASSUME Types, MeterInv, listening, link = "up", NEW x \in Nat,
         wire' = Append(wire, Measurement(x)),
         Waiting = Waiting' \cup {x}, Before({x}, Waiting'),
         UNCHANGED <<link, subs, listening, measured, measurements, seen, lost>>,
         Increases(backlog'), Increases(recvChannel'), Before(Els(backlog'), Els(recvChannel'))
  PROVE  MeterInv'
<1>1. QueuesFit /\ SeenFits
  BY DEF MeterInv
<1>2. Before(Arriving, {x}) /\ x \notin Waiting'
  BY <1>1 DEF QueuesFit, Before
<1>3. Before(Metering, {x}) /\ Before(Els(seen), {x})
  BY <1>2 DEF Arriving, Before
<1>4. Metering' = Metering \cup {x} /\ MeteredInOrder'
  BY <1>1, <1>3, MeteredSent DEF SeenFits
<1>5. Arriving' = Arriving \cup {x} /\ Arriving' \cup Waiting' = Arriving \cup Waiting
  BY <1>4 DEF Arriving
<1>6. SeenFits'
  <2>1. Before(Els(seen), Metering)'
    BY <1>1, <1>3, <1>4 DEF SeenFits, Before
  <2>2. ASSUME NEW a \in Arriving', NEW b \in Arriving', NEW n \in Nat, a <= n, n <= b
        PROVE  n \in Arriving' \cup lost
    <3>1. /\ \A c \in Arriving' : c \in Nat /\ c <= x
          /\ x <= measured /\ measured \in Nat
      BY <1>1, <1>2, <1>5, ArrivingTyped DEF Before, QueuesFit
    <3>2. n <= x /\ n <= measured
      BY <2>2, <3>1
    <3>3. n \in Arriving \cup Waiting \cup lost
      BY <1>1, <1>5, <2>2, <3>2 DEF QueuesFit
    <3>4. n \notin Waiting'
      BY <2>2, <3>2 DEF Before
    <3> QED BY <1>5, <3>3, <3>4
  <2> QED BY <1>1, <1>4, <2>1, <2>2 DEF SeenFits
<1>7. QueuesFit'
  <2>1. Before(Arriving, Waiting)'
    BY <1>1, <1>5 DEF QueuesFit, Before
  <2> QED BY <1>1, <1>5, <2>1 DEF QueuesFit
<1>8. KeptFits'
  BY DEF MeterInv, KeptFits
<1> QED BY <1>6, <1>7, <1>8 DEF MeterInv

LEMMA MeterSent ==
  ASSUME Types, MeterInv, SendMeasurement PROVE MeterInv'
<1>1. /\ UNCHANGED <<link, subs, listening, measured, measurements, seen, lost>>
      /\ link = "up" /\ listening /\ QueuesFit
  BY DEF SendMeasurement, Send, Up, MeterInv
<1>2. backlog \in Seq(Nat) /\ recvChannel \in Seq(Nat)
  BY ArrivingTyped
<1>3. CASE backlog # <<>> /\ wire' = Append(wire, Measurement(Head(backlog)))
           /\ backlog' = Tail(backlog) /\ recvChannel' = recvChannel
  <2>1. PICK x \in Nat : x = Head(backlog)
    BY <1>2, <1>3, TailFacts
  <2>2. /\ Increases(backlog') /\ Els(backlog) = Els(backlog') \cup {x} /\ Before({x}, Els(backlog'))
    BY <1>1, <1>2, <1>3, <2>1, IncreasesTaken DEF QueuesFit
  <2>3. Els(recvChannel') = Els(recvChannel) /\ Increases(recvChannel')
    BY <1>1, <1>3 DEF QueuesFit
  <2>4. Waiting = Waiting' \cup {x}
    BY <2>2, <2>3 DEF Waiting
  <2>5. Before({x}, Waiting') /\ Before(Els(backlog'), Els(recvChannel'))
    BY <1>1, <2>2, <2>3 DEF QueuesFit, Before, Waiting
  <2> QED BY <1>1, <1>3, <2>1, <2>2, <2>3, <2>4, <2>5, MeterMoved
<1>4. CASE backlog = <<>> /\ recvChannel # <<>> /\ wire' = Append(wire, Measurement(Head(recvChannel)))
           /\ recvChannel' = Tail(recvChannel) /\ backlog' = backlog
  <2>1. PICK x \in Nat : x = Head(recvChannel)
    BY <1>2, <1>4, TailFacts
  <2>2. /\ Increases(recvChannel') /\ Els(recvChannel) = Els(recvChannel') \cup {x}
        /\ Before({x}, Els(recvChannel'))
    BY <1>1, <1>2, <1>4, <2>1, IncreasesTaken DEF QueuesFit
  <2>3. Els(backlog') = {} /\ Els(backlog) = {} /\ Increases(backlog')
    BY <1>1, <1>4 DEF QueuesFit, Els
  <2>4. Waiting = Waiting' \cup {x}
    BY <2>2, <2>3 DEF Waiting
  <2>5. Before({x}, Waiting') /\ Before(Els(backlog'), Els(recvChannel'))
    BY <2>2, <2>3 DEF Before, Waiting
  <2> QED BY <1>1, <1>4, <2>1, <2>2, <2>3, <2>4, <2>5, MeterMoved
<1> QED BY <1>3, <1>4 DEF SendMeasurement, Send

LEMMA MeterReceived ==
  ASSUME Types, MeterInv, ReceiveMeasurement PROVE MeterInv'
<1>1. /\ wire # <<>> /\ Head(wire).kind = Resources /\ wire' = Tail(wire)
      /\ seen' = Append(seen, Head(wire).number)
      /\ UNCHANGED <<link, subs, listening, backlog, recvChannel, measured, measurements, lost>>
  BY DEF ReceiveMeasurement
<1>2. SeenFits
  BY DEF MeterInv
<1>3. /\ Metering = Metering' \cup {Head(wire).number} /\ MeteredInOrder'
      /\ Before({Head(wire).number}, Metering')
  BY <1>1, <1>2, MeteredReceived DEF SeenFits
<1>4. PICK x \in Nat : x = Head(wire).number
  BY <1>3, ArrivingTyped
<1>5. Before(Els(seen), {x})
  BY <1>2, <1>3, <1>4 DEF SeenFits, Before
<1>6. Increases(seen') /\ Els(seen') = Els(seen) \cup {x}
  BY <1>1, <1>2, <1>4, <1>5, ArrivingTyped, IncreasesAppended DEF SeenFits
<1>7. Arriving' = Arriving /\ Waiting' = Waiting
  BY <1>1, <1>3, <1>4, <1>6 DEF Arriving, Waiting
<1>8. Before(Els(seen), Metering)'
  BY <1>2, <1>3, <1>4, <1>6 DEF SeenFits, Before
<1>9. SeenFits'
  BY <1>1, <1>2, <1>3, <1>6, <1>7, <1>8 DEF SeenFits
<1>10. KeptFits' /\ (QueuesFit => QueuesFit')
  BY <1>1, <1>7 DEF MeterInv, KeptFits, QueuesFit
<1>11. ~Silent
  BY <1>3 DEF Silent
<1> QED BY <1>1, <1>9, <1>10, <1>11 DEF MeterInv

LEMMA MeterSubscribed ==
  ASSUME Types, MeterInv, SubscribeMonitor, Resources \in Kinds PROVE MeterInv'
<1>1. /\ wire = <<>> /\ wire' = <<>> /\ subs[Resources] # "running"
      /\ seen' = <<>> /\ lost' = {} /\ UNCHANGED <<measured, measurements, listening>>
  BY DEF SubscribeMonitor, Subscribe
<1>2. ~listening /\ ~listening'
  BY <1>1 DEF Types, MonitorTypes, ListenTypes
<1>3. Metering' = {} /\ Metered' = {} /\ Els(seen') = {} /\ Increases(seen') /\ Arriving' = {}
  BY <1>1 DEF Metering, Metered, Els, Increases, Arriving
<1>4. SeenFits' /\ Silent'
  BY <1>1, <1>3 DEF SeenFits, Silent, MeteredInOrder, Before
<1>5. KeptFits'
  BY <1>1 DEF MeterInv, KeptFits
<1> QED BY <1>2, <1>4, <1>5 DEF MeterInv

(* The subscription is over, or the connection is closed or cut.           *)
LEMMA MeterOver ==
  ASSUME Types, MeterInv, wire' = wire \/ wire' = <<>>, UNCHANGED <<seen, lost, measured, measurements>>,
         ~listening' \/ link' # "up",
         \/ Resources \in Kinds => subs'[Resources] # "running"
         \/ UNCHANGED <<subs, listening>>
  PROVE  MeterInv'
<1>1. SeenFits' /\ KeptFits' /\ (Silent => Silent')
  <2>1. CASE wire' = <<>>
    BY <2>1, MeterLost DEF Silent
  <2>2. CASE wire' = wire
    <3>1. Metered' = Metered /\ Metering' = Metering /\ Arriving' = Arriving
      BY <2>2 DEF Metered, Metering, Arriving
    <3> QED BY <2>2, <3>1 DEF MeterInv, SeenFits, KeptFits, MeteredInOrder, Silent
  <2> QED BY <2>1, <2>2
<1> QED BY <1>1 DEF MeterInv

LEMMA MeterInvStep ==
  ASSUME Types, MeterInv, [Next]_vars PROVE MeterInv'
<1>0. /\ Resources \in Kinds /\ Resources \notin Lists /\ Resources # Sync /\ Resources # JobStatuses
      /\ subs \in [Kinds -> {"none", "running", "over"}]
  BY SubscriptionsAssumption DEF Types, ConnTypes, Lists, JobStatuses, Resources, Sync
<1>1. ASSUME NEW l \in Lists, ListStep(l) PROVE MeterInv'
  BY <1>0, <1>1, ListStepLeaves, MeterAside
<1>2. CASE StatusStep
  BY <1>0, <1>2, StatusStepLeaves, MeterAside
<1>3. CASE Close
  <2>1. /\ wire' = wire /\ ~listening' /\ subs'[Resources] # "running"
        /\ UNCHANGED <<seen, lost, measured, measurements>>
    BY <1>0, <1>3 DEF Close, CloseConnection, ForgetStreams
  <2> QED BY <2>1, MeterOver
<1>4. CASE Aside
  <2>1. UNCHANGED monitorVars /\ subs'[Resources] = subs[Resources]
    BY <1>0, <1>4 DEF Aside, streamVars
  <2>2. CASE link' = "cut" /\ wire' = <<>> /\ UNCHANGED subs
    BY <2>1, <2>2, MeterOver DEF monitorVars
  <2>3. CASE conn = "closed" /\ wire' = <<>> /\ UNCHANGED subs
    <3>1. ~listening /\ subs[Resources] # "running"
      BY <1>0, <2>3 DEF Types, ConnTypes, MonitorTypes, ListenTypes
    <3> QED BY <2>1, <2>3, <3>1, MeterOver DEF monitorVars
  <2>4. CASE UNCHANGED <<wire, link>> \/ (link' = link /\ (Adds(Sync) \/ Takes(Sync)))
    BY <1>0, <2>1, <2>4, MeterAside
  <2> QED BY <1>4, <2>2, <2>3, <2>4 DEF Aside
<1>5. CASE MonitorStep
  <2>1. CASE Measure
    BY <2>1, MeterMeasured
  <2>2. CASE StartMonitor
    BY <1>0, <2>2, MeterStarted
  <2>3. CASE SendMeasurement
    BY <2>3, MeterSent
  <2>4. CASE SubscribeMonitor
    BY <1>0, <2>4, MeterSubscribed
  <2>5. CASE UnsubscribeMonitor
    <3>1. /\ wire' = wire /\ ~listening' /\ subs'[Resources] # "running"
          /\ UNCHANGED <<seen, lost, measured, measurements>>
      BY <1>0, <2>5 DEF UnsubscribeMonitor, Unsubscribe, Return
    <3> QED BY <3>1, MeterOver
  <2>6. CASE ReceiveMeasurement
    BY <2>6, MeterReceived
  <2> QED BY <1>5, <2>1, <2>2, <2>3, <2>4, <2>5, <2>6 DEF MonitorStep
<1> QED BY <1>1, <1>2, <1>3, <1>4, <1>5, StepsOfStreams

LEMMA MeterInvSuffices ==
  ASSUME Types, MeterInv PROVE MeasuredInOrder
<1>1. SUFFICES ASSUME NEW i \in 1..(Len(seen) - 1)
      PROVE  seen[i] < seen[i + 1] /\ (seen[i] + 1)..(seen[i + 1] - 1) \subseteq lost
  BY DEF MeasuredInOrder
<1>2. SeenFits /\ seen \in Seq(Nat)
  BY ArrivingTyped DEF MeterInv
<1>3. /\ i \in DOMAIN seen /\ i + 1 \in DOMAIN seen /\ i < i + 1 /\ i \in Nat
      /\ \A j \in DOMAIN seen : j \in Nat /\ (j <= i \/ j >= i + 1)
  <2>1. DOMAIN seen = 1..Len(seen) /\ Len(seen) \in Nat
    BY <1>2
  <2> QED BY <1>1, <2>1
<1>4. seen[i] < seen[i + 1]
  BY <1>2, <1>3 DEF SeenFits, Increases
<1>5. seen[i] \in Els(seen) /\ seen[i + 1] \in Els(seen) /\ seen[i] \in Nat /\ seen[i + 1] \in Nat
  BY <1>2, <1>3 DEF Els
<1>6. ASSUME NEW n \in (seen[i] + 1)..(seen[i + 1] - 1) PROVE n \in lost
  <2>1. n \in Nat /\ seen[i] < n /\ n < seen[i + 1]
    BY <1>5
  <2>2. n \in Arriving \cup lost
    <3>1. seen[i] \in Arriving /\ seen[i + 1] \in Arriving /\ seen[i] <= n /\ n <= seen[i + 1]
      BY <1>5, <2>1 DEF Arriving
    <3> QED BY <1>2, <2>1, <3>1 DEF SeenFits
  <2>3. n \notin Metering
    BY <1>2, <1>5, <2>1 DEF SeenFits, Before
  <2>4. n \notin Els(seen)
    <3>1. SUFFICES ASSUME NEW j \in DOMAIN seen, n = seen[j] PROVE FALSE
      BY DEF Els
    <3>2. CASE j <= i
      <4>1. j = i \/ j < i
        BY <1>3, <3>2
      <4>2. CASE j = i
        BY <1>5, <2>1, <3>1, <4>2
      <4>3. CASE j < i
        <5>1. seen[j] < seen[i]
          BY <1>2, <1>3, <4>3 DEF SeenFits, Increases
        <5> QED BY <1>5, <2>1, <3>1, <5>1
      <4> QED BY <4>1, <4>2, <4>3
    <3>3. CASE j >= i + 1
      <4>1. j = i + 1 \/ i + 1 < j
        BY <1>3, <3>3
      <4>2. CASE j = i + 1
        BY <1>5, <2>1, <3>1, <4>2
      <4>3. CASE i + 1 < j
        <5>1. seen[i + 1] < seen[j]
          BY <1>2, <1>3, <4>3 DEF SeenFits, Increases
        <5> QED BY <1>5, <2>1, <3>1, <5>1
      <4> QED BY <4>1, <4>2, <4>3
    <3> QED BY <1>3, <3>2, <3>3
  <2> QED BY <2>2, <2>3, <2>4 DEF Arriving
<1> QED BY <1>4, <1>6

ListsInv == \A l \in Lists : ListInv(l)

LEMMA ViewsInit == Init => ListsInv /\ StatusInv /\ MeterInv
<1> SUFFICES ASSUME Init PROVE ListsInv /\ StatusInv /\ MeterInv
  OBVIOUS
<1>1. wire = <<>> /\ DOMAIN wire = {}
  BY DEF Init, ConnectionInit
<1>2. \A k \in Kinds : subs[k] # "running"
  BY DEF Init, ConnectionInit
<1>3. ListsInv
  BY <1>1, <1>2 DEF Init, StreamInit, ListsInv, ListInv
<1>4. StatusInv
  BY <1>2, SubscriptionsAssumption DEF StatusInv
<1>5. MeterInv
  <2>1. /\ seen = <<>> /\ measurements = <<>> /\ ~listening /\ DOMAIN seen = {} /\ DOMAIN measurements = {}
    BY DEF Init, StreamInit
  <2>2. Metered = {} /\ Metering = {} /\ Arriving = {}
    BY <1>1, <2>1 DEF Metered, Metering, Arriving, Els
  <2>3. SeenFits
    BY <2>1, <2>2 DEF SeenFits, Increases, MeteredInOrder, Before
  <2> QED BY <1>2, <2>1, <2>3 DEF MeterInv, KeptFits
<1> QED BY <1>3, <1>4, <1>5

(* What a client makes of the events agrees with what is shown: of each    *)
(* list the newest word about a row, received, in flight or yet to be      *)
(* sent, is what the table shows; of each job it is what the last snapshot *)
(* said; and measurements come once and in order, without those, and only  *)
(* those, that found the channel full.                                     *)
THEOREM ViewsAlways == Spec => []ViewsAgree
<1>1. Types /\ ListsInv /\ [Next]_vars => ListsInv'
  BY ListInvStep DEF ListsInv
<1>2. Types /\ StatusInv /\ [Next]_vars => StatusInv'
  BY StatusInvStep
<1>3. Types /\ MeterInv /\ [Next]_vars => MeterInv'
  BY MeterInvStep
<1>4. Types /\ ListsInv /\ StatusInv /\ MeterInv => ViewsAgree
  BY TypesSuffice, ListInvSuffices, StatusInvSuffices, MeterInvSuffices DEF ListsInv, ViewsAgree
<1> QED BY <1>1, <1>2, <1>3, <1>4, ViewsInit, TypesHold, PTL DEF Spec

-----------------------------------------------------------------------------
(* The delay between two polls *)

(* The maximum is a number of times the double of the minimum, delay has   *)
(* the steps between, and // does not disturb them but below a second: as  *)
(* with 1/4 and 64 seconds, or 1 and 16.                                   *)
Doubles(delay, steps) ==
  /\ delay \in [0..steps -> Nat]
  /\ delay[0] = MinDelay /\ delay[steps] = MaxDelay
  /\ \A i \in 1..steps : delay[i] = 2 * delay[i - 1]
  /\ MinDelay \in {1, 2} \/ MinDelay % Second = 0
  /\ MaxDelay % (2 * Second) = 0

LEMMA DelaysRise ==
  ASSUME NEW steps \in Nat, NEW delay, Doubles(delay, steps)
  PROVE  /\ \A i \in 0..steps : /\ delay[i] \in Nat /\ delay[i] > 0 /\ delay[i] <= MaxDelay
                                /\ delay[i] \in {1, 2} \/ delay[i] % 4 = 0
         /\ \A i \in 1..steps : delay[i - 1] \in Nat /\ 2 * delay[i - 1] <= MaxDelay
         /\ \A i \in 1..steps : delay[i] >= 2 * MinDelay
<1>1. \A i \in 0..steps : delay[i] \in Nat
  BY DEF Doubles
<1>2. ASSUME NEW i \in 1..steps
      PROVE  i \in 0..steps /\ i - 1 \in 0..steps /\ delay[i] = 2 * delay[i - 1]
  BY DEF Doubles
<1> DEFINE Fits(i) == /\ delay[i] \in Nat /\ delay[i] >= MinDelay
                      /\ delay[i] \in {1, 2} \/ delay[i] % 4 = 0
           Odd == {i \in Nat : i <= steps /\ ~Fits(i)}
           Above == {i \in Nat : i <= steps /\ ~(delay[steps - i] <= MaxDelay)}
<1>3. Odd = {}
  <2>1. SUFFICES ASSUME Odd # {} PROVE FALSE
    OBVIOUS
  <2>2. PICK m \in Odd : \A k \in Odd : m <= k
    BY <2>1, LeastNatural
  <2>3. CASE m = 0
    <3>1. MinDelay \in Nat \ {0} /\ delay[0] = MinDelay
      BY BackoffAssumption DEF Doubles
    <3>2. MinDelay \in {1, 2} \/ MinDelay % 4 = 0
      BY DEF Doubles, Second
    <3> QED BY <2>2, <2>3, <3>1, <3>2
  <2>4. CASE m # 0
    <3>1. m - 1 \in Nat /\ m - 1 \notin Odd /\ m - 1 <= steps /\ m \in 1..steps
      BY <2>2, <2>4
    <3>2. Fits(m - 1)
      BY <3>1
    <3>3. delay[m] = 2 * delay[m - 1]
      BY <1>2, <3>1
    <3> DEFINE d == delay[m - 1]
    <3>4. 2 * d \in {1, 2} \/ (2 * d) % 4 = 0
      <4>1. d \in Nat /\ (d \in {1, 2} \/ d % 4 = 0)
        BY <3>2
      <4> QED BY <4>1
    <3>5. 2 * d \in Nat /\ 2 * d >= MinDelay
      BY <3>2, BackoffAssumption
    <3>6. Fits(m)
      BY <3>3, <3>4, <3>5
    <3> QED BY <2>2, <3>6
  <2> QED BY <2>3, <2>4
<1>4. \A i \in 0..steps : Fits(i)
  <2>1. \A i \in 0..steps : i \in Nat /\ i <= steps
    OBVIOUS
  <2> QED BY <1>3, <2>1
<1>5. MinDelay \in Nat \ {0} /\ MaxDelay \in Nat
  BY BackoffAssumption
<1>6. Above = {}
  <2>1. SUFFICES ASSUME Above # {} PROVE FALSE
    OBVIOUS
  <2>2. PICK m \in Above : \A k \in Above : m <= k
    BY <2>1, LeastNatural
  <2>3. m # 0
    BY <1>5, <2>2 DEF Doubles
  <2>4. m - 1 \in Nat /\ m - 1 \notin Above /\ m - 1 <= steps
    BY <2>2, <2>3
  <2>5. steps - (m - 1) \in 1..steps /\ steps - (m - 1) - 1 = steps - m /\ steps - m \in 0..steps
    BY <2>2, <2>3
  <2>6. delay[steps - (m - 1)] <= MaxDelay
    BY <2>4
  <2>7. delay[steps - (m - 1)] = 2 * delay[steps - m] /\ delay[steps - m] \in Nat
    BY <1>1, <1>2, <2>5
  <2>8. delay[steps - m] <= MaxDelay
    BY <1>5, <2>6, <2>7
  <2> QED BY <2>2, <2>8
<1>7. \A i \in 0..steps : delay[i] <= MaxDelay
  <2>1. \A i \in 0..steps : steps - i \in Nat /\ steps - i <= steps /\ steps - (steps - i) = i
    OBVIOUS
  <2> QED BY <1>6, <2>1
<1> QED
  <2> HIDE DEF Odd, Above
  <2>1. \A i \in 0..steps : delay[i] > 0
    BY <1>4, <1>5
  <2>2. \A i \in 1..steps : delay[i - 1] \in Nat /\ 2 * delay[i - 1] <= MaxDelay
    BY <1>1, <1>2, <1>7
  <2>3. \A i \in 1..steps : delay[i] >= 2 * MinDelay
    BY <1>2, <1>4, <1>5
  <2> QED BY <1>4, <1>7, <2>1, <2>2, <2>3

(* A delay goes to the next, or to the one before, or to none.             *)
LEMMA DelaysStep ==
  ASSUME NEW steps \in Nat, NEW delay, Doubles(delay, steps)
  PROVE  /\ Increase(0) = 0 /\ Decrease(0) = 0
         /\ \A i \in 0..steps : Increase(delay[i]) = IF i < steps THEN delay[i + 1] ELSE delay[i]
         /\ \A i \in 0..steps : Decrease(delay[i]) \in {0, delay[i]} \/ (i > 0 /\ Decrease(delay[i]) = delay[i - 1])
<1>1. /\ \A i \in 0..steps : /\ delay[i] \in Nat /\ delay[i] > 0 /\ delay[i] <= MaxDelay
                             /\ delay[i] \in {1, 2} \/ delay[i] % 4 = 0
      /\ \A i \in 1..steps : delay[i - 1] \in Nat /\ 2 * delay[i - 1] <= MaxDelay
      /\ \A i \in 1..steps : delay[i] >= 2 * MinDelay
  BY DelaysRise
<1>2. MinDelay \in Nat \ {0} /\ MaxDelay \in Nat
  BY BackoffAssumption
<1>3. /\ HalfInSeconds(MaxDelay) \in Nat /\ 2 * HalfInSeconds(MaxDelay) = MaxDelay
  <2>1. MaxDelay % 8 = 0
    BY DEF Doubles, Second
  <2>2. PICK m \in Nat : MaxDelay = 8 * m
    BY <1>2, <2>1
  <2>3. (8 * m) \div 2 = 4 * m /\ (4 * m) \div 4 = m
    BY <2>2
  <2> QED BY <2>2, <2>3 DEF HalfInSeconds, Second
<1>4. Increase(0) = 0 /\ Decrease(0) = 0
  BY <1>2, <1>3 DEF Increase, Decrease
<1>5. ASSUME NEW i \in 0..steps
      PROVE  Increase(delay[i]) = IF i < steps THEN delay[i + 1] ELSE delay[i]
  <2>1. CASE i < steps
    <3>1. i + 1 \in 1..steps /\ (i + 1) - 1 = i
      BY <2>1
    <3>2. 2 * delay[i] <= MaxDelay /\ delay[i] \in Nat /\ delay[i + 1] = 2 * delay[i]
      BY <1>1, <3>1 DEF Doubles
    <3>3. delay[i] <= HalfInSeconds(MaxDelay)
      BY <1>2, <1>3, <3>2
    <3> QED BY <2>1, <3>2, <3>3 DEF Increase
  <2>2. CASE ~(i < steps)
    <3>1. i = steps
      BY <2>2
    <3>2. delay[i] = MaxDelay /\ MaxDelay > 0
      BY <1>1, <3>1 DEF Doubles
    <3>3. ~(delay[i] <= HalfInSeconds(MaxDelay))
      BY <1>2, <1>3, <3>2
    <3> QED BY <2>2, <3>3 DEF Increase
  <2> QED BY <2>1, <2>2
<1>6. ASSUME NEW i \in 0..steps
      PROVE  Decrease(delay[i]) \in {0, delay[i]} \/ (i > 0 /\ Decrease(delay[i]) = delay[i - 1])
  <2>1. CASE i = 0
    <3>1. ~(delay[i] >= 2 * MinDelay)
      BY <1>2, <2>1 DEF Doubles
    <3> QED BY <3>1 DEF Decrease
  <2>2. CASE i # 0
    <3>1. i \in 1..steps /\ i - 1 \in 0..steps
      BY <2>2
    <3>2. delay[i] = 2 * delay[i - 1]
      BY <3>1 DEF Doubles
    <3>3. delay[i - 1] \in Nat /\ (delay[i - 1] \in {1, 2} \/ delay[i - 1] % 4 = 0)
      BY <1>1, <3>1
    <3>4. HalfInSeconds(delay[i]) \in {0, delay[i - 1]}
      <4>1. PICK d \in Nat : d = delay[i - 1]
        BY <3>3
      <4>2. (2 * d) \div 2 = d /\ ((d \div 4) * 4 = 0 \/ (d \div 4) * 4 = d)
        BY <3>3, <4>1
      <4> QED BY <3>2, <4>1, <4>2 DEF HalfInSeconds, Second
    <3> QED BY <3>1, <3>4 DEF Decrease
  <2> QED BY <2>1, <2>2
<1> QED BY <1>4, <1>5, <1>6

(* Every delay is one of these, or none.                                   *)
LEMMA DelaysAre ==
  ASSUME NEW steps \in Nat, NEW delay, Doubles(delay, steps)
  PROVE  Delays \subseteq {0} \cup {delay[i] : i \in 0..steps}
<1> DEFINE Possible == {0} \cup {delay[i] : i \in 0..steps}
           Polled(X) == X \cup UNION {{Increase(d), Decrease(d)} : d \in X}
           step == [n \in 1..MaxPolls |-> [X \in SUBSET Possible |-> Polled(X)]]
<1>1. MaxPolls \in Nat /\ {MinDelay} \in SUBSET Possible
  <2>1. delay[0] \in Possible /\ delay[0] = MinDelay
    <3>1. 0 \in 0..steps
      OBVIOUS
    <3> QED BY <3>1 DEF Doubles
  <2> QED BY <2>1, BackoffAssumption
<1>2. ASSUME NEW d \in Possible PROVE Increase(d) \in Possible /\ Decrease(d) \in Possible
  <2>1. CASE d = 0
    BY <2>1, DelaysStep
  <2>2. ASSUME NEW i \in 0..steps, d = delay[i] PROVE Increase(d) \in Possible /\ Decrease(d) \in Possible
    <3>1. /\ Increase(d) \in {delay[i], delay[i + 1]} /\ (i < steps \/ Increase(d) = delay[i])
          /\ Decrease(d) \in {0, delay[i]} \/ (i > 0 /\ Decrease(d) = delay[i - 1])
      BY <2>2, DelaysStep
    <3>2. (i < steps => i + 1 \in 0..steps) /\ (i > 0 => i - 1 \in 0..steps)
      OBVIOUS
    <3> QED BY <2>2, <3>1, <3>2
  <2> QED BY <2>1, <2>2
<1> HIDE DEF Possible
<1>3. step \in [1..MaxPolls -> [SUBSET Possible -> SUBSET Possible]]
  <2>1. \A X \in SUBSET Possible : Polled(X) \in SUBSET Possible
    BY <1>2
  <2> HIDE DEF Polled
  <2> QED BY <2>1
<1> DEFINE Follows(f) == f = [n \in 0..MaxPolls |-> IF n = 0 THEN {MinDelay} ELSE Polled(f[n - 1])]
<1>4. PICK g : Iterates(g, SUBSET Possible, MaxPolls, {MinDelay}, step)
  <2> HIDE DEF step
  <2> QED BY <1>1, <1>3, IterationExists
<1>5. ASSUME NEW f, f \in [0..MaxPolls -> SUBSET Possible]
      PROVE  \A n \in 1..MaxPolls : step[n][f[n - 1]] = Polled(f[n - 1])
  <2>1. \A n \in 1..MaxPolls : n - 1 \in 0..MaxPolls
    BY <1>1
  <2> QED BY <1>5, <2>1
<1>6. \A n \in 0..MaxPolls : n # 0 => n \in 1..MaxPolls
  BY <1>1
<1>7. Follows(g)
  <2> HIDE DEF step, Polled
  <2> QED BY <1>4, <1>5, <1>6 DEF Iterates
<1>8. PICK f : f = (CHOOSE h : Follows(h))
  OBVIOUS
<1>9. Follows(f)
  BY <1>7, <1>8
<1>10. \A n \in 0..MaxPolls : f[n] \in SUBSET Possible
  <2> DEFINE Strange == {n \in Nat : n <= MaxPolls /\ ~(f[n] \in SUBSET Possible)}
  <2>1. SUFFICES ASSUME Strange # {} PROVE FALSE
    <3>1. \A n \in 0..MaxPolls : n \in Nat /\ n <= MaxPolls
      BY <1>1
    <3>2. \A n \in 0..MaxPolls : n \notin Strange => f[n] \in SUBSET Possible
      BY <3>1
    <3> HIDE DEF Strange
    <3> QED BY <3>2
  <2>2. PICK n \in Strange : \A k \in Strange : n <= k
    BY <2>1, LeastNatural
  <2>3. n \in 0..MaxPolls
    BY <1>1, <2>2
  <2>4. f[n] = IF n = 0 THEN {MinDelay} ELSE Polled(f[n - 1])
    BY <1>9, <2>3
  <2>5. n # 0
    BY <1>1, <2>2, <2>4
  <2>6. n - 1 \in Nat /\ n - 1 \notin Strange /\ n - 1 <= MaxPolls
    BY <1>1, <2>2, <2>5
  <2>7. f[n - 1] \in SUBSET Possible
    BY <2>6
  <2>8. Polled(f[n - 1]) \in SUBSET Possible
    BY <1>2, <2>7
  <2> QED BY <2>2, <2>4, <2>5, <2>8
<1>11. Delays = f[MaxPolls]
  BY <1>8 DEF Delays
<1>12. MaxPolls \in 0..MaxPolls
  BY <1>1
<1>13. Delays \in SUBSET Possible
  BY <1>10, <1>11, <1>12
<1> QED BY <1>13 DEF Possible

(* Polls in vain go up the delays, and stay at the last.                   *)
LEMMA VainIs ==
  ASSUME NEW steps \in Nat, steps <= MaxPolls, NEW delay, Doubles(delay, steps), NEW i \in 0..steps
  PROVE  InVain(delay[i], MaxPolls) = MaxDelay
<1> DEFINE Place(n) == IF i + n < steps THEN i + n ELSE steps
           Follows(f) == f = [n \in 0..MaxPolls |-> IF n = 0 THEN delay[i] ELSE Increase(f[n - 1])]
           rise == [n \in 0..MaxPolls |-> delay[Place(n)]]
<1>1. MaxPolls \in Nat
  BY BackoffAssumption
<1>2. ASSUME NEW n \in 0..MaxPolls, n # 0 PROVE delay[Place(n)] = Increase(delay[Place(n - 1)])
  <2>1. /\ Place(n - 1) \in 0..steps
        /\ Place(n) = IF Place(n - 1) < steps THEN Place(n - 1) + 1 ELSE Place(n - 1)
    BY <1>1, <1>2
  <2> HIDE DEF Place
  <2>2. Increase(delay[Place(n - 1)]) =
          IF Place(n - 1) < steps THEN delay[Place(n - 1) + 1] ELSE delay[Place(n - 1)]
    BY <2>1, DelaysStep
  <2> QED BY <2>1, <2>2
<1>3. Place(0) = i /\ Place(MaxPolls) = steps
  BY <1>1
<1> HIDE DEF Place
<1>4. Follows(rise)
  <2>1. ASSUME NEW n \in 0..MaxPolls
        PROVE  rise[n] = IF n = 0 THEN delay[i] ELSE Increase(rise[n - 1])
    <3>1. CASE n = 0
      BY <1>3, <3>1
    <3>2. CASE n # 0
      <4>1. n - 1 \in 0..MaxPolls
        BY <1>1, <3>2
      <4>2. rise[n - 1] = delay[Place(n - 1)] /\ rise[n] = delay[Place(n)]
        BY <4>1
      <4> QED BY <1>2, <3>2, <4>2
    <3> QED BY <3>1, <3>2
  <2>2. rise = [n \in 0..MaxPolls |-> rise[n]]
    OBVIOUS
  <2> HIDE DEF rise
  <2> QED BY <2>1, <2>2
<1>5. PICK f : f = (CHOOSE h : Follows(h))
  OBVIOUS
<1>6. Follows(f)
  BY <1>4, <1>5
<1>7. \A n \in 0..MaxPolls : f[n] = delay[Place(n)]
  <2> DEFINE Strange == {n \in Nat : n <= MaxPolls /\ f[n] # delay[Place(n)]}
  <2>1. SUFFICES ASSUME Strange # {} PROVE FALSE
    <3>1. \A n \in 0..MaxPolls : n \in Nat /\ n <= MaxPolls
      BY <1>1
    <3>2. \A n \in 0..MaxPolls : n \notin Strange => f[n] = delay[Place(n)]
      BY <3>1
    <3> HIDE DEF Strange
    <3> QED BY <3>2
  <2>2. PICK n \in Strange : \A k \in Strange : n <= k
    BY <2>1, LeastNatural
  <2>3. n \in 0..MaxPolls
    BY <1>1, <2>2
  <2>4. f[n] = IF n = 0 THEN delay[i] ELSE Increase(f[n - 1])
    BY <1>6, <2>3
  <2>5. n # 0
    BY <1>3, <2>2, <2>4
  <2>6. n - 1 \in Nat /\ n - 1 \notin Strange /\ n - 1 <= MaxPolls
    BY <1>1, <2>2, <2>5
  <2>7. f[n - 1] = delay[Place(n - 1)]
    BY <2>6
  <2> QED BY <1>2, <2>2, <2>3, <2>4, <2>5, <2>7
<1>8. InVain(delay[i], MaxPolls) = f[MaxPolls]
  BY <1>5 DEF InVain
<1>9. MaxPolls \in 0..MaxPolls
  BY <1>1
<1> QED BY <1>3, <1>7, <1>8, <1>9 DEF Doubles

(* A sync of any number of polls waits for the maximum between polls when  *)
(* enough of them have found nothing, and never longer, or not at all once *)
(* it has come below a second (ExponentialBackoff).                        *)
THEOREM BacksOffAlways ==
  ASSUME NEW CONSTANT steps \in 0..MaxPolls, NEW CONSTANT delay, Doubles(delay, steps)
  PROVE  BacksOff
<1>1. steps \in Nat /\ steps <= MaxPolls /\ MaxDelay \in Nat
  BY BackoffAssumption
<1> SUFFICES ASSUME NEW d \in Delays PROVE d <= MaxDelay /\ (d > 0 => InVain(d, MaxPolls) = MaxDelay)
  BY DEF BacksOff
<1>2. d = 0 \/ \E i \in 0..steps : d = delay[i]
  BY <1>1, DelaysAre
<1>3. CASE d = 0
  BY <1>1, <1>3
<1>4. ASSUME NEW i \in 0..steps, d = delay[i] PROVE d <= MaxDelay /\ InVain(d, MaxPolls) = MaxDelay
  BY <1>1, <1>4, DelaysRise, VainIs
<1> QED BY <1>2, <1>3, <1>4

(* The same of a sync that polls (JobSyncSubscription._run_sync).          *)
THEOREM PollsBackOffAlways ==
  ASSUME NEW CONSTANT steps \in 0..MaxPolls, NEW CONSTANT delay, Doubles(delay, steps)
  PROVE  Spec => []PollsBackOff
<1>1. PollsBackOff
  BY BacksOffAlways DEF PollsBackOff
<1> QED BY <1>1, PTL
=============================================================================
