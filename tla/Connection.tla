----------------------------- MODULE Connection -----------------------------
(***************************************************************************)
(* A client's WebSocket connection (src/starbelly/server/__init__.py) and  *)
(* the subscriptions that run on it (SubscriptionManager in                *)
(* src/starbelly/subscription.py).  All tasks of a connection -- the       *)
(* reader, the handlers of requests and the subscriptions -- are children  *)
(* of one nursery: the first exception cancels the others, and what they   *)
(* raise in the same round of the scheduler is raised together.            *)
(*                                                                         *)
(* The modules ItemSync and EventStreams say what the subscriptions send;  *)
(* module Subscriptions composes them on one connection.                   *)
(***************************************************************************)
EXTENDS Naturals, Sequences, FiniteSets

CONSTANTS
  Kinds,          \* the kinds of subscriptions
  WireSize,       \* messages that the network holds before a sender blocks
  MaxAgain        \* bound: how often the client cancels a subscription or opens
                  \*   another connection

ASSUME ConnectionAssumption ==
  WireSize \in Nat \ {0} /\ MaxAgain \in Nat

VARIABLES
  link,        \* the TCP connection: "up" or "cut"
  conn,        \* Connection.run: "open", "failing" once a task has raised, "closed"
  raised,      \* the tasks whose exceptions the nursery has collected
  server,      \* "up", or "down" once an exception has left Server.run
  wire,        \* messages sent and not yet received
  subs,        \* Connection._subscription_manager: is a subscription of the
               \*   kind running? "none", "running" or "over"
  reconnects,  \* how many more connections the client has opened
  unsubscribes \* how many subscriptions the client has cancelled

connVars == <<link, conn, raised, server, wire, subs, reconnects, unsubscribes>>

Tasks == Kinds \cup {"reader", "handler"}

ConnectionInit ==
  /\ link = "up" /\ conn = "open" /\ raised = {} /\ server = "up"
  /\ wire = <<>>
  /\ subs = [k \in Kinds |-> "none"]
  /\ reconnects = 0 /\ unsubscribes = 0

(* Both ends are there: requests arrive, and events can be sent.           *)
Up == link = "up" /\ conn = "open"

Running(k) == conn = "open" /\ subs[k] = "running"

(* The reader of the WebSocket hands a request to a handler, which makes   *)
(* the subscription; its task starts, and the response is sent first.      *)
Subscribe(k) ==
  /\ Up /\ subs[k] # "running"
  /\ subs' = [subs EXCEPT ![k] = "running"]
  /\ UNCHANGED <<link, conn, raised, server, wire, reconnects, unsubscribes>>

(* SubscriptionManager.cancel_subscription; the client knows the ID from   *)
(* the response, so that the subscription has begun to run.  How it ends   *)
(* is the subscription's affair.                                           *)
Unsubscribe(k) ==
  /\ Up /\ subs[k] = "running" /\ reconnects + unsubscribes < MaxAgain
  /\ unsubscribes' = unsubscribes + 1
  /\ UNCHANGED <<link, conn, raised, server, wire, reconnects>>

(* websocket.send_message, for as many messages as there is room.          *)
Send(message) ==
  /\ Up /\ Len(wire) < WireSize
  /\ wire' = Append(wire, message)

(* A subscription returns.                                                 *)
Return(k) == subs' = [subs EXCEPT ![k] = "over"]

(* An exception of task t reaches the nursery.  Once there is one the      *)
(* others are cancelled, apart from those that raise in the same round.    *)
Raise(t) ==
  /\ conn \in {"open", "failing"} /\ t \notin raised
  /\ conn' = "failing"
  /\ raised' = raised \cup {t}
  /\ UNCHANGED <<link, server, wire, subs, reconnects, unsubscribes>>

(* The network fails, or the client goes away: what is in flight is lost.  *)
CutLink ==
  /\ link = "up" /\ conn # "closed"
  /\ link' = "cut" /\ wire' = <<>>
  /\ UNCHANGED <<conn, raised, server, subs, reconnects, unsubscribes>>

(* get_message raises ConnectionClosed in Connection.run.                  *)
ReadFails == link = "cut" /\ Raise("reader")

(* A request that cannot be decoded: DecodeError goes on to the nursery.   *)
BadRequest == Up /\ Raise("handler")

(* The nursery has ended.  One exception is caught and the socket closed;  *)
(* several are a MultiError, which is no Exception: it passes all clauses  *)
(* and leaves the server's nursery.                                        *)
CloseConnection ==
  /\ conn = "failing"
  /\ conn' = "closed" /\ link' = "cut"
  /\ server' = IF Cardinality(raised) = 1 THEN server ELSE "down"
  /\ subs' = [k \in Kinds |-> "none"] /\ raised' = {}
  /\ UNCHANGED <<wire, reconnects, unsubscribes>>

(* The client opens a new connection when the server has closed the old.   *)
Reconnect ==
  /\ conn = "closed" /\ server = "up" /\ wire = <<>>
  /\ reconnects + unsubscribes < MaxAgain
  /\ link' = "up" /\ conn' = "open"
  /\ reconnects' = reconnects + 1
  /\ UNCHANGED <<raised, server, wire, subs, unsubscribes>>

(* The client will not get another chance.                                 *)
GivenUp == server = "down" \/ (link = "cut" /\ reconnects + unsubscribes = MaxAgain)
=============================================================================
