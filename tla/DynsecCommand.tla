---------------------------- MODULE DynsecCommand ----------------------------
(***************************************************************************)
(* MosquittoAdapter.command of admin-api/app/broker.py: one MQTT client    *)
(* per call, connected to the broker, subscribed to the response topic of  *)
(* the Dynamic Security plugin, publishing the command once subscribed and *)
(* waiting for the response that carries its correlation data.             *)
(*                                                                         *)
(* Two threads of a call interleave: the caller (pc) and the network loop  *)
(* of the MQTT client, which runs the callbacks and reconnects by itself   *)
(* when the connection breaks.  The broker executes the commands one at a  *)
(* time and publishes every response to all subscribers of the one         *)
(* response topic.  Broker and MQTT client library are not part of the     *)
(* repository and are modelled from what command() relies on:              *)
(*   - packets of one connection arrive in order, or are lost with it;     *)
(*   - the library sends a QoS 1 message again after a reconnect as long   *)
(*     as its PUBACK has not come, behind what on_connect sends;           *)
(*   - a connection may be refused (CONNACK), a subscription denied        *)
(*     (SUBACK), a command refused (its response).                         *)
(***************************************************************************)
EXTENDS Integers, Sequences, FiniteSets

CONSTANTS Calls,         \* one element per call of command(): its correlation
          MaxConnects,   \* bound: connections any call makes
          Budgets,       \* bound: connections of the single calls, one of these
          Payloads       \* what responses look like: a subset of
                         \* {"readable", "unreadable"}

ASSUME ConnectsAssumption == MaxConnects \in Nat
ASSUME BudgetsAssumption == Budgets \subseteq [Calls -> 0 .. MaxConnects]
ASSUME PayloadsAssumption == Payloads \subseteq {"readable", "unreadable"}

VARIABLES pc,            \* the caller's thread
          event,         \* threading.Event
          error,         \* "error" in result
          response,      \* result["response"]: none, ok or refused
          outcome,       \* what the caller has decided to return or raise
          link,          \* the client's connection
          connects,      \* connections made so far
          toBroker,      \* packets under way to the broker
          toClient,      \* packets under way to the client
          unacked,       \* QoS 1 messages without a PUBACK
          subscribed,    \* the broker's subscription of this connection
          denied,        \* the broker denied a subscription of this call
          effects,       \* executions the broker applied
          refusals,      \* executions the broker refused
          budget         \* the member of Budgets that bounds this behaviour

callerVars == <<pc, outcome>>
resultVars == <<event, error, response>>
netVars    == <<link, connects, toBroker, toClient, unacked>>
brokerVars == <<subscribed, denied, effects, refusals>>
vars == <<callerVars, resultVars, netVars, brokerVars, budget>>

-------------------------------------------------------------------------------
Pc == {"idle", "start", "wait", "check", "read", "close", "done"}

ToBroker == {"connect", "subscribe", "publish"}

Verdicts == {"ok", "refused"}

Response(c, verdict, payload) ==
    [type |-> "response", call |-> c, verdict |-> verdict, payload |-> payload]
Accepted == [type |-> "connack", accepted |-> TRUE]
Rejected == [type |-> "connack", accepted |-> FALSE]
Suback   == [type |-> "suback"]
Puback   == [type |-> "puback"]

ToClient == {Accepted, Rejected, Suback, Puback}
                \cup {Response(c, v, p) : c \in Calls, v \in Verdicts, p \in Payloads}

Outcomes == {"none", "ok", "refused", "rejected", "unavailable", "timeout", "invalid"}

\* All executions of one call over n connections: connection i retransmits the
\* i - 1 messages that are still unacknowledged and publishes once more.
MaxExecutions == (MaxConnects * (MaxConnects + 1)) \div 2

TypeOK ==
    /\ pc \in [Calls -> Pc]
    /\ event \in [Calls -> BOOLEAN]
    /\ error \in [Calls -> {"none", "rejected", "invalid"}]
    /\ response \in [Calls -> Verdicts \cup {"none"}]
    /\ outcome \in [Calls -> Outcomes]
    /\ link \in [Calls -> {"none", "up", "down", "closed"}]
    /\ connects \in [Calls -> 0 .. MaxConnects]
    /\ toBroker \in [Calls -> Seq(ToBroker)]
    /\ toClient \in [Calls -> Seq(ToClient)]
    /\ unacked \in [Calls -> 0 .. MaxConnects]
    /\ subscribed \in [Calls -> BOOLEAN]
    /\ denied \in [Calls -> BOOLEAN]
    /\ effects \in [Calls -> 0 .. MaxExecutions]
    /\ refusals \in [Calls -> 0 .. MaxExecutions]
    /\ budget \in Budgets

Init ==
    /\ pc = [c \in Calls |-> "idle"]
    /\ event = [c \in Calls |-> FALSE]
    /\ error = [c \in Calls |-> "none"]
    /\ response = [c \in Calls |-> "none"]
    /\ outcome = [c \in Calls |-> "none"]
    /\ link = [c \in Calls |-> "none"]
    /\ connects = [c \in Calls |-> 0]
    /\ toBroker = [c \in Calls |-> <<>>]
    /\ toClient = [c \in Calls |-> <<>>]
    /\ unacked = [c \in Calls |-> 0]
    /\ subscribed = [c \in Calls |-> FALSE]
    /\ denied = [c \in Calls |-> FALSE]
    /\ effects = [c \in Calls |-> 0]
    /\ refusals = [c \in Calls |-> 0]
    /\ budget \in Budgets

-------------------------------------------------------------------------------
(* The caller's thread. *)

\* The network connection is there: CONNECT is on its way.
Dial(c) ==
    /\ connects[c] < budget[c]
    /\ connects' = [connects EXCEPT ![c] = @ + 1]
    /\ link' = [link EXCEPT ![c] = "up"]
    /\ toBroker' = [toBroker EXCEPT ![c] = <<"connect">>]
    /\ toClient' = [toClient EXCEPT ![c] = <<>>]
    /\ subscribed' = [subscribed EXCEPT ![c] = FALSE]
    /\ UNCHANGED <<unacked, resultVars, denied, effects, refusals>>

\* A handler calls command(): correlation, request, event and client (31-36).
Call(c) ==
    /\ pc[c] = "idle" /\ budget[c] > 0
    /\ pc' = [pc EXCEPT ![c] = "start"]
    /\ UNCHANGED <<outcome, resultVars, netVars, brokerVars>>

\* client.connect() succeeds and the network loop starts (68-69).
Connect(c) ==
    /\ pc[c] = "start"
    /\ Dial(c)
    /\ pc' = [pc EXCEPT ![c] = "wait"]
    /\ UNCHANGED outcome

Decide(c, what) ==
    /\ outcome' = [outcome EXCEPT ![c] = what]
    /\ pc' = [pc EXCEPT ![c] = "close"]

\* TLS set-up or client.connect() fails (37-40, 78-79).
ConnectFails(c) ==
    /\ pc[c] = "start"
    /\ Decide(c, "unavailable")
    /\ UNCHANGED <<resultVars, netVars, brokerVars>>

\* event.wait() returns True (70).
Wake(c) ==
    /\ pc[c] = "wait"
    /\ event[c]
    /\ pc' = [pc EXCEPT ![c] = "check"]
    /\ UNCHANGED <<outcome, resultVars, netVars, brokerVars>>

\* Variant: the wait has no time limit.
Timeout_Never(c) == FALSE /\ UNCHANGED vars

\* event.wait() returns False: "broker response timed out" (70-71).
Timeout(c) ==
    /\ pc[c] = "wait"
    /\ ~event[c]
    /\ Decide(c, "timeout")
    /\ UNCHANGED <<resultVars, netVars, brokerVars>>

\* result.get("error") comes first (72-73).
CheckError(c) ==
    /\ pc[c] = "check"
    /\ IF error[c] # "none"
       THEN Decide(c, error[c])
       ELSE pc' = [pc EXCEPT ![c] = "read"] /\ UNCHANGED outcome
    /\ UNCHANGED <<resultVars, netVars, brokerVars>>

\* The response as it is at this moment (74-77); none is not an error.
ReadResponse(c) ==
    /\ pc[c] = "read"
    /\ Decide(c, IF response[c] = "refused" THEN "refused" ELSE "ok")
    /\ UNCHANGED <<resultVars, netVars, brokerVars>>

\* loop_stop() joins the network loop, disconnect() ends the connection
\* (80-82).  What the loop has sent by then still reaches the broker.
Close(c) ==
    /\ pc[c] = "close"
    /\ pc' = [pc EXCEPT ![c] = "done"]
    /\ link' = [link EXCEPT ![c] = "closed"]
    /\ toClient' = [toClient EXCEPT ![c] = <<>>]
    /\ UNCHANGED <<outcome, resultVars, connects, toBroker, unacked, brokerVars>>

-------------------------------------------------------------------------------
(* The network loop: callbacks run in the order of the packets. *)

Running(c) == link[c] = "up"

Receives(c, packet) ==
    /\ Running(c)
    /\ toClient[c] # <<>>
    /\ Head(toClient[c]) = packet
    /\ toClient' = [toClient EXCEPT ![c] = Tail(@)]

\* Variant: the command is published with the subscription, not after it.
OnConnect_PublishesAtOnce(c) ==
    /\ Receives(c, Accepted)
    /\ toBroker' = [toBroker EXCEPT ![c] =
           @ \o <<"publish", "subscribe">> \o [i \in 1 .. unacked[c] |-> "publish"]]
    /\ unacked' = [unacked EXCEPT ![c] = @ + 1]
    /\ UNCHANGED <<callerVars, resultVars, link, connects, brokerVars>>

\* on_connect, accepted: subscribe (47); the library then retransmits.
OnConnect(c) ==
    /\ Receives(c, Accepted)
    /\ toBroker' = [toBroker EXCEPT ![c] =
           @ \o <<"subscribe">> \o [i \in 1 .. unacked[c] |-> "publish"]]
    /\ UNCHANGED <<callerVars, resultVars, link, connects, unacked, brokerVars>>

\* on_connect, rejected (43-46); the connection is gone.
OnRejected(c) ==
    /\ Receives(c, Rejected)
    /\ error' = [error EXCEPT ![c] = "rejected"]
    /\ event' = [event EXCEPT ![c] = TRUE]
    /\ link' = [link EXCEPT ![c] = "down"]
    /\ UNCHANGED <<callerVars, response, connects, toBroker, unacked, brokerVars>>

\* on_subscribe publishes whatever the reason codes say (49-50).
OnSubscribe(c) ==
    /\ Receives(c, Suback)
    /\ toBroker' = [toBroker EXCEPT ![c] = Append(@, "publish")]
    /\ unacked' = [unacked EXCEPT ![c] = @ + 1]
    /\ UNCHANGED <<callerVars, resultVars, link, connects, brokerVars>>

OnPuback(c) ==
    /\ Receives(c, Puback)
    /\ unacked' = [unacked EXCEPT ![c] = @ - 1]
    /\ UNCHANGED <<callerVars, resultVars, link, connects, toBroker, brokerVars>>

\* Variant: the first response on the topic is taken for the call's own.
OnMessage_AnyResponse(c) ==
    \E d \in Calls, v \in Verdicts :
        /\ Receives(c, Response(d, v, "readable"))
        /\ response' = [response EXCEPT ![c] = v]
        /\ event' = [event EXCEPT ![c] = TRUE]
        /\ UNCHANGED <<callerVars, error, link, connects, toBroker, unacked, brokerVars>>

\* on_message with a readable payload (53-59): the response with the call's
\* own correlation data replaces whatever was there, others are dropped.
OnMessage(c) ==
    \E d \in Calls, v \in Verdicts :
        /\ Receives(c, Response(d, v, "readable"))
        /\ IF d = c
           THEN /\ response' = [response EXCEPT ![c] = v]
                /\ event' = [event EXCEPT ![c] = TRUE]
           ELSE UNCHANGED <<response, event>>
        /\ UNCHANGED <<callerVars, error, link, connects, toBroker, unacked, brokerVars>>

\* on_message with a payload that does not parse, of whichever call (60-62).
\* (JSON that is not an object raises AttributeError, which is not caught and ends
\* the loop's thread: from then on the loop takes no step, which it need not.)
OnInvalidMessage(c) ==
    /\ \E d \in Calls, v \in Verdicts : Receives(c, Response(d, v, "unreadable"))
    /\ error' = [error EXCEPT ![c] = "invalid"]
    /\ event' = [event EXCEPT ![c] = TRUE]
    /\ UNCHANGED <<callerVars, response, link, connects, toBroker, unacked, brokerVars>>

\* The connection breaks: what was under way is lost.
LoseConnection(c) ==
    /\ \/ link[c] = "up" /\ link' = [link EXCEPT ![c] = "down"]
       \/ link[c] = "closed" /\ toBroker[c] # <<>> /\ UNCHANGED link
    /\ toBroker' = [toBroker EXCEPT ![c] = <<>>]
    /\ toClient' = [toClient EXCEPT ![c] = <<>>]
    /\ subscribed' = [subscribed EXCEPT ![c] = FALSE]
    /\ UNCHANGED <<callerVars, resultVars, connects, unacked, denied, effects, refusals>>

\* The loop reconnects by itself until loop_stop().
Reconnect(c) ==
    /\ link[c] = "down"
    /\ Dial(c)
    /\ UNCHANGED callerVars

-------------------------------------------------------------------------------
(* The broker. *)

Handles(c, packet) ==
    /\ toBroker[c] # <<>>
    /\ Head(toBroker[c]) = packet
    /\ toBroker' = [toBroker EXCEPT ![c] = Tail(@)]
    /\ UNCHANGED <<callerVars, resultVars, link, connects, unacked>>

\* A packet for a client that has closed its connection goes nowhere.
Sent(c, packets) == IF link[c] = "up" THEN toClient[c] \o packets ELSE <<>>

BrokerConnect(c) ==
    /\ Handles(c, "connect")
    /\ \E packet \in {Accepted, Rejected} :
           toClient' = [toClient EXCEPT ![c] = Sent(c, <<packet>>)]
    /\ UNCHANGED brokerVars

BrokerSubscribe(c) ==
    /\ Handles(c, "subscribe")
    /\ \/ subscribed' = [subscribed EXCEPT ![c] = TRUE] /\ UNCHANGED denied
       \/ denied' = [denied EXCEPT ![c] = TRUE] /\ UNCHANGED subscribed
    /\ toClient' = [toClient EXCEPT ![c] = Sent(c, <<Suback>>)]
    /\ UNCHANGED <<effects, refusals>>

\* The plugin executes the command, publishes its response to every
\* subscriber of the response topic, and the message is acknowledged.
BrokerExecute(c) ==
    /\ Handles(c, "publish")
    /\ \E verdict \in Verdicts, payload \in Payloads :
        /\ toClient' = [d \in Calls |->
               Sent(d, (IF subscribed[d] THEN <<Response(c, verdict, payload)>> ELSE <<>>)
                       \o (IF d = c THEN <<Puback>> ELSE <<>>))]
        /\ IF verdict = "ok"
           THEN effects' = [effects EXCEPT ![c] = @ + 1] /\ UNCHANGED refusals
           ELSE refusals' = [refusals EXCEPT ![c] = @ + 1] /\ UNCHANGED effects
    /\ UNCHANGED <<subscribed, denied>>

-------------------------------------------------------------------------------
Caller(c) ==
    \/ Connect(c)
    \/ ConnectFails(c)
    \/ Wake(c)
    \/ Timeout(c)
    \/ CheckError(c)
    \/ ReadResponse(c)
    \/ Close(c)

Loop(c) ==
    \/ OnConnect(c)
    \/ OnRejected(c)
    \/ OnSubscribe(c)
    \/ OnPuback(c)
    \/ OnMessage(c)
    \/ OnInvalidMessage(c)
    \/ LoseConnection(c)
    \/ Reconnect(c)

Broker(c) ==
    \/ BrokerConnect(c)
    \/ BrokerSubscribe(c)
    \/ BrokerExecute(c)

Next ==
    /\ \E c \in Calls : Call(c) \/ Caller(c) \/ Loop(c) \/ Broker(c)
    /\ UNCHANGED budget

Spec == Init /\ [][Next]_vars

\* Only the caller's own thread is assumed to run, and its timed wait to end:
\* nothing is assumed of the broker or of the network.
FairSpec == Spec /\ \A c \in Calls : WF_vars(Caller(c) /\ UNCHANGED budget)

-------------------------------------------------------------------------------
(* The abstract call: open while the caller has not decided. *)
Phase(c) ==
    CASE pc[c] = "idle"                    -> "idle"
      [] outcome[c] \in {"ok", "refused"}  -> outcome[c]
      [] outcome[c] = "none" /\ pc[c] # "idle" -> "open"
      [] OTHER                             -> "unknown"

Abstract == INSTANCE ControlCall WITH phase <- [c \in Calls |-> Phase(c)]

(* command() returns only what the broker answered to this call, and only    *)
(* after the broker executed it; the executions of one call are bounded by   *)
(* the connections it made.                                                  *)
ImplementsControlCall == Abstract!Spec

(* As long as the call made one connection, a refusal is the whole truth:    *)
(* the command did not take effect and never will.  (After a reconnect it    *)
(* is not: the repeated command is refused because the first one worked.)    *)
RefusalMeansUntouched ==
    \A c \in Calls : outcome[c] = "refused" /\ connects[c] = 1 => effects[c] = 0

(* Subscribing before publishing leaves no window: once the broker executed  *)
(* the command of a call whose subscription it granted and whose one         *)
(* connection stands, the answer is on its way or has been taken.            *)
AnswerReachesCaller ==
    \A c \in Calls :
        /\ effects[c] + refusals[c] > 0
        /\ connects[c] = 1 /\ link[c] = "up" /\ ~denied[c]
        => \/ event[c]
           \/ \E v \in Verdicts, p \in Payloads, i \in DOMAIN toClient[c] :
                  toClient[c][i] = Response(c, v, p)

(* A command leaves once with every connection and is repeated only as long  *)
(* as its acknowledgement is missing: one connection executes it once, two   *)
(* at most three times.                                                      *)
ExecutionsBounded ==
    \A c \in Calls :
        effects[c] + refusals[c] <= (connects[c] * (connects[c] + 1)) \div 2

(* command() always ends, even when the broker never answers.                *)
CallTerminates == \A c \in Calls : pc[c] = "start" ~> pc[c] = "done"

===============================================================================
