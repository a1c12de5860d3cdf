----------------------------- MODULE ReadHandlers -----------------------------
(***************************************************************************)
(* The read handlers of the admin API that take more than one step:        *)
(* overview (admin-api/app/main.py 272-293 over MosquittoAdapter.overview, *)
(* admin-api/app/broker.py 89-130), audit_history (main.py 504-521) and    *)
(* audit_export (main.py 524-540).                                         *)
(*                                                                         *)
(*   pc = "dial"      overview connects to the broker                      *)
(*   pc = "wait"      it waits for the metrics its network loop collects   *)
(*   pc = "stop"      it has decided whether the broker is reachable, the  *)
(*                    network loop still runs                              *)
(*   pc = "audit"     append_event is open, its event not recorded yet     *)
(*   pc = "recorded"  the event is recorded, append_event has not returned *)
(*   pc = "query"     the SELECT of the events                             *)
(*   pc = "verify"    verify_chain, a SELECT of its own                    *)
(*                                                                         *)
(* The trail is the abstract AuditLog, to which other handlers append      *)
(* meanwhile.  Each SELECT sees what is committed at its own instant.      *)
(***************************************************************************)
EXTENDS Integers, SequencesExt

CONSTANTS Reads,       \* the requests; each is also the event it records
          Others,      \* the events of other handlers
          Topics,      \* the $SYS topics that overview asks for
          Version,     \* $SYS/broker/version
          Filters,     \* the filters of the audit history
          Limit,       \* the limit of the audit history
          MaxOutages   \* bound: how often the broker stops

Events == Reads \cup Others

ASSUME EventsAssumption == Reads \cap Others = {}
ASSUME TopicsAssumption == Version \in Topics
ASSUME FiltersAssumption == \A filter \in Filters : filter \subseteq Events
ASSUME LimitAssumption == Limit \in Nat \ {0}
ASSUME MaxOutagesAssumption == MaxOutages \in Nat

VARIABLES pc, kind,        \* where each request is, and in which handler
          filter,          \* what an audit history is asked for
          metrics,         \* overview: the topics received so far
          event,           \* overview: the event its caller waits for
          link,            \* overview: the connection of its network loop
          reachable,       \* overview: what it decided when it woke
          status,          \* overview: what it returns
          shown,           \* the events that history and export list
          verified,        \* the events that verify_chain went through
          settled,         \* history: the events acknowledged when it came in
          brokerUp, outages,   \* the broker
          log, acknowledged    \* the audit trail

overviewVars == <<metrics, event, link, reachable, status>>
queryVars == <<shown, verified>>
requestVars == <<kind, filter, settled>>
brokerVars == <<brokerUp, outages>>
auditVars == <<log, acknowledged>>
vars == <<pc, requestVars, overviewVars, queryVars, brokerVars, auditVars>>

Audit == INSTANCE AuditLog WITH Entries <- Events

Kinds == {"overview", "history", "export"}

Nothing == [state |-> "none", reachable |-> FALSE, shown |-> {}]

TypeOK ==
    /\ pc \in [Reads -> {"idle", "dial", "wait", "stop", "audit", "recorded", "query",
                         "verify", "answered", "failed"}]
    /\ kind \in [Reads -> Kinds \cup {"none"}]
    /\ filter \in [Reads -> SUBSET Events]
    /\ metrics \in [Reads -> SUBSET Topics]
    /\ event \in [Reads -> BOOLEAN]
    /\ link \in [Reads -> {"none", "down", "up", "subscribed"}]
    /\ reachable \in [Reads -> BOOLEAN]
    /\ status \in [Reads -> [state : {"none", "healthy", "degraded", "unavailable"},
                             reachable : BOOLEAN, shown : SUBSET Topics]]
    /\ shown \in [Reads -> Seq(Events)]
    /\ verified \in [Reads -> SUBSET Events]
    /\ settled \in [Reads -> SUBSET Events]
    /\ brokerUp \in BOOLEAN /\ outages \in 0 .. MaxOutages
    /\ Audit!TypeOK

Init ==
    /\ pc = [r \in Reads |-> "idle"]
    /\ kind = [r \in Reads |-> "none"]
    /\ filter = [r \in Reads |-> {}]
    /\ metrics = [r \in Reads |-> {}]
    /\ event = [r \in Reads |-> FALSE]
    /\ link = [r \in Reads |-> "none"]
    /\ reachable = [r \in Reads |-> FALSE]
    /\ status = [r \in Reads |-> Nothing]
    /\ shown = [r \in Reads |-> <<>>]
    /\ verified = [r \in Reads |-> {}]
    /\ settled = [r \in Reads |-> {}]
    /\ brokerUp \in BOOLEAN /\ outages = 0
    /\ Audit!Init

Goto(r, where) == pc' = [pc EXCEPT ![r] = where]

\* What each handler does first.
First == [overview |-> "dial", history |-> "query", export |-> "audit"]

\* The request has passed its session and role dependencies.
Receive(r, k) ==
    /\ pc[r] = "idle"
    /\ kind' = [kind EXCEPT ![r] = k]
    /\ \E f \in Filters : filter' = [filter EXCEPT ![r] = IF k = "history" THEN f ELSE Events]
    /\ settled' = [settled EXCEPT ![r] = acknowledged]
    /\ Goto(r, First[k])
    /\ UNCHANGED <<overviewVars, queryVars, brokerVars, auditVars>>

-------------------------------------------------------------------------------
(* overview: the caller. *)

\* client.connect(): an OSError means unreachable; otherwise the network loop
\* is started (broker.py 112-114, 117-118).
Dial(r) ==
    /\ pc[r] = "dial"
    /\ \/ brokerUp /\ link' = [link EXCEPT ![r] = "up"] /\ Goto(r, "wait")
       \/ Goto(r, "stop") /\ UNCHANGED link
    /\ UNCHANGED <<metrics, event, reachable, status, requestVars, queryVars, brokerVars, auditVars>>

\* Variant: the wait has no time limit.
Wake_NoTimeout(r) ==
    /\ pc[r] = "wait"
    /\ event[r]
    /\ reachable' = [reachable EXCEPT ![r] = Version \in metrics[r]]
    /\ Goto(r, "stop")
    /\ UNCHANGED <<metrics, event, link, status, requestVars, queryVars, brokerVars, auditVars>>

\* event.wait() ends, at the event or after two seconds (broker.py 115-116).
Wake(r) ==
    /\ pc[r] = "wait"
    /\ reachable' = [reachable EXCEPT ![r] = Version \in metrics[r]]
    /\ Goto(r, "stop")
    /\ UNCHANGED <<metrics, event, link, status, requestVars, queryVars, brokerVars, auditVars>>

\* loop_stop() joins the network loop; the answer is built from what it has
\* collected by then (broker.py 119-130), the locals of the call are gone, and the
\* handler goes on to its audit event.
Stop(r) ==
    /\ pc[r] = "stop"
    /\ link' = [link EXCEPT ![r] = "none"]
    /\ status' = [status EXCEPT ![r] =
          [state |-> IF ~reachable[r] THEN "unavailable"
                     ELSE IF metrics[r] = Topics THEN "healthy" ELSE "degraded",
           reachable |-> reachable[r],
           shown |-> metrics[r]]]
    /\ metrics' = [metrics EXCEPT ![r] = {}]
    /\ event' = [event EXCEPT ![r] = FALSE]
    /\ reachable' = [reachable EXCEPT ![r] = FALSE]
    /\ Goto(r, "audit")
    /\ UNCHANGED <<requestVars, queryVars, brokerVars, auditVars>>

-------------------------------------------------------------------------------
(* overview: its network loop, from loop_start to loop_stop. *)

\* Variant: a new connection starts with no metrics.
OnConnect_Forgets(r) ==
    /\ link[r] = "up"
    /\ \/ link' = [link EXCEPT ![r] = "subscribed"] /\ UNCHANGED event
       \/ event' = [event EXCEPT ![r] = TRUE] /\ link' = [link EXCEPT ![r] = "down"]
    /\ metrics' = [metrics EXCEPT ![r] = {}]
    /\ UNCHANGED <<pc, reachable, status, requestVars, queryVars, brokerVars, auditVars>>

\* The broker accepts the connection and the loop subscribes, or the broker
\* refuses it and the caller is woken (broker.py 100-104).
OnConnect(r) ==
    /\ link[r] = "up"
    /\ \/ link' = [link EXCEPT ![r] = "subscribed"] /\ UNCHANGED event
       \/ event' = [event EXCEPT ![r] = TRUE] /\ link' = [link EXCEPT ![r] = "down"]
    /\ UNCHANGED <<pc, metrics, reachable, status, requestVars, queryVars, brokerVars, auditVars>>

\* A metric arrives, in any order and more than once (broker.py 106-109).
OnMessage(r, topic) ==
    /\ link[r] = "subscribed"
    /\ metrics' = [metrics EXCEPT ![r] = @ \cup {topic}]
    /\ event' = [event EXCEPT ![r] = @ \/ metrics'[r] = Topics]
    /\ UNCHANGED <<pc, link, reachable, status, requestVars, queryVars, brokerVars, auditVars>>

\* The network loop connects again.
Reconnect(r) ==
    /\ link[r] = "down"
    /\ brokerUp
    /\ link' = [link EXCEPT ![r] = "up"]
    /\ UNCHANGED <<pc, metrics, event, reachable, status, requestVars, queryVars, brokerVars,
                   auditVars>>

\* The broker stops, and starts again later: the connections break.
Outage ==
    /\ brokerUp /\ outages < MaxOutages
    /\ brokerUp' = FALSE
    /\ outages' = outages + 1
    /\ link' = [r \in Reads |-> IF link[r] = "none" THEN "none" ELSE "down"]
    /\ UNCHANGED <<pc, metrics, event, reachable, status, requestVars, queryVars, auditVars>>

Recover ==
    /\ ~brokerUp
    /\ brokerUp' = TRUE
    /\ UNCHANGED <<pc, outages, overviewVars, requestVars, queryVars, auditVars>>

-------------------------------------------------------------------------------
(* The audit trail. *)

AuditRecords(r) ==
    /\ pc[r] = "audit"
    /\ Audit!Record(r)
    /\ Goto(r, "recorded")
    /\ UNCHANGED <<requestVars, overviewVars, queryVars, brokerVars>>

AuditReturns(r) ==
    /\ pc[r] = "recorded"
    /\ Audit!Acknowledge(r)
    /\ Goto(r, IF kind[r] = "export" THEN "query" ELSE "answered")
    /\ UNCHANGED <<requestVars, overviewVars, queryVars, brokerVars>>

\* Another handler appends an event, or is told that it has.
OtherRecords(e) ==
    /\ Audit!Record(e) \/ Audit!Acknowledge(e)
    /\ UNCHANGED <<pc, requestVars, overviewVars, queryVars, brokerVars>>

\* The events of s that pass the filter f.  (SelectSeq, as a function of the
\* positions: the provers know it by its definition.)
Passing(s, f) ==
    LET upto[i \in 0 .. Len(s)] ==
            IF i = 0 THEN <<>>
            ELSE IF s[i] \in f THEN Append(upto[i - 1], s[i]) ELSE upto[i - 1]
    IN  upto[Len(s)]

Newest(s, n) == Reverse(SubSeq(s, IF Len(s) > n THEN Len(s) - n + 1 ELSE 1, Len(s)))

\* Variant: the export is listed by the query of the history.
Query_SharedQuery(r) ==
    /\ pc[r] = "query"
    /\ shown' = [shown EXCEPT ![r] =
                    Newest(Passing(log, filter[r]), Limit)]
    /\ Goto(r, IF kind[r] = "export" THEN "answered" ELSE "verify")
    /\ UNCHANGED <<verified, requestVars, overviewVars, brokerVars, auditVars>>

\* The events of the export, all of them in order (main.py 527), or of the history,
\* the newest that pass the filter (main.py 513-520).
Query(r) ==
    /\ pc[r] = "query"
    /\ shown' = [shown EXCEPT ![r] =
                    IF kind[r] = "export" THEN log
                    ELSE Newest(Passing(log, filter[r]), Limit)]
    /\ Goto(r, IF kind[r] = "export" THEN "answered" ELSE "verify")
    /\ UNCHANGED <<verified, requestVars, overviewVars, brokerVars, auditVars>>

\* Variant: the verdict is kept from when the request came in.
Verify_Earlier(r) ==
    /\ pc[r] = "verify"
    /\ verified' = [verified EXCEPT ![r] = settled[r]]
    /\ Goto(r, "answered")
    /\ UNCHANGED <<shown, requestVars, overviewVars, brokerVars, auditVars>>

\* verify_chain goes through the whole table after the query (main.py 521).
Verify(r) ==
    /\ pc[r] = "verify"
    /\ verified' = [verified EXCEPT ![r] = Audit!Recorded]
    /\ Goto(r, "answered")
    /\ UNCHANGED <<shown, requestVars, overviewVars, brokerVars, auditVars>>

\* The certificate of the broker or of the API cannot be read, or the database
\* fails, before or after an event is recorded: the request ends with an error.
Fails(r) ==
    /\ pc[r] \in {"dial", "audit", "recorded", "query", "verify"}
    /\ Goto(r, "failed")
    /\ UNCHANGED <<requestVars, overviewVars, queryVars, brokerVars, auditVars>>

Handle(r) ==
    \/ Dial(r) \/ Wake(r) \/ Stop(r)
    \/ AuditRecords(r) \/ AuditReturns(r)
    \/ Query(r) \/ Verify(r)

NetworkLoop(r) ==
    \/ OnConnect(r)
    \/ \E topic \in Topics : OnMessage(r, topic)
    \/ Reconnect(r)

Next ==
    \/ \E r \in Reads :
        \/ \E k \in Kinds : Receive(r, k)
        \/ Handle(r)
        \/ NetworkLoop(r)
        \/ Fails(r)
    \/ \E e \in Others : OtherRecords(e)
    \/ Outage
    \/ Recover

Spec == Init /\ [][Next]_vars

\* The thread of a request runs; append_event ends (AuditChain!AppendTerminates).
\* Nothing is assumed of the broker and of the network loop.
FairSpec == Spec /\ \A r \in Reads : WF_vars(Handle(r))

-------------------------------------------------------------------------------
(* An overview agrees with itself, although whether the broker is reachable  *)
(* is decided while the network loop still collects and the rest is read     *)
(* after it has stopped: a reachable broker shows its version, a healthy one *)
(* every metric.                                                             *)
OverviewIsCoherent ==
    \A r \in Reads :
        /\ status[r].reachable => Version \in status[r].shown
        /\ status[r].state = "healthy" => status[r].shown = Topics

(* An export is a complete beginning of the trail, not just some of its      *)
(* events: nothing is missing in between, everything acknowledged before the *)
(* export was asked for is in it, and so is the event of the export itself.  *)
ExportIsCompletePrefix ==
    \A r \in Reads :
        kind[r] = "export" /\ pc[r] = "answered" =>
            /\ IsPrefix(shown[r], log)
            /\ settled[r] \cup {r} \subseteq ToSet(shown[r])

(* The verdict on the chain that comes with a history covers every event     *)
(* that the history shows, although they are two reads; and an event of the  *)
(* filter that was acknowledged before the request is only missing from a    *)
(* full list, all of whose events are newer.                                 *)
ShownEventsAreVerified ==
    \A r \in Reads :
        kind[r] = "history" /\ pc[r] = "answered" =>
            /\ ToSet(shown[r]) \subseteq verified[r]
            /\ \A i, j \in DOMAIN log :
                  log[i] \in (settled[r] \cap filter[r]) \ ToSet(shown[r])
                  => /\ Len(shown[r]) = Limit
                     /\ log[j] \in ToSet(shown[r]) => i < j

(* Every read ends, with an answer or an error, even if the broker accepts   *)
(* the connection and then says nothing.                                     *)
EveryReadEnds ==
    \A r \in Reads : pc[r] # "idle" ~> pc[r] \in {"answered", "failed"}

===============================================================================
