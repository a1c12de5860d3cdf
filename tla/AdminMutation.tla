---------------------------- MODULE AdminMutation ----------------------------
(***************************************************************************)
(* The mutating request handlers of the admin API: broker_mutation of      *)
(* admin-api/app/main.py and the eighteen handlers that call it.  A        *)
(* handler touches two systems that share no transaction: the broker       *)
(* applies the command and the database records the audit event.           *)
(*                                                                         *)
(*   pc = "guard"     the handler's own checks (confirmation, elevation)   *)
(*   pc = "before"    the read of the object before the change             *)
(*   pc = "limit"     the rate limiter                                     *)
(*   pc = "command"   broker.command() is open                             *)
(*   pc = "audit"     append_event is open, its event not recorded yet     *)
(*   pc = "recorded"  the event is recorded, append_event has not returned *)
(*   pc = "after"     the read of the object for the answer                *)
(*                                                                         *)
(* The broker call is the abstract ControlCall, which DynsecCommand        *)
(* implements, and the audit trail the abstract AuditLog, which AuditChain *)
(* implements.                                                             *)
(***************************************************************************)
EXTENDS Integers, Sequences

CONSTANTS Requests,       \* the requests
          Handlers,       \* the handlers they are for
          MaxExecutions,  \* bound: executions of one command by the broker
          Unstorable,     \* requests with a target that the column refuses
          Faults          \* may the database fail and the process die?

VARIABLES pc,             \* where each request is in its handler
          handler,        \* the handler of each request
          result,         \* the result its audit event carries
          status,         \* the answer: "none" until it is sent
          before,         \* the commands whose effect the state read as "before" holds
          settled,        \* history: the requests answered "ok" when it was received
          phase, effects, refusals,   \* the broker calls
          log, acknowledged           \* the audit trail

brokerVars == <<phase, effects, refusals>>
auditVars == <<log, acknowledged>>
requestVars == <<handler, before, settled>>
vars == <<pc, result, status, requestVars, brokerVars, auditVars>>

Results == {"success", "failure", "rate_limited"}

AuditEntries == [request : Requests, result : Results]

Broker == INSTANCE ControlCall WITH Calls <- Requests
Audit == INSTANCE AuditLog WITH Entries <- AuditEntries

-------------------------------------------------------------------------------
(* The handlers. *)

ReadsBefore == {"rotate_password", "client_state", "delete_client",
                "update_group", "delete_group", "update_role", "delete_role"}

ReadsAfter == {"create_client", "client_state", "assign_client_role",
               "remove_client_role", "assign_client_group", "remove_client_group",
               "create_group", "update_group", "assign_group_role",
               "remove_group_role", "create_role", "update_role",
               "add_acl", "remove_acl"}

MutatingHandlers == ReadsBefore \cup ReadsAfter

ASSUME HandlersAssumption == Handlers \subseteq MutatingHandlers
ASSUME MaxExecutionsAssumption == MaxExecutions \in Nat

\* Handlers with a check of their own in front of everything they do: an
\* unknown operation, a missing confirmation, an ACL that needs elevation.
Checks == {"client_state", "delete_client", "delete_group", "delete_role",
           "add_acl", "remove_acl"}

Statuses == {"none", "ok", "denied", "limited", "bad_gateway", "error"}

TypeOK ==
    /\ pc \in [Requests -> {"idle", "guard", "before", "limit", "command", "audit",
                            "recorded", "after", "answered", "lost"}]
    /\ handler \in [Requests -> Handlers \cup {"none"}]
    /\ result \in [Requests -> Results \cup {"none"}]
    /\ status \in [Requests -> Statuses]
    /\ before \in [Requests -> SUBSET Requests]
    /\ settled \in [Requests -> SUBSET Requests]
    /\ Broker!TypeOK
    /\ Audit!TypeOK

Init ==
    /\ pc = [r \in Requests |-> "idle"]
    /\ handler = [r \in Requests |-> "none"]
    /\ result = [r \in Requests |-> "none"]
    /\ status = [r \in Requests |-> "none"]
    /\ before = [r \in Requests |-> {}]
    /\ settled = [r \in Requests |-> {}]
    /\ Broker!Init
    /\ Audit!Init

Goto(r, where) == pc' = [pc EXCEPT ![r] = where]

Respond(r, code) ==
    /\ status' = [status EXCEPT ![r] = code]
    /\ Goto(r, "answered")

\* The request has passed the session, CSRF and role dependencies.
Receive(r, h) ==
    /\ pc[r] = "idle"
    /\ handler' = [handler EXCEPT ![r] = h]
    /\ settled' = [settled EXCEPT ![r] = {q \in Requests : status[q] = "ok"}]
    /\ Goto(r, "guard")
    /\ UNCHANGED <<result, status, before, brokerVars, auditVars>>

Deny(r) ==
    /\ pc[r] = "guard"
    /\ handler[r] \in Checks
    /\ Respond(r, "denied")
    /\ UNCHANGED <<requestVars, result, brokerVars, auditVars>>

PassChecks(r) ==
    /\ pc[r] = "guard"
    /\ Goto(r, IF handler[r] \in ReadsBefore THEN "before" ELSE "limit")
    /\ UNCHANGED <<requestVars, result, status, brokerVars, auditVars>>

\* The changes that the broker's state holds at this instant.
Applied == {q \in Requests : effects[q] > 0}

\* Variant: the object comes from a cache of the adapter.
ReadBefore_Cached(r) ==
    /\ pc[r] = "before"
    /\ \E seen \in SUBSET Applied : before' = [before EXCEPT ![r] = seen]
    /\ Goto(r, "limit")
    /\ UNCHANGED <<handler, settled, result, status, brokerVars, auditVars>>

\* before = broker.command("get..."): its BrokerError ends the request in
\* broker_error_handler (84-90).
ReadBefore(r) ==
    /\ pc[r] = "before"
    /\ \/ before' = [before EXCEPT ![r] = Applied] /\ Goto(r, "limit") /\ UNCHANGED status
       \/ Respond(r, "bad_gateway") /\ UNCHANGED before
    /\ UNCHANGED <<handler, settled, result, brokerVars, auditVars>>

\* Variant: the limit is checked when the command has been sent already.
Limited_AfterSending(r) ==
    /\ pc[r] = "command"
    /\ result' = [result EXCEPT ![r] = "rate_limited"]
    /\ Goto(r, "audit")
    /\ UNCHANGED <<requestVars, status, brokerVars, auditVars>>

\* rate_limiter.check raises: the refusal is audited (144-146).
Limited(r) ==
    /\ pc[r] = "limit"
    /\ result' = [result EXCEPT ![r] = "rate_limited"]
    /\ Goto(r, "audit")
    /\ UNCHANGED <<requestVars, status, brokerVars, auditVars>>

\* rate_limiter.check passes and the command is started (143, 148).
Admitted(r) ==
    /\ pc[r] = "limit"
    /\ Broker!Open(r)
    /\ Goto(r, "command")
    /\ UNCHANGED <<requestVars, result, status, auditVars>>

\* The broker executes the command, in time or not.
Executes(r) ==
    /\ Broker!Apply(r) \/ Broker!Refuse(r)
    /\ UNCHANGED <<pc, requestVars, result, status, auditVars>>

\* Variant: only the broker's own refusal is turned into a BrokerError.
CommandEnds_TimeoutIsSuccess(r) ==
    /\ pc[r] = "command"
    /\ \E answer \in Broker!Answers :
        /\ Broker!Answer(r, answer)
        /\ result' = [result EXCEPT ![r] = IF answer = "refused" THEN "failure" ELSE "success"]
    /\ Goto(r, "audit")
    /\ UNCHANGED <<requestVars, status, auditVars>>

\* Variant: the BrokerError is not caught, broker_error_handler answers.
CommandEnds_Uncaught(r) ==
    /\ pc[r] = "command"
    /\ \E answer \in Broker!Answers :
        /\ Broker!Answer(r, answer)
        /\ IF answer = "ok"
           THEN /\ result' = [result EXCEPT ![r] = "success"]
                /\ Goto(r, "audit")
                /\ UNCHANGED status
           ELSE Respond(r, "bad_gateway") /\ UNCHANGED result
    /\ UNCHANGED <<requestVars, auditVars>>

\* Variant: the call waits for the broker's answer without a time limit.
CommandEnds_NoTimeout(r) ==
    /\ pc[r] = "command"
    /\ \E answer \in Broker!Answers \ {"unknown"} :
        /\ Broker!Answer(r, answer)
        /\ result' = [result EXCEPT ![r] = IF answer = "ok" THEN "success" ELSE "failure"]
    /\ Goto(r, "audit")
    /\ UNCHANGED <<requestVars, status, auditVars>>

\* broker.command returns, or raises whatever the reason was (148, 151).
CommandEnds(r) ==
    /\ pc[r] = "command"
    /\ \E answer \in Broker!Answers :
        /\ Broker!Answer(r, answer)
        /\ result' = [result EXCEPT ![r] = IF answer = "ok" THEN "success" ELSE "failure"]
    /\ Goto(r, "audit")
    /\ UNCHANGED <<requestVars, status, auditVars>>

\* The event of the request (145, 149, 152).
Entry(r) == [request |-> r, result |-> result[r]]

AuditRecords(r) ==
    /\ pc[r] = "audit"
    /\ r \notin Unstorable
    /\ Audit!Record(Entry(r))
    /\ Goto(r, "recorded")
    /\ UNCHANGED <<requestVars, result, status, brokerVars>>

\* After a recorded event: the handler reads for its answer or answers.
AuditReturns(r) ==
    /\ pc[r] = "recorded"
    /\ Audit!Acknowledge(Entry(r))
    /\ \/ result[r] = "rate_limited" /\ Respond(r, "limited")
       \/ result[r] = "failure" /\ Respond(r, "bad_gateway")
       \/ /\ result[r] = "success"
          /\ IF handler[r] \in ReadsAfter
             THEN Goto(r, "after") /\ UNCHANGED status
             ELSE Respond(r, "ok")
    /\ UNCHANGED <<requestVars, result, brokerVars>>

\* Variant: an audit failure is logged and the request goes on.
AuditRaises_Swallowed(r) ==
    /\ pc[r] \in {"audit", "recorded"}
    /\ Faults \/ (pc[r] = "audit" /\ r \in Unstorable)
    /\ Respond(r, IF result[r] = "success" THEN "ok" ELSE "bad_gateway")
    /\ UNCHANGED <<requestVars, result, brokerVars, auditVars>>

\* Variant: "except Exception" around the command and its audit event.
AuditRaises_CaughtAsFailure(r) ==
    /\ pc[r] \in {"audit", "recorded"}
    /\ Faults \/ (pc[r] = "audit" /\ r \in Unstorable)
    /\ IF result[r] = "success"
       THEN /\ result' = [result EXCEPT ![r] = "failure"]
            /\ Goto(r, "audit")
            /\ UNCHANGED status
       ELSE Respond(r, "error") /\ UNCHANGED result
    /\ UNCHANGED <<requestVars, brokerVars, auditVars>>

\* append_event raises, before its commit or after it: nothing catches it.
AuditRaises(r) ==
    /\ pc[r] \in {"audit", "recorded"}
    /\ Faults \/ (pc[r] = "audit" /\ r \in Unstorable)
    /\ Respond(r, "error")
    /\ UNCHANGED <<requestVars, result, brokerVars, auditVars>>

\* return broker.command("get..."): it may still fail.
ReadAfter(r) ==
    /\ pc[r] = "after"
    /\ \E code \in {"ok", "bad_gateway"} : Respond(r, code)
    /\ UNCHANGED <<requestVars, result, brokerVars, auditVars>>

\* The API process dies and is started again: every request in it is lost.
\* What has left for the broker may still be executed.
Crash ==
    /\ Faults
    /\ \E r \in Requests : pc[r] \notin {"idle", "answered", "lost"}
    /\ pc' = [r \in Requests |-> IF pc[r] \in {"idle", "answered"} THEN pc[r] ELSE "lost"]
    /\ UNCHANGED <<requestVars, result, status, brokerVars, auditVars>>

Handle(r) ==
    \/ Deny(r)
    \/ PassChecks(r)
    \/ ReadBefore(r)
    \/ Limited(r)
    \/ Admitted(r)
    \/ CommandEnds(r)
    \/ AuditRecords(r)
    \/ AuditReturns(r)
    \/ AuditRaises(r)
    \/ ReadAfter(r)

Next ==
    \/ \E r \in Requests :
        \/ \E h \in Handlers : Receive(r, h)
        \/ Handle(r)
        \/ Executes(r)
    \/ Crash

Spec == Init /\ [][Next]_vars

\* A handler's thread runs; broker.command and append_event end
\* (DynsecCommand!CallTerminates, AuditChain!AppendTerminates).
FairSpec == Spec /\ \A r \in Requests : WF_vars(Handle(r))

-------------------------------------------------------------------------------
InLog(r, res) == [request |-> r, result |-> res] \in Audit!Recorded

(* The trail never claims a change that did not happen: a "success" event is *)
(* written after the broker has applied the command.                         *)
SuccessWasApplied ==
    \A r \in Requests : InLog(r, "success") => effects[r] > 0

(* A caller that is told of success finds the event in the trail, whatever   *)
(* fails in between.                                                         *)
OkIsAudited ==
    \A r \in Requests : status[r] = "ok" => InLog(r, "success")

(* A change that took effect, in time or after the time-out, is accounted    *)
(* for in the trail, as success or as failure, once its request was answered *)
(* with anything but an internal error.                                      *)
AnsweredIsAccountedFor ==
    \A r \in Requests :
        effects[r] > 0 /\ status[r] \notin {"none", "error"}
            => InLog(r, "success") \/ InLog(r, "failure")

(* A request that was turned away, by the handler's checks or by the rate    *)
(* limit, never reaches the broker, not even later.                          *)
TurnedAwayNeverExecutes ==
    \A r \in Requests :
        status[r] \in {"denied", "limited"} \/ InLog(r, "rate_limited")
            => effects[r] + refusals[r] = 0

(* The trail holds one verdict on a request: never both success and failure. *)
OneVerdict ==
    \A r \in Requests : \A i, j \in DOMAIN log :
        log[i].request = r /\ log[j].request = r => i = j

(* The "before" of a recorded change is no older than its request: it holds  *)
(* every change whose caller had been told of success when the request came  *)
(* in.  It need not be the state that the command replaced, since another    *)
(* change may come in between; and it never shows the request's own change.  *)
BeforeSeesFinishedChanges ==
    \A r \in Requests :
        InLog(r, "success") /\ handler[r] \in ReadsBefore
            => settled[r] \subseteq before[r] /\ r \notin before[r]

(* Requirement: every security change produces an audit event                *)
(* (docs/admin-console/requirements.md:39).                                  *)
EveryEffectIsAudited ==
    \A r \in Requests :
        effects[r] > 0 /\ status[r] # "none"
            => InLog(r, "success") \/ InLog(r, "failure")

(* Every request is answered unless the process dies under it.               *)
EveryRequestAnswered ==
    \A r \in Requests : pc[r] = "guard" ~> pc[r] \in {"answered", "lost"}

==============================================================================
