-------------------------- MODULE AdminMutationProofs --------------------------
(***************************************************************************)
(* Proofs about AdminMutation: for every number of requests, every choice  *)
(* of handlers and every bound on the executions, with and without faults, *)
(* the audit trail and the broker agree as far as the handlers can make    *)
(* them agree.                                                             *)
(*                                                                         *)
(* The invariants of the runs are not inductive.  The strengthening says,  *)
(* for one request, what its place in the handler tells of its broker call *)
(* (Progress), what its verdict tells of the call (Verdict), what a call   *)
(* tells of the executions (Execution), which event the trail may hold of  *)
(* the request (Trail), and what its answer tells (Answered).              *)
(***************************************************************************)
EXTENDS AdminMutation, TLAPS

Untouched == {"idle", "guard", "before", "limit"}

Progress(r) ==
    /\ pc[r] \in Untouched => phase[r] = "idle" /\ result[r] = "none"
    /\ pc[r] = "command" => phase[r] = "open" /\ result[r] = "none"
    /\ pc[r] \in {"audit", "recorded", "after"} => result[r] # "none"
    /\ pc[r] = "after" => result[r] = "success"
    /\ pc[r] = "answered" <=> status[r] # "none"

Verdict(r) ==
    /\ result[r] = "success" => phase[r] = "ok"
    /\ result[r] = "failure" => phase[r] \in {"refused", "unknown"}
    /\ result[r] = "rate_limited" => phase[r] = "idle"

Execution(r) ==
    /\ phase[r] = "idle" => effects[r] = 0 /\ refusals[r] = 0
    /\ phase[r] = "ok" => effects[r] > 0

Trail(r) ==
    /\ \A res \in Results : InLog(r, res) =>
           result[r] = res /\ pc[r] \in {"recorded", "after", "answered", "lost"}
    /\ pc[r] \in {"recorded", "after"} => InLog(r, result[r])

Answered(r) ==
    /\ status[r] = "ok" => InLog(r, "success")
    /\ status[r] = "denied" => phase[r] = "idle"
    /\ status[r] = "limited" => result[r] = "rate_limited"
    /\ status[r] = "bad_gateway" => phase[r] = "idle" \/ InLog(r, "success") \/ InLog(r, "failure")

\* What was settled when the request came in, and what it has read.
Seen(r) ==
    /\ settled[r] \subseteq Applied
    /\ handler[r] \in ReadsBefore /\ (pc[r] \in {"limit", "command"} \/ result[r] # "none")
           => settled[r] \subseteq before[r] /\ r \notin before[r]

RequestInv(r) ==
    Progress(r) /\ Verdict(r) /\ Execution(r) /\ Trail(r) /\ Answered(r) /\ Seen(r)

IInv == TypeOK /\ (\A r \in Requests : RequestInv(r)) /\ OneVerdict

-------------------------------------------------------------------------------
(* The trail. *)

(* Recording adds one event and keeps the others.                            *)
LEMMA RecordedAfterAppend ==
    ASSUME NEW S, NEW s \in Seq(S), NEW e \in S
    PROVE  {Append(s, e)[i] : i \in DOMAIN Append(s, e)} = {s[i] : i \in DOMAIN s} \cup {e}
<1>1. DOMAIN Append(s, e) = DOMAIN s \cup {Len(s) + 1}
  OBVIOUS
<1>2. \A i \in DOMAIN s : Append(s, e)[i] = s[i]
  OBVIOUS
<1>3. Append(s, e)[Len(s) + 1] = e
  OBVIOUS
<1> QED
  BY <1>1, <1>2, <1>3

LEMMA RecordStep ==
    ASSUME TypeOK, NEW r \in Requests, result[r] \in Results, Audit!Record(Entry(r))
    PROVE  /\ log' \in Seq(AuditEntries)
           /\ Audit!Recorded' = Audit!Recorded \cup {Entry(r)}
<1>1. Entry(r) \in AuditEntries
  BY DEF Entry, AuditEntries
<1>2. log \in Seq(AuditEntries) /\ log' = Append(log, Entry(r))
  BY DEF TypeOK, Audit!TypeOK, Audit!Record
<1> QED
  BY <1>1, <1>2, RecordedAfterAppend DEF Audit!Recorded

-------------------------------------------------------------------------------
(* Types. *)

(* The broker's side keeps its type at every step.                           *)
LEMMA BrokerTypeStep ==
    ASSUME TypeOK, NEW r \in Requests,
           \/ Broker!Open(r)
           \/ Broker!Apply(r)
           \/ Broker!Refuse(r)
           \/ \E answer \in Broker!Answers : Broker!Answer(r, answer)
    PROVE  Broker!TypeOK'
BY MaxExecutionsAssumption
   DEF TypeOK, Broker!TypeOK, Broker!Phases, Broker!Open, Broker!Apply, Broker!Refuse,
       Broker!Answer, Broker!Answers, Broker!MayExecute

(* What is left alone keeps its type.                                        *)
LEMMA Untyped ==
    ASSUME TypeOK
    PROVE  /\ UNCHANGED brokerVars => Broker!TypeOK'
           /\ UNCHANGED auditVars => Audit!TypeOK'
BY DEF TypeOK, brokerVars, auditVars, Broker!TypeOK, Audit!TypeOK, Broker!Phases

(* The variables of the handlers alone.                                      *)
HandlerTypeOK ==
    /\ pc \in [Requests -> {"idle", "guard", "before", "limit", "command", "audit",
                            "recorded", "after", "answered", "lost"}]
    /\ handler \in [Requests -> Handlers \cup {"none"}]
    /\ result \in [Requests -> Results \cup {"none"}]
    /\ status \in [Requests -> Statuses]
    /\ before \in [Requests -> SUBSET Requests]
    /\ settled \in [Requests -> SUBSET Requests]

LEMMA HandlerTypeStep ==
    ASSUME HandlerTypeOK, [Next]_vars
    PROVE  HandlerTypeOK'
<1> USE DEF HandlerTypeOK, Goto, Respond, requestVars, Statuses, Results
<1>1. ASSUME NEW r \in Requests, NEW h \in Handlers, Receive(r, h) PROVE HandlerTypeOK'
  BY <1>1 DEF Receive
<1>2. ASSUME NEW r \in Requests, Deny(r) PROVE HandlerTypeOK'
  BY <1>2 DEF Deny
<1>3. ASSUME NEW r \in Requests, PassChecks(r) PROVE HandlerTypeOK'
  BY <1>3 DEF PassChecks
<1>4. ASSUME NEW r \in Requests, ReadBefore(r) PROVE HandlerTypeOK'
  BY <1>4 DEF ReadBefore, Applied
<1>5. ASSUME NEW r \in Requests, Limited(r) PROVE HandlerTypeOK'
  BY <1>5 DEF Limited
<1>6. ASSUME NEW r \in Requests, Admitted(r) PROVE HandlerTypeOK'
  BY <1>6 DEF Admitted
<1>7. ASSUME NEW r \in Requests, CommandEnds(r) PROVE HandlerTypeOK'
  BY <1>7 DEF CommandEnds
<1>8. ASSUME NEW r \in Requests, AuditRecords(r) PROVE HandlerTypeOK'
  BY <1>8 DEF AuditRecords
<1>9. ASSUME NEW r \in Requests, AuditReturns(r) PROVE HandlerTypeOK'
  BY <1>9 DEF AuditReturns
<1>10. ASSUME NEW r \in Requests, AuditRaises(r) PROVE HandlerTypeOK'
  BY <1>10 DEF AuditRaises
<1>11. ASSUME NEW r \in Requests, ReadAfter(r) PROVE HandlerTypeOK'
  BY <1>11 DEF ReadAfter
<1>12. ASSUME NEW r \in Requests, Executes(r) PROVE HandlerTypeOK'
  BY <1>12 DEF Executes
<1>13. CASE Crash
  BY <1>13 DEF Crash
<1>14. CASE UNCHANGED vars
  BY <1>14 DEF vars
<1> QED
  BY <1>1, <1>2, <1>3, <1>4, <1>5, <1>6, <1>7, <1>8, <1>9, <1>10, <1>11, <1>12, <1>13, <1>14
     DEF Next, Handle

LEMMA TypeStep ==
    ASSUME TypeOK, [Next]_vars, \A r \in Requests : pc[r] = "audit" => result[r] # "none"
    PROVE  TypeOK'
<1>1. HandlerTypeOK'
  BY HandlerTypeStep DEF TypeOK, HandlerTypeOK
<1>2. Broker!TypeOK'
  <2>1. CASE UNCHANGED brokerVars
    BY <2>1, Untyped
  <2>2. ASSUME NEW r \in Requests, Admitted(r) \/ CommandEnds(r) \/ Executes(r)
        PROVE  Broker!TypeOK'
    BY <2>2, BrokerTypeStep DEF Admitted, CommandEnds, Executes
  <2> QED
    BY <2>1, <2>2
       DEF Next, Handle, vars, Receive, Deny, PassChecks, ReadBefore, Limited, AuditRecords,
           AuditReturns, AuditRaises, ReadAfter, Crash
<1>3. Audit!TypeOK'
  <2>1. CASE UNCHANGED auditVars
    BY <2>1, Untyped
  <2>2. ASSUME NEW r \in Requests, AuditRecords(r) PROVE Audit!TypeOK'
    <3>1. result[r] \in Results
      BY <2>2 DEF AuditRecords, TypeOK
    <3>2. log' \in Seq(AuditEntries)
      BY <2>2, <3>1, RecordStep DEF AuditRecords
    <3> QED
      BY <2>2, <3>2 DEF AuditRecords, Audit!Record, TypeOK, Audit!TypeOK
  <2>3. ASSUME NEW r \in Requests, AuditReturns(r) PROVE Audit!TypeOK'
    BY <2>3 DEF AuditReturns, Audit!Acknowledge, Audit!Recorded, TypeOK, Audit!TypeOK
  <2> QED
    BY <2>1, <2>2, <2>3
       DEF Next, Handle, vars, Receive, Deny, PassChecks, ReadBefore, Limited, Admitted,
           CommandEnds, Executes, AuditRaises, ReadAfter, Crash
<1> QED
  BY <1>1, <1>2, <1>3 DEF TypeOK, HandlerTypeOK

-------------------------------------------------------------------------------
(* One request at a time. *)

\* A step that leaves a request and its events alone.
Same(q) ==
    /\ pc'[q] = pc[q] /\ result'[q] = result[q] /\ status'[q] = status[q]
    /\ handler'[q] = handler[q] /\ before'[q] = before[q] /\ settled'[q] = settled[q]
    /\ phase'[q] = phase[q] /\ effects'[q] = effects[q] /\ refusals'[q] = refusals[q]
    /\ \A res \in Results : InLog(q, res)' <=> InLog(q, res)

(* A step keeps the invariant of the requests it leaves alone, as long as no *)
(* change is undone.                                                         *)
LEMMA SameKeeps ==
    ASSUME TypeOK, NEW q \in Requests, RequestInv(q), Same(q), Applied \subseteq Applied'
    PROVE  RequestInv(q)'
BY DEF RequestInv, Progress, Verdict, Execution, Trail, Answered, Seen, Same, Results, TypeOK,
       Untouched

(* Where no effect is taken back, no change is undone.                       *)
LEMMA AppliedGrows ==
    ASSUME \A q \in Requests : effects[q] > 0 => effects'[q] > 0
    PROVE  Applied \subseteq Applied'
BY DEF Applied

(* The steps that leave the trail alone.                                     *)
LEMMA SameLog ==
    ASSUME log' = log, NEW q, NEW res
    PROVE  InLog(q, res)' <=> InLog(q, res)
BY DEF InLog, Audit!Recorded

(* One step per action: what it does to its own request, and that it leaves  *)
(* the others alone.                                                         *)
LEMMA RequestStep ==
    ASSUME TypeOK, \A q \in Requests : RequestInv(q), [Next]_vars
    PROVE  \A q \in Requests : RequestInv(q)'
<1> USE DEF TypeOK, Goto, Respond
<1> DEFINE Kept == \A q \in Requests : RequestInv(q)'
<1>1. ASSUME NEW r \in Requests, NEW h \in Handlers, Receive(r, h) PROVE Kept
  <2>1. Applied' = Applied /\ \A q, res : InLog(q, res)' <=> InLog(q, res)
    BY <1>1, SameLog DEF Receive, brokerVars, auditVars, Applied
  <2>2. \A q \in Requests \ {r} : Same(q)
    BY <1>1, <2>1 DEF Receive, brokerVars, Same
  <2>3. \A q \in Requests : status[q] = "ok" => q \in Applied
    BY DEF RequestInv, Answered, Trail, Verdict, Execution, Applied, Results
  <2>4. RequestInv(r)'
    BY <1>1, <2>1, <2>3
       DEF Receive, brokerVars, RequestInv, Progress, Verdict, Execution, Trail, Answered, Seen,
           Untouched
  <2> QED
    BY <2>1, <2>2, <2>4, SameKeeps
<1>2. ASSUME NEW r \in Requests, Deny(r) \/ PassChecks(r) PROVE Kept
  <2>1. Applied' = Applied /\ \A q, res : InLog(q, res)' <=> InLog(q, res)
    BY <1>2, SameLog DEF Deny, PassChecks, brokerVars, auditVars, Applied
  <2>2. \A q \in Requests \ {r} : Same(q)
    BY <1>2, <2>1 DEF Deny, PassChecks, requestVars, brokerVars, Same
  <2>3. RequestInv(r)'
    BY <1>2, <2>1
       DEF Deny, PassChecks, requestVars, brokerVars, RequestInv, Progress, Verdict, Execution,
           Trail, Answered, Seen, Untouched
  <2> QED
    BY <2>1, <2>2, <2>3, SameKeeps
<1>3. ASSUME NEW r \in Requests, ReadBefore(r) PROVE Kept
  <2>1. Applied' = Applied /\ \A q, res : InLog(q, res)' <=> InLog(q, res)
    BY <1>3, SameLog DEF ReadBefore, brokerVars, auditVars, Applied
  <2>2. \A q \in Requests \ {r} : Same(q)
    BY <1>3, <2>1 DEF ReadBefore, brokerVars, Same
  <2>3. r \notin Applied
    BY <1>3 DEF ReadBefore, RequestInv, Progress, Execution, Applied, Untouched
  <2>4. RequestInv(r)'
    BY <1>3, <2>1, <2>3
       DEF ReadBefore, brokerVars, RequestInv, Progress, Verdict, Execution, Trail, Answered,
           Seen, Untouched
  <2> QED
    BY <2>1, <2>2, <2>4, SameKeeps
<1>4. ASSUME NEW r \in Requests, Limited(r) PROVE Kept
  <2>1. Applied' = Applied /\ \A q, res : InLog(q, res)' <=> InLog(q, res)
    BY <1>4, SameLog DEF Limited, brokerVars, auditVars, Applied
  <2>2. \A q \in Requests \ {r} : Same(q)
    BY <1>4, <2>1 DEF Limited, requestVars, brokerVars, Same
  <2>3. RequestInv(r)'
    BY <1>4, <2>1
       DEF Limited, requestVars, brokerVars, RequestInv, Progress, Verdict, Execution, Trail,
           Answered, Seen, Untouched, Results
  <2> QED
    BY <2>1, <2>2, <2>3, SameKeeps
<1>5. ASSUME NEW r \in Requests, Admitted(r) PROVE Kept
  <2>1. Applied' = Applied /\ \A q, res : InLog(q, res)' <=> InLog(q, res)
    BY <1>5, SameLog DEF Admitted, Broker!Open, auditVars, Applied
  <2>2. \A q \in Requests \ {r} : Same(q)
    BY <1>5, <2>1 DEF Admitted, Broker!Open, Broker!TypeOK, requestVars, Same
  <2>3. RequestInv(r)'
    BY <1>5, <2>1
       DEF Admitted, Broker!Open, Broker!TypeOK, requestVars, RequestInv, Progress, Verdict,
           Execution, Trail, Answered, Seen, Untouched
  <2> QED
    BY <2>1, <2>2, <2>3, SameKeeps
<1>6. ASSUME NEW r \in Requests, CommandEnds(r) PROVE Kept
  <2>1. Applied' = Applied /\ \A q, res : InLog(q, res)' <=> InLog(q, res)
    BY <1>6, SameLog DEF CommandEnds, Broker!Answer, auditVars, Applied
  <2>2. \A q \in Requests \ {r} : Same(q)
    BY <1>6, <2>1 DEF CommandEnds, Broker!Answer, Broker!TypeOK, requestVars, Same
  <2>3. RequestInv(r)'
    BY <1>6, <2>1
       DEF CommandEnds, Broker!Answer, Broker!Answers, Broker!MayAnswer, Broker!TypeOK,
           requestVars, RequestInv, Progress, Verdict, Execution, Trail, Answered, Seen,
           Untouched, Results
  <2> QED
    BY <2>1, <2>2, <2>3, SameKeeps
<1>7. ASSUME NEW r \in Requests, AuditRecords(r) PROVE Kept
  <2>1. result[r] \in Results
    BY <1>7 DEF AuditRecords, RequestInv, Progress
  <2>2. Audit!Recorded' = Audit!Recorded \cup {Entry(r)}
    BY <1>7, <2>1, RecordStep DEF AuditRecords
  <2>3. \A q, res : InLog(q, res)' <=> InLog(q, res) \/ (q = r /\ res = result[r])
    BY <2>2 DEF InLog, Entry
  <2>4. Applied' = Applied
    BY <1>7 DEF AuditRecords, brokerVars, Applied
  <2>5. \A q \in Requests \ {r} : Same(q)
    BY <1>7, <2>3 DEF AuditRecords, requestVars, brokerVars, Same
  <2>6. RequestInv(r)'
    BY <1>7, <2>1, <2>3, <2>4
       DEF AuditRecords, requestVars, brokerVars, RequestInv, Progress, Verdict, Execution,
           Trail, Answered, Seen, Untouched
  <2> QED
    BY <2>4, <2>5, <2>6, SameKeeps
<1>8. ASSUME NEW r \in Requests, AuditReturns(r) PROVE Kept
  <2>1. Applied' = Applied /\ \A q, res : InLog(q, res)' <=> InLog(q, res)
    BY <1>8, SameLog DEF AuditReturns, Audit!Acknowledge, brokerVars, Applied
  <2>2. \A q \in Requests \ {r} : Same(q)
    BY <1>8, <2>1 DEF AuditReturns, requestVars, brokerVars, Same
  <2>3. RequestInv(r)'
    BY <1>8, <2>1
       DEF AuditReturns, requestVars, brokerVars, RequestInv, Progress, Verdict, Execution,
           Trail, Answered, Seen, Untouched, Results
  <2> QED
    BY <2>1, <2>2, <2>3, SameKeeps
<1>9. ASSUME NEW r \in Requests, AuditRaises(r) \/ ReadAfter(r) PROVE Kept
  <2>1. Applied' = Applied /\ \A q, res : InLog(q, res)' <=> InLog(q, res)
    BY <1>9, SameLog DEF AuditRaises, ReadAfter, brokerVars, auditVars, Applied
  <2>2. \A q \in Requests \ {r} : Same(q)
    BY <1>9, <2>1 DEF AuditRaises, ReadAfter, requestVars, brokerVars, Same
  <2>3. RequestInv(r)'
    BY <1>9, <2>1
       DEF AuditRaises, ReadAfter, requestVars, brokerVars, RequestInv, Progress, Verdict,
           Execution, Trail, Answered, Seen, Untouched, Results
  <2> QED
    BY <2>1, <2>2, <2>3, SameKeeps
<1>10. ASSUME NEW r \in Requests, Executes(r) PROVE Kept
  <2>1. \A q, res : InLog(q, res)' <=> InLog(q, res)
    BY <1>10, SameLog DEF Executes, auditVars
  <2>2. \A q \in Requests : effects[q] > 0 => effects'[q] > 0
    BY <1>10, MaxExecutionsAssumption
       DEF Executes, Broker!Apply, Broker!Refuse, Broker!MayExecute, Broker!TypeOK
  <2>3. Applied \subseteq Applied'
    BY <2>2, AppliedGrows
  <2>4. \A q \in Requests \ {r} : Same(q)
    BY <1>10, <2>1
       DEF Executes, Broker!Apply, Broker!Refuse, Broker!TypeOK, requestVars, Same
  <2>5. phase[r] # "idle"
    BY <1>10 DEF Executes, Broker!Apply, Broker!Refuse, Broker!MayExecute
  <2>6. phase'[r] = phase[r] /\ UNCHANGED <<pc, requestVars, result, status>>
    BY <1>10 DEF Executes, Broker!Apply, Broker!Refuse
  <2>7. RequestInv(r)'
    BY <2>1, <2>2, <2>3, <2>5, <2>6
       DEF requestVars, RequestInv, Progress, Verdict, Execution, Trail, Answered, Seen,
           Untouched
  <2> QED
    BY <2>3, <2>4, <2>7, SameKeeps
<1>11. CASE Crash
  <2>1. Applied' = Applied /\ \A q, res : InLog(q, res)' <=> InLog(q, res)
    BY <1>11, SameLog DEF Crash, brokerVars, auditVars, Applied
  <2>2. SUFFICES ASSUME NEW q \in Requests PROVE RequestInv(q)'
    OBVIOUS
  <2>3. /\ pc'[q] = pc[q] \/ (pc'[q] = "lost" /\ pc[q] # "answered")
        /\ UNCHANGED <<requestVars, result, status, brokerVars>>
    BY <1>11 DEF Crash
  <2> QED
    BY <2>1, <2>3
       DEF requestVars, brokerVars, RequestInv, Progress, Verdict, Execution, Trail, Answered,
           Seen, Untouched
<1>12. CASE UNCHANGED vars
  <2>1. Applied' = Applied /\ \A q, res : InLog(q, res)' <=> InLog(q, res)
    BY <1>12, SameLog DEF vars, brokerVars, auditVars, Applied
  <2>2. \A q \in Requests : Same(q)
    BY <1>12, <2>1 DEF vars, requestVars, brokerVars, Same
  <2> QED
    BY <2>1, <2>2, SameKeeps
<1> QED
  BY <1>1, <1>2, <1>3, <1>4, <1>5, <1>6, <1>7, <1>8, <1>9, <1>10, <1>11, <1>12
     DEF Next, Handle

(* A request records one event at most: it records at "audit", where the     *)
(* trail holds nothing of it.                                                *)
LEMMA VerdictStep ==
    ASSUME TypeOK, \A q \in Requests : RequestInv(q), OneVerdict, [Next]_vars
    PROVE  OneVerdict'
<1>1. CASE UNCHANGED log
  BY <1>1 DEF OneVerdict
<1>2. ASSUME NEW r \in Requests, AuditRecords(r) PROVE OneVerdict'
  <2>1. Entry(r) \in AuditEntries
    BY <1>2 DEF AuditRecords, Entry, AuditEntries, RequestInv, Progress, TypeOK
  <2>2. log \in Seq(AuditEntries) /\ log' = Append(log, Entry(r))
    BY <1>2 DEF AuditRecords, Audit!Record, TypeOK, Audit!TypeOK
  <2>3. \A i \in DOMAIN log : log[i].request # r
    <3> SUFFICES ASSUME NEW i \in DOMAIN log, log[i].request = r PROVE FALSE
      OBVIOUS
    <3>1. log[i] \in AuditEntries
      BY <2>2
    <3>2. log[i].result \in Results /\ log[i] = [request |-> r, result |-> log[i].result]
      BY <3>1 DEF AuditEntries
    <3>3. InLog(r, log[i].result)
      BY <3>2 DEF InLog, Audit!Recorded
    <3> QED
      BY <1>2, <3>2, <3>3 DEF AuditRecords, RequestInv, Trail
  <2>4. DOMAIN log' = DOMAIN log \cup {Len(log) + 1}
    BY <2>1, <2>2
  <2>5. \A i \in DOMAIN log : log'[i] = log[i]
    BY <2>1, <2>2
  <2>6. log'[Len(log) + 1].request = r
    BY <2>1, <2>2 DEF Entry
  <2> QED
    BY <2>3, <2>4, <2>5, <2>6 DEF OneVerdict
<1> QED
  BY <1>1, <1>2
     DEF Next, Handle, vars, auditVars, Receive, Deny, PassChecks, ReadBefore, Limited, Admitted,
         CommandEnds, AuditReturns, Audit!Acknowledge, AuditRaises, ReadAfter, Executes, Crash

(* The strengthening holds in every reachable state.                         *)
LEMMA Inductive == Spec => []IInv
<1>1. Init => IInv
  <2> SUFFICES ASSUME Init PROVE IInv
    OBVIOUS
  <2>1. TypeOK
    BY MaxExecutionsAssumption
       DEF Init, TypeOK, Statuses, Broker!Init, Broker!TypeOK, Broker!Phases, Audit!Init,
           Audit!TypeOK
  <2>2. \A q \in Requests : RequestInv(q)
    BY DEF Init, Broker!Init, Audit!Init, RequestInv, Progress, Verdict, Execution, Trail,
           Answered, Seen, Untouched, InLog, Audit!Recorded
  <2>3. OneVerdict
    BY DEF Init, Audit!Init, OneVerdict
  <2> QED
    BY <2>1, <2>2, <2>3 DEF IInv
<1>2. IInv /\ [Next]_vars => IInv'
  <2> SUFFICES ASSUME IInv, [Next]_vars PROVE IInv'
    OBVIOUS
  <2>1. TypeOK'
    BY TypeStep DEF IInv, RequestInv, Progress
  <2> QED
    BY <2>1, RequestStep, VerdictStep DEF IInv
<1> QED
  BY <1>1, <1>2, PTL DEF Spec

-------------------------------------------------------------------------------
(* The theorems. *)

(* Every variable of the handlers keeps its type, the broker's and the       *)
(* trail's with them.                                                        *)
THEOREM TypeCorrect == Spec => []TypeOK
<1>1. IInv => TypeOK
  BY DEF IInv
<1> QED
  BY <1>1, Inductive, PTL

(* No request is recorded as a success that the broker did not apply.        *)
THEOREM SuccessIsApplied == Spec => []SuccessWasApplied
<1>1. IInv => SuccessWasApplied
  BY DEF IInv, RequestInv, Trail, Verdict, Execution, SuccessWasApplied, Results
<1> QED
  BY <1>1, Inductive, PTL

(* No caller is told of a success that the trail does not hold.              *)
THEOREM OkIsInTheTrail == Spec => []OkIsAudited
<1>1. IInv => OkIsAudited
  BY DEF IInv, RequestInv, Answered, OkIsAudited
<1> QED
  BY <1>1, Inductive, PTL

(* A change that the broker applied is in the trail once its request was     *)
(* answered, unless the answer is an internal error.                         *)
THEOREM ChangesAreAccountedFor == Spec => []AnsweredIsAccountedFor
<1>1. IInv => AnsweredIsAccountedFor
  BY DEF IInv, RequestInv, Answered, Verdict, Execution, AnsweredIsAccountedFor, TypeOK, Statuses
<1> QED
  BY <1>1, Inductive, PTL

(* What is refused by a check or by the rate limit is never executed.        *)
THEOREM RefusedIsNeverExecuted == Spec => []TurnedAwayNeverExecutes
<1>1. IInv => TurnedAwayNeverExecutes
  BY DEF IInv, RequestInv, Answered, Trail, Verdict, Execution, TurnedAwayNeverExecutes, Results,
         TypeOK, Broker!TypeOK
<1> QED
  BY <1>1, Inductive, PTL

(* The trail holds at most one event of a request.                           *)
THEOREM VerdictIsUnique == Spec => []OneVerdict
<1>1. IInv => OneVerdict
  BY DEF IInv
<1> QED
  BY <1>1, Inductive, PTL

(* The state recorded as "before" holds every change that was acknowledged   *)
(* before the request came in, and never the request's own.                  *)
THEOREM BeforeIsFresh == Spec => []BeforeSeesFinishedChanges
<1>1. IInv => BeforeSeesFinishedChanges
  BY DEF IInv, RequestInv, Trail, Seen, BeforeSeesFinishedChanges, Results
<1> QED
  BY <1>1, Inductive, PTL

===============================================================================
