-------------------------------- MODULE AuthProofs --------------------------------
(***************************************************************************)
(* Proofs about OperatorSessions: for any set of requests and any mix of   *)
(* their kinds, any time to live and with or without faults, what is over  *)
(* stays over, authority is current, and logins are in the trail.          *)
(*                                                                         *)
(* The invariant is a conjunction over the requests.  What a request knows *)
(* is disturbed by its own steps (one lemma for each action) and, by the   *)
(* steps of others, only through the tables, which lemma Frame covers.     *)
(***************************************************************************)
EXTENDS OperatorSessions, RateLimiter, FiniteSetTheorems, TLAPS

-------------------------------------------------------------------------------
(* The invariant. *)

BeforeCreation == {"idle", "limit", "verify", "claims", "upsert", "create"}
WithSession == {"session", "expire", "operator", "touch", "authorize", "delete"}
AtTheTrail == {"audit", "recorded"}

\* Which requests are where, and what they hold there.
Control(r) ==
    /\ pc[r] = "idle" => token[r] = None /\ late[r] = "no"
    /\ status[r] # "none" => pc[r] = "answered"
    /\ pc[r] = "verify" => kind[r] = "login"
    /\ pc[r] \in {"claims", "upsert"} => kind[r] = "oidc"
    /\ pc[r] \in {"limit", "create"} => IsLogin(r)
    /\ pc[r] \in WithSession => token[r] # None
    /\ pc[r] = "delete" => kind[r] = "logout"
    /\ pc[r] \in AtTheTrail =>
           /\ result[r] # "none"
           /\ IsLogin(r) \/ (kind[r] = "logout" /\ token[r] # None /\ result[r] = "success")
    /\ token[r] # None => ~IsLogin(r) /\ token[r] \in held

\* The operators of those who are logged in, or soon will be, are there.
Known(r) ==
    /\ r \in held => pc[r] = "answered" /\ IsLogin(r) /\ operators[Owner(r)] # None
    /\ pc[r] = "create" => operators[Owner(r)] # None
    /\ pc[r] \in AtTheTrail /\ IsLogin(r) /\ result[r] = "success" => operators[Owner(r)] # None
    /\ pc[r] = "upsert" /\ read[r] # None => operators["oidc"] # None

\* A request has no session before it creates one, nor if it is refused.
Sessionless(r) ==
    /\ pc[r] \in BeforeCreation => r \notin sessions
    /\ kind[r] = "login" /\ pc[r] \in AtTheTrail /\ result[r] # "success" => r \notin sessions
    /\ kind[r] = "login" /\ status[r] \in {"unauthorized", "limited"} => r \notin sessions

\* An open request has taken notice of the authority its operator has.
Noticed(r) ==
    /\ token[r] # None /\ pc[r] \notin {"answered", "lost"}
    /\ Entitles(operators[Owner(token[r])], kind[r])
    => entitled[r]

Authority(r) ==
    /\ Noticed(r)
    /\ pc[r] \in {"touch", "authorize"} =>
           /\ read[r] \in OperatorRows
           /\ Rank[read[r].role] >= Rank[Minimum(kind[r])] => entitled[r]
    /\ pc[r] \in {"delete"} \cup AtTheTrail /\ token[r] # None => entitled[r]
    /\ token[r] # None /\ status[r] = "ok" => entitled[r]

\* A request that begins too late gets no further than the session row.
Over(r) ==
    /\ late[r] = "logged_out" =>
           /\ token[r] # None /\ token[r] \notin sessions
           /\ pc[r] \in {"session", "answered", "lost"}
    /\ late[r] = "expired" =>
           /\ token[r] # None /\ expires[token[r]] <= clock
           /\ pc[r] \in {"session", "expire", "answered", "lost"}
    /\ late[r] # "no" => status[r] # "ok"
    /\ kind[r] = "logout" /\ (pc[r] \in AtTheTrail \/ status[r] = "ok") => token[r] \notin sessions

Audited(r) ==
    /\ pc[r] = "recorded" => Recorded(r, result[r])
    /\ IsLogin(r) =>
           /\ status[r] = "ok" => Recorded(r, "success")
           /\ status[r] = "unauthorized" => Recorded(r, "failure")
           /\ status[r] = "limited" => Recorded(r, "rate_limited")

Sound(r) ==
    Control(r) /\ Known(r) /\ Sessionless(r) /\ Authority(r) /\ Over(r) /\ Audited(r)

IInv ==
    /\ TypeOK
    /\ operators["local"] # None
    /\ \A r \in Requests : Sound(r)

-------------------------------------------------------------------------------
(* The trail under a step. *)

LEMMA RecordStep ==
    ASSUME Audit!TypeOK, NEW e \in AuditEntries, Audit!Record(e)
    PROVE  Audit!TypeOK' /\ Audit!Recorded' = Audit!Recorded \cup {e}
<1>1. log \in Seq(AuditEntries) /\ log' = Append(log, e)
  BY DEF Audit!TypeOK, Audit!Record
<1>2. DOMAIN log' = DOMAIN log \cup {Len(log) + 1}
  BY <1>1
<1>3. (\A i \in DOMAIN log : log'[i] = log[i]) /\ log'[Len(log) + 1] = e
  BY <1>1
<1>4. Audit!Recorded' = Audit!Recorded \cup {e}
  BY <1>2, <1>3 DEF Audit!Recorded
<1>5. log' \in Seq(AuditEntries)
  BY <1>1
<1> QED
  BY <1>4, <1>5 DEF Audit!TypeOK, Audit!Record

LEMMA AcknowledgeStep ==
    ASSUME Audit!TypeOK, NEW e \in AuditEntries, Audit!Acknowledge(e)
    PROVE  Audit!TypeOK' /\ Audit!Recorded' = Audit!Recorded
BY DEF Audit!TypeOK, Audit!Acknowledge, Audit!Recorded

LEMMA SameTrail ==
    ASSUME Audit!TypeOK, UNCHANGED auditVars
    PROVE  Audit!TypeOK' /\ Audit!Recorded' = Audit!Recorded
BY DEF auditVars, Audit!TypeOK, Audit!Recorded

-------------------------------------------------------------------------------
(* Types. *)

(* The entry of a request at the trail is one the trail takes.               *)
LEMMA EntryTyped ==
    ASSUME TypeOK, NEW r \in Requests, Control(r), pc[r] \in AtTheTrail
    PROVE  Entry(r) \in AuditEntries
BY DEF TypeOK, Control, Entry, AuditEntries

LEMMA Kinds ==
    ASSUME TypeOK
    PROVE  kind \in [Requests -> AllKinds]
BY ScenariosAssumption DEF TypeOK

LEMMA OwnerTyped ==
    ASSUME NEW s
    PROVE  Owner(s) \in Subjects
BY DEF Owner, Subjects

LEMMA RowRewritten ==
    ASSUME NEW row \in OperatorRows, NEW role \in Roles
    PROVE  [row EXCEPT !.role = role] \in OperatorRows
<1>1. row \in [role : Roles \cup {"other"}, enabled : BOOLEAN]
  <2>1. CASE row \in [role : Roles, enabled : BOOLEAN]
    BY <2>1
  <2>2. CASE row = Row("other", TRUE)
    BY <2>2 DEF Row
  <2> QED
    BY <2>1, <2>2 DEF OperatorRows
<1>2. [row EXCEPT !.role = role] \in [role : Roles, enabled : BOOLEAN]
  BY <1>1
<1> QED
  BY <1>2 DEF OperatorRows

LEMMA NextTyped ==
    ASSUME IInv, [Next]_vars
    PROVE  TypeOK'
<1> USE DEF Steps, Statuses, Results
<1>1. TypeOK /\ Audit!TypeOK
  BY DEF IInv, TypeOK
<1>2. ASSUME NEW r \in Requests,
             BeginLogin(r) \/ Limited(r) \/ Admitted(r) \/ Verify(r) \/ LoadSession(r)
             \/ Touch(r) \/ Authorize(r) \/ Breaks(r)
      PROVE  TypeOK'
  <2>1. UNCHANGED <<clock, tableVars, held, requestVars, entitled, auditVars>>
    BY <1>2 DEF BeginLogin, Limited, Admitted, Verify, LoadSession, Touch, Authorize, Breaks
  <2>2. /\ pc' \in [Requests -> Steps] /\ status' \in [Requests -> Statuses]
        /\ csrf' \in [Requests -> Requests \cup {None}]
        /\ read' \in [Requests -> OperatorRows \cup {None}]
        /\ result' \in [Requests -> Results \cup {"none"}]
    <3>1. \/ \E what \in Results : Report(r, what)
          \/ \E step \in Steps : Proceed(r, step)
          \/ \E code \in Statuses : Respond(r, code)
      BY <1>2 DEF BeginLogin, Limited, Admitted, Verify, LoadSession, Touch, Authorize, Breaks
    <3> QED
      BY <1>1, <3>1 DEF TypeOK, Report, Respond, Proceed, Goto, localVars
  <2> QED
    BY <1>1, <2>1, <2>2, SameTrail DEF TypeOK, tableVars, requestVars
<1>3. ASSUME NEW r \in Requests, Claims(r) PROVE TypeOK'
  <2>1. operators["oidc"] \in OperatorRows \cup {None}
    BY <1>1 DEF TypeOK, Subjects
  <2> QED
    BY <1>1, <1>3, <2>1, SameTrail
       DEF Claims, TypeOK, Report, Goto, tableVars, requestVars
<1>4. ASSUME NEW r \in Requests, NEW role \in Roles, Upsert(r, role) PROVE TypeOK'
  <2>1. operators' \in [Subjects -> OperatorRows \cup {None}]
    <3>1. operators["oidc"] \in OperatorRows \cup {None}
      BY <1>1 DEF TypeOK, Subjects
    <3>2. Row(role, TRUE) \in OperatorRows
      BY DEF Row, OperatorRows
    <3>3. operators["oidc"] # None => [operators["oidc"] EXCEPT !.role = role] \in OperatorRows
      BY <3>1, RowRewritten
    <3>4. read[r] # None => operators["oidc"] # None
      BY <1>4 DEF Upsert, IInv, Sound, Known
    <3> QED
      BY <1>1, <1>4, <3>1, <3>2, <3>3, <3>4 DEF Upsert, TypeOK, Subjects
  <2>2. entitled' \in [Requests -> BOOLEAN]
    <3>1. entitled' = entitled \/ Watch(operators')
      BY <1>4 DEF Upsert
    <3>2. CASE Watch(operators')
      BY <3>2, Zenon DEF Watch
    <3> QED
      BY <1>1, <3>1, <3>2 DEF TypeOK
  <2> QED
    BY <1>1, <1>4, <2>1, <2>2, SameTrail
       DEF Upsert, TypeOK, Respond, Proceed, Goto, requestVars, localVars
<1>5. ASSUME NEW r \in Requests, CreateSession(r) PROVE TypeOK'
  <2>1. clock + TTL \in 0 .. MaxTime + TTL
    BY <1>1, TimeAssumption DEF TypeOK
  <2> QED
    BY <1>1, <1>5, <2>1, SameTrail DEF CreateSession, TypeOK, Report, Goto, requestVars
<1>6. ASSUME NEW r \in Requests, NEW s \in held, NEW c \in held \cup {None}, BeginRequest(r, s, c)
      PROVE  TypeOK'
  <2>1. s \in Requests /\ c \in Requests \cup {None}
    BY <1>1 DEF TypeOK
  <2>2. entitled' \in [Requests -> BOOLEAN]
    <3>1. entitled' = [entitled EXCEPT ![r] = Entitles(operators[Owner(s)], kind[r])]
      BY <1>6 DEF BeginRequest
    <3>2. Entitles(operators[Owner(s)], kind[r]) \in BOOLEAN
      BY DEF Entitles
    <3> HIDE DEF Entitles
    <3> QED
      BY <1>1, <3>1, <3>2, Zenon DEF TypeOK
  <2> QED
    BY <1>1, <1>6, <2>1, <2>2, SameTrail DEF BeginRequest, TypeOK, Goto, tableVars
<1>7. ASSUME NEW r \in Requests, ExpireSession(r) \/ DeleteSession(r) PROVE TypeOK'
  BY <1>1, <1>7, SameTrail
     DEF ExpireSession, DeleteSession, TypeOK, Respond, Report, Goto, requestVars
<1>8. ASSUME NEW r \in Requests, LoadOperator(r) PROVE TypeOK'
  <2>1. operators[Owner(token[r])] \in OperatorRows \cup {None}
    BY <1>1, OwnerTyped DEF TypeOK
  <2> QED
    BY <1>1, <1>8, <2>1, SameTrail
       DEF LoadOperator, TypeOK, Respond, Goto, tableVars, requestVars
<1>9. ASSUME NEW r \in Requests, AuditRecords(r) PROVE TypeOK'
  <2>1. Entry(r) \in AuditEntries
    BY <1>9, EntryTyped DEF AuditRecords, IInv, Sound, AtTheTrail
  <2> QED
    BY <1>1, <1>9, <2>1, RecordStep
       DEF AuditRecords, TypeOK, Proceed, Goto, tableVars, requestVars, localVars
<1>10. ASSUME NEW r \in Requests, AuditReturns(r) PROVE TypeOK'
  <2>1. Entry(r) \in AuditEntries
    BY <1>10, EntryTyped DEF AuditReturns, IInv, Sound, AtTheTrail
  <2> QED
    BY <1>1, <1>10, <2>1, AcknowledgeStep
       DEF AuditReturns, Conclude, TypeOK, Respond, tableVars, requestVars
<1>11. ASSUME NEW subject \in Subjects, NEW row \in OperatorRows, Administer(subject, row)
       PROVE  TypeOK'
  <2>1. entitled' \in [Requests -> BOOLEAN]
    BY <1>11, Zenon DEF Administer, Watch
  <2> QED
    BY <1>1, <1>11, <2>1, SameTrail DEF Administer, TypeOK, requestVars, localVars
<1>12. CASE Tick
  BY <1>1, <1>12, SameTrail, TimeAssumption DEF Tick, TypeOK, tableVars, requestVars, localVars
<1>13. CASE Restart
  BY <1>1, <1>13, SameTrail DEF Restart, TypeOK, requestVars, localVars
<1>14. CASE UNCHANGED vars
  BY <1>1, <1>14, SameTrail DEF vars, TypeOK, tableVars, requestVars, localVars
<1> QED
  BY <1>2, <1>3, <1>4, <1>5, <1>6, <1>7, <1>8, <1>9, <1>10, <1>11, <1>12, <1>13, <1>14
     DEF Next, Process, Login, Authenticated

-------------------------------------------------------------------------------
(* What the steps of others may do to a request. *)

Elsewhere(q) ==
    /\ UNCHANGED <<kind, pc[q], status[q], read[q], result[q], token[q], late[q]>>
    /\ entitled[q] => entitled'[q]
    /\ \A s \in Subjects : operators[s] # None => operators'[s] # None
    /\ operators' = operators \/ Noticed(q)'
    /\ held \subseteq held' /\ (q \in held' => q \in held)
    /\ \A s \in Requests : s \in sessions' /\ s \notin sessions => pc[s] = "create" /\ s # q
    /\ \A s \in Requests : expires'[s] # expires[s] => pc[s] = "create"
    /\ clock <= clock'
    /\ Audit!Recorded \subseteq Audit!Recorded'

LEMMA Frame ==
    ASSUME IInv, TypeOK', NEW q \in Requests, Elsewhere(q)
    PROVE  Sound(q)'
<1>1. TypeOK /\ Sound(q) /\ kind' = kind /\ \A s : Owner(s)' = Owner(s) /\ Owner(s) \in Subjects
  BY OwnerTyped DEF IInv, Elsewhere, Owner
<1>2. token[q] # None => token[q] \in held /\ token[q] \in Requests /\ pc[token[q]] = "answered"
  BY <1>1 DEF Sound, Control, IInv, Known, TypeOK
<1>3. IsLogin(q)' = IsLogin(q)
  BY <1>1 DEF IsLogin
<1>4. Control(q)'
  BY <1>1, <1>3 DEF Elsewhere, Sound, Control
<1>5. Known(q)'
  BY <1>1, <1>3, "oidc" \in Subjects DEF Elsewhere, Sound, Known, Subjects
<1>6. Sessionless(q)'
  BY <1>1 DEF Elsewhere, Sound, Sessionless
<1>7. Authority(q)'
  <2>1. Noticed(q)'
    <3>1. CASE operators' = operators
      BY <1>1, <3>1 DEF Elsewhere, Sound, Authority, Noticed
    <3> QED
      BY <3>1 DEF Elsewhere
  <2> QED
    BY <1>1, <2>1 DEF Elsewhere, Sound, Authority
<1>8. Over(q)'
  <2>1. token[q] # None => /\ token[q] \notin sessions => token[q] \notin sessions'
                           /\ expires'[token[q]] = expires[token[q]]
    BY <1>2 DEF Elsewhere
  <2>2. token[q] # None => expires[token[q]] \in Int
    BY <1>1, <1>2, TimeAssumption DEF TypeOK
  <2>3. clock \in Int /\ clock' \in Int
    BY <1>1, TimeAssumption DEF TypeOK
  <2>4. kind[q] = "logout" /\ (pc[q] \in AtTheTrail \/ status[q] = "ok") => token[q] \notin sessions'
    <3>1. None \notin sessions'
      BY NoneAssumption DEF TypeOK
    <3> QED
      BY <1>1, <2>1, <3>1 DEF Elsewhere, Sound, Over, TypeOK
  <2> QED
    BY <1>1, <2>1, <2>2, <2>3, <2>4 DEF Elsewhere, Sound, Over
<1>9. Audited(q)'
  BY <1>1, <1>3 DEF Elsewhere, Sound, Audited, Recorded
<1> QED
  BY <1>4, <1>5, <1>6, <1>7, <1>8, <1>9 DEF Sound

-------------------------------------------------------------------------------
(* What the steps of a request do to itself. *)

\* A step that leaves the tables and what the request is.
Local(r) == UNCHANGED <<clock, tableVars, held, requestVars, entitled>>

(* Reporting a login that has failed or been refused by the limiter.         *)
LEMMA LoginRefused ==
    ASSUME IInv, TypeOK', NEW r \in Requests, NEW what \in {"failure", "rate_limited"},
           IsLogin(r), pc[r] \in BeforeCreation \cup AtTheTrail,
           kind[r] = "login" => pc[r] \in BeforeCreation,
           Report(r, what), Local(r), UNCHANGED auditVars
    PROVE  Sound(r)'
<1>1. TypeOK /\ Sound(r) /\ TypeOK'
  BY DEF IInv
<1>2. /\ pc'[r] = "audit" /\ result'[r] = what /\ status' = status /\ kind' = kind
      /\ token' = token /\ late' = late /\ read' = read
      /\ IsLogin(r)' /\ token[r] = None /\ status[r] = "none"
  BY <1>1 DEF Report, Goto, Local, requestVars, TypeOK, IsLogin, Sound, Control,
              BeforeCreation, AtTheTrail, Statuses
<1>3. /\ Control(r)' /\ Audited(r)' /\ Sessionless(r)'
  BY <1>1, <1>2 DEF Sound, Control, Audited, Sessionless, Local, tableVars,
                    BeforeCreation, AtTheTrail, WithSession
<1>4. r \notin held
  BY <1>1 DEF Sound, Known, BeforeCreation, AtTheTrail
<1>5. Known(r)'
  BY <1>2, <1>4 DEF Known, Local, AtTheTrail
<1>6. Authority(r)'
  BY <1>2 DEF Authority, Noticed, AtTheTrail
<1>7. Over(r)'
  BY <1>1, <1>2 DEF Over, IsLogin, Sound, AtTheTrail, BeforeCreation
<1> QED
  BY <1>3, <1>5, <1>6, <1>7 DEF Sound

(* A login, or a request with a session, that goes on without a report.      *)
LEMMA LoginProceeds ==
    ASSUME IInv, TypeOK', NEW r \in Requests, NEW step \in {"limit", "verify", "claims", "create"},
           IsLogin(r), pc[r] \in BeforeCreation,
           step = "verify" => kind[r] = "login", step = "claims" => kind[r] = "oidc",
           step = "create" => operators'[Owner(r)] # None,
           Proceed(r, step), UNCHANGED <<clock, sessions, expires, held, requestVars, auditVars>>
    PROVE  Sound(r)'
<1>1. TypeOK /\ Sound(r) /\ TypeOK' /\ Audit!Recorded' = Audit!Recorded
  BY SameTrail DEF IInv, TypeOK
<1>2. /\ pc'[r] = step /\ status' = status /\ kind' = kind /\ UNCHANGED <<read, result>>
      /\ token' = token /\ late' = late /\ Owner(r)' = Owner(r)
      /\ IsLogin(r)' /\ token[r] = None /\ status[r] = "none"
  BY <1>1 DEF Proceed, Goto, localVars, requestVars, TypeOK, IsLogin, Sound, Control, Owner,
              BeforeCreation, Statuses
<1>3. Control(r)' /\ Audited(r)' /\ Sessionless(r)'
  BY <1>1, <1>2 DEF Sound, Control, Audited, Sessionless,
                    BeforeCreation, AtTheTrail, WithSession
<1>4. r \notin held
  BY <1>1 DEF Sound, Known, BeforeCreation
<1>5. Known(r)'
  BY <1>2, <1>4 DEF Known, AtTheTrail
<1>6. Authority(r)'
  BY <1>2 DEF Authority, Noticed, AtTheTrail
<1>7. Over(r)'
  BY <1>1, <1>2 DEF Over, IsLogin, Sound, AtTheTrail, BeforeCreation
<1> QED
  BY <1>3, <1>5, <1>6, <1>7 DEF Sound

(* A request that is answered with an error, or a refusal of its session.    *)
LEMMA Refused ==
    ASSUME IInv, TypeOK', NEW r \in Requests, NEW code \in {"unauthorized", "forbidden", "error"},
           pc[r] # "idle", pc[r] # "answered", code # "error" => ~IsLogin(r),
           Respond(r, code), UNCHANGED <<clock, operators, expires, held, requestVars, entitled, auditVars>>,
           sessions' \subseteq sessions
    PROVE  Sound(r)'
<1>1. TypeOK /\ Sound(r) /\ TypeOK' /\ Audit!Recorded' = Audit!Recorded
  BY SameTrail DEF IInv, TypeOK
<1>2. /\ pc'[r] = "answered" /\ status'[r] = code /\ UNCHANGED <<kind, token, late>>
      /\ IsLogin(r)' = IsLogin(r) /\ r \notin held
  BY <1>1 DEF Respond, requestVars, TypeOK, IsLogin, Sound, Known
<1>3. Control(r)' /\ Audited(r)' /\ Sessionless(r)'
  BY <1>1, <1>2 DEF Sound, Control, Audited, Sessionless, IsLogin,
                    BeforeCreation, AtTheTrail, WithSession
<1>4. Known(r)'
  BY <1>2 DEF Known, AtTheTrail
<1>5. Authority(r)'
  BY <1>2 DEF Authority, Noticed, AtTheTrail
<1>6. Over(r)'
  BY <1>1, <1>2 DEF Over, Sound, AtTheTrail
<1> QED
  BY <1>3, <1>4, <1>5, <1>6 DEF Sound

(* A step of r that writes no table but may delete or create its session.     *)
LEMMA OthersUndisturbed ==
    ASSUME IInv, TypeOK', NEW r \in Requests, NEW q \in Requests, q # r,
           \/ \E what \in Results : Report(r, what)
           \/ \E step \in Steps : Goto(r, step) /\ UNCHANGED result
                                  /\ \/ UNCHANGED read
                                     \/ \E row : read' = [read EXCEPT ![r] = row]
           \/ \E code \in Statuses : Respond(r, code),
           \/ sessions' \subseteq sessions
           \/ sessions' \subseteq sessions \cup {r} /\ pc[r] = "create",
           \/ UNCHANGED expires
           \/ pc[r] = "create" /\ \E t : expires' = [expires EXCEPT ![r] = t],
           UNCHANGED <<clock, operators, requestVars, entitled>>,
           UNCHANGED held \/ held' = held \cup {r},
           Audit!Recorded \subseteq Audit!Recorded'
    PROVE  Sound(q)'
<1>1. TypeOK
  BY DEF IInv
<1>2. UNCHANGED <<pc[q], status[q], read[q], result[q]>>
  BY <1>1 DEF TypeOK, Report, Goto, Respond
<1>3. \A s \in Requests : s \in sessions' /\ s \notin sessions => pc[s] = "create" /\ s # q
  OBVIOUS
<1>4. \A s \in Requests : expires'[s] # expires[s] => pc[s] = "create"
  BY <1>1 DEF TypeOK
<1>5. clock <= clock'
  BY <1>1, TimeAssumption DEF TypeOK
<1> QED
  BY <1>2, <1>3, <1>4, <1>5, Frame DEF Elsewhere, requestVars

LEMMA NextSound ==
    ASSUME IInv, [Next]_vars, TypeOK'
    PROVE  \A q \in Requests : Sound(q)'
<1> USE DEF Steps, Statuses, Results
<1>1. TypeOK /\ Audit!TypeOK /\ operators["local"] # None /\ \A q \in Requests : Sound(q)
  BY DEF IInv, TypeOK
<1>2. ASSUME NEW r \in Requests, Limited(r) PROVE \A q \in Requests : Sound(q)'
  <2>1. Report(r, "rate_limited") /\ Local(r) /\ UNCHANGED auditVars /\ pc[r] = "limit"
        /\ IsLogin(r)
    BY <1>1, <1>2 DEF Limited, Local, Sound, Control
  <2>2. Sound(r)'
    BY <1>1, <2>1, LoginRefused DEF BeforeCreation
  <2> QED
    BY <1>1, <2>1, <2>2, OthersUndisturbed, SameTrail DEF Local, tableVars
<1>3. ASSUME NEW r \in Requests, BeginLogin(r) \/ Admitted(r) PROVE \A q \in Requests : Sound(q)'
  <2>1. PICK step \in {"limit", "verify", "claims"} :
            /\ Proceed(r, step) /\ Local(r) /\ UNCHANGED auditVars
            /\ pc[r] \in BeforeCreation /\ IsLogin(r)
            /\ (step = "verify" => kind[r] = "login") /\ (step = "claims" => kind[r] = "oidc")
    BY <1>1, <1>3 DEF BeginLogin, Admitted, Local, Sound, Control, IsLogin, BeforeCreation
  <2>2. Sound(r)'
    BY <1>1, <2>1, LoginProceeds DEF BeforeCreation, Local, tableVars
  <2> QED
    BY <1>1, <2>1, <2>2, OthersUndisturbed, SameTrail DEF Local, tableVars, Proceed, localVars
<1>4. ASSUME NEW r \in Requests, Verify(r) PROVE \A q \in Requests : Sound(q)'
  <2>1. Local(r) /\ UNCHANGED auditVars /\ pc[r] = "verify" /\ kind[r] = "login" /\ IsLogin(r)
    BY <1>1, <1>4 DEF Verify, Local, Sound, Control, IsLogin
  <2>2. CASE Report(r, "failure")
    <3>1. Sound(r)'
      BY <1>1, <2>1, <2>2, LoginRefused DEF BeforeCreation
    <3> QED
      BY <1>1, <2>1, <2>2, <3>1, OthersUndisturbed, SameTrail DEF Local, tableVars
  <2>3. CASE Proceed(r, "create")
    <3>1. operators'[Owner(r)] # None
      BY <1>1, <2>1 DEF Local, tableVars, Owner
    <3>2. Sound(r)'
      BY <1>1, <2>1, <2>3, <3>1, LoginProceeds DEF BeforeCreation, Local, tableVars
    <3> QED
      BY <1>1, <2>1, <2>3, <3>2, OthersUndisturbed, SameTrail
         DEF Local, tableVars, Proceed, localVars
  <2> QED
    BY <1>4, <2>2, <2>3 DEF Verify
<1>5. ASSUME NEW r \in Requests, Claims(r) PROVE \A q \in Requests : Sound(q)'
  <2>1. Local(r) /\ UNCHANGED auditVars /\ pc[r] = "claims" /\ kind[r] = "oidc" /\ IsLogin(r)
    BY <1>1, <1>5 DEF Claims, Local, Sound, Control, IsLogin
  <2>2. CASE Report(r, "failure")
    <3>1. Sound(r)'
      BY <1>1, <2>1, <2>2, LoginRefused DEF BeforeCreation
    <3> QED
      BY <1>1, <2>1, <2>2, <3>1, OthersUndisturbed, SameTrail DEF Local, tableVars
  <2>3. CASE /\ read' = [read EXCEPT ![r] = operators["oidc"]]
             /\ Goto(r, "upsert")
             /\ UNCHANGED <<csrf, result>>
    <3>1. /\ pc'[r] = "upsert" /\ read'[r] = operators["oidc"] /\ UNCHANGED <<status, kind, token, late>>
          /\ IsLogin(r)' /\ token[r] = None /\ status[r] = "none" /\ r \notin held
      BY <1>1, <2>1, <2>3 DEF Goto, Local, requestVars, TypeOK, IsLogin, Sound, Control, Known
    <3>2. Control(r)' /\ Audited(r)' /\ Sessionless(r)'
      BY <1>1, <2>1, <3>1 DEF Sound, Control, Audited, Sessionless, Local, tableVars,
                              BeforeCreation, AtTheTrail, WithSession
    <3>3. Known(r)'
      BY <2>1, <3>1 DEF Known, Local, tableVars, AtTheTrail
    <3>4. Authority(r)' /\ Over(r)'
      BY <1>1, <2>1, <3>1 DEF Authority, Noticed, Over, AtTheTrail, Sound
    <3>5. Sound(r)'
      BY <3>2, <3>3, <3>4 DEF Sound
    <3> QED
      BY <1>1, <2>1, <2>3, <3>5, OthersUndisturbed, SameTrail DEF Local, tableVars
  <2> QED
    BY <1>5, <2>2, <2>3 DEF Claims
<1>6. ASSUME NEW r \in Requests, NEW role \in Roles, Upsert(r, role)
      PROVE  \A q \in Requests : Sound(q)'
  <2>1. /\ pc[r] = "upsert" /\ kind[r] = "oidc" /\ IsLogin(r) /\ Owner(r) = "oidc"
        /\ UNCHANGED <<clock, sessions, expires, held, requestVars, auditVars>>
    BY <1>1, <1>6 DEF Upsert, Sound, Control, IsLogin, Owner
  <2>2. CASE Respond(r, "error") /\ UNCHANGED <<operators, entitled>>
    <3>1. Sound(r)'
      BY <1>1, <2>1, <2>2, Refused
    <3> QED
      BY <1>1, <2>1, <2>2, <3>1, OthersUndisturbed, SameTrail
  <2>3. CASE /\ ~(read[r] = None /\ operators["oidc"] # None)
             /\ operators' = [operators EXCEPT !["oidc"] =
                    IF read[r] = None THEN Row(role, TRUE)
                    ELSE IF read[r].role # role THEN [@ EXCEPT !.role = role] ELSE @]
             /\ Watch(operators') /\ Proceed(r, "create")
    <3>1. /\ operators'["oidc"] # None
          /\ \A s \in Subjects : operators[s] # None => operators'[s] # None
      <4>1. Row(role, TRUE) \in OperatorRows
        BY DEF Row, OperatorRows
      <4>2. read[r] # None => operators["oidc"] \in OperatorRows
        BY <1>1, <2>1 DEF Sound, Known, TypeOK, Subjects
      <4>3. operators["oidc"] \in OperatorRows => [operators["oidc"] EXCEPT !.role = role] \in OperatorRows
        BY RowRewritten
      <4>4. operators'["oidc"] \in OperatorRows
        BY <1>1, <2>3, <4>1, <4>2, <4>3 DEF TypeOK, Subjects
      <4>5. \A s \in Subjects : s # "oidc" => operators'[s] = operators[s]
        BY <1>1, <2>3 DEF TypeOK
      <4>6. operators'["oidc"] # None
        BY <4>4, NoneAssumption
      <4> QED
        BY <4>5, <4>6
    <3>2. Sound(r)'
      BY <1>1, <2>1, <2>3, <3>1, LoginProceeds DEF BeforeCreation
    <3>3. ASSUME NEW q \in Requests, q # r PROVE Sound(q)'
      <4>1. (entitled[q] => entitled'[q]) /\ Noticed(q)'
        BY <2>1, <2>3, <3>3, <1>1 DEF Watch, Noticed, Proceed, Goto, requestVars, Owner, TypeOK
      <4>2. UNCHANGED <<pc[q], status[q], read[q], result[q], kind, token[q], late[q]>>
        BY <1>1, <2>1, <2>3, <3>3 DEF Proceed, Goto, localVars, requestVars, TypeOK
      <4>3. Audit!Recorded' = Audit!Recorded /\ clock <= clock'
        BY <1>1, <2>1, SameTrail, TimeAssumption DEF TypeOK
      <4> QED
        BY <2>1, <3>1, <4>1, <4>2, <4>3, Frame DEF Elsewhere
    <3> QED
      BY <3>2, <3>3
  <2> QED
    BY <1>6, <2>2, <2>3 DEF Upsert
<1>7. ASSUME NEW r \in Requests, CreateSession(r) PROVE \A q \in Requests : Sound(q)'
  <2>1. /\ pc[r] = "create" /\ IsLogin(r) /\ token[r] = None /\ status[r] = "none"
        /\ r \notin held /\ operators[Owner(r)] # None
    BY <1>1, <1>7 DEF CreateSession, Sound, Control, Known, TypeOK
  <2>2. /\ pc'[r] = "audit" /\ result'[r] = "success"
        /\ UNCHANGED <<status, kind, token, late, read, held, operators>>
        /\ IsLogin(r)' /\ Owner(r)' = Owner(r)
    BY <1>1, <1>7, <2>1 DEF CreateSession, Report, Goto, requestVars, TypeOK, IsLogin, Owner
  <2>3. Control(r)' /\ Audited(r)' /\ Sessionless(r)' /\ Known(r)'
    BY <1>1, <2>1, <2>2 DEF Sound, Control, Audited, Sessionless, Known,
                            BeforeCreation, AtTheTrail, WithSession
  <2>4. Authority(r)' /\ Over(r)'
    BY <1>1, <2>1, <2>2 DEF Authority, Noticed, Over, AtTheTrail, Sound, IsLogin
  <2>5. Sound(r)'
    BY <2>3, <2>4 DEF Sound
  <2> QED
    BY <1>1, <1>7, <2>1, <2>5, OthersUndisturbed, SameTrail DEF CreateSession
<1>8. ASSUME NEW r \in Requests, NEW s \in held, NEW c \in held \cup {None}, BeginRequest(r, s, c)
      PROVE  \A q \in Requests : Sound(q)'
  <2>1. /\ s \in Requests /\ s # None /\ pc[s] = "answered" /\ operators[Owner(s)] # None
        /\ pc[r] = "idle" /\ ~IsLogin(r) /\ r \notin held /\ status[r] = "none"
    BY <1>1, <1>8, NoneAssumption DEF BeginRequest, TypeOK, Sound, Control, Known, IsLogin
  <2>2. /\ pc'[r] = "session" /\ token'[r] = s
        /\ UNCHANGED <<clock, tableVars, held, kind, read, result, auditVars, status>>
        /\ late'[r] = IF s \in LoggedOut THEN "logged_out"
                      ELSE IF expires[s] <= clock THEN "expired" ELSE "no"
        /\ entitled'[r] = Entitles(operators[Owner(s)], kind[r])
        /\ IsLogin(r)' = IsLogin(r) /\ Owner(s)' = Owner(s)
    <3>1. Entitles(operators[Owner(s)], kind[r]) \in BOOLEAN
      BY DEF Entitles
    <3> HIDE DEF Entitles, LoggedOut
    <3>2. entitled'[r] = Entitles(operators[Owner(s)], kind[r])
      <4>1. entitled' = [entitled EXCEPT ![r] = Entitles(operators[Owner(s)], kind[r])]
        BY <1>8, Zenon DEF BeginRequest
      <4>2. r \in DOMAIN entitled
        BY <1>1 DEF TypeOK
      <4> QED
        BY <4>1, <4>2, Zenon
    <3> QED
      BY <1>1, <1>8, <3>2 DEF BeginRequest, TypeOK, Goto, tableVars, IsLogin, Owner
  <2>3. s \in LoggedOut => s \notin sessions
    BY <1>1 DEF LoggedOut, Sound, Over
  <2>4. Control(r)' /\ Audited(r)' /\ Sessionless(r)' /\ Known(r)'
    BY <1>1, <2>1, <2>2 DEF Sound, Control, Audited, Sessionless, Known,
                            BeforeCreation, AtTheTrail, WithSession
  <2>5. Authority(r)'
    BY <2>1, <2>2 DEF Authority, Noticed, AtTheTrail, tableVars
  <2>6. Over(r)'
    BY <2>1, <2>2, <2>3 DEF Over, AtTheTrail, tableVars
  <2>7. Sound(r)'
    BY <2>4, <2>5, <2>6 DEF Sound
  <2>8. ASSUME NEW q \in Requests, q # r PROVE Sound(q)'
    <3>1. UNCHANGED <<pc[q], status[q], read[q], result[q], token[q], late[q], entitled[q]>>
      BY <1>1, <1>8, <2>8 DEF BeginRequest, Goto, TypeOK
    <3>2. Audit!Recorded' = Audit!Recorded /\ clock <= clock'
      BY <1>1, <2>2, SameTrail, TimeAssumption DEF TypeOK
    <3> QED
      BY <2>2, <3>1, <3>2, Frame DEF Elsewhere, tableVars
  <2> QED
    BY <2>7, <2>8
<1>9. ASSUME NEW r \in Requests, NEW step \in {"expire", "operator", "authorize", "delete"},
             pc[r] \in WithSession, kind[r] = "logout" \/ step # "delete",
             late[r] # "no" => late[r] = "expired" /\ step = "expire",
             step = "authorize" => pc[r] = "touch",
             step = "delete" => entitled[r],
             Proceed(r, step), Local(r), UNCHANGED auditVars
      PROVE  \A q \in Requests : Sound(q)'
  <2>1. /\ pc'[r] = step /\ UNCHANGED <<status, kind, token, late, read, result>>
        /\ IsLogin(r)' = IsLogin(r) /\ r \notin held /\ status[r] = "none"
        /\ token[r] # None /\ ~IsLogin(r)
    BY <1>1, <1>9 DEF Proceed, Goto, Local, requestVars, localVars, TypeOK, IsLogin, Sound,
                      Control, Known, WithSession
  <2>2. Control(r)' /\ Audited(r)' /\ Sessionless(r)' /\ Known(r)'
    BY <1>1, <1>9, <2>1 DEF Sound, Control, Audited, Sessionless, Known, Local, tableVars,
                            BeforeCreation, AtTheTrail, WithSession
  <2>3. Authority(r)'
    <3>1. Noticed(r)'
      BY <1>1, <1>9, <2>1 DEF Sound, Authority, Noticed, Local, tableVars, Owner, WithSession
    <3> QED
      BY <1>1, <1>9, <2>1, <3>1 DEF Sound, Authority, Local, AtTheTrail
  <2>4. Over(r)'
    BY <1>1, <1>9, <2>1 DEF Sound, Over, Local, tableVars, AtTheTrail
  <2>5. Sound(r)'
    BY <2>2, <2>3, <2>4 DEF Sound
  <2> QED
    BY <1>1, <1>9, <2>5, OthersUndisturbed, SameTrail DEF Local, tableVars, Proceed, localVars
<1>10. ASSUME NEW r \in Requests, NEW code \in {"unauthorized", "forbidden", "error"},
              pc[r] \notin {"idle", "answered"}, code # "error" => ~IsLogin(r),
              Respond(r, code), sessions' \subseteq sessions,
              UNCHANGED <<clock, operators, expires, held, requestVars, entitled, auditVars>>
       PROVE  \A q \in Requests : Sound(q)'
  BY <1>1, <1>10, Refused, OthersUndisturbed, SameTrail
<1>11. ASSUME NEW r \in Requests, LoadSession(r) PROVE \A q \in Requests : Sound(q)'
  <2>1. /\ Local(r) /\ UNCHANGED auditVars /\ pc[r] = "session"
        /\ ~IsLogin(r) /\ token[r] # None
    BY <1>1, <1>11 DEF LoadSession, Local, Sound, Control, WithSession
  <2>2. CASE Respond(r, "unauthorized")
    BY <1>10, <2>1, <2>2 DEF Local, tableVars
  <2>3. CASE token[r] \in sessions
    <3>1. late[r] # "logged_out" /\ (late[r] = "expired" => expires[token[r]] <= clock)
      BY <1>1, <2>3 DEF Sound, Over
    <3>2. late[r] # "no" => late[r] = "expired"
      BY <1>1, <3>1 DEF TypeOK
    <3> QED
      BY <1>9, <1>11, <2>1, <2>3, <3>1, <3>2 DEF LoadSession, WithSession
  <2> QED
    BY <1>11, <2>2, <2>3 DEF LoadSession
<1>12. ASSUME NEW r \in Requests, ExpireSession(r) PROVE \A q \in Requests : Sound(q)'
  BY <1>1, <1>10, <1>12 DEF ExpireSession, Sound, Control, WithSession
<1>13. ASSUME NEW r \in Requests, LoadOperator(r) PROVE \A q \in Requests : Sound(q)'
  <2> DEFINE row == operators[Owner(token[r])]
  <2>1. /\ Local(r) /\ UNCHANGED auditVars /\ pc[r] = "operator" /\ late[r] = "no"
        /\ ~IsLogin(r) /\ token[r] # None /\ row # None /\ row \in OperatorRows
        /\ status[r] = "none"
    <3>1. pc[r] = "operator" /\ late[r] = "no" /\ token[r] # None /\ token[r] \in held
          /\ ~IsLogin(r) /\ status[r] = "none"
      BY <1>1, <1>13 DEF LoadOperator, Sound, Control, WithSession, Over, TypeOK
    <3>2. row # None
      BY <1>1, <3>1 DEF Sound, Known, TypeOK
    <3> QED
      BY <1>1, <1>13, <3>1, <3>2, OwnerTyped DEF LoadOperator, Local, TypeOK
  <2>2. CASE Respond(r, "forbidden")
    BY <1>10, <2>1, <2>2 DEF Local, tableVars
  <2>3. CASE /\ row.enabled /\ row.role \in Roles
             /\ read' = [read EXCEPT ![r] = row]
             /\ Goto(r, "touch")
             /\ UNCHANGED <<csrf, result>>
    <3>1. /\ pc'[r] = "touch" /\ read'[r] = row /\ UNCHANGED <<status, kind, token, late, result>>
          /\ IsLogin(r)' = IsLogin(r) /\ r \notin held
      BY <1>1, <2>1, <2>3 DEF Goto, Local, requestVars, TypeOK, IsLogin, Sound, Known
    <3>2. Control(r)' /\ Audited(r)' /\ Sessionless(r)' /\ Known(r)' /\ Over(r)'
      BY <1>1, <2>1, <3>1 DEF Sound, Control, Audited, Sessionless, Known, Over, Local, tableVars,
                              BeforeCreation, AtTheTrail, WithSession
    <3>3. Rank[row.role] >= Rank[Minimum(kind[r])] => entitled[r]
      BY <1>1, <2>1, <2>3 DEF Sound, Authority, Noticed, Entitles
    <3>4. Noticed(r)'
      BY <1>1, <2>1, <3>1 DEF Sound, Authority, Noticed, Local, tableVars, Owner
    <3>5. Authority(r)'
      BY <2>1, <3>1, <3>3, <3>4 DEF Authority, Local, AtTheTrail
    <3>6. Sound(r)'
      BY <3>2, <3>5 DEF Sound
    <3> QED
      BY <1>1, <2>1, <2>3, <3>6, OthersUndisturbed, SameTrail DEF Local, tableVars
  <2> QED
    BY <1>13, <2>2, <2>3 DEF LoadOperator
<1>14. ASSUME NEW r \in Requests, Touch(r) PROVE \A q \in Requests : Sound(q)'
  <2>1. Local(r) /\ UNCHANGED auditVars /\ pc[r] = "touch" /\ late[r] = "no"
    BY <1>1, <1>14 DEF Touch, Local, Sound, Over, TypeOK
  <2>2. CASE Respond(r, "error")
    BY <1>10, <2>1, <2>2 DEF Local, tableVars
  <2>3. CASE Proceed(r, "authorize")
    BY <1>9, <2>1, <2>3 DEF WithSession
  <2> QED
    BY <1>14, <2>2, <2>3 DEF Touch
<1>15. ASSUME NEW r \in Requests, Authorize(r) PROVE \A q \in Requests : Sound(q)'
  <2>1. /\ Local(r) /\ UNCHANGED auditVars /\ pc[r] = "authorize" /\ late[r] = "no"
        /\ ~IsLogin(r) /\ token[r] # None /\ r \notin held
    BY <1>1, <1>15 DEF Authorize, Local, Sound, Control, WithSession, Known, Over, TypeOK
  <2>2. Permitted(r) => entitled[r]
    BY <1>1, <2>1 DEF Permitted, Sound, Authority
  <2>3. CASE Respond(r, "forbidden")
    BY <1>10, <2>1, <2>3 DEF Local, tableVars
  <2>4. CASE Permitted(r) /\ kind[r] = "logout" /\ Proceed(r, "delete")
    BY <1>9, <2>1, <2>2, <2>4 DEF WithSession
  <2>5. CASE Permitted(r) /\ kind[r] # "logout" /\ Respond(r, "ok")
    <3>1. /\ pc'[r] = "answered" /\ status'[r] = "ok" /\ UNCHANGED <<kind, token, late>>
          /\ IsLogin(r)' = IsLogin(r)
      BY <1>1, <2>1, <2>5 DEF Respond, Local, requestVars, TypeOK, IsLogin
    <3>2. Sound(r)'
      <4>1. Control(r)' /\ Known(r)' /\ Audited(r)' /\ Sessionless(r)'
        BY <1>1, <2>1, <3>1 DEF Sound, Control, Known, Audited, Sessionless, Local,
                                BeforeCreation, AtTheTrail, WithSession
      <4>2. Authority(r)' /\ Over(r)'
        BY <2>1, <2>2, <2>5, <3>1 DEF Authority, Noticed, Over, Local, AtTheTrail
      <4> QED
        BY <4>1, <4>2 DEF Sound
    <3> QED
      BY <1>1, <2>1, <2>5, <3>2, OthersUndisturbed, SameTrail DEF Local, tableVars
  <2> QED
    BY <1>15, <2>3, <2>4, <2>5 DEF Authorize
<1>16. ASSUME NEW r \in Requests, DeleteSession(r) PROVE \A q \in Requests : Sound(q)'
  <2>1. /\ pc[r] = "delete" /\ kind[r] = "logout" /\ ~IsLogin(r) /\ token[r] # None
        /\ r \notin held /\ entitled[r] /\ late[r] = "no" /\ status[r] = "none"
    BY <1>1, <1>16 DEF DeleteSession, Sound, Control, Known, Authority, Over, WithSession, TypeOK
  <2>2. /\ pc'[r] = "audit" /\ result'[r] = "success" /\ token[r] \notin sessions'
        /\ UNCHANGED <<status, kind, token, late, read, held, operators, entitled>>
        /\ IsLogin(r)' = IsLogin(r)
    BY <1>1, <1>16 DEF DeleteSession, Report, Goto, requestVars, TypeOK, IsLogin
  <2>3. Control(r)' /\ Audited(r)' /\ Sessionless(r)' /\ Known(r)'
    BY <1>1, <2>1, <2>2 DEF Sound, Control, Audited, Sessionless, Known,
                            BeforeCreation, AtTheTrail, WithSession
  <2>4. Authority(r)' /\ Over(r)'
    BY <2>1, <2>2 DEF Authority, Noticed, Over, AtTheTrail
  <2>5. Sound(r)'
    BY <2>3, <2>4 DEF Sound
  <2> QED
    BY <1>1, <1>16, <2>5, OthersUndisturbed, SameTrail DEF DeleteSession
<1>17. ASSUME NEW r \in Requests, AuditRecords(r) PROVE \A q \in Requests : Sound(q)'
  <2>1. /\ Local(r) /\ pc[r] = "audit" /\ Entry(r) \in AuditEntries /\ Audit!Record(Entry(r))
        /\ r \notin held /\ status[r] = "none" /\ late[r] = "no"
    BY <1>1, <1>17, EntryTyped DEF AuditRecords, Local, AtTheTrail, Sound, Known, Control, Over, TypeOK
  <2>2. Audit!Recorded' = Audit!Recorded \cup {Entry(r)}
    BY <1>1, <2>1, RecordStep
  <2>3. /\ pc'[r] = "recorded" /\ UNCHANGED <<status, kind, token, late, read, result>>
        /\ IsLogin(r)' = IsLogin(r) /\ Owner(r)' = Owner(r)
        /\ (token[r] # None => Owner(token[r])' = Owner(token[r]))
    BY <1>1, <1>17 DEF AuditRecords, Proceed, Goto, localVars, requestVars, TypeOK, IsLogin, Owner
  <2>4. Control(r)' /\ Sessionless(r)' /\ Known(r)' /\ Over(r)'
    BY <1>1, <2>1, <2>3 DEF Sound, Control, Sessionless, Known, Over, Local, tableVars,
                            BeforeCreation, AtTheTrail, WithSession
  <2>5. Audited(r)'
    BY <2>1, <2>2, <2>3 DEF Audited, Recorded, Entry
  <2>6. Authority(r)'
    BY <1>1, <2>1, <2>3 DEF Authority, Noticed, Sound, Local, tableVars, AtTheTrail
  <2>7. Sound(r)'
    BY <2>4, <2>5, <2>6 DEF Sound
  <2> QED
    BY <1>1, <1>17, <2>1, <2>2, <2>7, OthersUndisturbed
       DEF AuditRecords, Local, tableVars, Proceed, localVars
<1>18. ASSUME NEW r \in Requests, AuditReturns(r) PROVE \A q \in Requests : Sound(q)'
  <2>1. /\ pc[r] = "recorded" /\ Audit!Acknowledge(Entry(r)) /\ Entry(r) \in AuditEntries
        /\ UNCHANGED <<clock, tableVars, requestVars, entitled>>
        /\ r \notin held /\ status[r] = "none" /\ late[r] = "no"
    BY <1>1, <1>18, EntryTyped
       DEF AuditReturns, AtTheTrail, Sound, Known, Control, Over, TypeOK
  <2>2. Audit!Recorded' = Audit!Recorded
    BY <1>1, <2>1, AcknowledgeStep
  <2>3. /\ pc'[r] = "answered"
        /\ \/ result[r] = "success" /\ status'[r] = "ok"
           \/ result[r] = "failure" /\ status'[r] = "unauthorized"
           \/ result[r] = "rate_limited" /\ status'[r] = "limited"
        /\ UNCHANGED <<kind, token, late>>
        /\ held' = IF result[r] = "success" /\ IsLogin(r) THEN held \cup {r} ELSE held
        /\ IsLogin(r)' = IsLogin(r) /\ Owner(r)' = Owner(r)
    BY <1>1, <1>18 DEF AuditReturns, Conclude, Respond, requestVars, TypeOK, IsLogin, Owner
  <2>4. Control(r)' /\ Sessionless(r)'
    BY <1>1, <2>1, <2>3 DEF Sound, Control, Sessionless, tableVars,
                            BeforeCreation, AtTheTrail, WithSession
  <2>5. Known(r)'
    BY <1>1, <2>1, <2>3 DEF Sound, Known, tableVars, AtTheTrail
  <2>6. Audited(r)'
    BY <1>1, <2>1, <2>2, <2>3 DEF Sound, Audited, Recorded
  <2>7. Authority(r)' /\ Over(r)'
    BY <1>1, <2>1, <2>3 DEF Authority, Noticed, Over, Sound, tableVars, AtTheTrail
  <2>8. Sound(r)'
    BY <2>4, <2>5, <2>6, <2>7 DEF Sound
  <2>9. \E code \in Statuses : Respond(r, code)
    BY <1>18 DEF AuditReturns, Conclude
  <2> QED
    BY <1>1, <2>1, <2>2, <2>3, <2>8, <2>9, OthersUndisturbed DEF tableVars
<1>19. ASSUME NEW r \in Requests, Breaks(r) PROVE \A q \in Requests : Sound(q)'
  <2>1. /\ Local(r) /\ UNCHANGED auditVars /\ pc[r] \notin {"idle", "answered"}
    BY <1>19 DEF Breaks, AtTheDatabase, Local
  <2>2. CASE Respond(r, "error")
    BY <1>10, <2>1, <2>2 DEF Local, tableVars
  <2>3. CASE kind[r] = "oidc" /\ pc[r] = "audit" /\ result[r] = "success" /\ Report(r, "failure")
    <3>1. Sound(r)'
      BY <1>1, <2>1, <2>3, LoginRefused DEF IsLogin, AtTheTrail
    <3> QED
      BY <1>1, <2>1, <2>3, <3>1, OthersUndisturbed, SameTrail DEF Local, tableVars
  <2> QED
    BY <1>19, <2>2, <2>3 DEF Breaks
<1>20. ASSUME NEW subject \in Subjects, NEW row \in OperatorRows, Administer(subject, row)
       PROVE  \A q \in Requests : Sound(q)'
  <2>1. ASSUME NEW q \in Requests PROVE Sound(q)'
    <3>1. /\ operators' = [operators EXCEPT ![subject] = row] /\ row # None
          /\ Watch(operators') /\ Audit!Recorded' = Audit!Recorded /\ clock <= clock'
          /\ UNCHANGED <<sessions, expires, held, pc, status, kind, token, late, read, result>>
      BY <1>1, <1>20, SameTrail, NoneAssumption, TimeAssumption
         DEF Administer, requestVars, localVars, TypeOK
    <3>2. (entitled[q] => entitled'[q]) /\ Noticed(q)'
      BY <1>1, <3>1 DEF Watch, Noticed, Owner, TypeOK
    <3>3. \A s \in Subjects : operators[s] # None => operators'[s] # None
      BY <1>1, <3>1 DEF TypeOK
    <3> QED
      BY <3>1, <3>2, <3>3, Frame DEF Elsewhere
  <2> QED
    BY <2>1
<1>21. CASE Tick \/ UNCHANGED vars
  <2>1. ASSUME NEW q \in Requests PROVE Sound(q)'
    <3>1. /\ Audit!Recorded' = Audit!Recorded
          /\ UNCHANGED <<operators, sessions, expires, held, pc, status, kind, token, late, read,
                         result, entitled>>
      BY <1>1, <1>21, SameTrail DEF Tick, vars, tableVars, requestVars, localVars
    <3>2. clock <= clock'
      BY <1>1, <1>21, TimeAssumption DEF Tick, vars, TypeOK
    <3> QED
      BY <3>1, <3>2, Frame DEF Elsewhere
  <2> QED
    BY <2>1
<1>22. CASE Restart
  <2>1. ASSUME NEW q \in Requests PROVE Sound(q)'
    <3>1. /\ Audit!Recorded' = Audit!Recorded /\ sessions' \subseteq sessions
          /\ pc'[q] = IF pc[q] \in {"idle", "answered"} THEN pc[q] ELSE "lost"
          /\ UNCHANGED <<clock, operators, expires, held, status, kind, token, late, read,
                         result, entitled>>
      BY <1>1, <1>22, SameTrail DEF Restart, requestVars, localVars
    <3>2. IsLogin(q)' = IsLogin(q) /\ \A s : Owner(s)' = Owner(s)
      BY <3>1 DEF IsLogin, Owner
    <3>3. Control(q)' /\ Known(q)' /\ Sessionless(q)'
      BY <1>1, <3>1, <3>2 DEF Sound, Control, Known, Sessionless, BeforeCreation, AtTheTrail,
                              WithSession
    <3>4. Authority(q)' /\ Audited(q)'
      BY <1>1, <3>1, <3>2 DEF Sound, Authority, Noticed, Audited, Recorded, AtTheTrail
    <3>5. Over(q)'
      BY <1>1, <3>1, <3>2 DEF Sound, Over, AtTheTrail
    <3> QED
      BY <3>3, <3>4, <3>5 DEF Sound
  <2> QED
    BY <2>1
<1> QED
  BY <1>2, <1>3, <1>4, <1>5, <1>6, <1>7, <1>8, <1>11, <1>12, <1>13, <1>14, <1>15, <1>16, <1>17,
     <1>18, <1>19, <1>20, <1>21, <1>22
     DEF Next, Process, Login, Authenticated

-------------------------------------------------------------------------------
(* The invariant holds throughout, and what it implies. *)

LEMMA InitInvariant ==
    ASSUME Init
    PROVE  IInv
<1>1. Audit!TypeOK
  BY DEF Init, Audit!Init, Audit!TypeOK
<1>2. Row("security_admin", TRUE) \in OperatorRows
  BY DEF Row, OperatorRows, Roles, Rank
<1>3. TypeOK
  <2>1. operators \in [Subjects -> OperatorRows \cup {None}]
    BY <1>2 DEF Init
  <2>2. 0 \in 0 .. MaxTime /\ 0 \in 0 .. MaxTime + TTL
    BY TimeAssumption
  <2> QED
    BY <1>1, <2>1, <2>2 DEF Init, TypeOK, Steps, Statuses
<1>4. operators["local"] # None
  BY <1>2, NoneAssumption DEF Init, Subjects
<1>5. ASSUME NEW r \in Requests PROVE Sound(r)
  BY DEF Init, Sound, Control, Known, Sessionless, Authority, Noticed, Over, Audited,
         BeforeCreation, WithSession, AtTheTrail
<1> QED
  BY <1>3, <1>4, <1>5 DEF IInv

LEMMA NextInvariant ==
    ASSUME IInv, [Next]_vars
    PROVE  IInv'
<1>1. TypeOK'
  BY NextTyped
<1>2. \A r \in Requests : Sound(r)'
  BY <1>1, NextSound
<1>3. operators'["local"] # None
  <2>1. operators["local"] # None /\ "local" \in Subjects /\ "oidc" \in Subjects
        /\ operators \in [Subjects -> OperatorRows \cup {None}]
    BY DEF IInv, Subjects, TypeOK
  <2>2. ASSUME NEW r \in Requests, NEW role \in Roles, Upsert(r, role)
        PROVE  operators'["local"] # None
    <3>1. \/ operators' = operators
          \/ \E row : operators' = [operators EXCEPT !["oidc"] = row]
      BY <2>2 DEF Upsert
    <3> QED
      BY <2>1, <3>1
  <2>3. ASSUME NEW subject \in Subjects, NEW row \in OperatorRows, Administer(subject, row)
        PROVE  operators'["local"] # None
    BY <2>1, <2>3, NoneAssumption DEF Administer
  <2>4. CASE UNCHANGED operators
    BY <2>1, <2>4
  <2>5. ASSUME NEW r \in Requests,
               \/ BeginLogin(r) \/ Limited(r) \/ Admitted(r) \/ Verify(r) \/ Claims(r)
               \/ CreateSession(r) \/ Authenticated(r) \/ AuditRecords(r) \/ AuditReturns(r)
               \/ Breaks(r)
        PROVE  UNCHANGED operators
    BY <2>5 DEF BeginLogin, Limited, Admitted, Verify, Claims, CreateSession, Authenticated,
                LoadSession, ExpireSession, LoadOperator, Touch, Authorize, DeleteSession,
                AuditRecords, AuditReturns, Breaks, tableVars
  <2>6. ASSUME NEW r \in Requests, NEW s \in held, NEW c \in held \cup {None}, BeginRequest(r, s, c)
        PROVE  UNCHANGED operators
    BY <2>6 DEF BeginRequest, tableVars
  <2>7. Tick \/ Restart \/ UNCHANGED vars => UNCHANGED operators
    BY DEF Tick, Restart, vars, tableVars
  <2> QED
    BY <2>2, <2>3, <2>4, <2>5, <2>6, <2>7 DEF Next, Process, Login
<1> QED
  BY <1>1, <1>2, <1>3 DEF IInv

LEMMA Invariant == Spec => []IInv
<1>1. Init => IInv
  BY InitInvariant
<1>2. IInv /\ [Next]_vars => IInv'
  BY NextInvariant
<1> QED
  BY <1>1, <1>2, PTL DEF Spec

(* Every variable keeps its type, whatever the requests, the clock and the   *)
(* faults do.                                                                *)
THEOREM TypeCorrect == Spec => []TypeOK
<1>1. IInv => TypeOK
  BY DEF IInv
<1> QED
  BY <1>1, Invariant, PTL

(* No request that begins after the answer to a logout of its session, or    *)
(* after its expiry, is served (current_actor, auth.py 112-138), however     *)
(* many requests of the session are under way.                               *)
THEOREM OverStaysOver == Spec => []OverIsFinal
<1>1. IInv => OverIsFinal
  BY DEF IInv, Sound, Over, OverIsFinal
<1> QED
  BY <1>1, Invariant, PTL

(* Every request that is served had the authority of its operator at some    *)
(* instant of the request (auth.py 133-166).                                 *)
THEOREM AuthorityIsOfTheRequest == Spec => []AuthorityIsCurrent
<1>1. IInv => AuthorityIsCurrent
  BY DEF IInv, Sound, Authority, AuthorityIsCurrent
<1> QED
  BY <1>1, Invariant, PTL

(* Every login that is answered is in the audit trail under the result of    *)
(* its answer (main.py 192-252).                                             *)
THEOREM LoginsAreInTheTrail == Spec => []AnsweredLoginIsAudited
<1>1. IInv => AnsweredLoginIsAudited
  BY DEF IInv, Sound, Audited, AnsweredLoginIsAudited
<1> QED
  BY <1>1, Invariant, PTL

(* A local login that is refused leaves no session behind (main.py 192-207). *)
THEOREM RefusalLeavesNothing == Spec => []RefusedLoginLeavesNoSession
<1>1. IInv => RefusedLoginLeavesNoSession
  BY DEF IInv, Sound, Sessionless, RefusedLoginLeavesNoSession
<1> QED
  BY <1>1, Invariant, PTL

-------------------------------------------------------------------------------
(***************************************************************************)
(* Proofs about RateLimiter for every number of threads, every limit and   *)
(* every window.                                                           *)
(*                                                                         *)
(* The bound on the deque is not inductive: a thread that has measured a   *)
(* length below the limit will append whatever the others do meanwhile.    *)
(* The invariant therefore counts these threads with the attempts.         *)
(*                                                                         *)
(* The bound on a burst adds what popleft removed although it still        *)
(* counts.  Fix an instant: an attempt is fresh when it is after it.  All  *)
(* threads may have tested the same stale attempt; one of them removes it, *)
(* the others remove what follows.  A stale attempt in front of the fresh  *)
(* ones thus costs at most one fresh attempt for every other thread, and   *)
(* so does each stale one among them, which only a thread that was         *)
(* overtaken between its reading and its append can put there; once there  *)
(* is a fresh attempt, all threads but one can be such.                    *)
(***************************************************************************)
\* The threads that have decided to append.
Committed == {t \in Threads : point[t] = "decide" /\ length[t] < Limit}

ReadingsPast ==
    /\ \A t \in Threads : now[t] <= monotonic
    /\ \A i \in 1 .. Len(admitted) : admitted[i] <= monotonic

Popping == {t \in Threads : point[t] = "popleft"}

\* Seen from an instant x: whether there are attempts after it, those of them
\* that were removed, the stale ones behind a fresh one, how many of these were
\* removed, the threads that may still append a stale one, and whether the
\* oldest attempt in the deque is stale.
Fresh(x) == \E i \in 1 .. Len(admitted) : admitted[i] > x
Lost(x) == {i \in 1 .. purged : admitted[i] > x}
Late(x) == {i \in 1 .. Len(admitted) : admitted[i] <= x /\ \E j \in 1 .. i : admitted[j] > x}
Passed(x) == {i \in 1 .. purged : i \in Late(x)}
Overtaken(x) == {t \in Threads : point[t] # "idle" /\ now[t] <= x}
OldHead(x) == Attempts > 0 /\ Oldest <= x

FewLate(x) ==
    Fresh(x) => Cardinality(Late(x)) + Cardinality(Overtaken(x)) <= Cardinality(Threads) - 1

FewLost(x) ==
    Fresh(x) =>
        Cardinality(Lost(x)) + (IF OldHead(x) THEN 0 ELSE Cardinality(Popping))
            <= (Cardinality(Threads) - 1) * (1 + Cardinality(Passed(x)))

Instants == (monotonic - Window) .. (monotonic - 1)

CommittedBound ==
    Attempts + Cardinality(Committed) <= Limit + Cardinality(Threads) - 1

LimiterInv ==
    /\ LimiterTypeOK
    /\ ReadingsPast
    /\ CommittedBound
    /\ \A x \in Instants : FewLate(x) /\ FewLost(x)

-------------------------------------------------------------------------------
(* The number of threads and of committed threads are natural numbers.       *)
LEMMA CommittedFinite ==
    /\ Cardinality(Threads) \in Nat \ {0}
    /\ IsFiniteSet(Committed)
    /\ Cardinality(Committed) \in Nat
    /\ Cardinality(Committed) <= Cardinality(Threads)
<1>1. Committed \subseteq Threads
  BY DEF Committed
<1>2. IsFiniteSet(Committed) /\ Cardinality(Committed) <= Cardinality(Threads)
  BY <1>1, ThreadsAssumption, FS_Subset
<1>3. Cardinality(Threads) \in Nat /\ Cardinality(Committed) \in Nat
  BY <1>2, ThreadsAssumption, FS_CardinalityType
<1>4. Cardinality(Threads) # 0
  BY ThreadsAssumption, FS_EmptySet
<1> QED
  BY <1>2, <1>3, <1>4

(* The limiter starts empty.                                                 *)
LEMMA LimiterInitInvariant == LimiterInit => LimiterInv
<1> SUFFICES ASSUME LimiterInit PROVE LimiterInv
  OBVIOUS
<1>1. LimiterTypeOK
  BY DEF LimiterInit, LimiterTypeOK
<1>2. ReadingsPast
  BY DEF LimiterInit, ReadingsPast
<1>3. Committed = {}
  BY DEF LimiterInit, Committed
<1>4. CommittedBound
  <2>1. Cardinality(Committed) = 0
    BY <1>3, FS_EmptySet
  <2>2. Attempts = 0
    BY DEF LimiterInit, Attempts
  <2> QED
    BY <2>1, <2>2, CommittedFinite, LimitAssumption DEF CommittedBound
<1>5. \A x : FewLate(x) /\ FewLost(x)
  BY DEF LimiterInit, FewLate, FewLost, Fresh
<1> QED
  BY <1>1, <1>2, <1>4, <1>5 DEF LimiterInv

-------------------------------------------------------------------------------
(* Every step keeps the types.                                               *)
LEMMA TypeStep == LimiterInv /\ [LimiterNext]_limiterVars => LimiterTypeOK'
<1> SUFFICES ASSUME LimiterInv, [LimiterNext]_limiterVars PROVE LimiterTypeOK'
  OBVIOUS
<1> USE DEF LimiterInv, LimiterTypeOK, Attempts
<1>1. CASE LimiterTick \/ UNCHANGED limiterVars
  BY <1>1 DEF LimiterTick, limiterVars
<1>2. ASSUME NEW t \in Threads, ReadClock(t) \/ Test(t) \/ Measure(t) PROVE LimiterTypeOK'
  <2>1. CASE ReadClock(t)
    BY <2>1 DEF ReadClock
  <2>2. CASE Test(t)
    BY <2>2 DEF Test
  <2>3. CASE Measure(t)
    BY <2>3 DEF Measure
  <2> QED
    BY <1>2, <2>1, <2>2, <2>3
<1>3. ASSUME NEW t \in Threads, Popleft(t) PROVE LimiterTypeOK'
  BY <1>3 DEF Popleft
<1>4. ASSUME NEW t \in Threads, Admit(t) PROVE LimiterTypeOK'
  BY <1>4 DEF Admit, Leave
<1>5. ASSUME NEW t \in Threads, PopEmpty(t) \/ Reject(t) PROVE LimiterTypeOK'
  <2>1. CASE PopEmpty(t)
    BY <2>1 DEF PopEmpty, Leave
  <2>2. CASE Reject(t)
    BY <2>2 DEF Reject, Leave
  <2> QED
    BY <1>5, <2>1, <2>2
<1> QED
  BY <1>1, <1>2, <1>3, <1>4, <1>5 DEF LimiterNext, Check

(* No thread holds a reading from the future, and none is in the deque.      *)
LEMMA ClockStep == LimiterInv /\ [LimiterNext]_limiterVars => ReadingsPast'
<1> SUFFICES ASSUME LimiterInv, [LimiterNext]_limiterVars PROVE ReadingsPast'
  OBVIOUS
<1> USE DEF LimiterInv, LimiterTypeOK, ReadingsPast
<1>1. CASE LimiterTick \/ UNCHANGED limiterVars
  BY <1>1 DEF LimiterTick, limiterVars
<1>2. ASSUME NEW t \in Threads, ReadClock(t) PROVE ReadingsPast'
  BY <1>2 DEF ReadClock
<1>3. ASSUME NEW t \in Threads, Test(t) \/ Popleft(t) \/ Measure(t) PROVE ReadingsPast'
  BY <1>3 DEF Test, Popleft, Measure
<1>4. ASSUME NEW t \in Threads, Admit(t) PROVE ReadingsPast'
  BY <1>4 DEF Admit, Leave
<1>5. ASSUME NEW t \in Threads, PopEmpty(t) \/ Reject(t) PROVE ReadingsPast'
  <2>1. CASE PopEmpty(t)
    BY <2>1 DEF PopEmpty, Leave
  <2>2. CASE Reject(t)
    BY <2>2 DEF Reject, Leave
  <2> QED
    BY <1>5, <2>1, <2>2
<1> QED
  BY <1>1, <1>2, <1>3, <1>4, <1>5 DEF LimiterNext, Check

(* Attempts and committed threads together stay within the bound.            *)
LEMMA BoundStep == LimiterInv /\ [LimiterNext]_limiterVars => CommittedBound'
<1> SUFFICES ASSUME LimiterInv, [LimiterNext]_limiterVars PROVE CommittedBound'
  OBVIOUS
<1> USE CommittedFinite, LimitAssumption DEF LimiterInv, LimiterTypeOK, CommittedBound, Attempts
<1>1. CASE LimiterTick
  <2>1. Committed' = Committed
    BY <1>1 DEF LimiterTick, Committed
  <2> QED
    BY <1>1, <2>1 DEF LimiterTick
<1>3. ASSUME NEW t \in Threads, ReadClock(t) PROVE CommittedBound'
  <2>1. Committed' = Committed
    BY <1>3 DEF ReadClock, Committed
  <2> QED
    BY <1>3, <2>1 DEF ReadClock
<1>4. ASSUME NEW t \in Threads, Test(t) \/ Popleft(t) \/ PopEmpty(t) PROVE CommittedBound'
  <2>1. Committed' = Committed
    BY <1>4 DEF Test, Popleft, PopEmpty, Leave, Committed
  <2>2. admitted' = admitted /\ (purged' = purged \/ purged' = purged + 1)
    BY <1>4 DEF Test, Popleft, PopEmpty
  <2> QED
    BY <2>1, <2>2
<1>5. ASSUME NEW t \in Threads, Measure(t) PROVE CommittedBound'
  <2>1. CASE Attempts < Limit
    <3>1. Committed' \subseteq Threads
      BY DEF Committed
    <3>2. Cardinality(Committed') <= Cardinality(Threads) /\ Cardinality(Committed') \in Nat
      BY <3>1, ThreadsAssumption, FS_Subset, FS_CardinalityType
    <3> QED
      BY <1>5, <2>1, <3>2 DEF Measure
  <2>2. CASE Attempts >= Limit
    <3>1. Committed' = Committed
      BY <1>5, <2>2 DEF Measure, Committed
    <3> QED
      BY <1>5, <3>1 DEF Measure
  <2> QED
    BY <2>1, <2>2
<1>6. ASSUME NEW t \in Threads, Admit(t) PROVE CommittedBound'
  <2>1. t \in Committed
    BY <1>6 DEF Admit, Full, Committed
  <2>2. Committed' = Committed \ {t}
    BY <1>6 DEF Admit, Leave, Committed
  <2>3. Cardinality(Committed') = Cardinality(Committed) - 1
    BY <2>1, <2>2, FS_RemoveElement
  <2>4. Len(admitted') = Len(admitted) + 1 /\ purged' = purged
    BY <1>6 DEF Admit
  <2> QED
    BY <2>3, <2>4
<1>7. ASSUME NEW t \in Threads, Reject(t) PROVE CommittedBound'
  <2>1. Committed' = Committed
    BY <1>7 DEF Reject, Full, Leave, Committed
  <2> QED
    BY <1>7, <2>1 DEF Reject
<1>8. CASE UNCHANGED limiterVars
  <2>1. Committed' = Committed
    BY <1>8 DEF limiterVars, Committed
  <2> QED
    BY <1>8, <2>1 DEF limiterVars
<1> QED
  BY <1>1, <1>3, <1>4, <1>5, <1>6, <1>7, <1>8 DEF LimiterNext, Check

(* The sets seen from an instant are finite.                                 *)
LEMMA SeenFinite ==
    ASSUME LimiterTypeOK, NEW x \in Int
    PROVE  /\ IsFiniteSet(Lost(x)) /\ Cardinality(Lost(x)) \in Nat
           /\ IsFiniteSet(Late(x)) /\ Cardinality(Late(x)) \in Nat
           /\ IsFiniteSet(Passed(x)) /\ Cardinality(Passed(x)) \in Nat
           /\ Cardinality(Passed(x)) <= Cardinality(Late(x))
           /\ IsFiniteSet(Overtaken(x)) /\ Cardinality(Overtaken(x)) \in Nat
           /\ IsFiniteSet(Popping) /\ Cardinality(Popping) \in Nat
           /\ Cardinality(Popping) <= Cardinality(Threads)
<1>1. IsFiniteSet(1 .. Len(admitted)) /\ IsFiniteSet(1 .. purged)
  BY FS_Interval DEF LimiterTypeOK
<1>2. /\ Lost(x) \subseteq 1 .. purged /\ Late(x) \subseteq 1 .. Len(admitted)
      /\ Passed(x) \subseteq Late(x) /\ Overtaken(x) \subseteq Threads /\ Popping \subseteq Threads
  BY DEF Lost, Late, Passed, Overtaken, Popping
<1> HIDE DEF LimiterTypeOK
<1>3. IsFiniteSet(Lost(x)) /\ IsFiniteSet(Late(x))
  BY <1>1, <1>2, FS_Subset
<1>4. IsFiniteSet(Passed(x)) /\ Cardinality(Passed(x)) <= Cardinality(Late(x))
  BY <1>2, <1>3, FS_Subset
<1>5. /\ IsFiniteSet(Overtaken(x)) /\ IsFiniteSet(Popping)
      /\ Cardinality(Popping) <= Cardinality(Threads)
  BY <1>2, ThreadsAssumption, FS_Subset
<1> QED
  BY <1>3, <1>4, <1>5, FS_CardinalityType

(* All threads but t are one fewer than all.                                 *)
LEMMA OtherThreads ==
    ASSUME NEW S \in SUBSET Threads, NEW t \in Threads, t \notin S
    PROVE  Cardinality(S) <= Cardinality(Threads) - 1 /\ Cardinality(S) \in Nat
<1>1. S \subseteq Threads \ {t}
  OBVIOUS
<1>2. IsFiniteSet(Threads \ {t}) /\ Cardinality(Threads \ {t}) = Cardinality(Threads) - 1
  BY ThreadsAssumption, FS_RemoveElement
<1> QED
  BY <1>1, <1>2, FS_Subset, FS_CardinalityType

(* Another stale attempt that was removed raises the bound by one for every  *)
(* other thread, and the bound is never below that.                          *)
LEMMA BoundGrows ==
    ASSUME NEW n \in Nat, NEW c \in Nat
    PROVE  n * (1 + (c + 1)) = n * (1 + c) + n /\ n * (1 + c) >= n
OBVIOUS

(* A step that leaves the deque alone and adds no thread to those that were  *)
(* overtaken or are about to pop preserves what is said about an instant.    *)
LEMMA FewStays ==
    ASSUME LimiterInv, LimiterTypeOK', NEW x \in Instants,
           admitted' = admitted, purged' = purged,
           Overtaken(x)' \subseteq Overtaken(x),
           Popping' \subseteq Popping \/ OldHead(x)
    PROVE  FewLate(x)' /\ FewLost(x)'
<1> DEFINE others == Cardinality(Threads) - 1
<1>1. x \in Int /\ LimiterTypeOK /\ FewLate(x) /\ FewLost(x)
  BY WindowAssumption DEF LimiterInv, LimiterTypeOK, Instants
<1>2. /\ Fresh(x)' = Fresh(x) /\ Lost(x)' = Lost(x) /\ Late(x)' = Late(x)
      /\ Passed(x)' = Passed(x) /\ (OldHead(x)' <=> OldHead(x))
  BY DEF Fresh, Lost, Late, Passed, OldHead, Attempts, Oldest
<1>3. Cardinality(Overtaken(x)') <= Cardinality(Overtaken(x)) /\ Cardinality(Overtaken(x)') \in Nat
  BY <1>1, SeenFinite, FS_Subset, FS_CardinalityType
<1>4. FewLate(x)'
  BY <1>1, <1>2, <1>3, SeenFinite, CommittedFinite DEF FewLate
<1>5. Cardinality(Lost(x)) \in Nat /\ others \in Nat /\ Cardinality(Passed(x)) \in Nat
      /\ Cardinality(Popping) \in Nat
  BY <1>1, SeenFinite, CommittedFinite
<1>6. others * (1 + Cardinality(Passed(x))) \in Nat
  BY <1>5
<1>7. Fresh(x) => Cardinality(Lost(x)) + (IF OldHead(x) THEN 0 ELSE Cardinality(Popping))
                      <= others * (1 + Cardinality(Passed(x)))
  BY <1>1 DEF FewLost
<1> HIDE DEF others
<1>8. Fresh(x) => Cardinality(Lost(x)) + (IF OldHead(x) THEN 0 ELSE Cardinality(Popping'))
                      <= others * (1 + Cardinality(Passed(x)))
  <2>1. CASE OldHead(x)
    BY <1>7, <2>1
  <2>2. CASE ~OldHead(x)
    <3>1. Cardinality(Popping') <= Cardinality(Popping) /\ Cardinality(Popping') \in Nat
      BY <1>1, <2>2, SeenFinite, FS_Subset, FS_CardinalityType
    <3> QED
      BY <1>5, <1>6, <1>7, <2>2, <3>1
  <2> QED
    BY <2>1, <2>2
<1>9. FewLost(x)'
  BY <1>2, <1>8 DEF FewLost, others
<1> QED
  BY <1>4, <1>9

(* popleft removes a stale attempt, which may let the others that tested it  *)
(* remove fresh ones, or a fresh one, and is then one thread fewer to do so. *)
LEMMA FewPopleft ==
    ASSUME LimiterInv, LimiterTypeOK', NEW x \in Instants, NEW t \in Threads, Popleft(t)
    PROVE  FewLate(x)' /\ FewLost(x)'
<1> DEFINE others == Cardinality(Threads) - 1
           head == purged + 1
<1>1. x \in Int /\ LimiterTypeOK /\ FewLate(x) /\ FewLost(x)
  BY WindowAssumption DEF LimiterInv, LimiterTypeOK, Instants
<1>2. /\ monotonic' = monotonic /\ admitted' = admitted /\ purged' = head /\ now' = now
      /\ head \in 1 .. Len(admitted) /\ admitted[head] \in Nat /\ purged \in Nat
  BY <1>1 DEF Popleft, Attempts, LimiterTypeOK
<1>3. Fresh(x)' = Fresh(x) /\ Late(x)' = Late(x) /\ Overtaken(x)' = Overtaken(x)
  BY <1>2 DEF Popleft, Fresh, Late, Overtaken, LimiterTypeOK, LimiterInv
<1>4. FewLate(x)'
  BY <1>1, <1>3 DEF FewLate
<1>5. /\ t \in Popping /\ Popping' = Popping \ {t}
      /\ Cardinality(Popping') = Cardinality(Popping) - 1
      /\ Cardinality(Popping') \in Nat /\ Cardinality(Popping') <= others
  <2>1. t \in Popping /\ Popping' = Popping \ {t}
    BY <1>1 DEF Popping, Popleft, LimiterTypeOK
  <2>2. Popping' \in SUBSET Threads /\ t \notin Popping'
    BY <2>1 DEF Popping
  <2>3. Cardinality(Popping') <= others /\ Cardinality(Popping') \in Nat
    BY <2>2, OtherThreads
  <2> QED
    BY <1>1, <2>1, <2>3, SeenFinite, FS_RemoveElement
<1>6. others \in Nat /\ Cardinality(Passed(x)) \in Nat /\ Cardinality(Lost(x)) \in Nat
  BY <1>1, SeenFinite, CommittedFinite
<1>7. 1 .. head = (1 .. purged) \cup {head} /\ head \notin 1 .. purged
  BY <1>2
<1>8. OldHead(x) <=> admitted[head] <= x
  BY <1>1, <1>2 DEF OldHead, Attempts, Oldest, LimiterTypeOK
<1>9. SUFFICES ASSUME Fresh(x)
               PROVE  Cardinality(Lost(x)') + Cardinality(Popping')
                          <= others * (1 + Cardinality(Passed(x)'))
  <2>1. Cardinality(Lost(x)') \in Nat /\ Cardinality(Passed(x)') \in Nat
    <3>1. Lost(x)' \subseteq 1 .. purged' /\ Passed(x)' \subseteq 1 .. purged'
      BY DEF Lost, Passed
    <3>2. IsFiniteSet(1 .. purged')
      BY <1>2, FS_Interval
    <3> QED
      BY <3>1, <3>2, FS_Subset, FS_CardinalityType
  <2>2. others * (1 + Cardinality(Passed(x)')) \in Nat
    BY <1>6, <2>1
  <2> HIDE DEF others
  <2> QED
    BY <1>3, <1>4, <1>5, <2>1, <2>2 DEF FewLost, others
<1> HIDE DEF others
<1>10. CASE admitted[head] > x
  <2>1. Lost(x)' = Lost(x) \cup {head} /\ head \notin Lost(x)
    BY <1>2, <1>7, <1>10 DEF Lost
  <2>2. Passed(x)' = Passed(x)
    <3>1. head \notin Late(x)
      BY <1>1, <1>2, <1>10 DEF Late
    <3> QED
      BY <1>2, <1>3, <1>7, <3>1 DEF Passed
  <2>3. Cardinality(Lost(x)') = Cardinality(Lost(x)) + 1
    BY <1>1, <2>1, SeenFinite, FS_AddElement
  <2>4. Cardinality(Lost(x)) + Cardinality(Popping) <= others * (1 + Cardinality(Passed(x)))
    BY <1>1, <1>2, <1>8, <1>9, <1>10 DEF FewLost, others
  <2>5. Cardinality(Popping) \in Nat
    BY <1>1, SeenFinite
  <2>6. Cardinality(Lost(x)') + Cardinality(Popping') = Cardinality(Lost(x)) + Cardinality(Popping)
    BY <1>5, <1>6, <2>3, <2>5
  <2> QED
    BY <2>2, <2>4, <2>6
<1>11. CASE admitted[head] <= x
  <2>1. Lost(x)' = Lost(x)
    BY <1>1, <1>2, <1>7, <1>11 DEF Lost
  <2>2. CASE \E j \in 1 .. head : admitted[j] > x
    <3>1. head \in Late(x)
      BY <1>2, <1>11, <2>2 DEF Late
    <3>2. Passed(x)' = Passed(x) \cup {head} /\ head \notin Passed(x)
      BY <1>2, <1>3, <1>7, <3>1 DEF Passed
    <3>3. Cardinality(Passed(x)') = Cardinality(Passed(x)) + 1
      BY <1>1, <3>2, SeenFinite, FS_AddElement
    <3>4. Cardinality(Lost(x)) <= others * (1 + Cardinality(Passed(x)))
      BY <1>1, <1>6, <1>8, <1>9, <1>11 DEF FewLost, others
    <3>5. others * (1 + Cardinality(Passed(x)')) = others * (1 + Cardinality(Passed(x))) + others
      BY <1>6, <3>3, BoundGrows
    <3>6. others * (1 + Cardinality(Passed(x))) \in Nat
      BY <1>6
    <3> QED
      BY <1>5, <1>6, <2>1, <3>4, <3>5, <3>6
  <2>3. CASE ~\E j \in 1 .. head : admitted[j] > x
    <3>1. Lost(x)' = {} /\ Passed(x)' = {}
      BY <1>2, <1>3, <1>7, <2>3 DEF Lost, Passed, Late
    <3>2. Cardinality(Lost(x)') = 0 /\ Cardinality(Passed(x)') = 0
      BY <3>1, FS_EmptySet
    <3> QED
      BY <1>5, <1>6, <3>2, BoundGrows
  <2> QED
    BY <2>2, <2>3
<1> QED
  BY <1>1, <1>2, <1>10, <1>11

(* An append puts at most the one stale attempt of an overtaken thread       *)
(* behind the fresh ones; the first fresh one is appended by a thread that   *)
(* was not overtaken and is not about to pop.                                *)
LEMMA FewAdmit ==
    ASSUME LimiterInv, LimiterTypeOK', NEW x \in Instants, NEW t \in Threads, Admit(t)
    PROVE  FewLate(x)' /\ FewLost(x)'
<1> DEFINE others == Cardinality(Threads) - 1
           last == Len(admitted) + 1
<1>1. x \in Int /\ LimiterTypeOK /\ FewLate(x) /\ FewLost(x)
  BY WindowAssumption DEF LimiterInv, LimiterTypeOK, Instants
<1>2. /\ purged' = purged /\ purged \in 0 .. Len(admitted) /\ Len(admitted) \in Nat
      /\ Len(admitted') = last /\ admitted'[last] = now[t] /\ now[t] \in Nat
      /\ \A i \in 1 .. Len(admitted) : admitted'[i] = admitted[i] /\ admitted[i] \in Nat
      /\ 1 .. last = (1 .. Len(admitted)) \cup {last} /\ last \notin 1 .. Len(admitted)
      /\ point[t] = "decide"
  BY <1>1 DEF Admit, LimiterTypeOK
<1>3. Lost(x)' = Lost(x)
  BY <1>2 DEF Lost
<1>4. Overtaken(x)' = Overtaken(x) \ {t}
  BY <1>1 DEF Admit, Leave, Overtaken, LimiterTypeOK
<1>5. Popping' = Popping /\ t \notin Popping
  BY <1>1 DEF Admit, Leave, Popping, LimiterTypeOK
<1>6. /\ others \in Nat /\ Cardinality(Passed(x)) \in Nat /\ Cardinality(Lost(x)) \in Nat
      /\ Cardinality(Popping) \in Nat /\ Cardinality(Late(x)) \in Nat
      /\ Cardinality(Overtaken(x)) \in Nat
  BY <1>1, SeenFinite, CommittedFinite
<1>7. Cardinality(Popping) <= others /\ Cardinality(Overtaken(x)') <= others
      /\ Cardinality(Overtaken(x)') \in Nat
  <2>1. Popping \in SUBSET Threads /\ Overtaken(x)' \in SUBSET Threads /\ t \notin Overtaken(x)'
    BY <1>4 DEF Popping, Overtaken
  <2> QED
    BY <1>5, <2>1, OtherThreads
<1>8. CASE Fresh(x)
  <2>1. Late(x)' = IF now[t] <= x THEN Late(x) \cup {last} ELSE Late(x)
    <3>1. \A i \in 1 .. Len(admitted) : i \in Late(x)' <=> i \in Late(x)
      BY <1>2 DEF Late
    <3>2. last \in Late(x)' <=> now[t] <= x
      BY <1>2, <1>8 DEF Late, Fresh
    <3>3. Late(x) \subseteq 1 .. Len(admitted) /\ Late(x)' \subseteq 1 .. last
      BY <1>2 DEF Late
    <3>4. last \notin Late(x)
      BY <1>2, <3>3
    <3> HIDE DEF last
    <3>5. \A i : i \in Late(x)' <=> i \in Late(x) \/ (i = last /\ now[t] <= x)
      BY <1>2, <3>1, <3>2, <3>3, <3>4
    <3>6. CASE now[t] <= x
      BY <3>5, <3>6
    <3>7. CASE ~(now[t] <= x)
      BY <3>5, <3>7
    <3> QED
      BY <3>6, <3>7
  <2>2. last \notin Late(x)
    BY <1>2 DEF Late
  <2>3. Passed(x)' = Passed(x)
    BY <1>2, <2>1, <2>2 DEF Passed
  <2>4. FewLate(x)'
    <3>1. CASE now[t] <= x
      <4>1. t \in Overtaken(x)
        BY <1>2, <3>1 DEF Overtaken
      <4>2. Cardinality(Overtaken(x)') = Cardinality(Overtaken(x)) - 1
        BY <1>1, <1>4, <4>1, SeenFinite, FS_RemoveElement
      <4>3. Cardinality(Late(x)') = Cardinality(Late(x)) + 1
        BY <1>1, <2>1, <2>2, <3>1, SeenFinite, FS_AddElement
      <4> QED
        BY <1>1, <1>6, <1>8, <4>2, <4>3 DEF FewLate
    <3>2. CASE ~(now[t] <= x)
      <4>1. t \notin Overtaken(x)
        BY <3>2 DEF Overtaken
      <4>2. Overtaken(x)' = Overtaken(x) /\ Late(x)' = Late(x)
        BY <1>4, <2>1, <3>2, <4>1
      <4> QED
        BY <1>1, <1>8, <4>2 DEF FewLate
    <3> QED
      BY <3>1, <3>2
  <2>5. FewLost(x)'
    <3>1. OldHead(x) => OldHead(x)'
      BY <1>1, <1>2 DEF OldHead, Attempts, Oldest
    <3>2. Cardinality(Lost(x)) + (IF OldHead(x) THEN 0 ELSE Cardinality(Popping))
              <= others * (1 + Cardinality(Passed(x)))
      BY <1>1, <1>8 DEF FewLost
    <3>3. others * (1 + Cardinality(Passed(x))) \in Nat
      BY <1>6
    <3> HIDE DEF others
    <3>4. Cardinality(Lost(x)) + (IF OldHead(x)' THEN 0 ELSE Cardinality(Popping))
              <= others * (1 + Cardinality(Passed(x)))
      BY <1>6, <3>1, <3>2, <3>3
    <3> QED
      BY <1>3, <1>5, <2>3, <3>4 DEF FewLost, others
  <2> QED
    BY <2>4, <2>5
<1>9. CASE ~Fresh(x) /\ Fresh(x)'
  <2>1. now[t] > x
    BY <1>1, <1>2, <1>9 DEF Fresh
  <2>2. Late(x)' = {}
    <3>1. \A i \in 1 .. Len(admitted) : i \notin Late(x)'
      BY <1>1, <1>2, <1>9 DEF Late, Fresh
    <3>2. last \notin Late(x)'
      BY <1>1, <1>2, <2>1 DEF Late
    <3> QED
      BY <1>2, <3>1, <3>2 DEF Late
  <2>3. Lost(x) = {} /\ Passed(x)' = {}
    BY <1>2, <1>9, <2>2 DEF Lost, Fresh, Passed
  <2>4. Cardinality(Late(x)') = 0 /\ Cardinality(Lost(x)) = 0 /\ Cardinality(Passed(x)') = 0
    BY <2>2, <2>3, FS_EmptySet
  <2>5. FewLate(x)'
    BY <1>7, <2>4 DEF FewLate
  <2>6. (IF OldHead(x)' THEN 0 ELSE Cardinality(Popping)) <= others
    BY <1>6, <1>7
  <2>7. FewLost(x)'
    BY <1>3, <1>5, <1>6, <2>4, <2>6 DEF FewLost
  <2> QED
    BY <2>5, <2>7
<1>10. CASE ~Fresh(x)'
  BY <1>10 DEF FewLate, FewLost
<1> QED
  BY <1>8, <1>9, <1>10

(* Every step preserves what is said about the instants of the window.       *)
LEMMA FewStep ==
    ASSUME LimiterInv, [LimiterNext]_limiterVars, LimiterTypeOK', ReadingsPast'
    PROVE  (\A x \in Instants : FewLate(x) /\ FewLost(x))'
<1>1. LimiterTypeOK /\ ReadingsPast
  BY DEF LimiterInv
<1>2. CASE LimiterTick
  <2> SUFFICES ASSUME NEW x \in Instants' PROVE FewLate(x)' /\ FewLost(x)'
    OBVIOUS
  <2>1. /\ monotonic' = monotonic + 1 /\ admitted' = admitted /\ purged' = purged
        /\ point' = point /\ now' = now
    BY <1>2 DEF LimiterTick
  <2>2. CASE x = monotonic
    <3>1. ~Fresh(x)'
      BY <1>1, <2>1, <2>2 DEF Fresh, ReadingsPast, LimiterTypeOK
    <3> QED
      BY <3>1 DEF FewLate, FewLost
  <2>3. CASE x # monotonic
    <3>1. x \in Instants
      BY <1>1, <2>1, <2>3, WindowAssumption DEF Instants, LimiterTypeOK
    <3>2. Overtaken(x)' = Overtaken(x) /\ Popping' = Popping
      BY <2>1 DEF Overtaken, Popping
    <3> QED
      BY <2>1, <3>1, <3>2, FewStays
  <2> QED
    BY <2>2, <2>3
<1>3. CASE monotonic' = monotonic
  <2> SUFFICES ASSUME NEW x \in Instants PROVE FewLate(x)' /\ FewLost(x)'
    BY <1>3 DEF Instants
  <2>1. x \in Int /\ x < monotonic /\ x >= monotonic - Window
    BY <1>1, WindowAssumption DEF LimiterTypeOK, Instants
  <2>2. CASE UNCHANGED limiterVars
    <3>1. /\ admitted' = admitted /\ purged' = purged
          /\ Overtaken(x)' = Overtaken(x) /\ Popping' = Popping
      BY <2>2 DEF limiterVars, Overtaken, Popping
    <3> QED
      BY <3>1, FewStays
  <2>3. ASSUME NEW t \in Threads, ReadClock(t) PROVE FewLate(x)' /\ FewLost(x)'
    <3>1. Overtaken(x)' \subseteq Overtaken(x)
      BY <1>1, <2>1, <2>3 DEF ReadClock, Overtaken, LimiterTypeOK
    <3>2. Popping' \subseteq Popping
      BY <1>1, <2>3 DEF ReadClock, Popping, LimiterTypeOK
    <3>3. admitted' = admitted /\ purged' = purged
      BY <2>3 DEF ReadClock
    <3> QED
      BY <3>1, <3>2, <3>3, FewStays
  <2>4. ASSUME NEW t \in Threads, Test(t) PROVE FewLate(x)' /\ FewLost(x)'
    <3>1. Overtaken(x)' \subseteq Overtaken(x)
      BY <1>1, <2>4 DEF Test, Overtaken, LimiterTypeOK
    <3>2. OldHead(x)
      <4>1. Attempts > 0 /\ Oldest <= now[t] - Window /\ now[t] \in Nat /\ now[t] <= monotonic
        BY <1>1, <2>4 DEF Test, Expired, ReadingsPast, LimiterTypeOK
      <4>2. Oldest \in Nat
        <5>1. admitted \in Seq(Nat) /\ purged \in Nat /\ Len(admitted) \in Nat
          BY <1>1 DEF LimiterTypeOK
        <5>2. purged + 1 \in 1 .. Len(admitted)
          BY <4>1, <5>1 DEF Attempts
        <5> QED
          BY <5>1, <5>2 DEF Oldest
      <4> QED
        BY <1>1, <2>1, <4>1, <4>2, WindowAssumption DEF OldHead, LimiterTypeOK
    <3>3. admitted' = admitted /\ purged' = purged
      BY <2>4 DEF Test
    <3> QED
      BY <3>1, <3>2, <3>3, FewStays
  <2>5. ASSUME NEW t \in Threads, Popleft(t) PROVE FewLate(x)' /\ FewLost(x)'
    BY <2>5, FewPopleft
  <2>6. ASSUME NEW t \in Threads, Admit(t) PROVE FewLate(x)' /\ FewLost(x)'
    BY <2>6, FewAdmit
  <2>7. ASSUME NEW t \in Threads, PopEmpty(t) \/ Measure(t) \/ Reject(t)
        PROVE  FewLate(x)' /\ FewLost(x)'
    <3>1. Overtaken(x)' \subseteq Overtaken(x)
      BY <1>1, <2>7 DEF PopEmpty, Measure, Reject, Leave, Overtaken, LimiterTypeOK
    <3>2. Popping' \subseteq Popping
      BY <1>1, <2>7 DEF PopEmpty, Measure, Reject, Leave, Popping, LimiterTypeOK
    <3>3. admitted' = admitted /\ purged' = purged
      BY <2>7 DEF PopEmpty, Measure, Reject
    <3> QED
      BY <3>1, <3>2, <3>3, FewStays
  <2> QED
    BY <1>3, <2>2, <2>3, <2>4, <2>5, <2>6, <2>7, <1>1 DEF LimiterNext, Check, LimiterTick, LimiterTypeOK
<1>4. LimiterTick \/ monotonic' = monotonic
  BY DEF LimiterNext, Check, limiterVars, ReadClock, Test, Popleft, PopEmpty, Measure, Admit, Reject
<1> QED
  BY <1>2, <1>3, <1>4

(* The invariant holds in every reachable state.                             *)
THEOREM InvariantHolds == LimiterSpec => []LimiterInv
<1>1. LimiterInit => LimiterInv
  BY LimiterInitInvariant
<1>2. LimiterInv /\ [LimiterNext]_limiterVars => LimiterInv'
  BY TypeStep, ClockStep, BoundStep, FewStep DEF LimiterInv
<1> QED
  BY <1>1, <1>2, PTL DEF LimiterSpec

-------------------------------------------------------------------------------
(* The attempts kept for a key never exceed the limit by more than one for   *)
(* every thread but one, however many threads there are.                     *)
THEOREM MemoryIsBounded == LimiterSpec => []MemoryBound
<1>1. LimiterInv => MemoryBound
  BY CommittedFinite, LimitAssumption
     DEF LimiterInv, LimiterTypeOK, CommittedBound, MemoryBound, Attempts
<1> QED
  BY <1>1, InvariantHolds, PTL

(* In a deque that is in order, later entries are no earlier.                 *)
LEMMA OrderedSuffix ==
    ASSUME NEW s \in Seq(Nat), NEW k \in 1 .. Len(s), NEW i \in 1 .. Len(s), k <= i,
           \A g, h \in DOMAIN s : g < h => s[g] <= s[h]
    PROVE  s[k] <= s[i] /\ s[i] \in Nat /\ s[k] \in Nat
<1>1. s[i] \in Nat /\ s[k] \in Nat /\ i \in DOMAIN s /\ k \in DOMAIN s
  OBVIOUS
<1>2. CASE k < i
  BY <1>1, <1>2
<1>3. CASE k = i
  BY <1>1, <1>3
<1> QED
  BY <1>1, <1>2, <1>3

(* Neither do the admissions within a window grow without bound: what was    *)
(* removed although it counts is bounded by the threads that can have tested *)
(* a stale attempt, and by the stale attempts there can be (auth.py 55-62).  *)
THEOREM BurstIsBounded == LimiterSpec => []BurstBound
<1>1. LimiterInv => BurstBound
  <2> SUFFICES ASSUME LimiterInv PROVE BurstBound
    OBVIOUS
  <2> DEFINE x == monotonic - Window
             recent == AdmittedAfter(x)
             kept == (purged + 1) .. Len(admitted)
             others == Cardinality(Threads) - 1
  <2>1. x \in Int /\ x \in Instants /\ LimiterTypeOK /\ FewLate(x) /\ FewLost(x)
    BY WindowAssumption DEF LimiterInv, LimiterTypeOK, Instants
  <2> HIDE DEF x
  <2>2. recent \subseteq Lost(x) \cup kept
    BY <2>1 DEF AdmittedAfter, Lost, LimiterTypeOK
  <2>3. IsFiniteSet(kept) /\ Cardinality(kept) = Attempts
    <3>1. purged + 1 \in Int /\ Len(admitted) \in Int /\ purged <= Len(admitted)
      BY <2>1 DEF LimiterTypeOK
    <3>2. IsFiniteSet(kept)
          /\ Cardinality(kept) = IF purged + 1 > Len(admitted) THEN 0
                                 ELSE Len(admitted) - (purged + 1) + 1
      BY <3>1, FS_Interval
    <3>3. Len(admitted) - (purged + 1) + 1 = Attempts
          /\ (purged + 1 > Len(admitted) => Attempts = 0)
      BY <2>1, <3>1 DEF LimiterTypeOK, Attempts
    <3> HIDE DEF kept
    <3> QED
      BY <3>2, <3>3
  <2>4. /\ Cardinality(Lost(x)) \in Nat /\ IsFiniteSet(Lost(x))
        /\ Cardinality(Passed(x)) \in Nat /\ others \in Nat
        /\ Cardinality(Popping) \in Nat
        /\ Cardinality(Late(x)) \in Nat /\ Cardinality(Passed(x)) <= Cardinality(Late(x))
        /\ Cardinality(Overtaken(x)) \in Nat
    BY <2>1, SeenFinite, CommittedFinite
  <2>5. Cardinality(recent) <= Cardinality(Lost(x)) + Attempts /\ Cardinality(recent) \in Nat
    <3> HIDE DEF recent, kept
    <3>1. /\ IsFiniteSet(Lost(x) \cup kept) /\ Cardinality(Lost(x) \cup kept) \in Nat
          /\ Cardinality(Lost(x) \cup kept) <= Cardinality(Lost(x)) + Cardinality(kept)
      <4>1. /\ IsFiniteSet(Lost(x) \cup kept) /\ IsFiniteSet(Lost(x) \cap kept)
            /\ Cardinality(Lost(x) \cup kept)
                   = Cardinality(Lost(x)) + Cardinality(kept) - Cardinality(Lost(x) \cap kept)
        BY <2>3, <2>4, FS_Union, FS_Intersection
      <4>2. Cardinality(Lost(x) \cup kept) \in Nat /\ Cardinality(Lost(x) \cap kept) \in Nat
            /\ Cardinality(kept) \in Nat
        BY <2>3, <4>1, FS_CardinalityType
      <4> QED
        BY <2>4, <4>1, <4>2
    <3>2. Cardinality(recent) <= Cardinality(Lost(x) \cup kept) /\ Cardinality(recent) \in Nat
      BY <2>2, <3>1, FS_Subset, FS_CardinalityType
    <3>3. Attempts \in Nat
      BY <2>1 DEF Attempts, LimiterTypeOK
    <3> QED
      BY <2>3, <2>4, <3>1, <3>2, <3>3
  <2>6. Attempts <= Limit + others /\ Attempts \in Nat
    BY CommittedFinite, LimitAssumption
       DEF LimiterInv, LimiterTypeOK, CommittedBound, Attempts
  <2>7. CASE ~Fresh(x)
    <3>1. recent = {}
      BY <2>7 DEF Fresh, AdmittedAfter
    <3>2. Cardinality(recent) = 0
      BY <3>1, FS_EmptySet
    <3>3. others * (Cardinality(Threads) + 1) \in Nat /\ 2 * others \in Nat
      BY <2>4, CommittedFinite
    <3> HIDE DEF others, recent
    <3>4. 0 <= Limit + others * (Cardinality(Threads) + 1) /\ 0 <= Limit + 2 * others
      BY <3>3, LimitAssumption
    <3> QED
      BY <3>2, <3>4 DEF BurstBound, others, recent, x
  <2>8. CASE Fresh(x)
    <3>1. Cardinality(Lost(x)) <= others * (1 + Cardinality(Passed(x)))
      <4>1. others * (1 + Cardinality(Passed(x))) \in Nat
        BY <2>4
      <4>2. Cardinality(Lost(x)) + (IF OldHead(x) THEN 0 ELSE Cardinality(Popping))
                <= others * (1 + Cardinality(Passed(x)))
        BY <2>1, <2>8 DEF FewLost
      <4> HIDE DEF others
      <4> QED
        BY <2>4, <4>1, <4>2
    <3>2. Cardinality(Passed(x)) <= others
      BY <2>1, <2>4, <2>8 DEF FewLate
    <3>3. Cardinality(recent) <= Limit + others * (Cardinality(Threads) + 1)
      <4>1. others * (1 + Cardinality(Passed(x))) <= others * Cardinality(Threads)
        <5>1. 1 + Cardinality(Passed(x)) <= Cardinality(Threads) /\ Cardinality(Threads) \in Nat
          BY <2>4, <3>2, CommittedFinite
        <5> HIDE DEF others
        <5>2. \A a, b, n \in Nat : a <= b => n * a <= n * b
          OBVIOUS
        <5> QED
          BY <2>4, <5>1, <5>2
      <4>2. others * (Cardinality(Threads) + 1) = others * Cardinality(Threads) + others
            /\ others * Cardinality(Threads) \in Nat
            /\ others * (1 + Cardinality(Passed(x))) \in Nat
        BY <2>4, CommittedFinite
      <4> HIDE DEF others, recent
      <4> QED
        BY <2>4, <2>5, <2>6, <3>1, <4>1, <4>2, LimitAssumption
    <3>4. InOrder => Cardinality(recent) <= Limit + 2 * others
      <4> SUFFICES ASSUME InOrder PROVE Cardinality(recent) <= Limit + 2 * others
        OBVIOUS
      <4>1. Passed(x) = {}
        <5>1. ASSUME NEW i \in 1 .. Len(admitted), NEW j \in 1 .. i, admitted[j] > x
              PROVE  ~(admitted[i] <= x)
          <6>1. admitted \in Seq(Nat) /\ j \in 1 .. Len(admitted) /\ i \in 1 .. Len(admitted) /\ j <= i
            BY <2>1 DEF LimiterTypeOK
          <6>2. admitted[j] <= admitted[i] /\ admitted[i] \in Nat /\ admitted[j] \in Nat
            BY <6>1, OrderedSuffix DEF InOrder
          <6> QED
            BY <2>1, <5>1, <6>2
        <5> QED
          BY <5>1 DEF Passed, Late
      <4>2. Cardinality(Passed(x)) = 0
        BY <4>1, FS_EmptySet
      <4> HIDE DEF others, recent
      <4>3. Cardinality(Lost(x)) <= others
        BY <2>4, <3>1, <4>2
      <4> QED
        BY <2>4, <2>5, <2>6, <4>3, LimitAssumption
    <3> HIDE DEF others, recent
    <3> QED
      BY <3>3, <3>4 DEF BurstBound, others, recent, x
  <2> QED
    BY <2>7, <2>8
<1> QED
  BY <1>1, InvariantHolds, PTL

-------------------------------------------------------------------------------
(* Every variable keeps its type: no more is removed than was appended.      *)
THEOREM LimiterTypeCorrect == LimiterSpec => []LimiterTypeOK
<1>1. LimiterInv => LimiterTypeOK
  BY DEF LimiterInv
<1> QED
  BY <1>1, InvariantHolds, PTL

(* A thread that is going to reject has measured a deque that was full of    *)
(* attempts within its window, and they are all still among the admissions.  *)
Deserved(t) ==
    point[t] = "decide" /\ Full(t) /\ InOrder
        => Cardinality(AdmittedAfter(now[t] - Window)) >= Limit

LEMMA AfterFinite ==
    ASSUME LimiterTypeOK, NEW instant
    PROVE  IsFiniteSet(AdmittedAfter(instant)) /\ Cardinality(AdmittedAfter(instant)) \in Nat
<1>1. Len(admitted) \in Int
  BY DEF LimiterTypeOK
<1>2. IsFiniteSet(1 .. Len(admitted)) /\ AdmittedAfter(instant) \subseteq 1 .. Len(admitted)
  BY <1>1, FS_Interval DEF AdmittedAfter
<1> QED
  BY <1>2, FS_Subset, FS_CardinalityType

LEMMA Later ==
    ASSUME NEW a \in Nat, NEW b \in Nat, NEW n \in Nat, a <= b, a > n - Window
    PROVE  b > n - Window
BY WindowAssumption

LEMMA DeservedStep ==
    ASSUME LimiterInv, LimiterInv', [LimiterNext]_limiterVars, NEW u \in Threads, Deserved(u)
    PROVE  Deserved(u)'
<1> USE DEF LimiterInv, LimiterTypeOK
<1>1. ASSUME UNCHANGED <<admitted, point[u], now[u], length[u]>> PROVE Deserved(u)'
  BY <1>1 DEF Deserved, Full, InOrder, AdmittedAfter
<1>2. CASE LimiterTick \/ UNCHANGED limiterVars
  BY <1>1, <1>2 DEF LimiterTick, limiterVars
<1>4. ASSUME NEW t \in Threads, ReadClock(t) PROVE Deserved(u)'
  <2>1. CASE t = u
    BY <1>4, <2>1 DEF ReadClock, Deserved
  <2>2. CASE t # u
    BY <1>1, <1>4, <2>2 DEF ReadClock
  <2> QED
    BY <2>1, <2>2
<1>5. ASSUME NEW t \in Threads, Test(t) \/ Popleft(t) PROVE Deserved(u)'
  <2>1. CASE t = u
    BY <1>5, <2>1 DEF Test, Popleft, Deserved
  <2>2. CASE t # u
    BY <1>1, <1>5, <2>2 DEF Test, Popleft
  <2> QED
    BY <2>1, <2>2
<1>6. ASSUME NEW t \in Threads, Measure(t) PROVE Deserved(u)'
  <2>1. CASE t # u
    BY <1>1, <1>6, <2>1 DEF Measure
  <2>2. CASE t = u
    <3> SUFFICES ASSUME Full(u)', InOrder'
                 PROVE  Cardinality(AdmittedAfter(now[u] - Window)') >= Limit
      BY <1>6, <2>2 DEF Deserved, Measure, AdmittedAfter
    <3> DEFINE recent == AdmittedAfter(now[u] - Window)
               kept == (purged + 1) .. Len(admitted)
    <3>1. /\ admitted' = admitted /\ InOrder /\ Attempts >= Limit /\ Oldest > now[u] - Window
          /\ Attempts \in Nat
      BY <1>6, <2>2, WindowAssumption, LimitAssumption
         DEF Measure, Full, InOrder, Expired, Attempts, Oldest
    <3>2. kept \subseteq recent
      <4> SUFFICES ASSUME NEW i \in kept PROVE i \in recent
        OBVIOUS
      <4>1. i \in 1 .. Len(admitted) /\ purged + 1 \in 1 .. Len(admitted) /\ purged + 1 <= i
        OBVIOUS
      <4>2. /\ admitted[purged + 1] <= admitted[i]
            /\ admitted[i] \in Nat /\ admitted[purged + 1] \in Nat
        BY <3>1, <4>1, OrderedSuffix DEF InOrder
      <4>3. admitted[purged + 1] > now[u] - Window /\ now[u] \in Nat
        BY <3>1 DEF Oldest
      <4>4. admitted[i] > now[u] - Window
        BY <4>2, <4>3, Later
      <4> QED
        BY <4>1, <4>4 DEF AdmittedAfter
    <3>3. IsFiniteSet(kept) /\ Cardinality(kept) = Attempts
      <4>1. purged + 1 \in Int /\ Len(admitted) \in Int
        OBVIOUS
      <4>2. IsFiniteSet(kept)
            /\ Cardinality(kept) = IF purged + 1 > Len(admitted) THEN 0
                                   ELSE Len(admitted) - (purged + 1) + 1
        BY <4>1, FS_Interval
      <4> HIDE DEF kept
      <4> QED
        BY <4>2 DEF Attempts
    <3>4. IsFiniteSet(recent) /\ Cardinality(recent) \in Nat
      BY AfterFinite
    <3>5. Cardinality(kept) <= Cardinality(recent)
      BY <3>2, <3>4, FS_Subset
    <3>6. AdmittedAfter(now[u] - Window)' = recent
      BY <1>6 DEF Measure, AdmittedAfter
    <3> HIDE DEF recent, kept
    <3> QED
      BY <3>1, <3>3, <3>4, <3>5, <3>6, LimitAssumption
  <2> QED
    BY <2>1, <2>2
<1>7. ASSUME NEW t \in Threads, Admit(t) PROVE Deserved(u)'
  <2>1. CASE t = u
    BY <1>7, <2>1 DEF Admit, Leave, Deserved
  <2>2. CASE t # u
    <3> SUFFICES ASSUME point[u] = "decide", Full(u), InOrder'
                 PROVE  Cardinality(AdmittedAfter(now[u] - Window)') >= Limit
      BY <1>7, <2>2 DEF Deserved, Admit, Leave, Full, AdmittedAfter
    <3>1. /\ Len(admitted') = Len(admitted) + 1
          /\ \A i \in 1 .. Len(admitted) : admitted'[i] = admitted[i]
      BY <1>7 DEF Admit
    <3>2. InOrder
      <4>1. DOMAIN admitted = 1 .. Len(admitted) /\ DOMAIN admitted' = 1 .. Len(admitted')
            /\ Len(admitted) \in Nat
        OBVIOUS
      <4>2. \A i \in DOMAIN admitted : i \in DOMAIN admitted'
        BY <3>1, <4>1
      <4> QED
        BY <3>1, <4>1, <4>2 DEF InOrder
    <3>3. AdmittedAfter(now[u] - Window) \subseteq AdmittedAfter(now[u] - Window)'
      BY <1>7, <2>2, <3>1 DEF AdmittedAfter, Admit, Leave
    <3>4. /\ IsFiniteSet(AdmittedAfter(now[u] - Window)')
          /\ Cardinality(AdmittedAfter(now[u] - Window)') \in Nat
          /\ Cardinality(AdmittedAfter(now[u] - Window)) \in Nat
      <4>1. IsFiniteSet(1 .. Len(admitted'))
        BY FS_Interval
      <4>2. AdmittedAfter(now[u] - Window)' \subseteq 1 .. Len(admitted')
        BY DEF AdmittedAfter
      <4> QED
        BY <4>1, <4>2, AfterFinite, FS_Subset, FS_CardinalityType
    <3>5. Cardinality(AdmittedAfter(now[u] - Window)) >= Limit
      BY <3>2 DEF Deserved
    <3>6. Cardinality(AdmittedAfter(now[u] - Window))
              <= Cardinality(AdmittedAfter(now[u] - Window)')
      BY <3>3, <3>4, FS_Subset
    <3> QED
      BY <3>4, <3>5, <3>6, LimitAssumption
  <2> QED
    BY <2>1, <2>2
<1>8. ASSUME NEW t \in Threads, PopEmpty(t) \/ Reject(t) PROVE Deserved(u)'
  <2>1. CASE t = u
    BY <1>8, <2>1 DEF PopEmpty, Reject, Leave, Deserved
  <2>2. CASE t # u
    BY <1>1, <1>8, <2>2 DEF PopEmpty, Reject, Leave
  <2> QED
    BY <2>1, <2>2
<1> QED
  BY <1>2, <1>4, <1>5, <1>6, <1>7, <1>8 DEF LimiterNext, Check

(* Whoever is rejected found the limit reached within its window, unless a   *)
(* race had put the deque out of order (auth.py 64-72).                      *)
THEOREM RejectionIsDeserved == LimiterSpec => RejectedOnlyAtLimit
<1> DEFINE AllDeserved == \A t \in Threads : Deserved(t)
<1>1. LimiterInit => AllDeserved
  BY DEF LimiterInit, Deserved
<1>2. LimiterInv /\ LimiterInv' /\ AllDeserved /\ [LimiterNext]_limiterVars => AllDeserved'
  BY DeservedStep
<1>3. AllDeserved /\ [LimiterNext]_limiterVars =>
          [\A t \in Threads :
              Reject(t) /\ InOrder
                  => Cardinality(AdmittedAfter(now[t] - Window)) >= Limit]_limiterVars
  BY DEF Deserved, Reject
<1> HIDE DEF AllDeserved
<1> QED
  BY <1>1, <1>2, <1>3, InvariantHolds, PTL DEF LimiterSpec, RejectedOnlyAtLimit

===============================================================================
