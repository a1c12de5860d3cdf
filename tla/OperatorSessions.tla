--------------------------- MODULE OperatorSessions ---------------------------
(***************************************************************************)
(* Operators and their sessions: admin-api/app/auth.py 77-166 and the      *)
(* login, OIDC callback and logout handlers of admin-api/app/main.py       *)
(* 64-70, 192-260.  Every request is a thread with a database session of   *)
(* its own; a step is one transaction or statement, and what a request has *)
(* read stays as it was read (expire_on_commit=False, db.py:18).           *)
(*                                                                         *)
(*   login:   limit -> verify -> create -> audit -> answered               *)
(*   oidc:    limit -> claims -> upsert -> create -> audit -> answered     *)
(*   others:  session -> (expire) -> operator -> touch -> authorize        *)
(*            -> answered, or for a logout delete -> audit -> answered     *)
(*                                                                         *)
(* A login creates at most one session, which is named after its request.  *)
(* The audit trail is the abstract AuditLog, which AuditChain implements.  *)
(***************************************************************************)
EXTENDS Integers, Sequences, FiniteSets

CONSTANTS Requests,      \* the requests
          Scenarios,     \* what they are: functions from requests to kinds
          TTL,           \* session_ttl_seconds
          MaxTime,       \* bound: the last instant of the clock
          Edits,         \* bound: the rows that are written outside the API
          Faults,        \* may the database fail and the process be restarted?
          None           \* no session, no operator row

AllKinds == {"login", "oidc", "read", "mutation", "logout", "none"}

ASSUME ScenariosAssumption == Scenarios \subseteq [Requests -> AllKinds]
ASSUME TimeAssumption == TTL \in Nat \ {0} /\ MaxTime \in Nat

VARIABLES clock,         \* datetime.now
          operators,     \* the operator row of each subject
          sessions,      \* the session rows
          expires,       \* expires_at of the sessions that were created
          held,          \* the sessions whose cookies a browser was given
          pc, kind,      \* where each request is, and what it is
          token, csrf,   \* the sessions its cookies and its CSRF header come from
          read,          \* the operator row it has read
          result,        \* the result its audit event carries
          status,        \* its answer
          late,          \* history: was its session over when it began?
          entitled,      \* history: has its operator had the authority for it?
          log, acknowledged

tableVars == <<operators, sessions, expires>>
requestVars == <<kind, token, late>>
localVars == <<csrf, read, result>>
auditVars == <<log, acknowledged>>
vars == <<clock, tableVars, held, pc, status, requestVars, localVars, entitled,
          auditVars>>

-------------------------------------------------------------------------------
Rank == [viewer |-> 0, security_admin |-> 2]     \* two of the four ROLES
Roles == DOMAIN Rank
Row(role, enabled) == [role |-> role, enabled |-> enabled]
\* The last: a row that was given, by hand, a role that is not one.
OperatorRows == [role : Roles, enabled : BOOLEAN] \cup {Row("other", TRUE)}

ASSUME NoneAssumption == None \notin Requests /\ None \notin OperatorRows

Subjects == {"local", "oidc"}
Results == {"success", "failure", "rate_limited"}
Statuses == {"none", "ok", "unauthorized", "forbidden", "limited", "error"}
AuditEntries == [request : Requests, result : Results]

Audit == INSTANCE AuditLog WITH Entries <- AuditEntries

Steps == {"idle", "limit", "verify", "claims", "upsert", "create", "audit", "recorded",
          "session", "expire", "operator", "touch", "authorize", "delete",
          "answered", "lost"}

\* Whose session it is: the kind of its login says which operator logged in.
Owner(s) == IF kind[s] = "login" THEN "local" ELSE "oidc"

IsLogin(r) == kind[r] \in {"login", "oidc"}

TypeOK ==
    /\ clock \in 0 .. MaxTime
    /\ operators \in [Subjects -> OperatorRows \cup {None}]
    /\ sessions \subseteq Requests /\ held \subseteq Requests
    /\ expires \in [Requests -> 0 .. MaxTime + TTL]
    /\ pc \in [Requests -> Steps]
    /\ kind \in Scenarios
    /\ token \in [Requests -> Requests \cup {None}]
    /\ csrf \in [Requests -> Requests \cup {None}]
    /\ read \in [Requests -> OperatorRows \cup {None}]
    /\ result \in [Requests -> Results \cup {"none"}]
    /\ status \in [Requests -> Statuses]
    /\ late \in [Requests -> {"no", "expired", "logged_out"}]
    /\ entitled \in [Requests -> BOOLEAN]
    /\ Audit!TypeOK

\* ensure_bootstrap_operator has run: the local operator exists.
Init ==
    /\ clock = 0
    /\ operators = [s \in Subjects |-> IF s = "local" THEN Row("security_admin", TRUE) ELSE None]
    /\ sessions = {} /\ held = {}
    /\ expires = [r \in Requests |-> 0]
    /\ pc = [r \in Requests |-> "idle"]
    /\ kind \in Scenarios
    /\ token = [r \in Requests |-> None]
    /\ csrf = [r \in Requests |-> None]
    /\ read = [r \in Requests |-> None]
    /\ result = [r \in Requests |-> "none"]
    /\ status = [r \in Requests |-> "none"]
    /\ late = [r \in Requests |-> "no"]
    /\ entitled = [r \in Requests |-> FALSE]
    /\ Audit!Init

-------------------------------------------------------------------------------
(* Control flow. *)

Goto(r, step) ==
    /\ pc' = [pc EXCEPT ![r] = step]
    /\ UNCHANGED status

Proceed(r, step) == Goto(r, step) /\ UNCHANGED localVars

\* The event to be written next.
Report(r, what) ==
    /\ result' = [result EXCEPT ![r] = what]
    /\ Goto(r, "audit")
    /\ UNCHANGED <<csrf, read>>

\* The answer; what the request held in its local variables is gone.
Respond(r, code) ==
    /\ status' = [status EXCEPT ![r] = code]
    /\ pc' = [pc EXCEPT ![r] = "answered"]
    /\ csrf' = [csrf EXCEPT ![r] = None]
    /\ read' = [read EXCEPT ![r] = None]
    /\ result' = [result EXCEPT ![r] = "none"]

Minimum(k) == IF k = "mutation" THEN "security_admin" ELSE "viewer"

Entitles(row, k) ==
    row # None /\ row.enabled /\ row.role \in Roles /\ Rank[row.role] >= Rank[Minimum(k)]

\* The open requests take notice of a change of the operators.
Watch(rows) ==
    entitled' = [r \in Requests |->
        \/ entitled[r]
        \/ /\ token[r] # None /\ pc[r] \notin {"answered", "lost"}
           /\ Entitles(rows[Owner(token[r])], kind[r])]

LoggedOut == {token[r] : r \in {q \in Requests : kind[q] = "logout" /\ status[q] = "ok"}}

Tick ==
    /\ clock < MaxTime
    /\ clock' = clock + 1
    /\ UNCHANGED <<tableVars, held, pc, status, requestVars, localVars, entitled, auditVars>>

\* The operator table is edited outside the API; bound: only the rows of
\* operators who have begun to log in.
Administer(subject, row) ==
    /\ row \in Edits
    /\ operators[subject] \notin {None, row}
    /\ \E s \in Requests : IsLogin(s) /\ pc[s] # "idle" /\ Owner(s) = subject
    /\ operators' = [operators EXCEPT ![subject] = row]
    /\ Watch(operators')
    /\ UNCHANGED <<clock, sessions, expires, held, pc, status, requestVars, localVars, auditVars>>

-------------------------------------------------------------------------------
(* Logins. *)

BeginLogin(r) ==
    /\ pc[r] = "idle" /\ IsLogin(r)
    /\ Proceed(r, "limit")
    /\ UNCHANGED <<clock, tableVars, held, requestVars, entitled, auditVars>>

\* rate_limiter.check (main.py:196-200; for OIDC at its start, 215-219).
Limited(r) ==
    /\ pc[r] = "limit"
    /\ Report(r, "rate_limited")
    /\ UNCHANGED <<clock, tableVars, held, requestVars, entitled, auditVars>>

Admitted(r) ==
    /\ pc[r] = "limit"
    /\ Proceed(r, IF kind[r] = "login" THEN "verify" ELSE "claims")
    /\ UNCHANGED <<clock, tableVars, held, requestVars, entitled, auditVars>>

\* The operator is there, enabled, and the password right (201-204).
Verify(r) ==
    /\ pc[r] = "verify"
    /\ \/ operators["local"].enabled /\ Proceed(r, "create")
       \/ Report(r, "failure")
    /\ UNCHANGED <<clock, tableVars, held, requestVars, entitled, auditVars>>

\* Token exchange and claims; then the operator row is read (229-236).
Claims(r) ==
    /\ pc[r] = "claims"
    /\ \/ /\ read' = [read EXCEPT ![r] = operators["oidc"]]
          /\ Goto(r, "upsert")
          /\ UNCHANGED <<csrf, result>>
       \/ Report(r, "failure")
    /\ UNCHANGED <<clock, tableVars, held, requestVars, entitled, auditVars>>

\* The row is inserted with the role of the claims, or its role is written if
\* it differs from the role read (237-244).  A row inserted meanwhile is a
\* conflict, and a failed flush leaves the database session unusable until a
\* rollback, so that the failure event of line 250 fails as well.
Upsert(r, role) ==
    /\ pc[r] = "upsert"
    /\ IF read[r] = None /\ operators["oidc"] # None
       THEN Respond(r, "error") /\ UNCHANGED <<operators, entitled>>
       ELSE /\ operators' = [operators EXCEPT !["oidc"] =
                   IF read[r] = None THEN Row(role, TRUE)
                   ELSE IF read[r].role # role THEN [@ EXCEPT !.role = role] ELSE @]
            /\ Watch(operators')
            /\ Proceed(r, "create")
    /\ UNCHANGED <<clock, sessions, expires, held, requestVars, auditVars>>

\* create_session commits the session row (auth.py:94-109).
CreateSession(r) ==
    /\ pc[r] = "create"
    /\ sessions' = sessions \cup {r}
    /\ expires' = [expires EXCEPT ![r] = clock + TTL]
    /\ Report(r, "success")
    /\ UNCHANGED <<clock, operators, held, requestVars, entitled, auditVars>>

-------------------------------------------------------------------------------
(* Requests with a session: current_actor and the checks behind it. *)

\* A browser sends the cookies it holds; a CSRF header, which only the requests
\* that change something carry, may be missing or be left from another session.
BeginRequest(r, s, c) ==
    /\ pc[r] = "idle" /\ kind[r] \in {"read", "mutation", "logout"}
    /\ kind[r] = "read" => c = None
    /\ token' = [token EXCEPT ![r] = s]
    /\ csrf' = [csrf EXCEPT ![r] = c]
    /\ late' = [late EXCEPT ![r] = IF s \in LoggedOut THEN "logged_out"
                                   ELSE IF expires[s] <= clock THEN "expired" ELSE "no"]
    /\ entitled' = [entitled EXCEPT ![r] = Entitles(operators[Owner(s)], kind[r])]
    /\ Goto(r, "session")
    /\ UNCHANGED <<clock, tableVars, held, kind, read, result, auditVars>>

\* The session row (auth.py:126-128).
LoadSession(r) ==
    /\ pc[r] = "session"
    /\ IF token[r] \notin sessions THEN Respond(r, "unauthorized")
       ELSE Proceed(r, IF expires[token[r]] <= clock THEN "expire" ELSE "operator")
    /\ UNCHANGED <<clock, tableVars, held, requestVars, entitled, auditVars>>

\* An expired row is deleted (129-132); that it is gone already is no error.
ExpireSession(r) ==
    /\ pc[r] = "expire"
    /\ sessions' = sessions \ {token[r]}
    /\ Respond(r, "unauthorized")
    /\ UNCHANGED <<clock, operators, expires, held, requestVars, entitled, auditVars>>

\* Variant: a session of a disabled operator is not refused.
LoadOperator_NotEnabled(r) ==
    /\ pc[r] = "operator"
    /\ LET row == operators[Owner(token[r])]
       IN  IF row.role \in Roles
           THEN /\ read' = [read EXCEPT ![r] = row]
                /\ Goto(r, "touch")
                /\ UNCHANGED <<csrf, result>>
           ELSE Respond(r, "forbidden")
    /\ UNCHANGED <<clock, tableVars, held, requestVars, entitled, auditVars>>

\* session.operator is loaded: enabled, and of a role in ROLES (133-135).
LoadOperator(r) ==
    /\ pc[r] = "operator"
    /\ LET row == operators[Owner(token[r])]
       IN  IF row.enabled /\ row.role \in Roles
           THEN /\ read' = [read EXCEPT ![r] = row]
                /\ Goto(r, "touch")
                /\ UNCHANGED <<csrf, result>>
           ELSE Respond(r, "forbidden")
    /\ UNCHANGED <<clock, tableVars, held, requestVars, entitled, auditVars>>

\* Variant: the row is written whether it is there or not.
Touch_Upsert(r) ==
    /\ pc[r] = "touch"
    /\ sessions' = sessions \cup {token[r]}
    /\ Proceed(r, "authorize")
    /\ UNCHANGED <<clock, operators, expires, held, requestVars, entitled, auditVars>>

\* The UPDATE of last_seen_at finds its row or raises (136-137).
Touch(r) ==
    /\ pc[r] = "touch"
    /\ IF token[r] \in sessions THEN Proceed(r, "authorize") ELSE Respond(r, "error")
    /\ UNCHANGED <<clock, tableVars, held, requestVars, entitled, auditVars>>

\* require_csrf, require_role, require_mutation_role (141-166), with the role
\* as it was read.
Permitted(r) ==
    /\ kind[r] \in {"mutation", "logout"} => csrf[r] = token[r]
    /\ Rank[read[r].role] >= Rank[Minimum(kind[r])]

\* A request that is let in and is no logout is served (module AdminMutation
\* says how a mutation is).
Authorize(r) ==
    /\ pc[r] = "authorize"
    /\ \/ ~Permitted(r) /\ Respond(r, "forbidden")
       \/ Permitted(r) /\ kind[r] = "logout" /\ Proceed(r, "delete")
       \/ Permitted(r) /\ kind[r] # "logout" /\ Respond(r, "ok")
    /\ UNCHANGED <<clock, tableVars, held, requestVars, entitled, auditVars>>

\* logout deletes the row (main.py:256-257).
DeleteSession(r) ==
    /\ pc[r] = "delete"
    /\ sessions' = sessions \ {token[r]}
    /\ Report(r, "success")
    /\ UNCHANGED <<clock, operators, expires, held, requestVars, entitled, auditVars>>

-------------------------------------------------------------------------------
(* The audit event, the answer, failures. *)

Entry(r) == [request |-> r, result |-> result[r]]

AuditRecords(r) ==
    /\ pc[r] = "audit"
    /\ Audit!Record(Entry(r))
    /\ Proceed(r, "recorded")
    /\ UNCHANGED <<clock, tableVars, held, requestVars, entitled>>

\* The request ends as its event says; the answer to a login that succeeded
\* carries the cookies.
Conclude(r) ==
    /\ \/ result[r] = "success"      /\ Respond(r, "ok")
       \/ result[r] = "failure"      /\ Respond(r, "unauthorized")
       \/ result[r] = "rate_limited" /\ Respond(r, "limited")
    /\ held' = IF result[r] = "success" /\ IsLogin(r)
               THEN held \cup {r} ELSE held

AuditReturns(r) ==
    /\ pc[r] = "recorded"
    /\ Audit!Acknowledge(Entry(r))
    /\ Conclude(r)
    /\ UNCHANGED <<clock, tableVars, requestVars, entitled>>

AtTheDatabase(r) ==
    Faults /\ pc[r] \notin {"idle", "limit", "authorize", "answered", "lost"}

\* Variant: an audit failure is logged and the request goes on.
Breaks_AuditSwallowed(r) ==
    /\ AtTheDatabase(r)
    /\ IF pc[r] \in {"audit", "recorded"}
       THEN Conclude(r)
       ELSE Respond(r, "error") /\ UNCHANGED held
    /\ UNCHANGED <<clock, tableVars, requestVars, entitled, auditVars>>

\* Variant: the local login answers 401 on an exception, like the OIDC callback.
Breaks_LoginCatches(r) ==
    /\ AtTheDatabase(r)
    /\ IF kind[r] = "login" THEN Report(r, "failure") ELSE Respond(r, "error")
    /\ UNCHANGED <<clock, tableVars, held, requestVars, entitled, auditVars>>

\* The database fails under a statement of the request, or the event cannot be
\* recorded, or its recording cannot be confirmed.  The OIDC callback catches
\* every exception (249-251); it can report a failure if the database session
\* is still usable, as it may be after the read that starts append_event.
Breaks(r) ==
    /\ AtTheDatabase(r)
    /\ \/ Respond(r, "error")
       \/ /\ kind[r] = "oidc" /\ pc[r] = "audit" /\ result[r] = "success"
          /\ Report(r, "failure")
    /\ UNCHANGED <<clock, tableVars, held, requestVars, entitled, auditVars>>

\* The process is started again: its requests are lost, the tables are not, and
\* rows expired before now are deleted (main.py:64-70).
Restart ==
    /\ Faults
    /\ pc' = [r \in Requests |-> IF pc[r] \in {"idle", "answered"} THEN pc[r] ELSE "lost"]
    /\ sessions' = {s \in sessions : expires[s] >= clock}
    /\ UNCHANGED <<clock, operators, expires, held, status, requestVars, localVars,
                   entitled, auditVars>>

Login(r) ==
    \/ Limited(r)
    \/ Admitted(r)
    \/ Verify(r)
    \/ Claims(r)
    \/ \E role \in Roles : Upsert(r, role)
    \/ CreateSession(r)

Authenticated(r) ==
    \/ LoadSession(r)
    \/ ExpireSession(r)
    \/ LoadOperator(r)
    \/ Touch(r)
    \/ Authorize(r)
    \/ DeleteSession(r)

Process(r) == Login(r) \/ Authenticated(r) \/ AuditRecords(r) \/ AuditReturns(r)

Next ==
    \/ \E r \in Requests :
        \/ BeginLogin(r)
        \/ \E s \in held, c \in held \cup {None} : BeginRequest(r, s, c)
        \/ Process(r)
        \/ Breaks(r)
    \/ \E subject \in Subjects, row \in OperatorRows : Administer(subject, row)
    \/ Tick
    \/ Restart

Spec == Init /\ [][Next]_vars

-------------------------------------------------------------------------------
Recorded(r, what) == [request |-> r, result |-> what] \in Audit!Recorded

(* A session that is over stays over: no request is served with it that      *)
(* begins after the answer to a logout or after the expiry, whatever other   *)
(* requests of the session were doing meanwhile, with or without a clean-up. *)
OverIsFinal == \A r \in Requests : late[r] # "no" => status[r] # "ok"

(* A request is served on the authority its operator had at some instant of  *)
(* the request, not on that of its login or of an earlier request.           *)
AuthorityIsCurrent ==
    \A r \in Requests : token[r] # None /\ status[r] = "ok" => entitled[r]

(* Every login that is answered with anything but an internal error is in    *)
(* the trail under the result it was answered with                           *)
(* (docs/admin-console/implementation.md:57); so no browser holds the        *)
(* cookies of a session whose login is in no event.                          *)
AnsweredLoginIsAudited ==
    \A r \in Requests :
        IsLogin(r) =>
            /\ status[r] = "ok" => Recorded(r, "success")
            /\ status[r] = "unauthorized" => Recorded(r, "failure")
            /\ status[r] = "limited" => Recorded(r, "rate_limited")

(* A local login that was refused leaves no session behind.                  *)
RefusedLoginLeavesNoSession ==
    \A r \in Requests :
        kind[r] = "login" /\ status[r] \in {"unauthorized", "limited"} => r \notin sessions

===============================================================================
