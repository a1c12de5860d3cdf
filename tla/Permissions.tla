----------------------------- MODULE Permissions -----------------------------
(***************************************************************************)
(* The evaluate handler of admin-api/app/main.py 455-467.  It reads the    *)
(* client, the groups, the roles and the defaults with four commands,      *)
(* between which the broker may change, and decides the query on what it   *)
(* has read (module Policy).                                               *)
(***************************************************************************)
EXTENDS Policy

CONSTANTS RoleNames, GroupNames,
          RoleContents,  \* what the ACLs of a role may be
          ClientObjects, \* what the client may be
          GroupObjects,  \* what the roles of a group may be
          FirstState,    \* the broker's state at the beginning
          Queries,       \* the questions asked
          Topics, Filters,     \* the topics and filters that are matched
          MaxChanges,    \* bound: changes of the broker's state
          None           \* nothing read yet

\* What split("/") returns: there is always a level.
Words == STRING
Levels == Seq(Words) \ {<< >>}

Acls == [acltype : ACLType, topic : Levels, allow : BOOLEAN, priority : Int]

\* A list of roles or groups with their priorities.
IsAssignment(assignments, names) ==
    IsFiniteSet(assignments) /\ assignments \subseteq [name : names, priority : Int]

DefaultKeys == {"publishClientSend", "publishClientReceive", "subscribe", "unsubscribe"}

BrokerStates == [client : ClientObjects, groups : [GroupNames -> GroupObjects],
                 roles : [RoleNames -> RoleContents], defaults : [DefaultKeys -> BOOLEAN]]

ASSUME NamesAssumption == RoleNames \subseteq Nat /\ GroupNames \subseteq Nat
ASSUME ContentsAssumption == RoleContents \subseteq Seq(Acls)
ASSUME ClientsAssumption ==
    \A client \in ClientObjects :
        IsAssignment(client.roles, RoleNames) /\ IsAssignment(client.groups, GroupNames)
ASSUME GroupsAssumption == \A roles \in GroupObjects : IsAssignment(roles, RoleNames)
ASSUME FirstStateAssumption == FirstState \in BrokerStates
ASSUME QueriesAssumption ==
    Queries \subseteq [username : Levels, clientid : Seq(Words), topic : Levels, action : ACLType]
ASSUME LevelsAssumption == Topics \subseteq Levels /\ Filters \subseteq Levels
ASSUME BoundAssumption == MaxChanges \in Nat

VARIABLES broker,        \* the broker's state
          query, pc,     \* the request and its next command
          read,          \* what it has read
          decision,
          possible,      \* history: decisions of the states since it began
          changed,       \* history: kinds of objects changed since it began
          changes

vars == <<broker, query, pc, read, decision, possible, changed, changes>>

-------------------------------------------------------------------------------
(* The handler. *)

Parts == {"client", "groups", "roles", "defaults"}
Unread == [part \in Parts |-> None]

Next_part == [client |-> "groups", groups |-> "roles", roles |-> "defaults",
              defaults |-> "audit"]

Decisions == {"allow", "deny"}

TypeOK ==
    /\ broker \in BrokerStates
    /\ query \in Queries
    /\ pc \in Parts \cup {"idle", "audit", "answered", "failed"}
    /\ read.client \in ClientObjects \cup {None}
    /\ read.groups \in [GroupNames -> GroupObjects] \cup {None}
    /\ read.roles \in [RoleNames -> RoleContents] \cup {None}
    /\ read.defaults \in [DefaultKeys -> BOOLEAN] \cup {None}
    /\ decision \in Decisions \cup {"none"}
    /\ possible \subseteq Decisions /\ changed \subseteq Parts
    /\ changes \in 0 .. MaxChanges

Init ==
    /\ broker = FirstState
    /\ query \in Queries
    /\ pc = "idle"
    /\ read = Unread
    /\ decision = "none"
    /\ possible = {} /\ changed = {}
    /\ changes = 0

Asking == pc \in Parts

\* What a part may become when one object is changed (module AdminMutation): a
\* role with its ACLs, a group with its roles, the client, or a default.
Changed(part) ==
    CASE part = "client" -> ClientObjects
      [] part = "groups" -> {[broker.groups EXCEPT ![g] = o] : g \in GroupNames, o \in GroupObjects}
      [] part = "roles" ->
            {[broker.roles EXCEPT ![r] = acls] : r \in RoleNames, acls \in RoleContents}
      [] part = "defaults" -> {[broker.defaults EXCEPT ![key] = ~@] : key \in DefaultKeys}

\* The broker changes one object.
Change(part) ==
    /\ changes < MaxChanges
    /\ changes' = changes + 1
    /\ \E value \in Changed(part) :
        /\ value # broker[part]
        /\ broker' = [broker EXCEPT ![part] = value]
    /\ possible' = IF Asking THEN possible \cup {Evaluate_permission(broker', query)} ELSE possible
    /\ changed' = IF Asking THEN changed \cup {part} ELSE changed
    /\ UNCHANGED <<query, pc, read, decision>>

Begin ==
    /\ pc = "idle"
    /\ pc' = "client"
    /\ possible' = {Evaluate_permission(broker, query)}
    /\ UNCHANGED <<broker, query, read, decision, changed, changes>>

\* Variant: the roles are read with one command each.
Read_OneRoleAtATime(part) ==
    /\ pc = part
    /\ IF part = "roles"
       THEN \E r \in RoleNames :
               LET sofar == IF read.roles = None THEN <<>> ELSE read.roles
               IN  /\ r = Len(sofar) + 1
                   /\ read' = [read EXCEPT !.roles = Append(sofar, broker.roles[r])]
                   /\ pc' = IF r + 1 \in RoleNames THEN "roles" ELSE "defaults"
       ELSE /\ read' = [read EXCEPT ![part] = broker[part]]
            /\ pc' = Next_part[part]
    /\ decision' = IF pc' = "audit" THEN Evaluate_permission(read', query) ELSE decision
    /\ UNCHANGED <<broker, query, possible, changed, changes>>

\* getClient, listGroups, listRoles and getDefaultACLAccess (457-464), each
\* answered by the broker at one instant; then the query is decided (465).
Read(part) ==
    /\ pc = part
    /\ read' = [read EXCEPT ![part] = broker[part]]
    /\ pc' = Next_part[part]
    /\ decision' = IF part = "defaults" THEN Evaluate_permission(read', query) ELSE decision
    /\ UNCHANGED <<broker, query, possible, changed, changes>>

\* The decision is audited, then answered (466-467).
Answer ==
    /\ pc = "audit"
    /\ pc' = "answered"
    /\ UNCHANGED <<broker, query, read, decision, possible, changed, changes>>

\* A command or the audit fails: the request has no answer.
Fail ==
    /\ Asking \/ pc = "audit"
    /\ pc' = "failed"
    /\ UNCHANGED <<broker, query, read, decision, possible, changed, changes>>

Next ==
    \/ Begin
    \/ \E part \in Parts : Change(part) \/ Read(part)
    \/ Answer
    \/ Fail

Spec == Init /\ [][Next]_vars

-------------------------------------------------------------------------------
(* MQTT's own definition of a filter that matches a topic.                   *)
WellFormed(filter) == \A i \in DOMAIN filter : filter[i] = "#" => i = Len(filter)

MqttMatches(filter, topic) ==
    LET open == filter[Len(filter)] = "#"
        fixed == IF open THEN Len(filter) - 1 ELSE Len(filter)
    IN  /\ IF open THEN Len(topic) >= fixed ELSE Len(topic) = fixed
        /\ \A i \in 1 .. fixed : filter[i] \in {"+", topic[i]}
        /\ IsSystem(topic) => filter[1] \notin {"+", "#"}

(* The regular expression that topic_matches builds matches what the filter  *)
(* matches by the definition of MQTT, system topics included - except that   *)
(* "+" stands for a level of at least one character.                         *)
MatchingIsMqtt ==
    pc = "idle" /\ changes = 0 =>
        \A filter \in Filters, topic \in Topics :
            LET expanded == Expand(filter, query.username, query.clientid)
            IN  /\ Named(filter, query.username, query.clientid)
                /\ WellFormed(expanded)
                /\ ~Contains(topic, EmptyLevel)
                => ( Topic_matches(filter, topic, query.username, query.clientid, FALSE)
                     <=> MqttMatches(expanded, topic) )

(* The rules that bear on a query, each with its place: client before group, *)
(* then group, role and ACL by priority, the names breaking ties.            *)
Rules(state, q) ==
    LET acls(r) == {i \in DOMAIN state.roles[r] :
                       state.roles[r][i].acltype = q.action /\ Applies(state.roles[r][i], q)}
        Place(source, group, role, i) ==
            <<source, -group.priority, group.name, -role.priority, role.name,
              -state.roles[role.name][i].priority, i>>
        self == [name |-> 0, priority |-> 0]
        Of(source, group, role) ==
            {[place |-> Place(source, group, role, i),
              allow |-> state.roles[role.name][i].allow] : i \in acls(role.name)}
    IN  (UNION {Of(0, self, role) : role \in state.client.roles})
        \cup
        (UNION {UNION {Of(1, group, role) : role \in state.groups[group.name]} :
                   group \in state.client.groups})

Before(p, q) == \E i \in DOMAIN p : p[i] < q[i] /\ \A j \in 1 .. i - 1 : p[j] = q[j]

(* The simulator decides by precedence: a rule decides that no other rule on *)
(* the query precedes; without a rule the default of the action decides.     *)
PrecedenceDecides ==
    decision # "none" =>
        LET rules == Rules(read, query)
        IN  IF rules = {} THEN decision = Default(read, query.action)
            ELSE \E rule \in rules :
                     /\ \A other \in rules : ~Before(other.place, rule.place)
                     /\ decision = Verdict(rule.allow)

(* The four reads are no snapshot, but as long as objects of one kind only   *)
(* are changed meanwhile, the decision is that of a state the broker was in  *)
(* after the request began.                                                  *)
OneKindOfChangeIsAtomic ==
    decision # "none" /\ Cardinality(changed) <= 1 => decision \in possible

===============================================================================
