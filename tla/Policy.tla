-------------------------------- MODULE Policy --------------------------------
(***************************************************************************)
(* The rules of the permission simulator, admin-api/app/policy.py: which   *)
(* topics an ACL matches, and which ACL decides.                           *)
(*                                                                         *)
(* A topic is the sequence of its levels.  A role or group name is a       *)
(* number: its place in the alphabetical order.                            *)
(***************************************************************************)
EXTENDS Integers, SequencesExt

CONSTANT SystemWords   \* the levels that begin with "$"

ASSUME SystemWordsAssumption == SystemWords \cap {"+", "#"} = {}

IsSystem(levels) == levels # <<>> /\ levels[1] \in SystemWords

\* A level "%u" or "%c" is replaced by a name, which may itself have levels.
Expand(pattern, username, clientid) ==
    FlattenSeq([i \in DOMAIN pattern |->
        CASE pattern[i] = "%u" -> username
          [] pattern[i] = "%c" -> clientid
          [] OTHER             -> <<pattern[i]>>])

EmptyLevel == ""

\* "[^/]+" wants a character.
LevelMatches(level, word) == IF level = "+" THEN word # EmptyLevel ELSE level = word

\* Variant: "/#" keeps its slash.
RegexMatches_KeepsSlash(pattern, topic) ==
    LET from[i \in 1 .. Len(pattern) + 1] ==
            IF i > Len(pattern) THEN {Len(topic) + 1}
            ELSE {j \in 1 .. Len(topic) + 1 :
                     \/ pattern[i] = "#" /\ \E k \in from[i + 1] : k > j
                     \/ /\ pattern[i] # "#" /\ j <= Len(topic)
                        /\ LevelMatches(pattern[i], topic[j])
                        /\ j + 1 \in from[i + 1]}
    IN  1 \in from[1]

\* re.match(expression, topic): the expression from level i of the pattern matches
\* the topic from the levels in from[i]; ".*" takes one level or more, and a final
\* "/#" may take none.
RegexMatches(pattern, topic) ==
    LET from[i \in 1 .. Len(pattern) + 1] ==
            IF i > Len(pattern) THEN {Len(topic) + 1}
            ELSE {j \in 1 .. Len(topic) + 1 :
                     \/ pattern[i] = "#" /\ i = Len(pattern) /\ i > 1
                     \/ pattern[i] = "#" /\ \E k \in from[i + 1] : k > j
                     \/ /\ pattern[i] # "#" /\ j <= Len(topic)
                        /\ LevelMatches(pattern[i], topic[j])
                        /\ j + 1 \in from[i + 1]}
    IN  1 \in from[1]

Named(pattern, username, clientid) ==
    /\ Contains(pattern, "%u") => username # <<>>
    /\ Contains(pattern, "%c") => clientid # <<>>

Topic_matches(pattern, topic, username, clientid, literal) ==
    LET expanded == Expand(pattern, username, clientid)
    IN  /\ Named(pattern, username, clientid)
        /\ IsSystem(topic) => IsSystem(expanded)
        /\ IF literal THEN expanded = topic ELSE RegexMatches(expanded, topic)

\* The action of a query, as the type of an ACL.
ACLType == {"publishClientSend", "publishClientReceive", "subscribeLiteral", "subscribePattern",
            "unsubscribeLiteral", "unsubscribePattern"}

Literal(action) == action \in {"subscribeLiteral", "unsubscribeLiteral"}

Applies(acl, q) ==
    Topic_matches(acl.topic, q.topic, q.username, q.clientid, Literal(q.action))

\* The elements of a finite set in an order, which is given by its pairs.
\* (SetToSortSeq takes it as an operator, which the provers cannot.)
InOrder(set, before) ==
    CHOOSE s \in [1 .. Cardinality(set) -> set] :
        \A i, j \in DOMAIN s : i < j => <<s[i], s[j]>> \in before

\* sorted by (-priority, name)
Sorted(assignments) ==
    InOrder(assignments,
            {p \in assignments \X assignments :
                 \/ p[1].priority > p[2].priority
                 \/ p[1].priority = p[2].priority /\ p[1].name < p[2].name})

\* The roles in the order in which they are looked at: the client's own, then
\* those of its groups.
Role_checks(state) ==
    LET ofGroups == Sorted(state.client.groups)
    IN  Sorted(state.client.roles)
            \o FlattenSeq([i \in DOMAIN ofGroups |-> Sorted(state.groups[ofGroups[i].name])])

OfAction(acls, action) == {i \in DOMAIN acls : acls[i].acltype = action}

\* Variant: the ACLs of a role in the order in which the broker lists them.
Relevant_AsListed(acls, action) ==
    LET places == OfAction(acls, action)
        order == InOrder(places, {p \in places \X places : p[1] < p[2]})
    IN  [k \in DOMAIN order |-> acls[order[k]]]

\* The ACLs of the action by priority; the sort is stable.
Relevant(acls, action) ==
    LET places == OfAction(acls, action)
        order == InOrder(places, {p \in places \X places :
                     \/ acls[p[1]].priority > acls[p[2]].priority
                     \/ acls[p[1]].priority = acls[p[2]].priority /\ p[1] < p[2]})
    IN  [k \in DOMAIN order |-> acls[order[k]]]

Verdict(allowed) == IF allowed THEN "allow" ELSE "deny"

Default(state, action) ==
    Verdict(state.defaults[
        CASE action \in {"subscribeLiteral", "subscribePattern"}     -> "subscribe"
          [] action \in {"unsubscribeLiteral", "unsubscribePattern"} -> "unsubscribe"
          [] OTHER                                                   -> action])

\* evaluate_permission: the first ACL that matches decides.
Evaluate_permission(state, q) ==
    LET checks == Role_checks(state)
        acls == FlattenSeq([i \in DOMAIN checks |->
                    Relevant(state.roles[checks[i].name], q.action)])
        matching == {i \in DOMAIN acls : Applies(acls[i], q)}
    IN  IF matching = {} THEN Default(state, q.action)
                         ELSE Verdict(acls[Min(matching)].allow)

===============================================================================
