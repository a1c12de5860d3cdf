---------------------------- MODULE MC_Permissions ----------------------------
(***************************************************************************)
(* A small instance of Permissions for TLC: two roles and a group, ACLs    *)
(* that tie or differ in priority, every filter and topic of at most three *)
(* levels over small alphabets, and every ACL file of at most four lines.  *)
(***************************************************************************)
EXTENDS LegacyPermissions

Paths(words, n) == UNION {[1 .. k -> words] : k \in 1 .. n}

AllTopics == Paths({"a", "u", "$SYS", ""}, 3)
AllFilters == Paths({"a", "+", "#", "$SYS", "%u", "%c"}, 3)

Acl(type, topic, allow, priority) ==
    [acltype |-> type, topic |-> topic, allow |-> allow, priority |-> priority]

Send == "publishClientSend"
Subscribe == "subscribePattern"

SomeAcls ==
    {<<>>,
     <<Acl(Send, <<"a", "#">>, TRUE, 0), Acl(Send, <<"a", "%u">>, FALSE, 5)>>,
     <<Acl(Send, <<"a", "%u">>, TRUE, -1), Acl(Send, <<"+", "u">>, FALSE, -1)>>,
     <<Acl(Subscribe, <<"#">>, TRUE, 0), Acl(Send, <<"#">>, FALSE, 0)>>}

Assigned(name, priority) == [name |-> name, priority |-> priority]

SomeClients ==
    [roles : {{}, {Assigned(1, -1), Assigned(2, -1)}, {Assigned(1, 0), Assigned(2, 3)}},
     groups : {{}, {Assigned(1, 9)}}]

SomeGroups == {{}, {Assigned(2, 1)}, {Assigned(1, 1), Assigned(2, 1)}}

EmptyBroker ==
    [client |-> [roles |-> {Assigned(1, -1), Assigned(2, -1)}, groups |-> {Assigned(1, 9)}],
     groups |-> [g \in GroupNames |-> {Assigned(2, 1)}],
     roles |-> [r \in RoleNames |-> <<>>],
     defaults |-> [key \in DefaultKeys |-> FALSE]]

Ask(topic, clientid, action) ==
    [username |-> <<"u">>, clientid |-> clientid, topic |-> topic, action |-> action]

SomeQueries ==
    {Ask(<<"a", "u">>, <<"a", "u">>, Send),
     Ask(<<"a">>, <<>>, Send),
     Ask(<<"a", "+">>, <<"u">>, Subscribe)}

(* The files of the migration: two accounts, six kinds of rule and sections   *)
(* in any order.                                                              *)
Users == {"u", "v"}

UserLine(u) == [word |-> "user", name |-> u]
RuleLine(word, access, topic) == [word |-> word, access |-> access, topic |-> topic]

AclLines ==
    {UserLine(u) : u \in Users}
    \cup {RuleLine("topic", "readwrite", <<"a", "#">>), RuleLine("topic", "deny", <<"a", "u">>),
          RuleLine("topic", "read", <<"a", "+">>), RuleLine("pattern", "write", <<"a", "%u">>),
          RuleLine("pattern", "deny", <<"+", "%u">>), RuleLine("topic", "write", <<"a", "%u">>)}

SomePasswords ==
    {<<[username |-> "u", hash |-> first], [username |-> second, hash |-> "argon2id"]>> :
        first \in {"pbkdf2", "other"}, second \in Users}

SomeOwners ==
    {<<[username |-> "v", group |-> "g"], [username |-> "u", group |-> second]>> : second \in {"g", "h"}}
    \cup {<<[username |-> "u", group |-> "g"]>>}

Base == [clients |-> {"admin"}, roles |-> [r \in Preserved_roles |-> <<>>]]

SomeFiles ==
    LET files(p, o, a) == [passwords |-> p, owners |-> o, acls |-> a, base |-> Base]
        good == CHOOSE p \in SomePasswords : Password_exit(p) = 0
    IN  {files(good, <<[username |-> "v", group |-> "g"], [username |-> "u", group |-> "g"]>>, a) :
            a \in Paths(AclLines, 4)}
        \cup {files(p, o, <<>>) : p \in SomePasswords, o \in SomeOwners}

AskMigrated(topic, action) ==
    [username |-> <<>>, clientid |-> <<>>, topic |-> topic, action |-> action]

MigratedQueries ==
    {AskMigrated(<<"a", "u">>, Send), AskMigrated(<<"a", "u">>, "publishClientReceive"),
     AskMigrated(<<"a", "v">>, Send), AskMigrated(<<"a", "v">>, "publishClientReceive")}

===============================================================================
