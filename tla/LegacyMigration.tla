---------------------------- MODULE LegacyMigration ----------------------------
(***************************************************************************)
(* scripts/migrate_dynsec.py: what a password file, an ownership file, an  *)
(* ACL file and the base state are turned into, or why they are refused.   *)
(* A file is the sequence of its lines that are neither empty nor comments;*)
(* a line that cannot be read as one is "invalid".  A topic is a sequence  *)
(* of levels, as in module Policy.                                         *)
(***************************************************************************)
EXTENDS Policy

Preserved_roles == {"dynsec-admin", "sys-observe", "sys-notify"}

Invalid == "invalid"

Access_types ==
    [read      |-> {"publishClientReceive", "subscribePattern", "unsubscribePattern"},
     write     |-> {"publishClientSend"},
     readwrite |-> {"publishClientSend", "publishClientReceive", "subscribePattern",
                    "unsubscribePattern"},
     deny      |-> {"publishClientSend", "publishClientReceive", "subscribePattern",
                    "unsubscribePattern"}]

Refused(code) == [exit |-> code]

\* Hashes that DynSec can verify.
Migratable(line) == line.hash \in {"argon2id", "pbkdf2"}

\* 1: a line is wrong, or the account has an earlier line that is kept;
\* 2: credentials must be rotated first.
Password_exit(lines) ==
    LET wrong(i) == \/ lines[i].hash = Invalid
                    \/ \E j \in 1 .. i - 1 :
                          lines[j].username = lines[i].username /\ Migratable(lines[j])
    IN  IF lines = <<>> \/ \E i \in DOMAIN lines : wrong(i) THEN 1
        ELSE IF \E i \in DOMAIN lines : ~Migratable(lines[i]) THEN 2
        ELSE 0

Usernames(lines) == {lines[i].username : i \in DOMAIN lines}

\* One row for each account and no other.
Owners_accepted(rows, usernames) ==
    /\ Invalid \notin {rows[i].group : i \in DOMAIN rows}
    /\ IsInjective([i \in DOMAIN rows |-> rows[i].username])
    /\ Usernames(rows) = usernames

NoSection == ""

\* The account whose section holds line i; there is none before the first "user" line.
Section(lines, i) ==
    LET users == {j \in 1 .. i : lines[j].word = "user"}
    IN  IF users = {} THEN NoSection ELSE lines[Max(users)].name

\* Variant: denials have the priority of permissions.
Parse_acl_line_OnePriority(line) ==
    {[acltype |-> type, topic |-> line.topic, allow |-> line.access # "deny", priority |-> 10] :
        type \in Access_types[line.access]}

\* The ACLs of a line.
Parse_acl_line(line) ==
    LET allow == line.access # "deny"
    IN  {[acltype |-> type, topic |-> line.topic, allow |-> allow,
          priority |-> IF allow THEN 10 ELSE 100] : type \in Access_types[line.access]}

\* A pattern, and a topic before the first section, is for every account; a
\* section may be continued later in the file.
Rule(lines, i) == lines[i].word \in {"topic", "pattern"}
Global(lines, i) == Rule(lines, i) /\ (lines[i].word = "pattern" \/ Section(lines, i) = NoSection)

Acls_of(lines, username) ==
    UNION {Parse_acl_line(lines[i]) : i \in {j \in DOMAIN lines :
              Global(lines, j) \/ (Rule(lines, j) /\ Section(lines, j) = username)}}

\* Equal ACLs are one; the order among equal priorities, by topic and type, is
\* left open.
First(acls) == CHOOSE acl \in acls : \A other \in acls : acl.priority >= other.priority

Deduplicate_acls(acls) ==
    LET left[i \in 0 .. Cardinality(acls)] ==
            IF i = 0 THEN acls ELSE LET rest == left[i - 1] IN rest \ {First(rest)}
    IN  [i \in 1 .. Cardinality(acls) |-> First(left[i - 1])]

Acl_file_accepted(lines, usernames) ==
    /\ \A i \in DOMAIN lines : lines[i].word # Invalid
    /\ \A i \in DOMAIN lines : lines[i].word = "user" => lines[i].name \in usernames

Base_accepted(base) ==
    "admin" \in base.clients /\ {"dynsec-admin", "sys-observe"} \subseteq DOMAIN base.roles

\* Role names: those of the base state, and "migrated-" with the account's name.
Kept(role) == <<role>>
Role_name(username) == <<"migrated", username>>

\* The state that is written: the admin and an account for each line of the
\* password file, each account with a role of its own and in the group of its
\* row; the groups have no roles, the defaults deny.
Migrated(files) ==
    LET usernames == Usernames(files.passwords)
        row(username) == CHOOSE i \in DOMAIN files.owners : files.owners[i].username = username
        group(username) == files.owners[row(username)].group
        preserved == DOMAIN files.base.roles \cap Preserved_roles
    IN  [clients |-> {[name |-> "admin", roles |-> {[name |-> Kept("dynsec-admin"), priority |-> 100],
                                                    [name |-> Kept("sys-observe"), priority |-> 10]}]}
                     \cup {[name |-> u, roles |-> {[name |-> Role_name(u), priority |-> 50]}] :
                              u \in usernames},
         roles |-> [r \in {Kept(role) : role \in preserved} \cup {Role_name(u) : u \in usernames} |->
                       IF Len(r) = 1 THEN files.base.roles[r[1]]
                       ELSE Deduplicate_acls(Acls_of(files.acls, r[2]))],
         groups |-> {[name |-> "unauthenticated", clients |-> {}]}
                       \cup {[name |-> g, clients |-> {u \in usernames : group(u) = g}] :
                                g \in {files.owners[i].group : i \in DOMAIN files.owners}},
         defaults |-> [key \in {"publishClientSend", "publishClientReceive", "subscribe",
                                "unsubscribe"} |-> FALSE]]

\* main: the exit code and, with 0, the candidate.
Migrate(files) ==
    LET usernames == Usernames(files.passwords)
    IN  IF Password_exit(files.passwords) # 0 THEN Refused(Password_exit(files.passwords))
        ELSE IF /\ Owners_accepted(files.owners, usernames)
                /\ Acl_file_accepted(files.acls, usernames)
                /\ Base_accepted(files.base)
             THEN [exit |-> 0, state |-> Migrated(files)]
             ELSE Refused(1)

-------------------------------------------------------------------------------
(* What the broker, and the simulator, know of an account of the candidate:  *)
(* groups have no roles.                                                     *)
As_broker(state, username) ==
    LET client == CHOOSE c \in state.clients : c.name = username
        mine == {g \in state.groups : username \in g.clients}
    IN  [client |-> [roles |-> client.roles,
                     groups |-> {[name |-> g.name, priority |-> 50] : g \in mine}],
         groups |-> [name \in {g.name : g \in state.groups} |-> {}],
         roles |-> state.roles,
         defaults |-> state.defaults]

(***************************************************************************)
(* What Mosquitto 2.0 itself makes of the ACL file (its acl_file is not     *)
(* part of the repository).  It decides on messages that are sent or        *)
(* received; a subscription as such is never refused.  The "topic" lines    *)
(* before the first "user" line are for anonymous clients; a "topic" line   *)
(* is literal, only a "pattern" has placeholders.  The account's own        *)
(* section decides if a line of it bears on the message, else the patterns  *)
(* do; in either a denial comes first, and without a line there is nothing. *)
(***************************************************************************)
Permitting == [publishClientSend    |-> {"write", "readwrite"},
               publishClientReceive |-> {"read", "readwrite"}]

Own_lines(lines, username) ==
    {i \in DOMAIN lines : /\ lines[i].word = "topic" /\ Section(lines, i) = username
                          /\ ToSet(lines[i].topic) \cap {"%u", "%c"} = {}}

Pattern_lines(lines) == {i \in DOMAIN lines : lines[i].word = "pattern"}

\* The accesses of those of the lines that bear on a message.
Said(lines, from, q) ==
    {lines[i].access : i \in {j \in from : /\ lines[j].access \in {"deny"} \cup Permitting[q.action]
                                           /\ Applies([topic |-> lines[j].topic], q)}}

Legacy_decision(lines, username, q) ==
    LET own == Said(lines, Own_lines(lines, username), q)
        decisive == IF own # {} THEN own ELSE Said(lines, Pattern_lines(lines), q)
    IN  Verdict(decisive # {} /\ "deny" \notin decisive)

\* The lines that the conversion gives an account and Mosquitto does not, or in
\* another meaning: those for anonymous clients, and placeholders in a section.
Misread_lines(lines, username) ==
    {i \in DOMAIN lines : lines[i].word = "topic" /\ Section(lines, i) \in {NoSection, username}}
        \ Own_lines(lines, username)

===============================================================================
