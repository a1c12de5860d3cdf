--------------------------- MODULE LegacyPermissions ---------------------------
(***************************************************************************)
(* The simulator on what the migration writes: LegacyMigration, asked with *)
(* the rules of Policy before anything has changed the broker.             *)
(***************************************************************************)
EXTENDS Permissions, LegacyMigration

CONSTANTS LegacyFiles,   \* the files that are migrated
          LegacyQueries  \* what is asked of each account afterwards

\* The lines that parse_acl_file does not skip.
AclFileLines ==
    [word : {"user"}, name : Words]
    \cup [word : {"topic", "pattern"}, access : DOMAIN Access_types, topic : Levels]
    \cup [word : {Invalid}]

ASSUME FilesAssumption ==
    \A files \in LegacyFiles :
        /\ files.passwords \in Seq([username : Words, hash : Words])
        /\ files.owners \in Seq([username : Words, group : Words])
        /\ files.acls \in Seq(AclFileLines)

\* Messages, as an ACL file decides on nothing else; no topic has a placeholder.
ASSUME LegacyQueriesAssumption ==
    /\ LegacyQueries \subseteq [username : Seq(Words), clientid : Seq(Words), topic : Levels,
                                action : DOMAIN Permitting]
    /\ \A q \in LegacyQueries : ToSet(q.topic) \cap {"%u", "%c"} = {}

(* No account is lost, gained or left without its one group, and none may do *)
(* more than Mosquitto let it do with the ACL file, unless a line permits it *)
(* that Mosquitto reads otherwise: one for anonymous clients, before the     *)
(* first "user" line, which migrate_dynsec.py:180 gives every account, or a  *)
(* placeholder in a section.  It may do less only where such a line denies,  *)
(* or a pattern denies what the account's section permits.  A denial of its  *)
(* section or of a pattern always holds.  (The client "admin" of the base    *)
(* state has no part in this; an account of that name would be a second      *)
(* client "admin", of which nothing is said.)                                *)
MigrationKeepsDecisions ==
    pc = "idle" /\ changes = 0 =>
        \A files \in LegacyFiles :
            LET migrated == Migrate(files)
                state == migrated.state
                usernames == Usernames(files.passwords)
            IN  migrated.exit = 0 =>
                    /\ {c.name : c \in state.clients} = usernames \cup {"admin"}
                    /\ \A u \in usernames \ {"admin"} :
                          /\ Cardinality({g \in state.groups : u \in g.clients}) = 1
                          /\ \A q \in LegacyQueries :
                                LET asked == [q EXCEPT !.username = <<u>>]
                                    decided == Evaluate_permission(As_broker(state, u), asked)
                                    legacy == Legacy_decision(files.acls, u, asked)
                                    own == Said(files.acls, Own_lines(files.acls, u), asked)
                                    patterns == Said(files.acls, Pattern_lines(files.acls), asked)
                                    misread == Said(files.acls, Misread_lines(files.acls, u), asked)
                                IN  /\ decided = "allow" /\ legacy = "deny" => misread \ {"deny"} # {}
                                    /\ decided = "deny" /\ legacy = "allow" =>
                                          "deny" \in misread \cup patterns
                                    /\ "deny" \in own \cup patterns => decided = "deny"

===============================================================================
