------------------------- MODULE MC_OperatorSessions -------------------------
(***************************************************************************)
(* Small instances of OperatorSessions for TLC.  One login and three       *)
(* requests of its session are the least for a request to begin after a    *)
(* logout that another request of the same session has raced; two OIDC     *)
(* logins may race for the row of a new operator, and an OIDC session is   *)
(* logged out.                                                             *)
(***************************************************************************)
EXTENDS OperatorSessions, TLC

CONSTANTS r1, r2, r3, r4

OneSessionOrTwoLogins ==
    {(r1 :> "login") @@ (r2 :> "logout") @@ (r3 :> "mutation") @@ (r4 :> "read")}
    \cup {(r1 :> "oidc") @@ (r2 :> second) @@ (r3 :> "mutation") @@ (r4 :> "none") :
              second \in {"oidc", "logout"}}

\* An operator becomes a viewer, an administrator again, disabled, or is given a
\* role that does not exist.
RowsWritten == {Row("viewer", TRUE), Row("security_admin", TRUE), Row("security_admin", FALSE),
                Row("other", TRUE)}

==============================================================================
