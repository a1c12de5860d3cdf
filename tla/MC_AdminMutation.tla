--------------------------- MODULE MC_AdminMutation ---------------------------
(***************************************************************************)
(* Small instances of AdminMutation for TLC: one handler of every shape    *)
(* (reads before, reads after, both, neither; with and without checks) for *)
(* two concurrent requests.                                                *)
(***************************************************************************)
EXTENDS AdminMutation

OneOfEachShape == {"delete_client", "create_client", "client_state",
                   "rotate_password", "add_acl", "update_role"}

\* The handler whose target holds a topic of up to 65535 characters.
AclOnly == {"add_acl"}

===============================================================================
