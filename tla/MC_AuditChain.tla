---------------------------- MODULE MC_AuditChain ----------------------------
(***************************************************************************)
(* Small instances of AuditChain for TLC.  Three workers are the least for *)
(* a chain fork to be hidden from one of the writers that race; four       *)
(* entries let a worker append again after a race it lost.                 *)
(***************************************************************************)
EXTENDS AuditChain, TLC

Symmetry == Permutations(Workers)

==============================================================================
