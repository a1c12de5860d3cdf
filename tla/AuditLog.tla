------------------------------- MODULE AuditLog -------------------------------
(***************************************************************************)
(* What the audit trail of the admin API promises its callers: an          *)
(* append-only sequence of entries.  A call of append_event                *)
(* (admin-api/app/audit.py) puts its entry at the end of the log at one    *)
(* instant between its start and its return, at most once, and a call that *)
(* returned has done so.  A call that failed may or may not have recorded  *)
(* its entry.                                                              *)
(***************************************************************************)
EXTENDS Sequences

CONSTANT Entries            \* one entry per call of append_event

VARIABLES log,              \* the recorded entries, oldest first
          acknowledged      \* the entries whose call returned to its caller

vars == <<log, acknowledged>>

Recorded == {log[i] : i \in DOMAIN log}

TypeOK ==
    /\ log \in Seq(Entries)
    /\ acknowledged \subseteq Entries

Init ==
    /\ log = <<>>
    /\ acknowledged = {}

Record(e) ==
    /\ e \notin Recorded
    /\ log' = Append(log, e)
    /\ UNCHANGED acknowledged

Acknowledge(e) ==
    /\ e \in Recorded
    /\ acknowledged' = acknowledged \cup {e}
    /\ UNCHANGED log

Next == \E e \in Entries : Record(e) \/ Acknowledge(e)

Spec == Init /\ [][Next]_vars

===============================================================================
