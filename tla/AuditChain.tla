------------------------------ MODULE AuditChain ------------------------------
(***************************************************************************)
(* The hash-chained audit table of the admin API: append_event and         *)
(* verify_chain of admin-api/app/audit.py over the audit_events table of   *)
(* admin-api/app/models.py.                                                *)
(*                                                                         *)
(* Every request handler appends from a thread of its own (FastAPI runs    *)
(* the synchronous handlers in a thread pool) with a database session of   *)
(* its own, so the calls interleave at their database statements.  A step  *)
(* of this module is one statement of append_event:                        *)
(*                                                                         *)
(*    pc = "lock"     the advisory transaction lock, on PostgreSQL (51)    *)
(*    pc = "read"     the read of the last row (52-53)                     *)
(*    pc = "insert"   the INSERT that db.commit() flushes (54-91)          *)
(*    pc = "commit"   the COMMIT itself (91)                               *)
(*    pc = "refresh"  the read-back of the row (92)                        *)
(*                                                                         *)
(* On SQLite the driver opens its transaction at the INSERT: the read of   *)
(* the last row is a statement of its own and nothing is locked before.    *)
(***************************************************************************)
EXTENDS Integers, Sequences, FiniteSets

CONSTANTS Workers,   \* the threads that call append_event
          Entries,   \* what the calls record; no two calls record the same,
                     \* since each one carries its own timestamp
          Oversize,  \* the entries with a target longer than its column
          Dialects,  \* the databases the API may be deployed on
          None       \* no row, no entry, no lock owner

ASSUME DialectsAssumption == Dialects \subseteq {"postgresql", "sqlite"}
ASSUME OversizeAssumption == Oversize \subseteq Entries
ASSUME NoneAssumption == None \notin Workers \cup Entries

VARIABLES dialect,   \* db.bind.dialect.name
          events,    \* the committed rows of audit_events
          lock,      \* the owner of the advisory lock
          pc,        \* where each worker is in append_event
          entry,     \* the entry each worker is appending
          previous,  \* the row each worker read as the last one
          outcome    \* what became of the call that appends each entry

vars == <<dialect, events, lock, pc, entry, previous, outcome>>

-------------------------------------------------------------------------------
(* Rows and hashes.  SHA-256 is taken to be injective: a hash is the list of *)
(* everything it was computed from, back to the first row.                   *)

Genesis == <<>>
Hash(sequence, e, previousHash) == Append(previousHash, <<sequence, e>>)
Hashes == Seq(Nat \X Entries)

Rows == [sequence : Nat, entry : Entries, previous_hash : Hashes, event_hash : Hashes]

ASSUME NoneIsNoRow == None \notin Rows

Outcomes == {"none", "pending", "returned", "failed", "conflict"}

Pc == {"idle", "lock", "read", "insert", "commit", "refresh"}

TypeOK ==
    /\ dialect \in Dialects
    /\ events \subseteq Rows
    /\ lock \in Workers \cup {None}
    /\ pc \in [Workers -> Pc]
    /\ entry \in [Workers -> Entries \cup {None}]
    /\ previous \in [Workers -> Rows \cup {None}]
    /\ outcome \in [Entries -> Outcomes]

\* SELECT ... ORDER BY sequence DESC LIMIT 1
LastRow ==
    IF events = {} THEN None
    ELSE CHOOSE r \in events : \A s \in events : s.sequence <= r.sequence

\* The row built from the last row the worker read (lines 54-89).
NewRow(w) ==
    LET last     == previous[w]
        sequence == IF last = None THEN 1 ELSE last.sequence + 1
        prevHash == IF last = None THEN Genesis ELSE last.event_hash
    IN  [sequence      |-> sequence,
         entry         |-> entry[w],
         previous_hash |-> prevHash,
         event_hash    |-> Hash(sequence, entry[w], prevHash)]

\* Variant: the sequence column is not declared unique.
Violates_HashOnly(row, rows) == \E r \in rows : r.event_hash = row.event_hash

\* The unique columns: sequence and event_hash.
Violates(row, rows) ==
    \E r \in rows : r.sequence = row.sequence \/ r.event_hash = row.event_hash

\* Variant: pg_advisory_lock, which belongs to the connection and outlives the
\* transaction, in place of pg_advisory_xact_lock.
Unlocked_SessionLock(w) == lock

\* The transaction of the worker ends: its advisory lock is released.
Unlocked(w) == IF lock = w THEN None ELSE lock

-------------------------------------------------------------------------------
Init ==
    /\ dialect \in Dialects
    /\ events = {}
    /\ lock = None
    /\ pc = [w \in Workers |-> "idle"]
    /\ entry = [w \in Workers |-> None]
    /\ previous = [w \in Workers |-> None]
    /\ outcome = [e \in Entries |-> "none"]

\* A handler calls append_event.
Begin(w, e) ==
    /\ pc[w] = "idle"
    /\ outcome[e] = "none"
    /\ pc' = [pc EXCEPT ![w] = IF dialect = "postgresql" THEN "lock" ELSE "read"]
    /\ entry' = [entry EXCEPT ![w] = e]
    /\ outcome' = [outcome EXCEPT ![e] = "pending"]
    /\ UNCHANGED <<dialect, events, lock, previous>>

\* Variant: the advisory lock is tried and its answer ignored.
AcquireLock_Ignored(w) ==
    /\ pc[w] = "lock"
    /\ pc' = [pc EXCEPT ![w] = "read"]
    /\ UNCHANGED <<dialect, events, lock, entry, previous, outcome>>

\* SELECT pg_advisory_xact_lock(80472013): waits for the lock.
AcquireLock(w) ==
    /\ pc[w] = "lock"
    /\ lock = None
    /\ lock' = w
    /\ pc' = [pc EXCEPT ![w] = "read"]
    /\ UNCHANGED <<dialect, events, entry, previous, outcome>>

\* The last committed row, as of this statement.
ReadLast(w) ==
    /\ pc[w] = "read"
    /\ previous' = [previous EXCEPT ![w] = LastRow]
    /\ pc' = [pc EXCEPT ![w] = "insert"]
    /\ UNCHANGED <<dialect, events, lock, entry, outcome>>

\* The call ends with an exception: its transaction is rolled back.
Abort(w, why) ==
    /\ pc' = [pc EXCEPT ![w] = "idle"]
    /\ entry' = [entry EXCEPT ![w] = None]
    /\ previous' = [previous EXCEPT ![w] = None]
    /\ lock' = Unlocked(w)
    /\ outcome' = [outcome EXCEPT ![entry[w]] = why]
    /\ UNCHANGED <<dialect, events>>

\* The INSERT waits for a transaction that has inserted and not committed yet
\* (the write lock of SQLite, the unique index of PostgreSQL).
NoInsertInFlight(w) == \A v \in Workers \ {w} : pc[v] # "commit"

\* PostgreSQL refuses a target longer than VARCHAR(512); SQLite stores it.
TooLong(w) == dialect = "postgresql" /\ entry[w] \in Oversize

Insert(w) ==
    /\ pc[w] = "insert"
    /\ NoInsertInFlight(w)
    /\ ~TooLong(w)
    /\ ~Violates(NewRow(w), events)
    /\ pc' = [pc EXCEPT ![w] = "commit"]
    /\ UNCHANGED <<dialect, events, lock, entry, previous, outcome>>

InsertTooLong(w) ==
    /\ pc[w] = "insert"
    /\ TooLong(w)
    /\ Abort(w, "failed")

InsertConflict(w) ==
    /\ pc[w] = "insert"
    /\ NoInsertInFlight(w)
    /\ ~TooLong(w)
    /\ Violates(NewRow(w), events)
    /\ Abort(w, "conflict")

\* Variant: the session is flushed and never committed.
Commit_FlushOnly(w) ==
    /\ pc[w] = "commit"
    /\ lock' = Unlocked(w)
    /\ pc' = [pc EXCEPT ![w] = "refresh"]
    /\ UNCHANGED <<dialect, events, entry, previous, outcome>>

Commit(w) ==
    /\ pc[w] = "commit"
    /\ events' = events \cup {NewRow(w)}
    /\ lock' = Unlocked(w)
    /\ pc' = [pc EXCEPT ![w] = "refresh"]
    /\ UNCHANGED <<dialect, entry, previous, outcome>>

\* db.refresh(event) found the row: append_event returns.
Return(w) ==
    /\ pc[w] = "refresh"
    /\ pc' = [pc EXCEPT ![w] = "idle"]
    /\ entry' = [entry EXCEPT ![w] = None]
    /\ previous' = [previous EXCEPT ![w] = None]
    /\ outcome' = [outcome EXCEPT ![entry[w]] = "returned"]
    /\ UNCHANGED <<dialect, events, lock>>

\* The database or its connection fails under a statement of the call, or the
\* process is killed: what is not committed is rolled back, what is stays.
Fail(w) ==
    /\ pc[w] # "idle"
    /\ Abort(w, "failed")

Append_event(w) ==
    \/ AcquireLock(w)
    \/ ReadLast(w)
    \/ Insert(w)
    \/ InsertTooLong(w)
    \/ InsertConflict(w)
    \/ Commit(w)
    \/ Return(w)

Next == \E w \in Workers :
    \/ \E e \in Entries : Begin(w, e)
    \/ Append_event(w)
    \/ Fail(w)

Spec == Init /\ [][Next]_vars

\* The statements of a call are executed while its thread and the database
\* run.  PostgreSQL queues the waiters of an advisory lock first come first
\* served, so a worker that waits is not passed over for ever.
Fairness == \A w \in Workers :
    /\ WF_vars(ReadLast(w) \/ Insert(w) \/ InsertTooLong(w) \/ InsertConflict(w)
               \/ Commit(w) \/ Return(w))
    /\ SF_vars(AcquireLock(w))

FairSpec == Spec /\ Fairness

-------------------------------------------------------------------------------
(* verify_chain reads the committed rows in the order of their sequence in   *)
(* one statement and walks them.  It answers "valid" exactly when every row  *)
(* passes the three comparisons of the walk: its sequence is its place, its  *)
(* previous_hash is the hash of the row in the place before it, and its      *)
(* event_hash is the hash of its own contents.                               *)

Place(r) == Cardinality({s \in events : s.sequence <= r.sequence})

Valid(r) ==
    /\ r.sequence = Place(r)
    /\ IF Place(r) = 1
       THEN r.previous_hash = Genesis
       ELSE \E s \in events : Place(s) = Place(r) - 1 /\ r.previous_hash = s.event_hash
    /\ r.event_hash = Hash(r.sequence, r.entry, r.previous_hash)

Verify_chain == \A r \in events : Valid(r)

(* However the appends of concurrent handlers interleave and wherever they   *)
(* fail, verify_chain accepts the committed table: no fork, no gap, no       *)
(* broken link.  On SQLite nothing but the unique columns defends this.      *)
ChainVerifies == Verify_chain

(* The comment at audit.py:47-48 says that SQLite's own serialization of     *)
(* writers is sufficient: no call loses its event to a concurrent call.      *)
NoWriterRejected == \A e \in Entries : outcome[e] # "conflict"

(* With the advisory lock no call loses its event to a concurrent call: the  *)
(* row a worker read is still the last one when it inserts.                  *)
LockPreventsConflict == dialect = "postgresql" => NoWriterRejected

(* The table implements the abstract log: the entries in the order of their  *)
(* sequence, extended only at the end, and every returned call recorded.     *)
Log == INSTANCE AuditLog WITH
    log <- [i \in 1 .. Cardinality(events) |->
               (CHOOSE r \in events : r.sequence = i).entry],
    acknowledged <- {e \in Entries : outcome[e] = "returned"}

(* append_event adds at the end of the log, never in the middle, never twice *)
(* and never changes what is there; what it returned for is recorded.        *)
ImplementsAuditLog == Log!Spec

(* Every call of append_event ends: the advisory lock is handed on when its  *)
(* owner returns, fails or dies.                                             *)
AppendTerminates == \A w \in Workers : pc[w] # "idle" ~> pc[w] = "idle"

===============================================================================
