# Verification of the MQTT broker stack

TLA+ models of the parts of this repository that carry its own logic, the TLC
runs that check them on small instances and the TLAPS proofs of what matters
most for every instance. File names are relative to the repository; `AU:53` and
the like are lines of the files named in the tables.

## The system

An operator's browser talks to the **admin API** (FastAPI, `admin-api/app/`). The
API keeps operators, sessions and a hash-chained audit table in a **database**
(PostgreSQL, or SQLite for development) and administers a **Mosquitto broker**
through the control topics of its Dynamic Security plugin. **Shell scripts**
(`scripts/`, `mosquitto/scripts/`) bootstrap, harden, migrate, roll back, back up
and restore the broker; they work on the same state file that the broker writes.

| Component | State | Operations | Talks to |
|---|---|---|---|
| Audit trail (`audit.py`, `models.py`) | table `audit_events`, advisory lock | `append_event`, `verify_chain` | database; called by every handler |
| Broker adapter (`broker.py`) | per call: event, result or metrics, MQTT session | `command`, `overview` and their callbacks | broker over MQTT |
| Mutating handlers (`main.py`) | none of their own | 18 handlers, `broker_mutation` | adapter, audit trail, rate limiter |
| Rate limiter (`auth.py:51-65`) | a deque of time stamps per key | `check` | shared by all handler threads |
| Operator sessions (`auth.py`, `main.py:192-262`) | tables `operators`, `operator_sessions` | login, OIDC callback, logout, `current_actor`, role and CSRF checks | database, audit trail |
| Permission simulator (`policy.py`, `main.py:455-484`) | none | `topic_matches`, `evaluate_permission` | four broker reads |
| Read handlers, export (`main.py:272-293, 504-540`) | none | overview, audit history, export, lists | adapter, database, audit trail |
| Migration and rollback (`migrate-dynsec.sh`, `rollback-dynsec.sh`, `install-dynsec-state.sh`, `migrate_dynsec.py`) | checkpoints, pointer, work file, state file | migrate, roll back | broker process, data volume |
| Bootstrap and hardening (`dynsec-entrypoint.sh`, `harden-dynsec.sh`, `init*.sh`) | state file, secrets, markers | first start, baseline | broker |
| Backup and restore (`backup.sh`, `restore.sh`) | archives, marker | backup, restore | broker process, data volume |
| Console front end (`admin-ui/app.js`) | view state | rendering, requests | API |

What is hard here, and what each part has to get right:

* **No common transaction.** A mutating handler changes the broker and records it
  in the database. Correct means: the trail never claims a change that did not
  happen, an operator told of success finds the event, no request gets two
  verdicts; a change whose event is missing is only possible under an answer 500
  or a killed process.
* **Threads.** FastAPI runs the synchronous handlers in a thread pool. They share
  the limiter without a lock, the audit table with a lock on one database dialect
  only, and one response topic for all broker calls. Correct means: the chain
  verifies however appends interleave, the burst above a limit is bounded by the
  number of threads, no call takes another call's response for its own.
* **An unreliable request-reply over MQTT.** The call may time out while its
  command is under way, reconnect, and execute twice. Correct means: "ok" implies
  applied, "refused" implies that the broker refused it, everything else is
  "unknown", and every call ends.
* **Scripts without atomicity.** A migration changes the running broker, replaces
  its state file and restarts it; any command may fail and the script may be
  killed. Correct means: the state file is whole at every instant, nothing is
  changed without a checkpoint to go back to, one failure leaves no trace.
* **Failures nobody hears of.** Backup and restore ignore some failures (`|| true`,
  `&&` lists) and end on others. Correct means: the marker names a whole archive, a
  restore that says it is complete has put back every file whose copy it did not pass
  over, and a complete restore leaves a broker down only where its files do not load or
  Docker answered for the stop and not for the start.
* **Requests that read once.** A request keeps the session, role and CSRF hash it has
  read while logins, logouts and administrators change the rows. Correct means: what
  is over stays over, authority is that of some instant of the request itself, a login
  that is answered is in the trail. The permission simulator reads the broker four
  times and decides on the mixture; a mutation reads the state it will replace before
  it replaces it; overview decides on metrics that still arrive; history and export
  read the trail while others append. Correct means: what was confirmed before is
  seen, what is shown agrees with itself, and nothing waits for ever.
* **A conversion that must not change rights.** The migration turns ACL lines with one
  rule of decision into roles with another. Correct means: no account may do more, and
  none less, than Mosquitto let it do with its ACL file, except where a named kind of line
  is read otherwise.

## Modules

| Module | Models | Proofs |
|---|---|---|
| `AuditLog` | abstract: an append-only log with acknowledged entries | |
| `AuditChain` | `append_event`, `verify_chain`, the unique columns, both dialects | `AuditChainProofs` |
| `ControlCall` | abstract: what one `command()` promises | |
| `DynsecCommand` | `MosquittoAdapter.command`: caller, network loop, broker | `DynsecCommandProofs` |
| `AdminMutation` | `broker_mutation` and the eighteen handlers, over `ControlCall` and `AuditLog` | `AdminMutationProofs` |
| `ReadHandlers` | overview with its network loop, audit history, export, over `AuditLog` | `ReadHandlersProofs` |
| `RateLimiter` | `RateLimiter.check` under concurrent threads | `AuthProofs` |
| `OperatorSessions` | login, OIDC callback, logout, `current_actor` and the checks behind it, over `AuditLog` | `AuthProofs` |
| `DynsecMigration` | `migrate-dynsec.sh`, `harden-dynsec.sh`, `rollback-dynsec.sh`, `install-dynsec-state.sh`, broker file | `DynsecMigrationProofs` |
| `LegacyMigration` | `migrate_dynsec.py`: password, ownership and ACL files into a state | `PermissionsProofs` |
| `Policy` | `policy.py`: which ACL matches, which decides | `PermissionsProofs` |
| `Permissions` | the evaluate handler over `Policy` | `PermissionsProofs` |
| `LegacyPermissions` | the simulator's rules on what the conversion writes | `PermissionsProofs` |
| `BackupRestore` | `backup.sh`, `restore.sh`, hand edits and the broker besides them | `BackupRestoreProofs` |
| `MC_*` | the handler shapes, scenarios, inputs and symmetry sets of the small instances | |

`AdminMutation` composes: its broker call is an instance of `ControlCall`, which
`DynsecCommand` implements, and its audit trail an instance of `AuditLog`, which
`AuditChain` implements; both refinements are proved. `OperatorSessions` and
`ReadHandlers` take their audit trail from the same `AuditLog`, and `LegacyPermissions`
composes the conversion with the simulator. So these models do not repeat what the
components below them promise, and still rest on their code.

In every module a definition whose name ends in `_Something` is a *variant*: the
definition before it as a plausible mistake would have it. No specification uses
one; each is the mutation under which the property named in `PROJECT.json` fails.

### AuditChain (`admin-api/app/audit.py`, `models.py:45-60`)

One step per database statement of `append_event`; `pc` names the next one. A row
keeps what the verification looks at: sequence, contents (`entry`),
`previous_hash`, `event_hash`. SHA-256 is taken to be injective: a hash is the
list of everything that went into it. `Workers` are the handler threads, each
with its own session. `dialect` is the database, fixed when the API starts. On
PostgreSQL a call first waits for `pg_advisory_xact_lock` (AU:51), which the end of its
transaction releases; on SQLite the transaction begins with the INSERT, so the read of the last row
(AU:53) is unprotected and only the unique columns stand between two writers.
`Fail` is a lost connection or process under any statement, also after the COMMIT
(the event is recorded and the caller gets an exception); `InsertTooLong` is
PostgreSQL refusing a target longer than its column. `Place`, `Valid` and
`Verify_chain` are `verify_chain` (AU:96-122).

### DynsecCommand (`admin-api/app/broker.py:26-82`)

The caller's thread (`pc`: connect, wait, look at the error, look at the response,
close) and the network loop, whose callbacks are one action each, share `event`,
`error` and `response` without a lock. `toBroker` and `toClient` are the packets
under way on the call's connection; losing the connection loses them and the loop
reconnects by itself. MQTT library and broker are external and modelled from what
`command()` relies on: ordered delivery within a connection, QoS 1 retransmission
after a reconnect, a broker that may reject a connection, deny a subscription
(`on_subscribe` does not look at the reason codes), refuse a command, and publishes
every response to all subscribers of the one topic. A payload that cannot be decoded is an
error of the call (`OnInvalidMessage`); one that is JSON but not an object raises in the callback
and ends the loop's thread, which is a loop that takes no further step, as it may at any time
here.

### AdminMutation (`admin-api/app/main.py:84-90, 133-155, 299-450`)

A handler is given by its shape: does it check anything itself (`Checks`), read
the object before the change (`ReadsBefore`), read it again for the answer
(`ReadsAfter`). `pc` walks guard, before, limit, command, audit, recorded, after.
`Executes` is the broker, which may act after the call has ended. `Crash` kills the
process: all requests in it are lost, commands that left are not. What a read of the
broker shows is the set of requests whose change it holds (`Applied`); `before` keeps
what the handler read for its event, `settled`, a history variable, the requests whose
callers had been told of success when it came in.

### ReadHandlers (`admin-api/app/main.py:272-293, 504-540`, `broker.py:89-130`)

A request is an overview, an audit history or an export. In overview the caller
(connect, wait with a time limit, decide, stop the loop, build the answer) and the
network loop (`link`, `OnConnect`, `OnMessage`, `Reconnect`) share `metrics` and
`event`; the loop runs until `loop_stop`, so metrics arrive between the decision and
the answer. The broker may refuse the connection, say nothing, or stop (`Outage`).
Each SELECT of history and export sees what is committed at its own instant;
`OtherRecords` is every other handler of the API. `verified` is what `verify_chain`
went through; that what it finds is right is `ChainVerifies`. `settled` is a history
variable, what had been acknowledged when the request came in. `Passing` is the WHERE
clause, the place of the i-th event that passes the filter, and `Newest` the ORDER BY
with its LIMIT.

### RateLimiter (`admin-api/app/auth.py:51-65`)

`check` in the steps at which another thread may run: read the clock (56), find the
oldest attempt expired (`Test`, 58), remove the one that is oldest by then (`Popleft`,
59), find none expired and measure (`Measure`, 58 and 60), append or raise. CPython
switches threads after a call and where a loop jumps back, which is between the test and
the `popleft`; so two threads that have tested one expired attempt remove two, of which the
second may still count, and `popleft` on an empty deque raises (`PopEmpty`, answer 500).
`admitted` is the history of appended readings and `purged` how many of them `popleft`
removed; the deque is the rest.
(Its definitions are named apart from those of `OperatorSessions`, for the two halves of
`auth.py` share a module of proofs.)

### DynsecMigration (`scripts/migrate-dynsec.sh`, `rollback-dynsec.sh`, `mosquitto/scripts/install-dynsec-state.sh`)

One step per command that matters; `Then(step)` lets every command fail after its
effect, `CommandFails` before it, `Kill` ends the script without a trap. A state
file is the list of changes that made it, so a property can see whether a change
of migration `m` is left and whether a restored file is the original. The broker
holds its state in `memory` and writes it through at every change, which is why
replacing the file under a running broker would be undone. The hardening has two steps:
the defaults, whose first failure ends it (`Deny`), and the removals, whose failures
nobody hears of (`Remove`). `Edit` is the admin API
changing the state meanwhile; `Corrupt` damages a checkpoint on disk.

### OperatorSessions (`admin-api/app/auth.py:77-166`, `main.py:64-70, 192-260`)

A request is a thread with a database session of its own and a step is one statement
or transaction; `expire_on_commit=False` (`db.py:18`) makes what it read a snapshot
(`read`). A login creates at most one session, which is named after its request.
`Verify` and `Claims` choose the outcome of password check and token exchange. The
failure paths are those of the ORM: a row deleted under `last_seen_at` (137) is an
error and answers 500; a conflicting insert of a new OIDC operator leaves the database
session unusable, so the failure event of the callback's `except` is lost with it. An
audit failure in a login leaves an orphan session whose cookies nobody was given.
`Administer` edits operator rows outside the API; `Tick` is the clock; `Restart`
loses the requests, keeps the tables and deletes expired rows. `late` and `entitled`
are history: was the session over when the request began, had its operator the
authority at any instant since. A role may be one that `ROLES` does not have (134): it
opens no handler.

### BackupRestore (`scripts/backup.sh`, `scripts/restore.sh`)

A file group is copied per step and every copy may be interrupted and leave a `Torn`
file; what happens then depends, as under `set -e`, on `|| true` and on the command's
place in an `&&` list. Whether the Docker daemon answers is asked anew at the stop, the data
and the start (restore.sh:60, 90, 111), and each of the three is skipped without a word when
it does not. A file is the number of the edit that wrote it. The overlay
leaves files that are not in the archive where they are. The safety backup is
`backup.sh` itself, run by the restore (`script = "restore"` with `pc` in
`BackupSteps`). The broker comes up only with whole files and a certificate that fits
the private key, which is in no archive. `passedOver` names the steps that the restore
skipped, or failed to do, without a word; `before` and `up` remember how it found things.
The stack may have been backed up before the first script.

### LegacyMigration (`scripts/migrate_dynsec.py`)

A file is the sequence of its lines with their words taken apart; a line that cannot be
read is "invalid". The exit code follows the order of the checks: a wrong line (1) before
an unsupported hash (2), both before the other files. `Acls_of` collects the lines of an
account over all of its sections together with patterns and with the topics before the
first section. Text names and descriptions are left out, and the role of an account is
named after the account. The order of ACLs with equal priority is left open, since
equal priority means equal verdict: `Deduplicate_acls` takes one of the highest priority
after the other.

`MigrationKeepsDecisions` asks the candidate with the rules of `Policy` and compares with
`Legacy_decision`, which does not follow the converter but Mosquitto 2.0's own reading of
its `acl_file`, the setting the stack is migrated from. Mosquitto is not in the repository,
so these definitions (`Permitting`, `Own_lines`, `Pattern_lines`, `Said`,
`Legacy_decision`) are external. Topic lines before the first `user` line are for
anonymous clients; a topic line is literal and only a pattern has placeholders; an
account's own section decides if one of its lines bears on the message, else the
patterns do; in either a denial comes first. It decides on messages sent and received, so
the property asks about these; a subscription as such Mosquitto never refuses. The two readings
differ, and the property says exactly where they may:

* more is allowed than before only if a permission of `Misread_lines` bears on the
  message: a topic line for anonymous clients, which the converter gives to every account,
  or one with a placeholder in a section;
* less is allowed only if such a line denies, or a pattern denies what the section permits;
* a denial in the account's section or in a pattern always holds.

Each exemption is needed: without any of them TLC finds a file that breaks the property
(see Findings). An account "admin" is excepted, as it is a second client of that name.

### Policy and Permissions (`admin-api/app/policy.py`, `main.py:455-467`)

Filters and topics are sequences of levels. `RegexMatches` is the regular expression
that `topic_matches` builds, level by level, with the joined-up `/#` it treats
specially; `MatchingIsMqtt` compares it with MQTT's definition. Names are numbers, in
the alphabetical order that breaks ties. `SystemWords` are the levels that begin with
`$`. `InOrder` is Python's `sorted` for keys of which no two are equal: the one list of
a set's elements in which each precedes the next. `Evaluate_permission` walks the sorted roles
and ACLs; `PrecedenceDecides` compares it with a declarative order of rules. The
handler's four reads are one step each and `Change` changes one object between them.
Left out: a newline in a level, for which `.` and `$` of the regular expressions
have rules of their own.

## Runs

| Run | Instance | Shows |
|---|---|---|
| `audit_appends` | 3 workers, 4 events, one oversize, both dialects; fair | the chain verifies, the table implements `AuditLog`, no append fails because of another on PostgreSQL, every append ends, the lock is always handed on |
| `audit_sqlite_serialized` | 3 workers, 4 events, SQLite | *violated*: "SQLite serializes writes itself, which is sufficient" (AU:47-48) - events are lost to conflicts |
| `command` | 2 calls with 1 connection each, or 1 call with 3; unreadable payloads; fair | every call implements `ControlCall` on the shared topic; a broker refusal without repetition means untouched; the answer reaches a subscribed caller; executions are bounded; every call ends |
| `mutation_faults` | 2 requests, one handler of every shape, failing database, dying process; fair | what the trail may claim and what it must hold, one verdict per request, what the recorded state before a change has seen, every request is answered |
| `mutation_unaudited` | 1 `add_acl`, no fault, long topic | *violated*: every security change produces an audit event |
| `limiter_race` | 2 threads, limit 2, window 2, clock to 4, 7 admissions | burst and memory bounds under races; no undeserved rejection |
| `migration_faults` | 3 script runs, 2 faults each, kills, damaged checkpoints, edits | whole file, way back, exact rollback, one fault is harmless |
| `migration_pointer` | 3 runs, two checkpoint directories | *violated*: rollback without argument uses the last checkpoint |
| `sessions` | a local login with logout, mutation and read of its session, or an OIDC login and a mutation with a second OIDC login or a logout; expiry, role changes (also to no role), database failures, restarts | what is over stays over; authority is current; answered logins are audited; refused ones leave no session |
| `backup_restore` | 2 scripts on a stack with or without an archive, 1 edit, any command may fail, kills, Docker out of reach at any of the commands | the marker names a whole archive; the safety archive holds what was live; a complete restore has put back what it did not pass over; in which case alone it leaves a broker down |
| `reads` | 2 reads of any kind, 1 event of another handler, 2 topics, a history of 1 event, 1 outage; fair | an overview agrees with itself; an export is complete; a history's verdict covers what it shows; every read ends |
| `permissions` | all filters and topics of up to 3 levels, 3 queries, 3 changes; all ACL files of up to 4 lines out of 8, and password and ownership files that are accepted or refused | matching is MQTT's; precedence decides; changes of one kind of object look atomic; where alone the migration decides otherwise than Mosquitto did |

The type invariants are not among the properties of the runs: those of eight modules
are proved (below), for every instance.

### Bounds

Three audit workers are the least for which one can win, one lose and one start
in between; four events let a worker append again after a lost race. Two calls
suffice to see a foreign response; three connections to retransmit a
retransmission. Two requests are enough for every property of `AdminMutation`,
none of which relates three. In `limiter_race` the clock passes the window twice, so
attempts expire exactly at the boundary and between two steps of one thread, and attempts
that were lost are followed by a full burst; two threads reach both bounds of `BurstBound`
(Limit + 3 out of order, Limit + 2 in order); `MaxReading` and `MaxAdmits` only end the run. Three script runs give migration,
second migration, rollback in every order; two faults in one run include a fault
in the rollback that the first fault's trap started. `MaxConnects` bounds the
reconnects, `MaxExecutions` in `AdminMutation` the executions of one command,
which `ExecutionsBounded` relates to the connections. In `sessions` a login and three
requests of its session are the least for a request that begins after a logout which
another request raced; two OIDC logins race for the row of a new operator. The clock
has two instants and the session lives for one, so it expires between any two steps.
Operators are only edited once they have begun to log in, before which it makes no
difference; `Edits` makes them viewers, administrators, disabled, or gives them a role that
does not exist. In `backup_restore` two scripts on a stack that has
an archive give backup and restore in any order, the restore of an archive older than the
edit and that of the safety archive of an earlier restore; one edit is enough to tell an archive from what it replaces; files are
edited by hand between the scripts only, the broker writes its state at any time; one
archive per second, so that no archive overwrites another. In `permissions` three
levels hold a fixed, a `+` and a `#` level in every order; three changes lie before,
between and after the reads; four lines hold two sections with a rule each in any order,
or three rules of an account, with every order of a denial and a permission. In `reads`
two requests give every pair of kinds; a request's own event is one that the other may
or may not show, and a limit of one lets newer events push out older ones.

Deadlock is not checked: all instances have a finite number of calls, requests or
runs, and stop when these are used up.

### Fairness

`AuditChain`: a statement that can be executed is executed (weak fairness), and
the advisory lock is not withheld from one waiter for ever (strong fairness;
PostgreSQL queues its waiters). Nothing forces a call to start, to fail or to
succeed. `DynsecCommand`: only the caller's own steps are weakly fair, among them
the time-out of `event.wait(timeout)`; the broker and the network owe nothing.
`AdminMutation`: a handler thread runs; that its two calls end is what
`CallTerminates` and `AppendTerminates` show. `ReadHandlers`: the same; the network
loop and the broker owe nothing, so that `EveryReadEnds` rests on the time limit of
`event.wait` alone. Sessions, permissions and the scripts
have no fairness, their properties are all safety.

## Proofs

`AuditChainProofs` proves, for every number of workers and events:

* `TypeCorrect`: `Spec => []TypeOK`.
* `ChainAlwaysVerifies`: `Spec => []ChainVerifies`, for both dialects. The property
  is not inductive, because a worker may hold a row it read long ago and be about to
  commit. `IInv` adds: the committed rows are a chain of some length n (numbers 1 to
  n, once each, linked); what workers read is committed; at most one row is inserted
  and not committed, and it collides with no committed row. Then its predecessor
  cannot be row i < n, for row i + 1 exists: it extends the chain (`ExtendChain`).
  That verification's place in the walk is the row's number is a bijection argument
  (`PlaceIsSequence`).
* `PostgresqlNeverRejects`: `Spec => []LockPreventsConflict`. `Serialized`
  adds that the worker between its read and its commit owns the lock and that what
  it read is still the last row; then neither unique column can be violated, the
  hash because hashes are injective in the sequence (`HashInjective`).
* `ImplementsLog`: `Spec => ImplementsAuditLog`, the refinement of `AuditLog`. It
  needs `Bookkeeping`: an entry belongs to one call, is committed at most once, and
  a call that returned has committed its own. A commit maps to `Record`, a return to
  `Acknowledge`, everything else to a stutter.

`AuthProofs` is about both halves of `auth.py`. Of `RateLimiter` it proves
`MemoryIsBounded`, `BurstIsBounded` and the action property `RejectionIsDeserved` for every number of threads, limit and window. The deque's length
alone is not inductive: threads that have measured it will append whatever the others do.
The invariant counts them with the attempts (`CommittedBound`), which bounds the deque by
Limit + N - 1 for N threads. A burst is the deque and what was removed from it although it
still counts. Seen from an instant, all threads may have tested the same stale attempt; one
of them removes it, the others remove what follows (`FewLost`: each stale attempt in front of
fresh ones costs at most one fresh attempt for every other thread). A stale attempt behind a
fresh one is the append of a thread that was overtaken, of which there are at most N - 1
(`FewLate`). Together the burst is at most Limit + N*N - 1, and Limit + 2*(N - 1) as long as
the deque is in order and nothing stale is late. For the rejection the invariant adds that a
thread past its purge has seen the oldest attempt that was left to be within its window
(`Deserved`): as long as the deque is ordered, so are all the attempts behind it.

Of `OperatorSessions` it proves the four properties of `sessions` for any requests,
time to live and scenario. A request is told apart by where it is and what it holds
(`Control`), and by the tables it relies on: the operator rows of live sessions (`Known`),
the sessions that refused logins do not have (`Sessionless`), whether the
authority it acts on was current at some instant of the request (`Authority`), how far
a late request gets (`Over`) and what is in the trail (`Audited`). Its own steps are one
lemma step each; the steps of all others reach it only through the tables, which the
lemma `Frame` deals with once.

`AdminMutationProofs` proves all six safety properties of `mutation_faults` for every set
of requests and handlers and every bound on executions. The invariant is a conjunction
over the requests of what a place in the handler tells of its broker call (`Progress`),
a verdict of the call (`Verdict`), the call of the executions (`Execution`), the
trail of the verdict (`Trail`) and the status of the trail (`Answered`), and of what has been
`Seen`: what was confirmed is applied, and what is applied stays applied. Since one
request has one verdict and records it once, one event per request follows
(`VerdictStep`).

`ReadHandlersProofs` proves all three safety properties of `reads`. For
`OverviewsAreCoherent` it needs `Decided`: what made the broker reachable is not forgotten
while the network loop runs on. `ExportsAreComplete` needs that what is acknowledged is
recorded and that a prefix of the log stays one when the log grows. `ShownIsVerified` has
an invariant of its own (`HInv`): no event is recorded twice (`Distinct`), and a history,
from its query on, shows recorded events; what was acknowledged, passes the filter and is
missing is older than all of them, and then the list is full (`Listed`), which no later append
disturbs. What the query returns is in
`NewestOfPassing`: the last `Limit` events that pass the filter, in reverse.

`DynsecMigrationProofs` proves `LiveFileStaysWhole` and `ChangesHaveCheckpoints` for any
number of runs, faults, edits and directories. A migration whose checkpoint is complete
and from before its changes is in `Complete`, a set that only grows; no content anywhere -
live file, memory, work file, checkpoint - holds changes of another migration
(`AllClean`), and what is going to be installed is whole (`Whole`), which at a rollback
rests on the comparison with a checksum that is never torn itself. How runs end is a
second invariant (`Outcome`), relative to the first: which script is where (`Course`), when
the broker runs and that it then has in memory what is in the file (`Broker`), that what
is installed is the goal and only edits come on top of it (`Content`), and what a
migration, and the trap that undoes it, have left (`Undone`). From it follow
`CompletedRunsOnCandidate`, `RollbackIsExact` and `OneFaultIsUndone`. For the last
it counts faults: the trap runs only after one, and a second is what the property
excludes.

`BackupRestoreProofs` proves all four properties of `backup_restore` for any number of
scripts and edits. The marker needs that the archive being written is the last one
(`WrittenLast`), the safety archive that nothing is laid before it is packed
(`SafetyStarted`), the complete restore that each file, once laid, stays laid unless its
copy was passed over or, for the data, the broker was not stopped (`Owed`, `Laid`), and the
service that between `stop` and `start` the broker runs if and only if its stop was passed
over (`Served`). Nothing is assumed of the daemon: each of its three answers is free.

`DynsecCommandProofs` proves all safety properties of `command`, for any number of calls
and connections: `BoundOnExecutions`, `RefusalIsFinal`, `NoAnswerIsMissed`, and
`CallImplements`, the refinement of `ControlCall`. The invariant is a conjunction over the
calls. Of CONNECT, CONNACK, SUBSCRIBE and SUBACK at most one is under way on a connection,
before everything else (`Shape`), so that the publications under way are counted by the
length of a queue (`Queued`) and those the connection still owes by how far its handshake
is (`Owed`); executed, queued and owed ones together are at most 1 + 2 + ... + n after n
connections (`Counted`). A message to a client, the response it keeps and the outcome each
speak of an execution (`Answers`), and a first connection that stands publishes only when
it listens (`Granted`). An execution by the broker touches all calls at once: `OthersHear`
shows that a response to somebody else's command leaves a call's invariant alone. In the
refinement `Call` maps to `Open`, the decisions of the caller to `Answer`, `BrokerExecute`
to `Apply` or `Refuse`, everything else to a stutter.

`PermissionsProofs` proves all four properties of `permissions`, for every state of the
broker, filters, topics and files of any length, and any number of changes:

* `MatchingAgrees`: `Spec => []MatchingIsMqtt`. The function by which `RegexMatches` goes
  backwards through a pattern says of each of its levels which rests of the topic match
  (`FromIsLevelByLevel`); from the first level that is MQTT's definition (`RegexIsMqtt`).
* `DecidedByPrecedence`: `Spec => []PrecedenceDecides`. A sort by a total order exists and
  lists the set (`InOrderLists`); flattening lists rows and, within a row, columns in order
  (`FlattenRows`). So the first ACL that matches is the rule whose place, compared
  component by component, none precedes (`FirstMatchDecides`).
* `OneKindIsAtomic`: `Spec => []OneKindOfChangeIsAtomic`. The decisions of the states since
  the request began are in `possible`; the invariant says of each part already read
  (`FitsIn`) that, if only that part has changed, the broker with the part as it was read
  is one of these states.
* `MigrationIsFaithful`: `Spec => []MigrationKeepsDecisions`. An account's role holds exactly
  the ACLs of the lines that concern the account, without their order (`AclsOfLines`,
  `Deduplicated`); it is the only role the simulator looks at (`OneCheck`), and since what
  denies has the higher priority, the first match denies if any does (`OneRoleDecides`,
  `AccountDecides`). The lines of the role are those of the account's section, the patterns
  and the misread ones (`RoleSays`), from which the comparison with Mosquitto's order, own
  section first, follows (`DecisionsCompared`).

Filters, lists and files have no bound, and the theorems of induction are out of the
prover's reach. What a recursive function computes for every argument is therefore proved
by contradiction from the least argument at which it would fail (`LeastElement`), and that
the function exists at all in the same way (`Recursion`).

Each of these modules also proves its type invariant (`TypeCorrect`; for the limiter
`LimiterTypeCorrect`). That of `DynsecCommand` bounds its counters, and needs an invariant
of its own: every acknowledgement on its way to the client and every publication on its way
to the broker stands for a different message that the library still keeps (`Acked`), so
that an acknowledgement never finds nothing to acknowledge. Acknowledgements are counted as
the cardinality of a set of positions, which adds up over a concatenation (`AcksJoin`).

The proofs assume the `ASSUME`s of the modules (limits and windows are positive, the set
of threads is finite, model values are nothing else), the injectivity of the hash, which
is built into its definition, and the library's theorems on finite sets, functions and
well-founded relations. Of the broker's lists `Permissions` assumes what the API's schemas
and the broker guarantee: roles, groups and ACLs are finite in number, priorities are
integers, types of ACLs are the six of `schemas.py:36-39`, topics have at least one level,
and no wildcard is a system level; of the files `LegacyPermissions`
assumes that they are sequences of lines such as the parsers let through or refuse.
The bounds (`MaxReading`, `MaxAdmits`, `MaxRuns`, `MaxScripts` and so on) are arbitrary.

Only model-checked: liveness (`AppendTerminates`, `CallTerminates`, `EveryRequestAnswered`,
`EveryReadEnds`), since the prover handles neither fairness nor ENABLED. Every safety
property of the passing runs is a theorem.

## Findings

1. `audit.py:47-53` - on SQLite concurrent appends collide, and the loser's event is
   gone although its command was applied (`audit_sqlite_serialized`).
2. `main.py:444` - an ACL topic longer than the audit target column is applied by the
   broker and cannot be audited (`mutation_unaudited`).
3. `migrate-dynsec.sh:102` - with `--checkpoint-dir` the pointer is written where
   `rollback-dynsec.sh` does not look (`migration_pointer`).

Seen while modelling, described by the models and refuted by no run:

* `backup.sh:67-80` - when `docker cp` fails or the container does not run, the backup
  lacks the Dynamic Security state and the marker is written all the same; that "the backup
  includes" it (`backup.sh:3-4`) holds only while neither happens.
* `auth.py:58-59` - two threads that find the same attempt expired remove two: one that still
  counts is forgotten and the burst grows beyond the limit plus the other threads, or the deque
  is empty and the request ends with an IndexError, answer 500. `BurstBound` is what holds.
* `restore.sh:61` - a failed `stop` goes unnoticed and the files are replaced under a
  running broker; `CompleteRestoreIsExact` says nothing of the data then.
* `restore.sh:111` - if Docker does not answer when the broker is to be started, the start is
  left out and the script says "Restore complete" with the broker down; `RestoreKeepsServing`
  names this as the only such case.
* `restore.sh:90` - if Docker does not answer there, the data are not restored and nobody is
  told.
* `restore.sh:80` - a failed copy of the password file is not the last command of its list,
  so the script goes on.
* `restore.sh:73` - certificates are restored, private keys are not: an archive older
  than the key leaves the broker unable to start.
* `policy.py:36` - `+` wants a level of at least one character, MQTT does not;
  `MatchingIsMqtt` leaves topics with an empty level out.
* `migrate_dynsec.py:239` - a password file with an account "admin" gives a state with two
  clients of that name; an ownership group "unauthenticated" (line 274) gives two groups.
  Nothing refuses either, and `mosquitto/config/security/acl.example:4` has a section for `admin`;
  `MigrationKeepsDecisions` excepts the account "admin".
* `migrate_dynsec.py:180-181` - topic lines before the first `user` line, which Mosquitto keeps
  for anonymous clients, go to every account: rights widen, or a denial among them narrows
  them. An account without a section of its own gets them too, although "an application
  account without ACL has no topic permission" (`docs/migration-dynamic-security.md:53`).
* `migrate_dynsec.py:131-157` - `%u` and `%c` in a topic line are literal for Mosquitto and are
  substituted after the migration; a denial in a pattern, which Mosquitto only looks at when
  the account's section says nothing, outweighs the section afterwards.
* `broker.py:116-128` - an overview whose metrics arrive after the decision says "unavailable"
  and shows the version; a "degraded" one without a client count shows 0 clients.
* `main.py:326` - the state before a change is read before the limit and the command:
  another change may come in between; `BeforeSeesFinishedChanges` is what holds.
* `rollback-dynsec.sh:35-43` - the checkpoint is verified before the confirmation prompt and
  copied after it; damage in between goes unnoticed and is excluded from the model.
* `harden-dynsec.sh:15-20` - a removal that fails is not reported; a migration replaces what
  is left of it, the first start does not.
* `main.py:457-464` - changes of two kinds of objects between the four reads can give a
  decision no state of the broker would give; `OneKindOfChangeIsAtomic` is what holds.

## Not modelled, and why

* The front end: it presents the API's answers; every decision is taken by the API.
* Redaction (`audit.py:24-34`), formatting, the CSV and JSON forms of the export, the
  request schemas (`schemas.py`) and the settings (`config.py`): conversions and checks of
  single values without state or order.
* Lists, connections, readiness, `certificate_status` and the age of the backup marker:
  one read each, of the broker or of a file, and no effect.
* The first start around the hardening (`bootstrap-dynsec.sh`, `init.sh`, entry points):
  commands in a row, each skipped when its result is there.
* Single-command scripts (users, certificates) and declarative files (compose, broker
  configuration).
* The triggers that forbid updates of `audit_events` and the migrations that create the
  tables: the code never issues an update, and the models start from the tables.
* The number of keys of the rate limiter (`auth.py:57`): it grows with every user name and
  address, and no line of the code bounds it, so there is nothing to state but that.
* What becomes of changes made between the copy of the base state and the stop of the broker
  (`migrate-dynsec.sh:109`): the candidate replaces every application identity by design,
  and no document says more.

## Plan

The modules were written in the order of importance: the trail of changes first (audit,
broker call, mutation, limiter), then the scripts that replace the broker's state, then
sessions, backup and simulator, then the read handlers and the conversion of legacy files;
after the models the proofs, in the same order. Nothing of the plan is left; what the models
leave out is listed above.
