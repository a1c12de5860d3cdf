--------------------------- MODULE DynsecMigration ---------------------------
(***************************************************************************)
(* The cut-over from password and ACL files to Dynamic Security and the    *)
(* way back: migrate-dynsec.sh and rollback-dynsec.sh of scripts/, with    *)
(* install-dynsec-state.sh and harden-dynsec.sh of mosquitto/scripts/.  A  *)
(* step is one command of a script.  Every command may fail, before or     *)
(* after its effect; the script may be killed between any two, which no    *)
(* trap notices; the admin API changes the state meanwhile.                *)
(*                                                                         *)
(* A state file is the list of the changes that made it: edits through the *)
(* admin API, and the hardening and the replacement by migration m.  The   *)
(* broker (external) loads the file when it starts and writes what it has  *)
(* in memory to the file at every change.                                  *)
(***************************************************************************)
EXTENDS Integers, Sequences

CONSTANTS Edits,        \* changes made through the admin API
          MaxRuns,      \* bound: script runs started by the operator
          MaxFaults,    \* bound: failing commands in one run
          MayKill,      \* may the script be killed?
          MayCorrupt,   \* may a checkpoint file be damaged on its disk?
          Roots,        \* checkpoint directories used; "backups" is the default
          Torn, None    \* a partly written file; nothing

ASSUME RootsAssumption == "backups" \in Roots
ASSUME BoundsAssumption == MaxRuns \in Nat /\ MaxFaults \in Nat

VARIABLES live,         \* dynamic-security.json in the data volume
          temporary,    \* dynamic-security.json.new beside it
          running,      \* is the broker running?
          memory,       \* its state, if it is
          script,       \* the script that runs: None, "migrate" or "rollback"
          pc,           \* its next command
          target,       \* its CHECKPOINT_DIR, resp. CHECKPOINT
          started,      \* what the operator started last
          restore,      \* RESTORE_REQUIRED
          work,         \* the file in tmp/dynsec to be installed
          checkpoints,  \* the checkpoint directories, one per migration
          pointer,      \* .last-dynsec-migration in every root
          latest,       \* the migration that wrote such a pointer last
          exit,         \* how the last run ended
          faults, runs  \* failed commands of this run, runs so far

brokerVars == <<live, temporary, running, memory>>
diskVars == <<checkpoints, pointer, latest>>
scriptVars == <<script, pc, target, started, restore, work, exit, faults, runs>>
vars == <<brokerVars, diskVars, scriptVars>>

Ids == 1 .. MaxRuns

Changes == ({"edit"} \X Edits) \cup ({"deny", "remove", "migrate"} \X Ids)
Contents == Seq(Changes)
Files == Contents \cup {Torn}

MigrateSteps == {"copy_state", "copy_inputs", "checksum", "pointer", "deny", "remove", "generate"}
RollbackSteps == {"check", "copy"}
SharedSteps == {"stop", "install", "copied", "rename", "start", "health", "verify"}
Steps == MigrateSteps \cup RollbackSteps \cup SharedSteps

ASSUME NoFileAssumption == {Torn, None} \cap Contents = {} /\ Torn # None
ASSUME NoStepAssumption == None \notin Steps
ASSUME NoValueAssumption == None \notin {"migrate", "rollback", "migration", "completed",
                                         "failed", "rolled_back", "killed"}

Checkpoint == [root : Roots, state : Files \cup {None}, original : Contents,
               checksum : Files \cup {None}]

TypeOK ==
    /\ live \in Files /\ memory \in Files
    /\ temporary \in Files \cup {None}
    /\ work \in Files \cup {None}
    /\ running \in BOOLEAN /\ restore \in BOOLEAN
    /\ started \in {None, "migration", "rollback", "default_rollback"}
    /\ script \in {None, "migrate", "rollback"}
    /\ pc \in Steps \cup {None}
    /\ target \in Ids \cup {None} /\ latest \in Ids \cup {None}
    /\ checkpoints \in Seq(Checkpoint)
    /\ pointer \in [Roots -> Ids \cup {None}]
    /\ exit \in {None, "completed", "failed", "rolled_back", "killed"}
    /\ faults \in 0 .. MaxFaults /\ runs \in 0 .. MaxRuns

Init ==
    /\ live = <<>> /\ memory = <<>> /\ running = TRUE
    /\ temporary = None /\ work = None
    /\ script = None /\ pc = None /\ target = None
    /\ started = None /\ restore = FALSE
    /\ checkpoints = <<>>
    /\ pointer = [root \in Roots |-> None]
    /\ latest = None /\ exit = None
    /\ faults = 0 /\ runs = 0

-------------------------------------------------------------------------------
(* The broker and its other writers. *)

\* Every change is written through to the file.
BrokerApplies(change) ==
    /\ running
    /\ memory' = Append(memory, change)
    /\ live' = memory'

Edit(e) ==
    /\ \A i \in DOMAIN memory : memory[i] # <<"edit", e>>
    /\ BrokerApplies(<<"edit", e>>)
    /\ UNCHANGED <<temporary, running, diskVars, scriptVars>>

\* A checkpoint's state file is damaged after its checksum was taken.  Not in
\* the time between the verification by rollback-dynsec.sh and its cp (35-43):
\* that damage goes unnoticed.
Corrupt ==
    /\ MayCorrupt
    /\ pc # "copy"
    /\ \E m \in DOMAIN checkpoints :
        /\ checkpoints[m].checksum # None
        /\ checkpoints[m].state # Torn
        /\ checkpoints' = [checkpoints EXCEPT ![m].state = Torn]
    /\ UNCHANGED <<brokerVars, pointer, latest, scriptVars>>

-------------------------------------------------------------------------------
(* Control flow of the scripts. *)

StartRun(what, name, step, checkpoint) ==
    /\ script = None
    /\ runs < MaxRuns
    /\ runs' = runs + 1
    /\ script' = name /\ pc' = step
    /\ target' = checkpoint /\ started' = what
    /\ restore' = FALSE
    /\ faults' = 0 /\ exit' = None
    /\ UNCHANGED <<brokerVars, work, pointer, latest>>

\* Lines 41-91: the broker must be running.
StartMigration(root) ==
    /\ running
    /\ StartRun("migration", "migrate", "copy_state", Len(checkpoints) + 1)
    /\ checkpoints' = Append(checkpoints,
           [root |-> root, state |-> None, original |-> live, checksum |-> None])

\* rollback-dynsec.sh --checkpoint <dir>
StartRollback(m) ==
    /\ StartRun("rollback", "rollback", "check", m)
    /\ UNCHANGED checkpoints

\* rollback-dynsec.sh: the pointer in the default root (22-24).
StartDefaultRollback ==
    /\ StartRun("default_rollback", "rollback", "check", pointer["backups"])
    /\ UNCHANGED checkpoints

Ends(how) ==
    /\ script' = None /\ pc' = None
    /\ exit' = how
    /\ restore' = FALSE
    /\ UNCHANGED <<target, started, faults, runs>>

\* The ERR trap of the migration (76-87), "set -e" of the rollback.
Fails ==
    IF script = "migrate" /\ restore
    THEN /\ script' = "rollback" /\ pc' = "check"
         /\ restore' = FALSE
         /\ UNCHANGED <<target, started, exit, runs>>
    ELSE /\ script' = None /\ pc' = None /\ exit' = "failed"
         /\ restore' = FALSE
         /\ UNCHANGED <<target, started, runs>>

Fault ==
    /\ faults < MaxFaults
    /\ faults' = faults + 1
    /\ Fails

Goto(step) ==
    /\ pc' = step
    /\ UNCHANGED <<script, target, started, restore, exit, faults, runs>>

\* The command at this step has done its work: it succeeds, or fails after all.
Then(step) == Goto(step) \/ Fault

At(step) == pc = step

\* A command fails before it has done anything.
CommandFails ==
    /\ script # None
    /\ Fault
    /\ UNCHANGED <<brokerVars, diskVars, work>>

Kill ==
    /\ MayKill
    /\ script # None
    /\ Ends("killed")
    /\ UNCHANGED <<brokerVars, diskVars, work>>

-------------------------------------------------------------------------------
(* migrate-dynsec.sh *)

\* docker cp of the live state into the checkpoint (94-95).
CopyState ==
    /\ At("copy_state")
    /\ checkpoints' = [checkpoints EXCEPT ![target].state = live, ![target].original = live]
    /\ Then("copy_inputs")
    /\ UNCHANGED <<brokerVars, pointer, latest, work>>

\* Variant: no checksum for a checkpoint that is only meant for the trap.
CopyInputs_SkipChecksum ==
    /\ At("copy_inputs")
    /\ Then("pointer")
    /\ UNCHANGED <<brokerVars, diskVars, work>>

\* Password, owners and ACL files (96-98): no part of the state.
CopyInputs ==
    /\ At("copy_inputs")
    /\ Then("checksum")
    /\ UNCHANGED <<brokerVars, diskVars, work>>

\* sha256 of the copy (99-101).
Checksum ==
    /\ At("checksum")
    /\ checkpoints' = [checkpoints EXCEPT ![target].checksum = checkpoints[target].state]
    /\ Then("pointer")
    /\ UNCHANGED <<brokerVars, pointer, latest, work>>

WritePointer ==
    /\ pointer' = [pointer EXCEPT ![checkpoints[target].root] = target]
    /\ latest' = target

\* Variant: the trap restores only what has been cut over.
Pointer_RestoreLater ==
    /\ At("pointer")
    /\ WritePointer
    /\ Goto("deny") \/ Fault
    /\ UNCHANGED <<brokerVars, checkpoints, work>>

\* The pointer to the last checkpoint (102); from here on the trap restores
\* it (106).
Pointer ==
    /\ At("pointer")
    /\ WritePointer
    /\ \/ /\ pc' = "deny" /\ restore' = TRUE
          /\ UNCHANGED <<script, target, started, exit, faults, runs>>
       \/ Fault
    /\ UNCHANGED <<brokerVars, checkpoints, work>>

\* harden-dynsec.sh in the running broker (107-108).  The first of its four
\* commands that fails ends it (harden-dynsec.sh 8-11) ...
Deny ==
    /\ At("deny")
    /\ BrokerApplies(<<"deny", target>>)
    /\ Then("remove")
    /\ UNCHANGED <<temporary, running, diskVars, work>>

\* ... but nobody learns whether roles and demonstration client were removed
\* (15-20), as long as getClient answers (21).
Remove ==
    /\ At("remove")
    /\ BrokerApplies(<<"remove", target>>) \/ UNCHANGED <<live, memory>>
    /\ Then("generate")
    /\ UNCHANGED <<temporary, running, diskVars, work>>

\* The base state is copied out and the candidate made from it (109-119).
\* Of the base only the administrator and the stock roles survive.
Generate ==
    /\ At("generate")
    /\ work' = <<<<"migrate", target>>>>
    /\ Then("stop")
    /\ UNCHANGED <<brokerVars, diskVars>>

-------------------------------------------------------------------------------
(* rollback-dynsec.sh: the part before the replacement. *)

Intact(m) ==
    /\ m \in DOMAIN checkpoints
    /\ checkpoints[m].state # None
    /\ checkpoints[m].checksum # None
    /\ checkpoints[m].checksum = checkpoints[m].state

\* Checkpoint, state and checksum are there and agree (25-35).
Check ==
    /\ At("check")
    /\ IF Intact(target) THEN Then("copy") ELSE Ends("failed")
    /\ UNCHANGED <<brokerVars, diskVars, work>>

Copy ==
    /\ At("copy")
    /\ work' = checkpoints[target].state
    /\ Then("stop")
    /\ UNCHANGED <<brokerVars, diskVars>>

-------------------------------------------------------------------------------
(* The replacement, the same in both scripts (122-135 and 44-55). *)

\* Variant: the broker is left running and restarted by its health check.
Stop_Skipped ==
    /\ At("stop")
    /\ Then("install")
    /\ UNCHANGED <<brokerVars, diskVars, work>>

Stop ==
    /\ At("stop")
    /\ running' = FALSE
    /\ Then("install")
    /\ UNCHANGED <<live, temporary, memory, diskVars, work>>

\* Variant: cp straight to the state file.
Install_InPlace ==
    /\ At("install")
    /\ live' = Torn
    /\ Then("copied")
    /\ UNCHANGED <<temporary, running, memory, diskVars, work>>

\* install-dynsec-state.sh: cp to the temporary file begins ...
Install ==
    /\ At("install")
    /\ temporary' = Torn
    /\ Then("copied")
    /\ UNCHANGED <<live, running, memory, diskVars, work>>

\* ... and is complete.
Copied ==
    /\ At("copied")
    /\ temporary' = work
    /\ Then("rename")
    /\ UNCHANGED <<live, running, memory, diskVars, work>>

\* mv within the volume.
Rename ==
    /\ At("rename")
    /\ live' = temporary
    /\ temporary' = None
    /\ Then("start")
    /\ UNCHANGED <<running, memory, diskVars, work>>

\* compose start: a broker that is stopped loads the file.
StartBroker ==
    /\ At("start")
    /\ IF running \/ live = Torn
       THEN UNCHANGED <<running, memory>>
       ELSE running' = TRUE /\ memory' = live
    /\ Then("health")
    /\ UNCHANGED <<live, temporary, diskVars, work>>

\* The bounded wait for a healthy container.
Health ==
    /\ At("health")
    /\ IF running THEN Then("verify") ELSE Fails /\ UNCHANGED faults
    /\ UNCHANGED <<brokerVars, diskVars, work>>

\* listClients answers; the run is over.
Verify ==
    /\ At("verify")
    /\ \/ Ends(IF script = "migrate" THEN "completed" ELSE "rolled_back")
       \/ Fault
    /\ UNCHANGED <<brokerVars, diskVars, work>>

-------------------------------------------------------------------------------
Start ==
    \/ \E root \in Roots : StartMigration(root)
    \/ \E m \in DOMAIN checkpoints : StartRollback(m)
    \/ StartDefaultRollback

Migrate == CopyState \/ CopyInputs \/ Checksum \/ Pointer \/ Deny \/ Remove \/ Generate

Rollback == Check \/ Copy

Replace ==
    \/ Stop
    \/ Install
    \/ Copied
    \/ Rename
    \/ StartBroker
    \/ Health
    \/ Verify

Next ==
    \/ Start
    \/ Migrate
    \/ Rollback
    \/ Replace
    \/ CommandFails
    \/ Kill
    \/ Corrupt
    \/ \E e \in Edits : Edit(e)

Spec == Init /\ [][Next]_vars

-------------------------------------------------------------------------------
Made(m, contents) ==
    \E i \in DOMAIN contents :
        contents[i] \in {"deny", "remove", "migrate"} \X {m}

Extends(contents, start) ==
    /\ contents # Torn
    /\ Len(start) <= Len(contents)
    /\ SubSeq(contents, 1, Len(start)) = start

(* The broker's state file is whole at every instant, also when a script is  *)
(* killed or fails while it writes: the broker can always be started.        *)
LiveFileIsWhole == live # Torn

(* Nothing a migration does to the state is without a way back: as soon as   *)
(* its first change is in the file, its checkpoint is complete, was taken    *)
(* before the change, and rollback will accept it unless the disk damages it.*)
NoChangeWithoutCheckpoint ==
    \A m \in DOMAIN checkpoints :
        live # Torn /\ Made(m, live)
            => /\ checkpoints[m].checksum = checkpoints[m].original
               /\ ~Made(m, checkpoints[m].original)

(* Exit status 0 of the migration means that the broker runs on the          *)
(* candidate: nothing the old process had in memory comes back.              *)
CompletedRunsCandidate ==
    exit = "completed" /\ script = None /\ running
        => /\ memory = live
           /\ Extends(live, <<<<"migrate", target>>>>)

(* A rollback that reports success has restored the bytes the checkpoint was *)
(* made from (with what was changed since then on top), damaged disk or not. *)
RolledBackIsExact ==
    exit = "rolled_back" /\ script = None
        => /\ running /\ memory = live
           /\ Extends(live, checkpoints[target].original)

(* One failing command never leaves a mess: the migration either completes,  *)
(* or the broker runs and none of the migration's changes are left (as long  *)
(* as the disk has not damaged the checkpoint meanwhile).                    *)
OneFaultIsHarmless ==
    /\ started = "migration" /\ script = None
    /\ faults <= 1 /\ exit # "killed"
    /\ checkpoints[target].checksum \in {None, checkpoints[target].state}
    => running /\ (exit = "completed" \/ ~Made(target, live))

(* docs/migration-dynamic-security.md:83: without an argument rollback uses  *)
(* the last checkpoint.                                                      *)
DefaultRollbackUsesLast ==
    started = "default_rollback" /\ script = "rollback" => target = latest

==============================================================================
