---------------------------- MODULE BackupRestore ----------------------------
(***************************************************************************)
(* scripts/backup.sh and scripts/restore.sh.  A backup copies the live     *)
(* files one group after the other, packs them and writes the marker that  *)
(* the console shows.  A restore unpacks an archive, makes a safety backup *)
(* by running backup.sh, stops the broker, lays the archive over the live  *)
(* files, validates and starts the broker.                                 *)
(*                                                                         *)
(* Every command may fail.  Under set -e this ends the script, except      *)
(* where it is followed by "|| true" or is not the last of an && list.     *)
(* Whether the Docker daemon answers is asked anew before each step that   *)
(* needs it, and a step without an answer is skipped without a word: each  *)
(* of these steps has a disjunct for that, whatever the others met.        *)
(* A script may also be killed at any time.  Nothing is undone either way. *)
(* A file is abstracted to its version: the number of the edit that wrote  *)
(* it, None if it is not there, Torn if a copy of it was interrupted.      *)
(***************************************************************************)
EXTENDS Integers, Sequences

CONSTANTS MaxScripts,    \* bound: scripts started by hand
          MaxEdits,      \* bound: changes of the live files
          None, Torn

ASSUME BoundsAssumption == MaxScripts \in Nat /\ MaxEdits \in Nat
ASSUME FilesAssumption == None # Torn /\ {None, Torn} \cap Nat = {}

VARIABLES live,          \* the files of the repository and of the data volume
          key,           \* the private key of the broker, which is in no archive
          running, memory,     \* the broker and the state it has loaded
          archives, marker,    \* backups/, and last-backup: an archive
          script, pc,    \* what runs, and its next command
          stage,         \* what backup.sh has copied so far
          source,        \* the archive that is restored
          safety,        \* the safety archive of the restore, 0 if it failed
          passedOver,    \* what this restore skipped, or failed to do, without a word
          outcome,       \* how the last restore ended
          before, up,    \* history: files and broker when the restore began
          scripts, edits

brokerVars == <<running, memory>>
storeVars == <<archives, marker>>
historyVars == <<before, up>>
restoreVars == <<source, safety, passedOver>>
vars == <<live, key, brokerVars, storeVars, script, pc, stage, restoreVars,
          outcome, historyVars, scripts, edits>>

-------------------------------------------------------------------------------
ConfigFiles == {"mosquitto.conf", "conf.d"}
SecurityFiles == {"passwords", "acl"}
Files == ConfigFiles \cup SecurityFiles \cup {"certs", "data"}

Versions == 0 .. MaxEdits
FileSets == [Files -> Versions \cup {None, Torn}]
Nothing == [f \in Files |-> None]

BackupSteps == {"copy_config", "copy_certs", "copy_security", "copy_data", "pack",
                "packing", "mark"}
RestoreSteps == {"validate", "confirm", "stop", "lay_config", "lay_certs", "lay_passwords",
                 "lay_acl", "lay_data", "check", "start"}

TypeOK ==
    /\ running \in BOOLEAN /\ up \in BOOLEAN
    /\ passedOver \subseteq {"stop", "certs", "passwords", "data", "start"}
    /\ live \in FileSets /\ stage \in FileSets /\ before \in FileSets
    /\ key \in Versions
    /\ memory \in Versions
    /\ archives \in Seq([files : FileSets, whole : BOOLEAN])
    /\ {marker, source, safety} \subseteq 0 .. Len(archives)
    /\ script \in {"none", "backup", "restore"}
    /\ pc \in BackupSteps \cup RestoreSteps \cup {"idle"}
    /\ outcome \in {"none", "complete", "refused", "aborted", "failed", "killed"}
    /\ scripts \in 0 .. MaxScripts /\ edits \in 0 .. MaxEdits

\* A stack that init.sh has set up: one file of conf.d and the ACL are to come.
\* It may have been backed up.
Init ==
    /\ live = [f \in Files |-> IF f \in {"conf.d", "acl"} THEN None ELSE 0]
    /\ key = 0
    /\ running = TRUE /\ memory = 0
    /\ archives \in {<<>>, <<[files |-> live, whole |-> TRUE]>>} /\ marker = Len(archives)
    /\ script = "none" /\ pc = "idle"
    /\ stage = Nothing
    /\ source = 0 /\ safety = 0 /\ passedOver = {}
    /\ outcome = "none"
    /\ before = live /\ up = running
    /\ scripts = 0 /\ edits = 0

-------------------------------------------------------------------------------
(* What happens besides the scripts. *)

\* The broker comes up with files it can read and a key that fits.
Loadable(files) ==
    /\ Torn \notin {files["mosquitto.conf"], files["conf.d"], files["data"]}
    /\ key = files["certs"]

Written(group) == [f \in Files |-> IF f \in group THEN edits + 1 ELSE live[f]]

\* Files are edited by hand; bound: only while no script runs.
Edit(f) ==
    /\ pc = "idle"
    /\ live' = Written({f})
    /\ UNCHANGED <<key, memory>>

\* generate-cert.sh makes a new certificate and its key.
RotateCertificate ==
    /\ pc = "idle"
    /\ live' = Written({"certs"})
    /\ key' = edits + 1
    /\ UNCHANGED memory

\* The broker writes a change of its state through at once, also during a script.
EditState ==
    /\ running
    /\ live' = Written({"data"})
    /\ memory' = edits + 1
    /\ UNCHANGED key

Environment ==
    /\ edits < MaxEdits
    /\ edits' = edits + 1
    /\ \/ \E f \in ConfigFiles \cup SecurityFiles : Edit(f)
       \/ RotateCertificate
       \/ EditState
    /\ UNCHANGED <<running, storeVars, script, pc, stage, restoreVars, outcome,
                   historyVars, scripts>>

-------------------------------------------------------------------------------
(* backup.sh, by itself or as the safety backup of a restore. *)

Goto(step) == pc' = step /\ UNCHANGED <<script, outcome>>

BeginBackup ==
    /\ pc = "idle" /\ scripts < MaxScripts
    /\ scripts' = scripts + 1
    /\ script' = "backup" /\ pc' = "copy_config"
    /\ passedOver' = {} /\ outcome' = "none"
    /\ UNCHANGED <<live, key, brokerVars, storeVars, stage, source, safety,
                   historyVars, edits>>

\* Variant: the exit status of the safety backup is lost.
BackupEnds_StatusLost(made) ==
    /\ IF script = "restore"
       THEN pc' = "stop" /\ safety' = Len(archives') /\ UNCHANGED script
       ELSE pc' = "idle" /\ script' = "none" /\ UNCHANGED safety
    /\ UNCHANGED <<source, passedOver, outcome>>

\* The restore goes on after a failed safety backup, with a warning (56).
BackupEnds(made) ==
    /\ IF script = "restore"
       THEN /\ pc' = "stop"
            /\ safety' = IF made THEN Len(archives') ELSE 0
            /\ UNCHANGED script
       ELSE pc' = "idle" /\ script' = "none" /\ UNCHANGED safety
    /\ UNCHANGED <<source, passedOver, outcome>>

Copy(group) == stage' = [f \in Files |-> IF f \in group THEN live[f] ELSE stage[f]]

\* Lines 45-64.
CopyGroup(group, step, next) ==
    /\ pc = step
    /\ Copy(group)
    /\ Goto(next)
    /\ UNCHANGED <<live, key, brokerVars, storeVars, restoreVars, historyVars,
                   scripts, edits>>

\* docker cp from the running container; what fails here is not noticed, and
\* nothing is copied if Docker does not answer or the container does not run
\* (67-80).
CopyData ==
    /\ pc = "copy_data"
    /\ \/ running /\ Copy({"data"})
       \/ running /\ stage' = [stage EXCEPT !["data"] = Torn]
       \/ UNCHANGED stage
    /\ Goto("pack")
    /\ UNCHANGED <<live, key, brokerVars, storeVars, restoreVars, historyVars,
                   scripts, edits>>

\* Variant: the marker is written before the archive.
Pack_MarksFirst ==
    /\ pc = "pack"
    /\ archives' = Append(archives, [files |-> stage, whole |-> FALSE])
    /\ marker' = Len(archives')
    /\ stage' = Nothing
    /\ Goto("packing")
    /\ UNCHANGED <<live, key, brokerVars, restoreVars, historyVars, scripts, edits>>

\* tar creates the archive (93-95); bound: one backup per second, so that no
\* archive has the name of an earlier one.
Pack ==
    /\ pc = "pack"
    /\ archives' = Append(archives, [files |-> stage, whole |-> FALSE])
    /\ stage' = Nothing
    /\ Goto("packing")
    /\ UNCHANGED <<live, key, brokerVars, marker, restoreVars, historyVars,
                   scripts, edits>>

\* ... and has written it.
Packed ==
    /\ pc = "packing"
    /\ archives' = [archives EXCEPT ![Len(archives)].whole = TRUE]
    /\ Goto("mark")
    /\ UNCHANGED <<live, key, brokerVars, marker, stage, restoreVars, historyVars,
                   scripts, edits>>

\* last-backup (97).
Mark ==
    /\ pc = "mark"
    /\ marker' = Len(archives)
    /\ UNCHANGED archives
    /\ BackupEnds(TRUE)
    /\ UNCHANGED <<live, key, brokerVars, stage, historyVars, scripts, edits>>

\* A command of backup.sh fails; the EXIT trap removes what was copied (38).
BackupFails ==
    /\ pc \in BackupSteps
    /\ stage' = Nothing
    /\ UNCHANGED storeVars
    /\ BackupEnds(FALSE)
    /\ UNCHANGED <<live, key, brokerVars, historyVars, scripts, edits>>

Backup ==
    \/ CopyGroup(ConfigFiles, "copy_config", "copy_certs")
    \/ CopyGroup({"certs"}, "copy_certs", "copy_security")
    \/ CopyGroup(SecurityFiles, "copy_security", "copy_data")
    \/ CopyData
    \/ Pack
    \/ Packed
    \/ Mark
    \/ BackupFails

-------------------------------------------------------------------------------
(* restore.sh *)

Archive == archives[source].files

BeginRestore(a) ==
    /\ pc = "idle" /\ scripts < MaxScripts
    /\ scripts' = scripts + 1
    /\ script' = "restore" /\ pc' = "validate"
    /\ source' = a /\ safety' = 0 /\ passedOver' = {}
    /\ outcome' = "none"
    /\ before' = live /\ up' = running
    /\ UNCHANGED <<live, key, brokerVars, storeVars, stage, edits>>

Ends(how) ==
    /\ script' = "none" /\ pc' = "idle"
    /\ outcome' = how

\* The archive can be read, and holds a configuration and either the broker's
\* state or a password file (19-41).
Validate ==
    /\ pc = "validate"
    /\ IF archives[source].whole /\ (Archive["data"] # None \/ Archive["passwords"] # None)
       THEN Goto("confirm")
       ELSE Ends("refused")
    /\ UNCHANGED <<live, key, brokerVars, storeVars, stage, restoreVars, historyVars,
                   scripts, edits>>

\* The question on a terminal (49-52); then backup.sh is run (56).
Confirm ==
    /\ pc = "confirm"
    /\ Goto("copy_config") \/ Ends("aborted")
    /\ UNCHANGED <<live, key, brokerVars, storeVars, stage, restoreVars, historyVars,
                   scripts, edits>>

Skips(what) == passedOver' = passedOver \cup {what}

\* docker compose stop; it is not noticed if Docker does not answer or the
\* command fails (60-62).
Stop ==
    /\ pc = "stop"
    /\ \/ running' = FALSE /\ UNCHANGED passedOver
       \/ running /\ Skips("stop") /\ UNCHANGED running
    /\ Goto("lay_config")
    /\ UNCHANGED <<live, key, memory, storeVars, stage, source, safety, historyVars,
                   scripts, edits>>

\* cp replaces the files of the archive and leaves all others where they are.
Overlay(group) ==
    [f \in Files |-> IF f \in group /\ Archive[f] # None THEN Archive[f] ELSE live[f]]

\* An interrupted copy has replaced some files, and may leave the next one torn.
Tears(group) ==
    \E done \in SUBSET group :
        \/ live' = Overlay(done)
        \/ \E f \in group \ done : Archive[f] # None /\ live' = [Overlay(done) EXCEPT ![f] = Torn]

LayConfig ==
    /\ pc = "lay_config"
    /\ \/ live' = Overlay(ConfigFiles) /\ Goto("lay_certs")
       \/ Tears(ConfigFiles) /\ Ends("failed")
    /\ UNCHANGED <<key, brokerVars, storeVars, stage, restoreVars, historyVars,
                   scripts, edits>>

\* cp ... || true (73).
LayCerts ==
    /\ pc = "lay_certs"
    /\ \/ live' = Overlay({"certs"}) /\ UNCHANGED passedOver
       \/ Archive["certs"] # None /\ Tears({"certs"}) /\ Skips("certs")
    /\ Goto("lay_passwords")
    /\ UNCHANGED <<key, brokerVars, storeVars, stage, source, safety, historyVars,
                   scripts, edits>>

\* [[ -f ]] && cp && chmod: only the last command of the list ends the script
\* when it fails (79-81).
LayPasswords ==
    /\ pc = "lay_passwords"
    /\ \/ live' = Overlay({"passwords"}) /\ Goto("lay_acl") /\ UNCHANGED passedOver
       \/ /\ Archive["passwords"] # None
          /\ \/ Tears({"passwords"}) /\ Goto("lay_acl") /\ Skips("passwords")
             \/ live' = Overlay({"passwords"}) /\ Ends("failed") /\ UNCHANGED passedOver
    /\ UNCHANGED <<key, brokerVars, storeVars, stage, source, safety, historyVars,
                   scripts, edits>>

\* [[ -f ]] && cp (82-83).
LayAcl ==
    /\ pc = "lay_acl"
    /\ \/ live' = Overlay({"acl"}) /\ Goto("lay_data")
       \/ Archive["acl"] # None /\ Tears({"acl"}) /\ Ends("failed")
    /\ UNCHANGED <<key, brokerVars, storeVars, stage, restoreVars, historyVars,
                   scripts, edits>>

\* Variant: the status of docker run is not looked at.
LayData_StatusLost ==
    /\ pc = "lay_data"
    /\ \/ live' = Overlay({"data"}) /\ UNCHANGED passedOver
       \/ Tears({"data"}) /\ UNCHANGED passedOver
       \/ Archive["data"] # None /\ UNCHANGED live /\ Skips("data")
    /\ Goto("check")
    /\ UNCHANGED <<key, brokerVars, storeVars, stage, source, safety, historyVars,
                   scripts, edits>>

\* A temporary container copies the data into the volume, or the script ends;
\* if Docker does not answer nothing is copied (90-101).
LayData ==
    /\ pc = "lay_data"
    /\ \/ live' = Overlay({"data"}) /\ Goto("check") /\ UNCHANGED passedOver
       \/ Tears({"data"}) /\ Ends("failed") /\ UNCHANGED passedOver
       \/ Archive["data"] # None /\ UNCHANGED live /\ Goto("check") /\ Skips("data")
    /\ UNCHANGED <<key, brokerVars, storeVars, stage, source, safety, historyVars,
                   scripts, edits>>

\* validate.sh --quick (105-107) reads the configuration and the certificates,
\* not the key, the state or the old password file.
Check ==
    /\ pc = "check"
    /\ \/ Torn \notin {live["mosquitto.conf"], live["conf.d"], live["certs"]} /\ Goto("start")
       \/ Ends("failed")
    /\ UNCHANGED <<live, key, brokerVars, storeVars, stage, restoreVars, historyVars,
                   scripts, edits>>

\* Variant: the broker is left to its restart policy.
Start_LeftToDocker ==
    /\ pc = "start"
    /\ Ends("complete")
    /\ UNCHANGED <<live, key, brokerVars, storeVars, stage, restoreVars, historyVars,
                   scripts, edits>>

\* docker compose start says nothing of a broker that runs already, nor of one
\* that comes down again because it cannot load its files; if Docker does not
\* answer it is left out, and the restore is "complete" all the same (111-115).
Start ==
    /\ pc = "start"
    /\ \/ /\ ~running /\ Loadable(live)
          /\ running' = TRUE /\ memory' = live["data"]
          /\ Ends("complete") /\ UNCHANGED passedOver
       \/ /\ running \/ ~Loadable(live)
          /\ Ends("complete") /\ UNCHANGED <<brokerVars, passedOver>>
       \/ Ends("failed") /\ UNCHANGED <<brokerVars, passedOver>>
       \/ ~running /\ Ends("complete") /\ Skips("start") /\ UNCHANGED brokerVars
    /\ UNCHANGED <<live, key, storeVars, stage, source, safety, historyVars, scripts, edits>>

Restore ==
    \/ Validate
    \/ Confirm
    \/ Stop
    \/ LayConfig
    \/ LayCerts
    \/ LayPasswords
    \/ LayAcl
    \/ LayData
    \/ Check
    \/ Start

\* A script is killed; nothing but its temporary directory is cleaned up.
Kill ==
    /\ pc # "idle"
    /\ script' = "none" /\ pc' = "idle"
    /\ outcome' = IF script = "restore" THEN "killed" ELSE outcome
    /\ stage' = Nothing /\ passedOver' = {}
    /\ UNCHANGED <<live, key, brokerVars, storeVars, source, safety, historyVars,
                   scripts, edits>>

Next ==
    \/ Environment
    \/ BeginBackup
    \/ \E a \in DOMAIN archives : BeginRestore(a)
    \/ Backup
    \/ Restore
    \/ Kill

Spec == Init /\ [][Next]_vars

-------------------------------------------------------------------------------
(* The archive that the marker speaks of, and whose age the console shows,   *)
(* can be read, whatever interrupted the backups before and after it.        *)
MarkedArchiveIsWhole == marker # 0 => archives[marker].whole

(* From the moment the live files are touched until the next restore, the    *)
(* files as they were before are in the safety archive, unless the script    *)
(* has warned that it could not make one (restore.sh:54-56).  The data is    *)
(* another matter: its copy may be missing without a warning.                *)
SafetyArchiveHoldsWhatWas ==
    safety # 0 =>
        /\ archives[safety].whole
        /\ \A f \in Files \ {"data"} : archives[safety].files[f] = before[f]

CompletesRestore == pc = "start" /\ outcome' = "complete"

(* A restore that ends with "Restore complete" has brought back every file   *)
(* of the archive but those whose copy it passed over; the broker's state is *)
(* back only if the broker was stopped, for it writes what it has in memory. *)
(* The broker then runs with the state on disk - if it can: a torn state, or *)
(* certificates older than the key, keep it down - unless the stop or the    *)
(* start was passed over (restore.sh:58-115).                                *)
CompleteRestoreIsExact ==
    [][CompletesRestore =>
          /\ \A f \in Files \ passedOver :
                 Archive[f] # None /\ (f = "data" => "stop" \notin passedOver)
                     => live'[f] = Archive[f]
          /\ Loadable(live)' /\ {"stop", "start"} \cap passedOver' = {}
                 => running' /\ memory' = live'["data"]]_vars

(* A restore that is refused or given up leaves the broker as it was.  One   *)
(* that says it is complete leaves a broker down that ran before and could   *)
(* run in one case only: Docker answered when it was to be stopped and did   *)
(* not when it was to be started (restore.sh:60,111).                        *)
RestoreKeepsServing ==
    [][script = "restore" /\ pc' = "idle" =>
          /\ outcome' \in {"refused", "aborted"} => running' = up
          /\ outcome' = "complete" /\ up /\ Loadable(live)'
                 => running' \/ ("start" \in passedOver' /\ "stop" \notin passedOver')]_vars

===============================================================================
