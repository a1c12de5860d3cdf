------------------------- MODULE DynsecMigrationProofs -------------------------
(***************************************************************************)
(* Proofs about DynsecMigration: for any number of runs, faults, edits and *)
(* checkpoint directories, whatever is killed or damaged, the state file   *)
(* is always whole, nothing a migration does to it is without a checkpoint *)
(* from before, a run that reports success has installed what it meant to, *)
(* and one failing command of a migration is undone.                       *)
(*                                                                         *)
(* The argument: a migration that has its complete checkpoint is in        *)
(* "Complete", which only grows; only such migrations change a state, so   *)
(* no state in the system - the broker's memory, its file, the file to be  *)
(* installed or a checkpoint - holds changes of any other migration.       *)
(*                                                                         *)
(* On top of that, "Outcome" follows a run from command to command: what   *)
(* it means to install (its goal) is what lies in its work file, then in   *)
(* the temporary file, then in the state file of a stopped broker, and at  *)
(* last under a running one, where only edits come on top.                 *)
(***************************************************************************)
EXTENDS DynsecMigration, TLAPS

\* The migrations whose checkpoint is complete and from before their changes.
Complete ==
    {m \in DOMAIN checkpoints : /\ checkpoints[m].checksum = checkpoints[m].original
                                /\ ~Made(m, checkpoints[m].original)}

\* A state file with changes of migrations in M only.
Clean(contents, M) ==
    contents \in Contents => \A m \in Ids : Made(m, contents) => m \in M

\* The type of the scripts' own variables.
ControlOK ==
    /\ restore \in BOOLEAN
    /\ started \in {None, "migration", "rollback", "default_rollback"}
    /\ script \in {None, "migrate", "rollback"}
    /\ pc \in Steps \cup {None}
    /\ target \in Ids \cup {None}
    /\ exit \in {None, "completed", "failed", "rolled_back", "killed"}
    /\ faults \in 0 .. MaxFaults /\ runs \in 0 .. MaxRuns

\* How far a migration is with its checkpoint.
Phase ==
    /\ pc \in MigrateSteps => target \in DOMAIN checkpoints
    /\ pc = "copy_state" => checkpoints[target].checksum = None
    /\ pc \in {"copy_inputs", "checksum"} =>
           /\ checkpoints[target].checksum = None
           /\ checkpoints[target].state = checkpoints[target].original
           /\ ~Made(target, checkpoints[target].original)
    /\ pc \in {"pointer", "deny", "remove", "generate"} => target \in Complete

\* What is about to be installed is whole.
Whole ==
    /\ live # Torn /\ memory # Torn
    /\ pc \in {"stop", "install", "copied", "rename"} => work \in Contents
    /\ pc = "rename" => temporary = work
    /\ pc = "copy" => target \in DOMAIN checkpoints /\ checkpoints[target].state \in Contents
    /\ \A m \in DOMAIN checkpoints : checkpoints[m].checksum # Torn

AllClean ==
    /\ Clean(live, Complete) /\ Clean(memory, Complete) /\ Clean(work, Complete)
    /\ \A m \in DOMAIN checkpoints : /\ Clean(checkpoints[m].state, Complete)
                                     /\ Clean(checkpoints[m].original, Complete)

IInv ==
    /\ TypeOK
    /\ Len(checkpoints) <= runs
    /\ Whole /\ Phase /\ AllClean

-------------------------------------------------------------------------------
(* The control flow. *)

LEMMA FailsControl ==
    ASSUME TypeOK, Fails, faults' \in 0 .. MaxFaults
    PROVE  ControlOK' /\ target' = target /\ runs' = runs /\ pc' \in {"check", None}
BY DEF TypeOK, Fails, ControlOK, Steps, RollbackSteps

LEMMA FaultControl ==
    ASSUME TypeOK, Fault
    PROVE  ControlOK' /\ target' = target /\ runs' = runs /\ pc' \in {"check", None}
<1>1. faults' \in 0 .. MaxFaults
  <2>1. faults \in 0 .. MaxFaults
    BY DEF TypeOK
  <2>2. faults < MaxFaults /\ faults' = faults + 1
    BY DEF Fault
  <2> QED
    BY <2>1, <2>2, BoundsAssumption
<1> QED
  BY <1>1, FailsControl DEF Fault

LEMMA ThenControl ==
    ASSUME TypeOK, NEW step \in Steps, Then(step)
    PROVE  ControlOK' /\ target' = target /\ runs' = runs /\ pc' \in {step, "check", None}
<1>1. CASE Goto(step)
  BY <1>1 DEF TypeOK, Goto, ControlOK
<1>2. CASE Fault
  BY <1>2, FaultControl
<1> QED
  BY <1>1, <1>2 DEF Then

LEMMA EndsControl ==
    ASSUME TypeOK, NEW how \in {"completed", "failed", "rolled_back", "killed"}, Ends(how)
    PROVE  ControlOK' /\ target' = target /\ runs' = runs /\ pc' = None
BY DEF TypeOK, Ends, ControlOK

LEMMA StartControl ==
    ASSUME TypeOK, NEW what \in {"migration", "rollback", "default_rollback"},
           NEW name \in {"migrate", "rollback"}, NEW step \in Steps,
           NEW checkpoint \in Ids \cup {None}, StartRun(what, name, step, checkpoint)
    PROVE  ControlOK' /\ target' = checkpoint /\ runs' = runs + 1 /\ pc' = step
<1>1. runs \in 0 .. MaxRuns /\ runs < MaxRuns /\ runs' = runs + 1 /\ faults' = 0
  BY Zenon DEF TypeOK, StartRun
<1>2. runs' \in 0 .. MaxRuns
  BY <1>1, BoundsAssumption, SMT
<1>3. faults' \in 0 .. MaxFaults
  BY <1>1, BoundsAssumption, SMT
<1>4. /\ script' = name /\ pc' = step /\ target' = checkpoint /\ started' = what
      /\ restore' = FALSE /\ exit' = None
  BY DEF StartRun
<1> QED
  BY <1>1, <1>2, <1>3, <1>4 DEF ControlOK

-------------------------------------------------------------------------------
(* The contents. *)

LEMMA CleanGrows ==
    ASSUME NEW c, NEW M, NEW N, M \subseteq N, Clean(c, M)
    PROVE  Clean(c, N)
BY DEF Clean

(* A change adds itself and nothing else.                                    *)
LEMMA MadeAppend ==
    ASSUME NEW c \in Contents, NEW change \in Changes, NEW m
    PROVE  /\ Append(c, change) \in Contents
           /\ Made(m, Append(c, change)) <=>
                  Made(m, c) \/ change \in {"deny", "remove", "migrate"} \X {m}
<1>1. Append(c, change) \in Contents /\ Len(Append(c, change)) = Len(c) + 1
  BY DEF Contents
<1>2. DOMAIN c = 1 .. Len(c) /\ Len(c) \in Nat
  BY DEF Contents
<1>3. DOMAIN Append(c, change) = (1 .. Len(c)) \cup {Len(c) + 1}
  BY <1>1, <1>2 DEF Contents
<1>4. /\ \A i \in 1 .. Len(c) : Append(c, change)[i] = c[i]
      /\ Append(c, change)[Len(c) + 1] = change
  BY <1>2 DEF Contents
<1> QED
  BY <1>1, <1>2, <1>3, <1>4 DEF Made

LEMMA AppendEdit ==
    ASSUME NEW c \in Contents, NEW e \in Edits, NEW M, Clean(c, M)
    PROVE  Append(c, <<"edit", e>>) \in Contents /\ Clean(Append(c, <<"edit", e>>), M)
<1>1. <<"edit", e>> \in Changes
  BY DEF Changes
<1>2. \A m : <<"edit", e>> \notin {"deny", "remove", "migrate"} \X {m}
  OBVIOUS
<1> QED
  BY <1>1, <1>2, MadeAppend DEF Clean

LEMMA AppendOwn ==
    ASSUME NEW c \in Contents, NEW M, NEW t \in M, t \in Ids, Clean(c, M),
           NEW kind \in {"deny", "remove"}
    PROVE  Append(c, <<kind, t>>) \in Contents /\ Clean(Append(c, <<kind, t>>), M)
<1>1. <<kind, t>> \in Changes
  BY DEF Changes
<1>2. \A m : <<kind, t>> \in {"deny", "remove", "migrate"} \X {m} => m = t
  OBVIOUS
<1> QED
  BY <1>1, <1>2, MadeAppend DEF Clean

LEMMA Candidate ==
    ASSUME NEW M, NEW t \in M, t \in Ids
    PROVE  <<<<"migrate", t>>>> \in Contents /\ Clean(<<<<"migrate", t>>>>, M)
<1>1. <<"migrate", t>> \in Changes
  BY DEF Changes
<1>2. <<<<"migrate", t>>>> \in Contents
  BY <1>1 DEF Contents
<1>3. \A m : Made(m, <<<<"migrate", t>>>>) => m = t
  BY DEF Made
<1> QED
  BY <1>2, <1>3 DEF Clean

-------------------------------------------------------------------------------
(* Steps that leave the disk of the checkpoints alone. *)

LEMMA SameCheckpoints ==
    ASSUME UNCHANGED checkpoints
    PROVE  Complete' = Complete
BY DEF Complete, Made

(* A checkpoint is rewritten.                                                *)
LEMMA Rewrite ==
    ASSUME checkpoints \in Seq(Checkpoint), NEW t \in DOMAIN checkpoints, NEW c \in Checkpoint,
           checkpoints' = [checkpoints EXCEPT ![t] = c]
    PROVE  /\ checkpoints' \in Seq(Checkpoint)
           /\ DOMAIN checkpoints' = DOMAIN checkpoints /\ Len(checkpoints') = Len(checkpoints)
           /\ checkpoints'[t] = c
           /\ \A m \in DOMAIN checkpoints \ {t} : checkpoints'[m] = checkpoints[m]
OBVIOUS

-------------------------------------------------------------------------------
LEMMA InitInvariant ==
    ASSUME Init
    PROVE  IInv
<1>1. <<>> \in Contents /\ (\A m : ~Made(m, <<>>))
  BY DEF Contents, Made
<1>2. None \notin Contents
  BY NoFileAssumption
<1>3. checkpoints = <<>> /\ checkpoints \in Seq(Checkpoint) /\ Len(checkpoints) = 0
      /\ DOMAIN checkpoints = {}
  BY DEF Init
<1>4. TypeOK
  <2>1. faults \in 0 .. MaxFaults /\ runs \in 0 .. MaxRuns
    BY BoundsAssumption DEF Init
  <2>2. pointer \in [Roots -> Ids \cup {None}]
    BY DEF Init
  <2> QED
    BY <1>1, <1>3, <2>1, <2>2 DEF Init, TypeOK, Files
<1>5. Whole /\ Phase
  BY <1>1, <1>3, NoFileAssumption, NoStepAssumption
     DEF Init, Whole, Phase, Steps, MigrateSteps, RollbackSteps, SharedSteps
<1>6. AllClean
  BY <1>1, <1>2, <1>3 DEF Init, AllClean, Clean
<1> QED
  BY <1>3, <1>4, <1>5, <1>6 DEF Init, IInv

(* A step of a script that touches neither a state nor a checkpoint.         *)
LEMMA ControlStep ==
    ASSUME IInv, UNCHANGED <<brokerVars, checkpoints, work>>, ControlOK',
           pointer' \in [Roots -> Ids \cup {None}], latest' \in Ids \cup {None},
           runs' \in {runs, runs + 1},
           \/ pc' \in {"check", None, "start", "health", "verify"}
           \/ pc' = "copy" /\ Intact(target')
           \/ /\ target' = target
              /\ \/ pc' = pc
                 \/ pc = "copy_inputs" /\ pc' = "checksum"
                 \/ pc = "pointer" /\ pc' = "deny"
    PROVE  IInv'
<1>1. UNCHANGED <<live, temporary, running, memory, checkpoints, work>>
  BY DEF brokerVars
<1>2. Complete' = Complete
  BY <1>1, SameCheckpoints
<1>3. TypeOK'
  BY <1>1 DEF IInv, TypeOK, ControlOK
<1>4. Whole'
  <2>1. CASE pc' = "copy" /\ Intact(target')
    <3>1. target' \in DOMAIN checkpoints /\ checkpoints[target'] \in Checkpoint
      BY <2>1 DEF Intact, IInv, TypeOK
    <3>2. checkpoints[target'].state \in Contents
      BY <2>1, <3>1 DEF Intact, IInv, Whole, Checkpoint, Files
    <3> QED
      BY <1>1, <2>1, <3>1, <3>2 DEF IInv, Whole
  <2>2. CASE ~(pc' = "copy" /\ Intact(target'))
    BY <1>1, <2>2, NoStepAssumption
       DEF IInv, Whole, Steps, MigrateSteps, RollbackSteps, SharedSteps
  <2> QED
    BY <2>1, <2>2
<1>5. Phase'
  <2>1. CASE pc' = pc /\ target' = target
    BY <1>1, <1>2, <2>1 DEF IInv, Phase, Made
  <2>2. CASE ~(pc' = pc /\ target' = target)
    BY <1>1, <1>2, <2>2, NoStepAssumption
       DEF IInv, Phase, Made, Steps, MigrateSteps, RollbackSteps, SharedSteps
  <2> QED
    BY <2>1, <2>2
<1>6. AllClean'
  BY <1>1, <1>2 DEF IInv, AllClean, Clean, Made
<1>7. Len(checkpoints') <= runs'
  <2>1. runs \in Int /\ Len(checkpoints) \in Int /\ Len(checkpoints) <= runs
    BY DEF IInv, TypeOK
  <2> QED
    BY <1>1, <2>1
<1> QED
  BY <1>3, <1>4, <1>5, <1>6, <1>7 DEF IInv

(* A change of the broker's state, by an edit or by the hardening.           *)
LEMMA ChangeStep ==
    ASSUME IInv, UNCHANGED <<temporary, running, diskVars, work>>,
           memory' \in Contents, live' \in Contents,
           Clean(memory', Complete), Clean(live', Complete),
           ControlOK', target' = target, runs' = runs,
           pc' = pc \/ (pc' = "remove" /\ pc = "deny") \/ (pc' = "generate" /\ pc = "remove")
               \/ pc' \in {"check", None}
    PROVE  IInv'
<1>1. UNCHANGED <<checkpoints, pointer, latest>>
  BY DEF diskVars
<1>2. Complete' = Complete
  BY <1>1, SameCheckpoints
<1>3. TypeOK'
  BY <1>1 DEF IInv, TypeOK, ControlOK, Files
<1>4. Whole'
  BY <1>1, NoFileAssumption, NoStepAssumption
     DEF IInv, Whole, Steps, RollbackSteps, SharedSteps
<1>5. Phase'
  <2>1. CASE pc' = pc
    BY <1>1, <1>2, <2>1 DEF IInv, Phase, Made
  <2>2. CASE pc' # pc
    BY <1>1, <1>2, <2>2, NoStepAssumption
       DEF IInv, Phase, Steps, MigrateSteps, RollbackSteps, SharedSteps
  <2> QED
    BY <2>1, <2>2
<1>6. AllClean'
  BY <1>1, <1>2 DEF IInv, AllClean, Clean, Made
<1> QED
  BY <1>1, <1>3, <1>4, <1>5, <1>6 DEF IInv

(* The rewriting of the checkpoint of the migration that runs.               *)
LEMMA CheckpointStep ==
    ASSUME IInv, NEW t \in DOMAIN checkpoints, NEW c \in Checkpoint,
           checkpoints' = [checkpoints EXCEPT ![t] = c],
           UNCHANGED <<brokerVars, pointer, latest, work>>,
           ControlOK', target' = target, runs' = runs,
           c.checksum # Torn, Clean(c.state, Complete), Clean(c.original, Complete),
           t \in Complete =>
               c.checksum = checkpoints[t].checksum /\ c.original = checkpoints[t].original
    PROVE  /\ Complete \subseteq Complete' /\ TypeOK' /\ AllClean' /\ Len(checkpoints') <= runs'
           /\ live' # Torn /\ memory' # Torn
           /\ DOMAIN checkpoints' = DOMAIN checkpoints
           /\ checkpoints'[t] = c
           /\ \A m \in DOMAIN checkpoints' : checkpoints'[m].checksum # Torn
<1>1. checkpoints \in Seq(Checkpoint)
  BY DEF IInv, TypeOK
<1>2. /\ checkpoints' \in Seq(Checkpoint)
      /\ DOMAIN checkpoints' = DOMAIN checkpoints /\ Len(checkpoints') = Len(checkpoints)
      /\ checkpoints'[t] = c
      /\ \A m \in DOMAIN checkpoints \ {t} : checkpoints'[m] = checkpoints[m]
  BY <1>1, Rewrite
<1>3. UNCHANGED <<live, temporary, running, memory>>
  BY DEF brokerVars
<1>4. Complete \subseteq Complete'
  BY <1>2 DEF Complete, Made
<1>5. TypeOK'
  BY <1>2, <1>3 DEF IInv, TypeOK, ControlOK
<1>6. Clean(live, Complete') /\ Clean(memory, Complete') /\ Clean(work, Complete')
  BY <1>4, CleanGrows DEF IInv, AllClean
<1>7. \A m \in DOMAIN checkpoints' : /\ Clean(checkpoints'[m].state, Complete')
                                     /\ Clean(checkpoints'[m].original, Complete')
  <2> SUFFICES ASSUME NEW m \in DOMAIN checkpoints'
               PROVE  /\ Clean(checkpoints'[m].state, Complete')
                      /\ Clean(checkpoints'[m].original, Complete')
    OBVIOUS
  <2>1. CASE m = t
    BY <1>2, <1>4, <2>1, CleanGrows
  <2>2. CASE m # t
    BY <1>2, <1>4, <2>2, CleanGrows DEF IInv, AllClean
  <2> QED
    BY <2>1, <2>2
<1>8. AllClean'
  BY <1>3, <1>6, <1>7 DEF AllClean, Clean, Made
<1>9. \A m \in DOMAIN checkpoints' : checkpoints'[m].checksum # Torn
  BY <1>2 DEF IInv, Whole
<1> QED
  BY <1>2, <1>3, <1>4, <1>5, <1>8, <1>9 DEF IInv, Whole

(* A step of the replacement.                                                 *)
LEMMA ReplaceStep ==
    ASSUME IInv, UNCHANGED diskVars, ControlOK', target' = target, runs' = runs,
           live' \in Contents, Clean(live', Complete),
           memory' \in Contents, Clean(memory', Complete),
           work' \in Files \cup {None}, Clean(work', Complete),
           temporary' \in Files \cup {None}, running' \in BOOLEAN,
           pc' \in SharedSteps \cup {"check", None},
           pc' \in {"stop", "install", "copied", "rename"} => work' \in Contents,
           pc' = "rename" => temporary' = work'
    PROVE  IInv'
<1>1. UNCHANGED <<checkpoints, pointer, latest>>
  BY DEF diskVars
<1>2. Complete' = Complete
  BY <1>1, SameCheckpoints
<1>3. TypeOK'
  BY <1>1 DEF IInv, TypeOK, ControlOK, Files
<1>4. Whole'
  BY <1>1, NoFileAssumption, NoStepAssumption
     DEF IInv, Whole, Steps, RollbackSteps, SharedSteps
<1>5. Phase'
  BY NoStepAssumption DEF Phase, Steps, MigrateSteps, RollbackSteps, SharedSteps
<1>6. AllClean'
  BY <1>1, <1>2 DEF IInv, AllClean, Clean, Made
<1> QED
  BY <1>1, <1>3, <1>4, <1>5, <1>6 DEF IInv

-------------------------------------------------------------------------------
(* What is known of the variables in a state of the invariant.               *)
LEMMA Known ==
    ASSUME IInv
    PROVE  /\ TypeOK
           /\ live \in Contents /\ memory \in Contents
           /\ Clean(live, Complete) /\ Clean(memory, Complete) /\ Clean(work, Complete)
           /\ checkpoints \in Seq(Checkpoint)
           /\ DOMAIN checkpoints \subseteq Ids
           /\ \A m \in DOMAIN checkpoints : checkpoints[m] \in Checkpoint
<1>1. TypeOK /\ checkpoints \in Seq(Checkpoint) /\ runs \in 0 .. MaxRuns
  BY DEF IInv, TypeOK
<1>2. live \in Contents /\ memory \in Contents
  BY DEF IInv, TypeOK, Whole, Files
<1>3. DOMAIN checkpoints = 1 .. Len(checkpoints) /\ Len(checkpoints) \in Nat
      /\ Len(checkpoints) <= runs
  BY <1>1 DEF IInv
<1>4. DOMAIN checkpoints \subseteq Ids
  BY <1>1, <1>3, BoundsAssumption DEF Ids
<1> QED
  BY <1>1, <1>2, <1>4 DEF IInv, AllClean

LEMMA StartInvariant ==
    ASSUME IInv, Start
    PROVE  IInv'
<1>1. ASSUME NEW root \in Roots, StartMigration(root) PROVE IInv'
  <2> DEFINE t == Len(checkpoints) + 1
             c == [root |-> root, state |-> None, original |-> live, checksum |-> None]
  <2>1. /\ runs \in 0 .. MaxRuns /\ runs < MaxRuns /\ Len(checkpoints) \in Nat
        /\ Len(checkpoints) <= runs
    BY <1>1 DEF IInv, TypeOK, StartMigration, StartRun
  <2>2. t \in Ids
    BY <2>1, BoundsAssumption DEF Ids
  <2>3. ControlOK' /\ target' = t /\ runs' = runs + 1 /\ pc' = "copy_state"
    BY <1>1, <2>2, StartControl DEF StartMigration, Steps, MigrateSteps, IInv
  <2>4. c \in Checkpoint /\ c.checksum = None
    BY Known DEF Checkpoint
  <2>5. /\ checkpoints' \in Seq(Checkpoint) /\ Len(checkpoints') = t
        /\ DOMAIN checkpoints' = DOMAIN checkpoints \cup {t} /\ t \notin DOMAIN checkpoints
        /\ checkpoints'[t] = c
        /\ \A m \in DOMAIN checkpoints : checkpoints'[m] = checkpoints[m]
    <3>1. checkpoints \in Seq(Checkpoint) /\ checkpoints' = Append(checkpoints, c)
      BY <1>1, Known DEF StartMigration
    <3> HIDE DEF c
    <3> QED
      BY <2>4, <3>1
  <2>6. UNCHANGED <<live, temporary, running, memory, work, pointer, latest>>
    BY <1>1 DEF StartMigration, StartRun, brokerVars
  <2>7. Complete' = Complete
    <3>1. c.checksum # c.original
      BY Known, NoFileAssumption
    <3> HIDE DEF c, t
    <3> QED
      BY <2>5, <3>1 DEF Complete, Made
  <2>8. TypeOK'
    BY <2>3, <2>5, <2>6 DEF IInv, TypeOK, ControlOK
  <2>9. Whole'
    BY <2>3, <2>4, <2>5, <2>6, NoFileAssumption DEF IInv, Whole
  <2>10. Phase'
    BY <2>3, <2>4, <2>5 DEF Phase
  <2>11. Clean(c.state, Complete) /\ Clean(c.original, Complete)
    BY Known, NoFileAssumption DEF Clean
  <2>12. AllClean'
    <3> HIDE DEF c, t
    <3> QED
      BY <2>5, <2>6, <2>7, <2>11 DEF IInv, AllClean, Clean, Made
  <2> QED
    BY <2>1, <2>3, <2>5, <2>8, <2>9, <2>10, <2>12 DEF IInv
<1>2. ASSUME NEW m \in DOMAIN checkpoints, StartRollback(m) PROVE IInv'
  <2>1. ControlOK' /\ runs' = runs + 1 /\ pc' = "check"
    BY <1>2, Known, StartControl DEF StartRollback, Steps, RollbackSteps
  <2> QED
    BY <1>2, <2>1, ControlStep DEF StartRollback, StartRun, IInv, TypeOK
<1>3. CASE StartDefaultRollback
  <2>1. pointer["backups"] \in Ids \cup {None}
    BY RootsAssumption DEF IInv, TypeOK
  <2>2. ControlOK' /\ runs' = runs + 1 /\ pc' = "check"
    BY <1>3, <2>1, StartControl DEF StartDefaultRollback, Steps, RollbackSteps, IInv
  <2> QED
    BY <1>3, <2>2, ControlStep DEF StartDefaultRollback, StartRun, IInv, TypeOK
<1> QED
  BY <1>1, <1>2, <1>3 DEF Start

LEMMA MigrateInvariant ==
    ASSUME IInv, Migrate
    PROVE  IInv'
<1> USE DEF At
<1>1. CASE CopyState
  <2> DEFINE c == [checkpoints[target] EXCEPT !.state = live, !.original = live]
  <2>1. ControlOK' /\ target' = target /\ runs' = runs /\ pc' \in {"copy_inputs", "check", None}
    BY <1>1, Known, ThenControl DEF CopyState, Steps, MigrateSteps
  <2>2. /\ target \in DOMAIN checkpoints /\ checkpoints[target] \in Checkpoint
        /\ checkpoints[target].checksum = None /\ target \in Ids
    BY <1>1, Known DEF CopyState, IInv, Phase, MigrateSteps
  <2>3. c \in Checkpoint /\ c.state = live /\ c.original = live /\ c.checksum = None
    BY <2>2, Known DEF Checkpoint, Files
  <2>4. target \notin Complete
    BY <2>2, NoFileAssumption DEF Complete, Checkpoint
  <2>5. checkpoints' = [checkpoints EXCEPT ![target] = c]
    BY <1>1 DEF CopyState
  <2>6. UNCHANGED <<brokerVars, pointer, latest, work>>
    BY <1>1 DEF CopyState
  <2> HIDE DEF c
  <2>7. /\ TypeOK' /\ AllClean' /\ Len(checkpoints') <= runs'
        /\ live' # Torn /\ memory' # Torn
        /\ DOMAIN checkpoints' = DOMAIN checkpoints /\ checkpoints'[target] = c
        /\ \A m \in DOMAIN checkpoints' : checkpoints'[m].checksum # Torn
    BY <2>1, <2>2, <2>3, <2>4, <2>5, <2>6, Known, NoFileAssumption, CheckpointStep
  <2>8. ~Made(target, live)
    BY <2>2, <2>4, Known DEF Clean
  <2>9. ~Made(target, checkpoints'[target].original)
    BY <2>3, <2>7, <2>8
  <2>10. Phase'
    BY <2>1, <2>2, <2>3, <2>7, <2>9, NoStepAssumption
       DEF Phase, Steps, MigrateSteps, RollbackSteps
  <2>11. Whole'
    BY <2>1, <2>7, NoStepAssumption DEF Whole, Steps, RollbackSteps, SharedSteps
  <2> QED
    BY <2>7, <2>10, <2>11 DEF IInv
<1>2. CASE CopyInputs
  <2>1. ControlOK' /\ target' = target /\ runs' = runs /\ pc' \in {"checksum", "check", None}
    BY <1>2, Known, ThenControl DEF CopyInputs, Steps, MigrateSteps
  <2> QED
    BY <1>2, <2>1, ControlStep DEF CopyInputs, diskVars, IInv, TypeOK
<1>3. CASE Checksum
  <2> DEFINE c == [checkpoints[target] EXCEPT !.checksum = checkpoints[target].state]
  <2>1. ControlOK' /\ target' = target /\ runs' = runs /\ pc' \in {"pointer", "check", None}
    BY <1>3, Known, ThenControl DEF Checksum, Steps, MigrateSteps
  <2>2. /\ target \in DOMAIN checkpoints /\ checkpoints[target] \in Checkpoint
        /\ checkpoints[target].checksum = None
        /\ checkpoints[target].state = checkpoints[target].original
        /\ ~Made(target, checkpoints[target].original)
    BY <1>3, Known DEF Checksum, IInv, Phase, MigrateSteps
  <2>3. /\ c \in Checkpoint /\ c.state = checkpoints[target].state
        /\ c.original = checkpoints[target].original /\ c.checksum = c.original
        /\ c.original \in Contents
    BY <2>2 DEF Checkpoint, Files
  <2>4. target \notin Complete
    BY <2>2, NoFileAssumption DEF Complete, Checkpoint
  <2>5. checkpoints' = [checkpoints EXCEPT ![target] = c]
    BY <1>3 DEF Checksum
  <2>6. UNCHANGED <<brokerVars, pointer, latest, work>>
    BY <1>3 DEF Checksum
  <2>7. Clean(c.state, Complete) /\ Clean(c.original, Complete)
    BY <2>2, <2>3 DEF IInv, AllClean
  <2>8. c.checksum # Torn
    BY <2>3, NoFileAssumption
  <2> HIDE DEF c
  <2>9. /\ TypeOK' /\ AllClean' /\ Len(checkpoints') <= runs'
        /\ live' # Torn /\ memory' # Torn
        /\ DOMAIN checkpoints' = DOMAIN checkpoints /\ checkpoints'[target] = c
        /\ \A m \in DOMAIN checkpoints' : checkpoints'[m].checksum # Torn
    BY <2>1, <2>2, <2>3, <2>4, <2>5, <2>6, <2>7, <2>8, CheckpointStep
  <2>10. target \in Complete'
    BY <2>2, <2>3, <2>9 DEF Complete, Made
  <2>11. Phase'
    BY <2>1, <2>2, <2>9, <2>10, NoStepAssumption DEF Phase, Steps, MigrateSteps, RollbackSteps
  <2>12. Whole'
    BY <2>1, <2>9, NoStepAssumption DEF Whole, Steps, RollbackSteps, SharedSteps
  <2> QED
    BY <2>9, <2>11, <2>12 DEF IInv
<1>4. CASE Pointer
  <2>1. /\ target \in DOMAIN checkpoints /\ target \in Ids
        /\ checkpoints[target] \in Checkpoint
    BY <1>4, Known DEF Pointer, IInv, Phase, MigrateSteps
  <2>2. /\ pointer' \in [Roots -> Ids \cup {None}] /\ latest' \in Ids \cup {None}
        /\ UNCHANGED <<brokerVars, checkpoints, work>>
    BY <1>4, <2>1 DEF Pointer, WritePointer, IInv, TypeOK, Checkpoint
  <2>3. CASE Fault
    BY <2>2, <2>3, Known, FaultControl, ControlStep
  <2>4. CASE ~Fault
    <3>1. /\ pc = "pointer" /\ pc' = "deny" /\ restore' = TRUE
          /\ UNCHANGED <<script, target, started, exit, faults, runs>>
      BY <1>4, <2>4 DEF Pointer
    <3>2. ControlOK'
      BY <3>1 DEF IInv, TypeOK, ControlOK, Steps, MigrateSteps
    <3> QED
      BY <2>2, <3>1, <3>2, ControlStep
  <2> QED
    BY <2>3, <2>4
<1>5. CASE Deny
  <2>1. /\ ControlOK' /\ target' = target /\ runs' = runs /\ pc' \in {"remove", "check", None}
        /\ pc = "deny"
    BY <1>5, Known, ThenControl DEF Deny, Steps, MigrateSteps
  <2>2. target \in Complete /\ target \in Ids
    BY <1>5, Known DEF Deny, IInv, Phase, MigrateSteps
  <2>3. memory' \in Contents /\ Clean(memory', Complete) /\ live' = memory'
    BY <1>5, <2>2, Known, AppendOwn DEF Deny, BrokerApplies
  <2>4. UNCHANGED <<temporary, running, diskVars, work>>
    BY <1>5 DEF Deny
  <2> QED
    BY <2>1, <2>3, <2>4, ChangeStep
<1>6. CASE Remove
  <2>1. /\ ControlOK' /\ target' = target /\ runs' = runs /\ pc' \in {"generate", "check", None}
        /\ pc = "remove"
    BY <1>6, Known, ThenControl DEF Remove, Steps, MigrateSteps
  <2>2. target \in Complete /\ target \in Ids
    BY <1>6, Known DEF Remove, IInv, Phase, MigrateSteps
  <2>3. /\ memory' \in Contents /\ Clean(memory', Complete)
        /\ live' \in Contents /\ Clean(live', Complete)
    BY <1>6, <2>2, Known, AppendOwn DEF Remove, BrokerApplies
  <2>4. UNCHANGED <<temporary, running, diskVars, work>>
    BY <1>6 DEF Remove
  <2> QED
    BY <2>1, <2>3, <2>4, ChangeStep
<1>7. CASE Generate
  <2>1. ControlOK' /\ target' = target /\ runs' = runs /\ pc' \in {"stop", "check", None}
    BY <1>7, Known, ThenControl DEF Generate, Steps, SharedSteps
  <2>2. target \in Complete /\ target \in Ids
    BY <1>7, Known DEF Generate, IInv, Phase, MigrateSteps
  <2>3. work' \in Contents /\ Clean(work', Complete)
    BY <1>7, <2>2, Candidate DEF Generate
  <2>4. UNCHANGED <<live, temporary, running, memory, diskVars>>
    BY <1>7 DEF Generate, brokerVars
  <2>5. /\ live' \in Contents /\ Clean(live', Complete)
        /\ memory' \in Contents /\ Clean(memory', Complete)
    BY <2>4, Known
  <2>6. temporary' \in Files \cup {None} /\ running' \in BOOLEAN /\ work' \in Files
    BY <2>3, <2>4, Known DEF TypeOK, Files
  <2>7. pc' \in SharedSteps \cup {"check", None} /\ pc' # "rename"
    BY <2>1, NoStepAssumption DEF Steps, SharedSteps
  <2> QED
    BY <2>1, <2>3, <2>4, <2>5, <2>6, <2>7, ReplaceStep
<1> QED
  BY <1>1, <1>2, <1>3, <1>4, <1>5, <1>6, <1>7 DEF Migrate

LEMMA RollbackInvariant ==
    ASSUME IInv, Rollback
    PROVE  IInv'
<1> USE DEF At
<1>1. CASE Check
  <2>1. CASE Intact(target)
    <3>1. ControlOK' /\ target' = target /\ runs' = runs /\ pc' \in {"copy", "check", None}
      BY <1>1, <2>1, Known, ThenControl DEF Check, Steps, RollbackSteps
    <3> QED
      BY <1>1, <2>1, <3>1, ControlStep DEF Check, diskVars, IInv, TypeOK
  <2>2. CASE ~Intact(target)
    <3>1. ControlOK' /\ target' = target /\ runs' = runs /\ pc' = None
      BY <1>1, <2>2, Known, EndsControl DEF Check
    <3> QED
      BY <1>1, <3>1, ControlStep DEF Check, diskVars, IInv, TypeOK
  <2> QED
    BY <2>1, <2>2
<1>2. CASE Copy
  <2>1. ControlOK' /\ target' = target /\ runs' = runs /\ pc' \in {"stop", "check", None}
    BY <1>2, Known, ThenControl DEF Copy, Steps, SharedSteps
  <2>2. work' \in Contents /\ Clean(work', Complete)
    BY <1>2 DEF Copy, IInv, Whole, AllClean
  <2>3. UNCHANGED <<live, temporary, running, memory, diskVars>>
    BY <1>2 DEF Copy, brokerVars
  <2>4. /\ live' \in Contents /\ Clean(live', Complete)
        /\ memory' \in Contents /\ Clean(memory', Complete)
    BY <2>3, Known
  <2>5. temporary' \in Files \cup {None} /\ running' \in BOOLEAN /\ work' \in Files
    BY <2>2, <2>3, Known DEF TypeOK, Files
  <2>6. pc' \in SharedSteps \cup {"check", None} /\ pc' # "rename"
    BY <2>1, NoStepAssumption DEF Steps, SharedSteps
  <2> QED
    BY <2>1, <2>2, <2>3, <2>4, <2>5, <2>6, ReplaceStep
<1> QED
  BY <1>1, <1>2 DEF Rollback

LEMMA ReplaceInvariant ==
    ASSUME IInv, Replace
    PROVE  IInv'
<1> USE DEF At
<1> DEFINE Moves(step) == /\ ControlOK' /\ target' = target /\ runs' = runs
                          /\ pc' \in {step, "check", None}
<1>1. \A step \in Steps : Then(step) => Moves(step)
  BY Known, ThenControl
<1>2. {"install", "copied", "rename", "start", "health", "verify"} \subseteq Steps
      /\ {"install", "copied", "rename", "start", "health", "verify", "check", None}
             \subseteq SharedSteps \cup {"check", None}
  BY DEF Steps, SharedSteps
<1>3. None \notin {"stop", "install", "copied", "rename"}
  BY NoStepAssumption DEF Steps, SharedSteps
<1>4. CASE Stop
  <2>1. UNCHANGED <<live, temporary, memory, diskVars, work>> /\ running' = FALSE
        /\ Moves("install") /\ work \in Contents
    BY <1>1, <1>2, <1>4 DEF Stop, IInv, Whole
  <2> QED
    BY <1>2, <1>3, <2>1, Known, ReplaceStep DEF TypeOK
<1>5. CASE Install
  <2>1. UNCHANGED <<live, running, memory, diskVars, work>> /\ temporary' = Torn
        /\ Moves("copied") /\ work \in Contents
    BY <1>1, <1>2, <1>5 DEF Install, IInv, Whole
  <2> QED
    BY <1>2, <1>3, <2>1, Known, ReplaceStep DEF TypeOK, Files
<1>6. CASE Copied
  <2>1. UNCHANGED <<live, running, memory, diskVars, work>> /\ temporary' = work
        /\ Moves("rename") /\ work \in Contents
    BY <1>1, <1>2, <1>6 DEF Copied, IInv, Whole
  <2> QED
    BY <1>2, <1>3, <2>1, Known, ReplaceStep DEF TypeOK, Files
<1>7. CASE Rename
  <2>1. UNCHANGED <<running, memory, diskVars, work>> /\ live' = work /\ temporary' = None
        /\ Moves("start") /\ work \in Contents
    BY <1>1, <1>2, <1>7 DEF Rename, IInv, Whole
  <2> QED
    BY <1>2, <1>3, <2>1, Known, ReplaceStep DEF TypeOK, Files
<1>8. CASE StartBroker
  <2>1. UNCHANGED <<live, temporary, diskVars, work>> /\ Moves("health")
        /\ memory' \in {memory, live} /\ running' \in {running, TRUE}
    BY <1>1, <1>2, <1>8 DEF StartBroker
  <2> QED
    BY <1>2, <1>3, <2>1, Known, ReplaceStep DEF TypeOK
<1>9. CASE Health
  <2>1. UNCHANGED <<brokerVars, diskVars, work>> /\ Moves("verify")
    <3>1. CASE running
      BY <1>1, <1>2, <1>9, <3>1 DEF Health
    <3>2. CASE ~running
      <4>1. Fails /\ faults' \in 0 .. MaxFaults
        BY <1>9, <3>2 DEF Health, IInv, TypeOK
      <4> QED
        BY <1>9, <4>1, Known, FailsControl DEF Health
    <3> QED
      BY <3>1, <3>2
  <2> QED
    BY <2>1, ControlStep DEF diskVars, IInv, TypeOK
<1>10. CASE Verify
  <2>1. UNCHANGED <<brokerVars, diskVars, work>>
        /\ ControlOK' /\ target' = target /\ runs' = runs /\ pc' \in {"check", None}
    BY <1>10, Known, EndsControl, FaultControl DEF Verify
  <2> QED
    BY <2>1, ControlStep DEF diskVars, IInv, TypeOK
<1> QED
  BY <1>4, <1>5, <1>6, <1>7, <1>8, <1>9, <1>10 DEF Replace

LEMMA CorruptInvariant ==
    ASSUME IInv, Corrupt
    PROVE  IInv'
<1>1. PICK m \in DOMAIN checkpoints :
          /\ checkpoints[m].checksum # None
          /\ checkpoints' = [checkpoints EXCEPT ![m].state = Torn]
  BY DEF Corrupt
<1> DEFINE c == [checkpoints[m] EXCEPT !.state = Torn]
<1>2. /\ c \in Checkpoint /\ c.state = Torn /\ c.original = checkpoints[m].original
      /\ c.checksum = checkpoints[m].checksum
  BY Known DEF Checkpoint, Files
<1>3. c.checksum # Torn /\ Clean(c.state, Complete) /\ Clean(c.original, Complete)
  BY <1>2, NoFileAssumption DEF IInv, Whole, AllClean, Clean
<1>4. checkpoints' = [checkpoints EXCEPT ![m] = c]
  BY <1>1
<1>5. UNCHANGED <<brokerVars, pointer, latest, scriptVars>> /\ pc # "copy"
  BY DEF Corrupt
<1>6. UNCHANGED <<script, pc, target, started, restore, work, exit, faults, runs, temporary>>
  BY <1>5 DEF scriptVars, brokerVars
<1>7. ControlOK'
  BY <1>6 DEF IInv, TypeOK, ControlOK
<1> HIDE DEF c
<1>8. /\ Complete \subseteq Complete' /\ TypeOK' /\ AllClean' /\ Len(checkpoints') <= runs'
      /\ live' # Torn /\ memory' # Torn
      /\ DOMAIN checkpoints' = DOMAIN checkpoints /\ checkpoints'[m] = c
      /\ \A k \in DOMAIN checkpoints' : checkpoints'[k].checksum # Torn
  BY <1>2, <1>3, <1>4, <1>5, <1>6, <1>7, CheckpointStep
<1>9. /\ \A k \in DOMAIN checkpoints \ {m} : checkpoints'[k] = checkpoints[k]
      /\ \A k \in DOMAIN checkpoints : /\ checkpoints'[k].checksum = checkpoints[k].checksum
                                       /\ checkpoints'[k].original = checkpoints[k].original
  BY <1>1, <1>2, <1>4, <1>8, Known, Rewrite
<1>10. Phase'
  BY <1>1, <1>6, <1>8, <1>9 DEF IInv, Phase, Made, MigrateSteps
<1>11. Whole'
  BY <1>5, <1>6, <1>8 DEF IInv, Whole
<1> QED
  BY <1>8, <1>10, <1>11 DEF IInv

LEMMA NextInvariant ==
    ASSUME IInv, [Next]_vars
    PROVE  IInv'
<1>1. CASE CommandFails
  <2>1. UNCHANGED <<brokerVars, diskVars, work>>
        /\ ControlOK' /\ target' = target /\ runs' = runs /\ pc' \in {"check", None}
    BY <1>1, Known, FaultControl DEF CommandFails
  <2> QED
    BY <2>1, ControlStep DEF diskVars, IInv, TypeOK
<1>2. CASE Kill
  <2>1. UNCHANGED <<brokerVars, diskVars, work>>
        /\ ControlOK' /\ target' = target /\ runs' = runs /\ pc' = None
    BY <1>2, Known, EndsControl DEF Kill
  <2> QED
    BY <2>1, ControlStep DEF diskVars, IInv, TypeOK
<1>3. ASSUME NEW e \in Edits, Edit(e) PROVE IInv'
  <2>1. memory' \in Contents /\ Clean(memory', Complete) /\ live' = memory'
    BY <1>3, Known, AppendEdit DEF Edit, BrokerApplies
  <2>2. UNCHANGED <<temporary, running, diskVars, work, script, pc, target, started, restore,
                    exit, faults, runs>>
    BY <1>3 DEF Edit, scriptVars
  <2>3. ControlOK'
    BY <2>2 DEF IInv, TypeOK, ControlOK
  <2> QED
    BY <2>1, <2>2, <2>3, ChangeStep
<1>4. CASE UNCHANGED vars
  <2>1. UNCHANGED <<brokerVars, diskVars, work, script, pc, target, started, restore, exit,
                    faults, runs>>
    BY <1>4 DEF vars, scriptVars
  <2>2. ControlOK'
    BY <2>1 DEF IInv, TypeOK, ControlOK
  <2> QED
    BY <2>1, <2>2, ControlStep DEF diskVars, IInv, TypeOK
<1> QED
  BY <1>1, <1>2, <1>3, <1>4, StartInvariant, MigrateInvariant, RollbackInvariant,
     ReplaceInvariant, CorruptInvariant DEF Next

LEMMA Inductive == Spec => []IInv
BY InitInvariant, NextInvariant, PTL DEF Spec

-------------------------------------------------------------------------------
(* Every variable keeps its type.                                            *)
THEOREM TypeCorrect == Spec => []TypeOK
<1>1. IInv => TypeOK
  BY DEF IInv
<1> QED
  BY <1>1, Inductive, PTL

(* The broker's state file is whole at every instant, whatever is killed,    *)
(* fails or is damaged while a script installs another one.                  *)
THEOREM LiveFileStaysWhole == Spec => []LiveFileIsWhole
<1>1. IInv => LiveFileIsWhole
  BY DEF IInv, Whole, LiveFileIsWhole
<1> QED
  BY <1>1, Inductive, PTL

(* As long as a change of a migration is in the state file, there is a       *)
(* complete checkpoint from before the change.                               *)
THEOREM ChangesHaveCheckpoints == Spec => []NoChangeWithoutCheckpoint
<1>1. IInv => NoChangeWithoutCheckpoint
  BY Known DEF NoChangeWithoutCheckpoint, Clean, Complete
<1> QED
  BY <1>1, Inductive, PTL

\* The steps of a migration whose failure is undone by the trap.
CutOver == {"deny", "remove", "generate"} \cup SharedSteps

\* The contents that the script means to put in place, or has put in place.
Goal ==
    IF script = "migrate" \/ exit = "completed"
    THEN <<<<"migrate", target>>>>
    ELSE checkpoints[target].original

\* Where each script can be, and when the trap restores.
Course ==
    /\ script = None <=> pc = None
    /\ script = "migrate" => pc \in MigrateSteps \cup SharedSteps
    /\ script = "rollback" => pc \in RollbackSteps \cup SharedSteps
    /\ script # None => exit = None
    /\ restore <=> script = "migrate" /\ pc \in CutOver
    /\ script = "migrate" => started = "migration" /\ faults = 0
    /\ script = "rollback" /\ pc # "check" => target \in DOMAIN checkpoints
    /\ exit = "rolled_back" => target \in DOMAIN checkpoints

\* When the broker runs, and that it then has in memory what is in the file.
Broker ==
    /\ running => memory = live
    /\ script = "migrate" /\ pc \in MigrateSteps \cup {"stop"} => running
    /\ pc \in {"install", "copied", "rename", "start"} => ~running
    /\ pc \in {"health", "verify"} => running
    /\ exit \in {"completed", "rolled_back"} => running

\* What is installed is the goal, and only edits come on top.
Content ==
    /\ \A m \in DOMAIN checkpoints : checkpoints[m].checksum \in {None, checkpoints[m].original}
    /\ pc = "copy" => checkpoints[target].state = checkpoints[target].original
    /\ pc \in {"stop", "install", "copied", "rename"} => work = Goal
    /\ pc = "start" => live = Goal
    /\ pc \in {"health", "verify"} => Extends(live, Goal)
    /\ exit \in {"completed", "rolled_back"} => Extends(live, Goal)

\* What a migration, and the trap that undoes it, have left in the file.
Undone ==
    started = "migration" =>
        /\ target \in DOMAIN checkpoints
        /\ pc \in {"copy_state", "copy_inputs", "checksum", "pointer"} => ~Made(target, live)
        /\ restore => target \in Complete
        /\ script = "rollback" =>
               /\ target \in Complete /\ faults >= 1
               /\ pc \in {"start", "health", "verify"} => ~Made(target, live)
        /\ OneFaultIsHarmless

Outcome == Course /\ Broker /\ Content /\ Undone

-------------------------------------------------------------------------------
(* What the scripts install, and how they end.                               *)

LEMMA ExtendsItself ==
    ASSUME NEW c \in Contents
    PROVE  Extends(c, c)
<1>1. SubSeq(c, 1, Len(c)) = c /\ Len(c) \in Nat
  BY DEF Contents
<1>2. c # Torn
  BY NoFileAssumption
<1> QED
  BY <1>1, <1>2 DEF Extends

LEMMA ExtendsAppend ==
    ASSUME NEW c \in Contents, NEW start, Len(start) \in Nat, NEW change \in Changes,
           Extends(c, start)
    PROVE  Extends(Append(c, change), start)
<1> DEFINE d == Append(c, change)
<1>1. d \in Contents /\ Len(d) = Len(c) + 1 /\ \A i \in 1 .. Len(c) : d[i] = c[i]
  BY DEF Contents
<1>2. Len(start) \in Nat /\ Len(c) \in Nat /\ Len(start) <= Len(c)
      /\ SubSeq(c, 1, Len(start)) = start
  BY DEF Extends, Contents
<1> HIDE DEF d
<1>3. SubSeq(d, 1, Len(start)) = SubSeq(c, 1, Len(start))
  BY <1>1, <1>2 DEF Contents
<1>4. d # Torn
  BY <1>1, NoFileAssumption
<1>5. Extends(d, start)
  BY <1>1, <1>2, <1>3, <1>4 DEF Extends
<1> QED
  BY <1>5 DEF d

LEMMA InitOutcome ==
    ASSUME Init
    PROVE  Outcome
<1>1. DOMAIN checkpoints = {}
  BY DEF Init
<1> QED
  BY <1>1, NoStepAssumption, NoValueAssumption
     DEF Init, Outcome, Course, Broker, Content, Undone, CutOver, Steps, MigrateSteps,
         RollbackSteps, SharedSteps

(* A command fails, whatever it has done before.                             *)
LEMMA FaultOutcome ==
    ASSUME IInv, Outcome, Fault, script # None,
           running' => memory' = live',
           \A m \in DOMAIN checkpoints' :
               checkpoints'[m].checksum \in {None, checkpoints'[m].original},
           DOMAIN checkpoints' = DOMAIN checkpoints,
           restore => target \in Complete',
           script = "migrate" /\ ~restore => running' /\ ~Made(target, live')
    PROVE  Outcome'
<1>1. /\ target' = target /\ started' = started /\ restore' = FALSE
      /\ IF script = "migrate" /\ restore
         THEN script' = "rollback" /\ pc' = "check" /\ exit' = exit
         ELSE script' = None /\ pc' = None /\ exit' = "failed"
      /\ faults' = faults + 1 /\ faults \in Nat
  BY DEF Fault, Fails, IInv, TypeOK
<1>2. script \in {"migrate", "rollback"} /\ exit = None
  BY DEF IInv, TypeOK, Outcome, Course
<1> USE NoStepAssumption, NoValueAssumption DEF Steps, MigrateSteps, RollbackSteps, SharedSteps
<1>3. Course'
  BY <1>1, <1>2 DEF Outcome, Course, CutOver
<1>4. Broker'
  BY <1>1, <1>2 DEF Outcome, Course, Broker
<1>5. Content'
  BY <1>1, <1>2 DEF Outcome, Course, Content
<1>6. Undone'
  <2>1. CASE script = "migrate" /\ restore
    <3>1. started = "migration" /\ faults = 0 /\ target \in DOMAIN checkpoints
      BY <2>1 DEF Outcome, Course, Undone
    <3> QED
      BY <1>1, <1>2, <2>1, <3>1 DEF Undone, OneFaultIsHarmless
  <2>2. CASE script = "migrate" /\ ~restore
    <3>1. started = "migration" /\ target \in DOMAIN checkpoints
      BY <2>2 DEF Outcome, Course, Undone
    <3>2. OneFaultIsHarmless'
      BY <1>1, <1>2, <2>2, <3>1 DEF OneFaultIsHarmless, Made
    <3> QED
      BY <1>1, <1>2, <2>2, <3>1, <3>2 DEF Undone
  <2>3. CASE script = "rollback"
    <3>1. started = "migration" => target \in DOMAIN checkpoints /\ faults >= 1
      BY <2>3 DEF Outcome, Undone
    <3>2. OneFaultIsHarmless'
      BY <1>1, <1>2, <2>3, <3>1 DEF OneFaultIsHarmless
    <3> QED
      BY <1>1, <1>2, <2>3, <3>1, <3>2 DEF Undone
  <2> QED
    BY <1>2, <2>1, <2>2, <2>3
<1> QED
  BY <1>3, <1>4, <1>5, <1>6 DEF Outcome


(* A command succeeds and the script goes on.                                *)
LEMMA GotoOutcome ==
    ASSUME IInv, Outcome, NEW step \in Steps, Goto(step), script # None,
           script = "migrate" => step \in MigrateSteps \cup SharedSteps,
           script = "rollback" => step \in RollbackSteps \cup SharedSteps
                                  /\ target \in DOMAIN checkpoints,
           restore <=> script = "migrate" /\ step \in CutOver,
           DOMAIN checkpoints' = DOMAIN checkpoints,
           Broker', Content',
           restore => target \in Complete',
           started = "migration" /\ script = "rollback" =>
               /\ target \in Complete'
               /\ step \in {"start", "health", "verify"} => ~Made(target, live'),
           step \in {"copy_state", "copy_inputs", "checksum", "pointer"} => ~Made(target, live')
    PROVE  Outcome'
<1>1. /\ target' = target /\ started' = started /\ restore' = restore /\ script' = script
      /\ pc' = step /\ exit' = exit /\ faults' = faults
  BY DEF Goto
<1>2. script \in {"migrate", "rollback"} /\ exit = None
  BY DEF IInv, TypeOK, Outcome, Course
<1>3. Course'
  BY <1>1, <1>2, NoStepAssumption, NoValueAssumption DEF Outcome, Course
<1>4. OneFaultIsHarmless'
  BY <1>1, <1>2 DEF OneFaultIsHarmless
<1>5. Undone'
  BY <1>1, <1>2, <1>4 DEF Outcome, Undone, Made
<1> QED
  BY <1>3, <1>5 DEF Outcome

(* What is known of the running script, of its checkpoint and of the broker. *)
LEMMA Scene ==
    ASSUME IInv, Outcome, pc # None
    PROVE  /\ script \in {"migrate", "rollback"} /\ exit = None
           /\ pc \in {"check", "copy"} => script = "rollback"
           /\ pc \in MigrateSteps => script = "migrate"
           /\ running => memory = live
           /\ \A m \in DOMAIN checkpoints : checkpoints[m].checksum \in {None, checkpoints[m].original}
           /\ script = "migrate" => started = "migration" /\ target \in DOMAIN checkpoints
           /\ pc # "check" => target \in DOMAIN checkpoints
           /\ restore => target \in Complete
           /\ script = "migrate" /\ ~restore =>
                  /\ pc \in {"copy_state", "copy_inputs", "checksum", "pointer"}
                  /\ running /\ ~Made(target, live)
BY NoStepAssumption, NoValueAssumption
   DEF IInv, TypeOK, Outcome, Course, Broker, Content, Undone, CutOver, Steps, MigrateSteps,
       RollbackSteps, SharedSteps

(* The next command of a script, or its failure, after a step that leaves    *)
(* the checkpoints alone.                                                    *)
LEMMA ThenOutcome ==
    ASSUME IInv, Outcome, NEW step \in Steps, Then(step), pc # None,
           UNCHANGED checkpoints,
           script = "migrate" => step \in MigrateSteps \cup SharedSteps,
           script = "rollback" =>
               \/ step \in SharedSteps /\ pc # "check"
               \/ step = "copy" /\ Intact(target),
           restore <=> script = "migrate" /\ step \in CutOver,
           running' => memory' = live',
           script = "migrate" /\ ~restore => running' /\ live' = live,
           Goto(step) => Broker' /\ Content',
           started = "migration" /\ script = "rollback" /\ step \in {"start", "health", "verify"}
               => ~Made(target, live')
    PROVE  Outcome'
<1>1. Complete' = Complete
  BY SameCheckpoints
<1>2. /\ script \in {"migrate", "rollback"} /\ script # None
      /\ \A m \in DOMAIN checkpoints : checkpoints[m].checksum \in {None, checkpoints[m].original}
      /\ pc # "check" => target \in DOMAIN checkpoints
      /\ restore => target \in Complete
      /\ script = "migrate" /\ ~restore => running /\ ~Made(target, live)
  BY Scene, NoValueAssumption
<1>3. started = "migration" /\ script = "rollback" => target \in Complete
  BY DEF Outcome, Undone
<1>4. CASE Fault
  BY <1>1, <1>2, <1>4, FaultOutcome
<1>5. CASE Goto(step)
  <2>1. script = "rollback" => step \in RollbackSteps \cup SharedSteps
                               /\ target \in DOMAIN checkpoints
    BY <1>2 DEF Intact, RollbackSteps
  <2>2. step \in {"copy_state", "copy_inputs", "checksum", "pointer"} => ~Made(target, live')
    <3>1. step \in {"copy_state", "copy_inputs", "checksum", "pointer"} =>
              step \notin CutOver \cup RollbackSteps \cup SharedSteps
      BY DEF CutOver, RollbackSteps, SharedSteps
    <3> QED
      BY <1>2, <2>1, <3>1
  <2> QED
    BY <1>1, <1>2, <1>3, <1>5, <2>1, <2>2, GotoOutcome
<1> QED
  BY <1>4, <1>5 DEF Then


LEMMA MigrateOutcome ==
    ASSUME IInv, Outcome, Migrate
    PROVE  Outcome'
<1> USE NoStepAssumption, NoValueAssumption
    DEF At, Steps, MigrateSteps, RollbackSteps, SharedSteps, CutOver
<1>0. pc # None /\ pc \in MigrateSteps
  BY DEF Migrate, CopyState, CopyInputs, Checksum, Pointer, Deny, Remove, Generate
<1>1. /\ script = "migrate" /\ exit = None /\ started = "migration" /\ faults = 0
      /\ running /\ memory = live
      /\ target \in DOMAIN checkpoints
      /\ \A m \in DOMAIN checkpoints : checkpoints[m].checksum \in {None, checkpoints[m].original}
      /\ restore <=> pc \in {"deny", "remove", "generate"}
      /\ ~restore => ~Made(target, live)
      /\ restore => target \in Complete
  <2>1. script = "migrate"
    BY <1>0, Scene
  <2> QED
    BY <1>0, <2>1, Scene DEF Outcome, Course, Broker
<1>2. CASE CopyState
  <2> DEFINE c == [checkpoints[target] EXCEPT !.state = live, !.original = live]
  <2>1. /\ pc = "copy_state" /\ checkpoints' = [checkpoints EXCEPT ![target] = c]
        /\ Then("copy_inputs")
        /\ UNCHANGED <<live, running, memory, work>>
    BY <1>2 DEF CopyState, brokerVars
  <2>2. checkpoints[target] \in Checkpoint /\ checkpoints[target].checksum = None
    BY <1>1, <2>1, Known DEF IInv, Phase
  <2>3. c \in Checkpoint /\ c.checksum = None
    BY <2>2, Known DEF Checkpoint, Files
  <2> HIDE DEF c
  <2>4. /\ DOMAIN checkpoints' = DOMAIN checkpoints
        /\ \A m \in DOMAIN checkpoints' :
               checkpoints'[m].checksum \in {None, checkpoints'[m].original}
    BY <1>1, <2>1, <2>3, Known, Rewrite
  <2>5. CASE Fault
    BY <1>1, <2>1, <2>4, <2>5, FaultOutcome
  <2>6. CASE Goto("copy_inputs")
    <3>1. Broker' /\ Content'
      BY <1>1, <2>1, <2>4, <2>6 DEF Goto, Broker, Content
    <3> QED
      BY <1>1, <2>1, <2>4, <2>6, <3>1, GotoOutcome
  <2> QED
    BY <2>1, <2>5, <2>6 DEF Then
<1>3. CASE CopyInputs
  <2>1. /\ pc = "copy_inputs" /\ Then("checksum")
        /\ UNCHANGED <<live, running, memory, checkpoints, work>>
    BY <1>3 DEF CopyInputs, brokerVars, diskVars
  <2>2. Goto("checksum") => Broker' /\ Content'
    BY <1>1, <2>1 DEF Goto, Broker, Content
  <2> QED
    BY <1>1, <2>1, <2>2, ThenOutcome
<1>4. CASE Checksum
  <2> DEFINE c == [checkpoints[target] EXCEPT !.checksum = checkpoints[target].state]
  <2>1. /\ pc = "checksum" /\ checkpoints' = [checkpoints EXCEPT ![target] = c]
        /\ Then("pointer")
        /\ UNCHANGED <<live, running, memory, work>>
    BY <1>4 DEF Checksum, brokerVars
  <2>2. checkpoints[target] \in Checkpoint /\ checkpoints[target].state = checkpoints[target].original
    BY <1>1, <2>1, Known DEF IInv, Phase
  <2>3. c \in Checkpoint /\ c.checksum = c.original
    BY <2>2, Known DEF Checkpoint, Files
  <2> HIDE DEF c
  <2>4. /\ DOMAIN checkpoints' = DOMAIN checkpoints
        /\ \A m \in DOMAIN checkpoints' :
               checkpoints'[m].checksum \in {None, checkpoints'[m].original}
    BY <1>1, <2>1, <2>3, Known, Rewrite
  <2>5. CASE Fault
    BY <1>1, <2>1, <2>4, <2>5, FaultOutcome
  <2>6. CASE Goto("pointer")
    <3>1. Broker' /\ Content'
      BY <1>1, <2>1, <2>4, <2>6 DEF Goto, Broker, Content
    <3> QED
      BY <1>1, <2>1, <2>4, <2>6, <3>1, GotoOutcome
  <2> QED
    BY <2>1, <2>5, <2>6 DEF Then
<1>5. CASE Pointer
  <2>1. /\ pc = "pointer" /\ ~restore
        /\ UNCHANGED <<live, running, memory, checkpoints, work>>
    BY <1>1, <1>5 DEF Pointer, brokerVars
  <2>2. target \in Complete /\ Complete' = Complete
    BY <2>1, SameCheckpoints DEF IInv, Phase
  <2>3. CASE Fault
    BY <1>1, <2>1, <2>3, FaultOutcome
  <2>4. CASE ~Fault
    <3>1. /\ pc' = "deny" /\ restore' = TRUE
          /\ UNCHANGED <<script, target, started, exit, faults>>
      BY <1>5, <2>4 DEF Pointer
    <3>2. Course' /\ Broker' /\ Content'
      BY <1>1, <2>1, <3>1 DEF Course, Broker, Content
    <3>3. OneFaultIsHarmless'
      BY <1>1, <3>1 DEF OneFaultIsHarmless
    <3>4. Undone'
      BY <1>1, <2>1, <2>2, <3>1, <3>3 DEF Undone
    <3> QED
      BY <3>2, <3>4 DEF Outcome
  <2> QED
    BY <2>3, <2>4
<1>6. CASE Deny
  <2>1. /\ pc = "deny" /\ Then("remove") /\ memory' = live'
        /\ UNCHANGED <<running, checkpoints, work>>
    BY <1>6 DEF Deny, BrokerApplies, diskVars
  <2>2. Goto("remove") => Broker' /\ Content'
    BY <1>1, <2>1 DEF Goto, Broker, Content
  <2> QED
    BY <1>1, <2>1, <2>2, ThenOutcome
<1>7. CASE Remove
  <2>1. /\ pc = "remove" /\ Then("generate") /\ memory' = live'
        /\ UNCHANGED <<running, checkpoints, work>>
    BY <1>1, <1>7 DEF Remove, BrokerApplies, diskVars
  <2>2. Goto("generate") => Broker' /\ Content'
    BY <1>1, <2>1 DEF Goto, Broker, Content
  <2> QED
    BY <1>1, <2>1, <2>2, ThenOutcome
<1>8. CASE Generate
  <2>1. /\ pc = "generate" /\ Then("stop") /\ work' = <<<<"migrate", target>>>>
        /\ UNCHANGED <<live, running, memory, checkpoints>>
    BY <1>8 DEF Generate, brokerVars, diskVars
  <2>2. Goto("stop") => Broker' /\ Content'
    BY <1>1, <2>1 DEF Goto, Broker, Content, Goal
  <2> QED
    BY <1>1, <2>1, <2>2, ThenOutcome
<1> QED
  BY <1>2, <1>3, <1>4, <1>5, <1>6, <1>7, <1>8 DEF Migrate


(* The same for the steps that both scripts share.                           *)
LEMMA SharedOutcome ==
    ASSUME IInv, Outcome, NEW step \in SharedSteps, Then(step), pc # None, pc # "check",
           UNCHANGED checkpoints,
           restore <=> script = "migrate",
           running' => memory' = live',
           Goto(step) => Broker' /\ Content',
           started = "migration" /\ script = "rollback" /\ step \in {"start", "health", "verify"}
               => ~Made(target, live')
    PROVE  Outcome'
<1>1. step \in Steps /\ step \in CutOver
  BY DEF Steps, CutOver
<1>2. script = "migrate" => step \in MigrateSteps \cup SharedSteps
  OBVIOUS
<1>3. script = "rollback" =>
          \/ step \in SharedSteps /\ pc # "check"
          \/ step = "copy" /\ Intact(target)
  OBVIOUS
<1>4. restore <=> script = "migrate" /\ step \in CutOver
  BY <1>1
<1>5. script = "migrate" /\ ~restore => running' /\ live' = live
  BY Zenon
<1> QED
  BY <1>1, <1>2, <1>3, <1>4, <1>5, ThenOutcome

LEMMA RollbackOutcome ==
    ASSUME IInv, Outcome, Rollback
    PROVE  Outcome'
<1> USE NoValueAssumption DEF At
<1>0. pc \in {"check", "copy"} /\ pc # None
  BY NoStepAssumption DEF Rollback, Check, Copy, Steps, RollbackSteps
<1>s. {"stop", "install", "copied", "rename", "start", "health", "verify"} = SharedSteps
      /\ {"check", "copy"} \cap (MigrateSteps \cup SharedSteps) = {} /\ "copy" \in Steps
      /\ "copy" \in RollbackSteps
  BY DEF Steps, MigrateSteps, RollbackSteps, SharedSteps
<1>1. /\ script = "rollback" /\ exit = None /\ ~restore
      /\ running => memory = live
      /\ \A m \in DOMAIN checkpoints : checkpoints[m].checksum \in {None, checkpoints[m].original}
      /\ pc # "check" => target \in DOMAIN checkpoints
  BY <1>0, Scene, NoStepAssumption
     DEF Steps, MigrateSteps, RollbackSteps, SharedSteps, CutOver, Outcome, Course
<1>r. /\ script # "migrate"
      /\ restore <=> script = "migrate"
      /\ restore <=> (script = "migrate" /\ "copy" \in CutOver)
      /\ script = "migrate" /\ ~restore => running' /\ live' = live
  BY <1>1, Zenon
<1>2. CASE Check /\ Intact(target)
  <2>1. /\ pc = "check" /\ Then("copy")
        /\ UNCHANGED <<live, running, memory, checkpoints, work>>
    BY <1>2 DEF Check, brokerVars, diskVars
  <2>2. target \in DOMAIN checkpoints /\ checkpoints[target].state = checkpoints[target].original
    BY <1>1, <1>2 DEF Intact
  <2>3. Goto("copy") => Broker' /\ Content'
    BY <1>1, <2>1, <2>2, NoStepAssumption
     DEF Steps, MigrateSteps, RollbackSteps, SharedSteps, CutOver, Goto, Broker, Content
  <2>4. running' => memory' = live'
    BY <1>1, <2>1, Zenon
  <2> QED
    BY <1>0, <1>1, <1>2, <1>r, <1>s, <2>1, <2>3, <2>4, ThenOutcome
<1>3. CASE Check /\ ~Intact(target)
  <2>1. /\ script' = None /\ pc' = None /\ exit' = "failed" /\ restore' = FALSE
        /\ UNCHANGED <<target, started, faults, live, running, memory, checkpoints>>
    BY <1>3 DEF Check, Ends, brokerVars, diskVars
  <2>2. Course' /\ Broker' /\ Content'
    BY <1>1, <2>1, NoStepAssumption
     DEF Steps, MigrateSteps, RollbackSteps, SharedSteps, CutOver, Course, Broker, Content
  <2>3. started = "migration" =>
            /\ target \in DOMAIN checkpoints
            /\ checkpoints[target].checksum \notin {None, checkpoints[target].state}
    <3>1. started = "migration" =>
              /\ target \in DOMAIN checkpoints
              /\ checkpoints[target].checksum = checkpoints[target].original
      BY <1>1, NoStepAssumption
     DEF Steps, MigrateSteps, RollbackSteps, SharedSteps, CutOver, Outcome, Undone, Complete
    <3> QED
      BY <1>3, <3>1, Known, NoFileAssumption DEF Intact, Checkpoint
  <2>4. Undone'
    BY <2>1, <2>3, NoStepAssumption
     DEF Steps, MigrateSteps, RollbackSteps, SharedSteps, CutOver, Undone, OneFaultIsHarmless
  <2> QED
    BY <2>2, <2>4 DEF Outcome
<1>4. CASE Copy
  <2>1. /\ pc = "copy" /\ Then("stop") /\ work' = checkpoints[target].state
        /\ UNCHANGED <<live, running, memory, checkpoints>>
    BY <1>4 DEF Copy, brokerVars, diskVars
  <2>2. checkpoints[target].state = checkpoints[target].original
    BY <2>1, NoStepAssumption
     DEF Steps, MigrateSteps, RollbackSteps, SharedSteps, CutOver, Outcome, Content
  <2>3. running' => memory' = live'
    BY <1>1, <2>1, Zenon
  <2>4. Goto("stop") => Broker' /\ Content'
    BY <1>1, <2>1, <2>2, NoStepAssumption
     DEF Steps, MigrateSteps, RollbackSteps, SharedSteps, CutOver, Goto, Broker, Content, Goal
  <2> QED
    BY <1>0, <1>r, <1>s, <2>1, <2>3, <2>4, SharedOutcome
<1> QED
  BY <1>2, <1>3, <1>4 DEF Rollback

LEMMA ReplaceOutcome ==
    ASSUME IInv, Outcome, Replace
    PROVE  Outcome'
<1> USE NoValueAssumption DEF At
<1>s. {"stop", "install", "copied", "rename", "start", "health", "verify"} = SharedSteps
      /\ SharedSteps \cap (MigrateSteps \cup {"check", "copy", None}) = {}
  BY NoStepAssumption DEF Steps, MigrateSteps, SharedSteps
<1>0. pc \in SharedSteps /\ pc # None /\ pc # "check"
  BY <1>s DEF Replace, Stop, Install, Copied, Rename, StartBroker, Health, Verify
<1>1. /\ script \in {"migrate", "rollback"} /\ exit = None
      /\ restore <=> script = "migrate"
      /\ running => memory = live
      /\ \A m \in DOMAIN checkpoints : checkpoints[m].checksum \in {None, checkpoints[m].original}
      /\ target \in DOMAIN checkpoints
      /\ Goal = IF script = "migrate" THEN <<<<"migrate", target>>>> ELSE checkpoints[target].original
  BY <1>0, Scene, NoStepAssumption
     DEF Steps, MigrateSteps, RollbackSteps, SharedSteps, CutOver, Outcome, Course, Goal
<1>g. ASSUME NEW step, Goto(step), UNCHANGED checkpoints PROVE Goal' = Goal
  BY <1>g, <1>1 DEF Goto, Goal
<1>2. CASE Stop
  <2>1. /\ pc = "stop" /\ Then("install") /\ ~running'
        /\ UNCHANGED <<live, memory, checkpoints, work>>
    BY <1>2 DEF Stop, diskVars
  <2>2. Goto("install") => Broker' /\ Content'
    BY <1>1, <1>g, <2>1, NoStepAssumption
     DEF Steps, MigrateSteps, RollbackSteps, SharedSteps, CutOver, Goto, Outcome, Broker, Content
  <2> QED
    BY <1>1, <1>s, <2>1, <2>2, SharedOutcome
<1>3. CASE Install
  <2>1. /\ pc = "install" /\ Then("copied") /\ ~running
        /\ UNCHANGED <<live, running, memory, checkpoints, work>>
    BY <1>3 DEF Install, diskVars, Outcome, Broker
  <2>2. Goto("copied") => Broker' /\ Content'
    BY <1>1, <1>g, <2>1, NoStepAssumption
     DEF Steps, MigrateSteps, RollbackSteps, SharedSteps, CutOver, Goto, Outcome, Broker, Content
  <2>m. running' => memory' = live'
    BY <2>1, Zenon
  <2> QED
    BY <1>1, <1>s, <2>1, <2>2, <2>m, SharedOutcome
<1>4. CASE Copied
  <2>1. /\ pc = "copied" /\ Then("rename") /\ ~running
        /\ UNCHANGED <<live, running, memory, checkpoints, work>>
    BY <1>4 DEF Copied, diskVars, Outcome, Broker
  <2>2. Goto("rename") => Broker' /\ Content'
    BY <1>1, <1>g, <2>1, NoStepAssumption
     DEF Steps, MigrateSteps, RollbackSteps, SharedSteps, CutOver, Goto, Outcome, Broker, Content
  <2>m. running' => memory' = live'
    BY <2>1, Zenon
  <2> QED
    BY <1>1, <1>s, <2>1, <2>2, <2>m, SharedOutcome
<1>5. CASE Rename
  <2>1. /\ pc = "rename" /\ Then("start") /\ ~running
        /\ live' = Goal
        /\ UNCHANGED <<running, memory, checkpoints>>
    BY <1>5 DEF Rename, diskVars, Outcome, Broker, Content, IInv, Whole
  <2>2. Goto("start") => Broker' /\ Content'
    BY <1>1, <1>g, <2>1, NoStepAssumption
     DEF Steps, MigrateSteps, RollbackSteps, SharedSteps, CutOver, Goto, Broker, Content
  <2>3. started = "migration" /\ script = "rollback" => ~Made(target, live')
    BY <1>1, <1>s, <2>1, NoStepAssumption
     DEF Steps, MigrateSteps, RollbackSteps, SharedSteps, CutOver, Outcome, Undone, Complete
  <2>m. running' => memory' = live'
    BY <2>1, Zenon
  <2> QED
    BY <1>1, <1>s, <2>1, <2>2, <2>3, <2>m, SharedOutcome
<1>6. CASE StartBroker
  <2>1. /\ pc = "start" /\ Then("health") /\ running' /\ memory' = live /\ live = Goal
        /\ UNCHANGED <<live, checkpoints>>
    BY <1>6 DEF StartBroker, diskVars, Outcome, Broker, Content, IInv, Whole
  <2>2. Extends(live, Goal)
    BY <2>1, Known, ExtendsItself
  <2>3. Goto("health") => Broker' /\ Content'
    BY <1>1, <1>g, <2>1, <2>2, NoStepAssumption
     DEF Steps, MigrateSteps, RollbackSteps, SharedSteps, CutOver, Goto, Broker, Content, Extends
  <2>4. started = "migration" /\ script = "rollback" => ~Made(target, live')
    BY <2>1, NoStepAssumption
     DEF Steps, MigrateSteps, RollbackSteps, SharedSteps, CutOver, Outcome, Undone
  <2>m. running' => memory' = live'
    BY <2>1, Zenon
  <2> QED
    BY <1>1, <1>s, <2>1, <2>3, <2>4, <2>m, SharedOutcome
<1>7. CASE Health
  <2>1. /\ pc = "health" /\ Then("verify") /\ running /\ Extends(live, Goal)
        /\ UNCHANGED <<live, running, memory, checkpoints>>
    BY <1>7 DEF Health, brokerVars, diskVars, Outcome, Broker, Content
  <2>2. Goto("verify") => Broker' /\ Content'
    BY <1>1, <1>g, <2>1, NoStepAssumption
     DEF Steps, MigrateSteps, RollbackSteps, SharedSteps, CutOver, Goto, Broker, Content, Extends
  <2>3. started = "migration" /\ script = "rollback" => ~Made(target, live')
    BY <2>1, NoStepAssumption
     DEF Steps, MigrateSteps, RollbackSteps, SharedSteps, CutOver, Outcome, Undone
  <2>m. running' => memory' = live'
    BY <1>1, <1>s, <2>1, Zenon
  <2> QED
    BY <1>1, <1>s, <2>1, <2>2, <2>3, <2>m, SharedOutcome
<1>8. CASE Verify
  <2>1. /\ pc = "verify" /\ running /\ Extends(live, Goal)
        /\ UNCHANGED <<live, running, memory, checkpoints>>
    BY <1>8 DEF Verify, brokerVars, diskVars, Outcome, Broker, Content
  <2>2. CASE Fault
    <3>1. restore => target \in Complete'
      BY <1>0, <2>1, Scene, SameCheckpoints
    <3> QED
      BY <1>1, <1>s, <2>1, <2>2, <3>1, FaultOutcome
  <2>3. CASE ~Fault
    <3>1. /\ script' = None /\ pc' = None /\ restore' = FALSE
          /\ exit' = IF script = "migrate" THEN "completed" ELSE "rolled_back"
          /\ UNCHANGED <<target, started, faults>>
      BY <1>8, <2>3 DEF Verify, Ends
    <3>2. Goal' = Goal
      BY <1>1, <1>s, <2>1, <3>1 DEF Goal
    <3>3. Course' /\ Broker' /\ Content'
      BY <1>1, <1>s, <2>1, <3>1, <3>2, NoStepAssumption
     DEF Steps, MigrateSteps, RollbackSteps, SharedSteps, CutOver, Course, Broker, Content, Extends
    <3>4. script = "rollback" /\ started = "migration" => ~Made(target, live)
      BY <2>1, NoStepAssumption
     DEF Steps, MigrateSteps, RollbackSteps, SharedSteps, CutOver, Outcome, Undone
    <3>5. OneFaultIsHarmless'
      BY <1>1, <1>s, <2>1, <3>1, <3>4 DEF OneFaultIsHarmless, Made
    <3>6. Undone'
      BY <1>1, <1>s, <2>1, <3>1, <3>5, NoStepAssumption
     DEF Steps, MigrateSteps, RollbackSteps, SharedSteps, CutOver, Undone
    <3> QED
      BY <3>3, <3>6 DEF Outcome
  <2> QED
    BY <2>2, <2>3
<1> QED
  BY <1>2, <1>3, <1>4, <1>5, <1>6, <1>7, <1>8 DEF Replace


LEMMA StartOutcome ==
    ASSUME IInv, Outcome, Start
    PROVE  Outcome'
<1> USE NoStepAssumption, NoValueAssumption
    DEF Steps, MigrateSteps, RollbackSteps, SharedSteps, CutOver
<1>0. /\ \A m \in DOMAIN checkpoints : checkpoints[m].checksum \in {None, checkpoints[m].original}
      /\ running => memory = live
  BY DEF Outcome, Broker, Content
<1>1. ASSUME NEW root \in Roots, StartMigration(root) PROVE Outcome'
  <2> DEFINE t == Len(checkpoints) + 1
             c == [root |-> root, state |-> None, original |-> live, checksum |-> None]
  <2>1. /\ script' = "migrate" /\ pc' = "copy_state" /\ target' = t /\ started' = "migration"
        /\ restore' = FALSE /\ faults' = 0 /\ exit' = None
        /\ running /\ UNCHANGED <<live, running, memory>>
        /\ checkpoints' = Append(checkpoints, c)
    BY <1>1 DEF StartMigration, StartRun, brokerVars
  <2>2. c.checksum = None /\ checkpoints \in Seq(Checkpoint) /\ c \in Checkpoint
    BY <1>1, Known DEF Checkpoint
  <2> HIDE DEF c
  <2>3. /\ DOMAIN checkpoints' = DOMAIN checkpoints \cup {t} /\ t \notin DOMAIN checkpoints
        /\ checkpoints'[t] = c
        /\ \A m \in DOMAIN checkpoints : checkpoints'[m] = checkpoints[m]
    BY <2>1, <2>2
  <2>4. ~Made(t, live)
    <3>1. t \in Ids
      <4>1. runs \in 0 .. MaxRuns /\ runs < MaxRuns /\ Len(checkpoints) <= runs
            /\ Len(checkpoints) \in Nat
        BY <1>1, <2>2 DEF IInv, TypeOK, StartMigration, StartRun
      <4> QED
        BY <4>1, BoundsAssumption DEF Ids
    <3> QED
      BY <2>3, <3>1, Known DEF Clean, Complete
  <2>5. \A m \in DOMAIN checkpoints' :
            checkpoints'[m].checksum \in {None, checkpoints'[m].original}
    BY <1>0, <2>2, <2>3
  <2> HIDE DEF t
  <2>6. Course' /\ Broker' /\ Content'
    BY <1>0, <2>1, <2>3, <2>5 DEF Course, Broker, Content
  <2>7. Undone'
    BY <2>1, <2>3, <2>4 DEF Undone, OneFaultIsHarmless, Made
  <2> QED
    BY <2>6, <2>7 DEF Outcome
<1>2. ASSUME NEW what \in {"rollback", "default_rollback"}, NEW m,
             StartRun(what, "rollback", "check", m), UNCHANGED checkpoints
      PROVE  Outcome'
  <2>1. /\ script' = "rollback" /\ pc' = "check" /\ started' # "migration"
        /\ restore' = FALSE /\ exit' = None
        /\ UNCHANGED <<live, running, memory, checkpoints>>
    BY <1>2 DEF StartRun, brokerVars
  <2>2. running' => memory' = live'
    BY <1>0, <2>1, Zenon
  <2>3. Course' /\ Broker' /\ Content'
    BY <1>0, <2>1, <2>2 DEF Course, Broker, Content
  <2> QED
    BY <2>1, <2>3 DEF Outcome, Undone
<1>3. ASSUME NEW m \in DOMAIN checkpoints, StartRollback(m) PROVE Outcome'
  BY <1>2, <1>3 DEF StartRollback
<1>4. CASE StartDefaultRollback
  BY <1>2, <1>4 DEF StartDefaultRollback
<1> QED
  BY <1>1, <1>3, <1>4 DEF Start

(* Damage to a checkpoint is seen, and never hides what was original.        *)
LEMMA CorruptOutcome ==
    ASSUME IInv, Outcome, Corrupt
    PROVE  Outcome'
<1>1. PICK m \in DOMAIN checkpoints :
          /\ checkpoints[m].checksum # None
          /\ checkpoints' = [checkpoints EXCEPT ![m].state = Torn]
  BY DEF Corrupt
<1> DEFINE c == [checkpoints[m] EXCEPT !.state = Torn]
<1>2. /\ c \in Checkpoint /\ c.state = Torn /\ c.original = checkpoints[m].original
      /\ c.checksum = checkpoints[m].checksum
  BY Known DEF Checkpoint, Files
<1>3. checkpoints' = [checkpoints EXCEPT ![m] = c]
  BY <1>1
<1> HIDE DEF c
<1>4. /\ DOMAIN checkpoints' = DOMAIN checkpoints
      /\ checkpoints'[m].state = Torn
      /\ \A k \in DOMAIN checkpoints \ {m} : checkpoints'[k] = checkpoints[k]
      /\ \A k \in DOMAIN checkpoints : /\ checkpoints'[k].checksum = checkpoints[k].checksum
                                       /\ checkpoints'[k].original = checkpoints[k].original
  BY <1>2, <1>3, Known, Rewrite
<1>5. pc # "copy" /\ UNCHANGED <<live, running, memory, script, pc, target, started, restore,
                                 work, exit, faults>>
  BY DEF Corrupt, brokerVars, scriptVars
<1>6. Complete' = Complete
  BY <1>4 DEF Complete, Made
<1>7. checkpoints[m].checksum \notin {None, Torn}
  BY <1>1 DEF IInv, Whole
<1> USE NoStepAssumption, NoValueAssumption
    DEF Steps, MigrateSteps, RollbackSteps, SharedSteps, CutOver
<1>8. Course'
  BY <1>4, <1>5 DEF Outcome, Course
<1>9. Broker'
  BY <1>5 DEF Outcome, Broker
<1>10. Goal' = Goal \/ target \notin DOMAIN checkpoints
  BY <1>4, <1>5 DEF Goal
<1>11. pc \in SharedSteps \/ exit \in {"completed", "rolled_back"} => Goal' = Goal
  <2>1. CASE pc \in SharedSteps
    BY <1>5, <1>10, <2>1, Scene
  <2>2. CASE exit \in {"completed", "rolled_back"}
    BY <1>5, <1>10, <2>2 DEF Outcome, Course, Goal
  <2> QED
    BY <2>1, <2>2
<1>12. Content'
  BY <1>4, <1>5, <1>11 DEF Outcome, Content, Extends
<1>13. OneFaultIsHarmless' \/ started # "migration"
  <2>1. started = "migration" =>
            /\ target \in DOMAIN checkpoints
            /\ checkpoints'[target].checksum \in {None, checkpoints'[target].state} =>
                   checkpoints[target].checksum \in {None, checkpoints[target].state}
    <3>1. started = "migration" => target \in DOMAIN checkpoints
      BY DEF Outcome, Undone
    <3> QED
      BY <1>4, <1>7, <3>1
  <2> QED
    BY <1>5, <2>1 DEF Outcome, Undone, OneFaultIsHarmless, Made
<1>14. Undone'
  BY <1>4, <1>5, <1>6, <1>13 DEF Outcome, Undone, Made
<1> QED
  BY <1>8, <1>9, <1>12, <1>14 DEF Outcome

(* An edit comes on top of what was installed and is no migration's.         *)
LEMMA EditOutcome ==
    ASSUME IInv, Outcome, NEW e \in Edits, Edit(e)
    PROVE  Outcome'
<1>1. /\ running /\ memory' = Append(memory, <<"edit", e>>) /\ live' = memory'
      /\ UNCHANGED <<running, checkpoints, script, pc, target, started, restore, work, exit, faults>>
  BY DEF Edit, BrokerApplies, diskVars, scriptVars
<1>2. live' = Append(live, <<"edit", e>>)
  BY <1>1 DEF Outcome, Broker
<1>3. <<"edit", e>> \in Changes /\ \A m : <<"edit", e>> \notin {"deny", "remove", "migrate"} \X {m}
  BY DEF Changes
<1>4. Made(target, live') <=> Made(target, live)
  BY <1>2, <1>3, Known, MadeAppend
<1>5. Goal' = Goal
  BY <1>1 DEF Goal
<1> USE NoStepAssumption, NoValueAssumption
    DEF Steps, MigrateSteps, RollbackSteps, SharedSteps, CutOver
<1>6. Extends(live, Goal) /\ (pc \in SharedSteps \/ exit \in {"completed", "rolled_back"})
          => Extends(live', Goal)
  <2>1. pc \in SharedSteps \/ exit \in {"completed", "rolled_back"} => Len(Goal) \in Nat
    <3>1. Len(<<<<"migrate", target>>>>) \in Nat
      OBVIOUS
    <3>2. \A m \in DOMAIN checkpoints : Len(checkpoints[m].original) \in Nat
      BY Known DEF Checkpoint, Contents
    <3>3. pc \in SharedSteps \/ exit \in {"completed", "rolled_back"} =>
              \/ script = "migrate" \/ exit = "completed"
              \/ target \in DOMAIN checkpoints
      BY Scene DEF Outcome, Course
    <3> QED
      BY <3>1, <3>2, <3>3 DEF Goal
  <2> QED
    BY <1>2, <1>3, <2>1, Known, ExtendsAppend
<1>7. Course' /\ Broker'
  BY <1>1 DEF Outcome, Course, Broker
<1>8. Content'
  BY <1>1, <1>5, <1>6 DEF Outcome, Broker, Content, Extends
<1>9. Complete' = Complete
  BY <1>1, SameCheckpoints
<1>10. Undone'
  BY <1>1, <1>4, <1>9 DEF Outcome, Undone, OneFaultIsHarmless, Made
<1> QED
  BY <1>7, <1>8, <1>10 DEF Outcome

LEMMA NextOutcome ==
    ASSUME IInv, Outcome, [Next]_vars
    PROVE  Outcome'
<1> USE NoStepAssumption, NoValueAssumption
    DEF Steps, MigrateSteps, RollbackSteps, SharedSteps, CutOver
<1>1. CASE CommandFails
  <2>1. /\ Fault /\ script # None /\ pc # None
        /\ UNCHANGED <<live, running, memory, checkpoints>>
    BY <1>1 DEF CommandFails, brokerVars, diskVars, Outcome, Course
  <2>2. Complete' = Complete
    BY <2>1, SameCheckpoints
  <2>3. running' => memory' = live'
    BY <2>1, Zenon DEF Outcome, Broker
  <2> QED
    BY <2>1, <2>2, <2>3, Scene, FaultOutcome
<1>2. CASE Kill
  <2>1. /\ script' = None /\ pc' = None /\ exit' = "killed" /\ restore' = FALSE
        /\ UNCHANGED <<target, started, faults, live, running, memory, checkpoints>>
    BY <1>2 DEF Kill, Ends, brokerVars, diskVars
  <2>2. running' => memory' = live'
    BY <2>1, Zenon DEF Outcome, Broker
  <2>3. Course' /\ Broker' /\ Content'
    BY <2>1, <2>2 DEF Outcome, Course, Broker, Content
  <2>4. Undone'
    BY <2>1 DEF Outcome, Undone, OneFaultIsHarmless
  <2> QED
    BY <2>3, <2>4 DEF Outcome
<1>3. CASE UNCHANGED vars
  <2>1. UNCHANGED <<live, running, memory, checkpoints, script, pc, target, started, restore,
                    work, exit, faults>>
    BY <1>3 DEF vars, brokerVars, diskVars, scriptVars
  <2>2. Complete' = Complete
    BY <2>1, SameCheckpoints
  <2>3. Course' /\ Broker'
    BY <2>1 DEF Outcome, Course, Broker
  <2>4. Content'
    BY <2>1 DEF Outcome, Content, Goal, Extends
  <2>5. Undone'
    BY <2>1, <2>2 DEF Outcome, Undone, OneFaultIsHarmless, Made
  <2> QED
    BY <2>3, <2>4, <2>5 DEF Outcome
<1> QED
  BY <1>1, <1>2, <1>3, StartOutcome, MigrateOutcome, RollbackOutcome, ReplaceOutcome,
     CorruptOutcome, EditOutcome DEF Next

LEMMA OutcomeInductive == Spec => []Outcome
BY Inductive, InitOutcome, NextOutcome, PTL DEF Spec

-------------------------------------------------------------------------------
(* Exit status 0 of migrate-dynsec.sh: the broker runs on the candidate, with *)
(* nothing of its old memory, and only edits have come on top.                *)
THEOREM CompletedRunsOnCandidate == Spec => []CompletedRunsCandidate
<1>1. Outcome => CompletedRunsCandidate
  BY DEF Outcome, Broker, Content, Goal, CompletedRunsCandidate
<1> QED
  BY <1>1, OutcomeInductive, PTL

(* A rollback that reports success has put back the bytes its checkpoint was  *)
(* made from, whatever the disk did to the checkpoint.                        *)
THEOREM RollbackIsExact == Spec => []RolledBackIsExact
<1>1. Outcome => RolledBackIsExact
  BY NoValueAssumption DEF Outcome, Course, Broker, Content, Goal, RolledBackIsExact
<1> QED
  BY <1>1, OutcomeInductive, PTL

(* One failing command of migrate-dynsec.sh leaves no mess: the trap undoes   *)
(* what was done, or nothing had been.                                        *)
THEOREM OneFaultIsUndone == Spec => []OneFaultIsHarmless
<1>1. Outcome => OneFaultIsHarmless
  BY DEF Outcome, Undone, OneFaultIsHarmless
<1> QED
  BY <1>1, OutcomeInductive, PTL

===============================================================================
