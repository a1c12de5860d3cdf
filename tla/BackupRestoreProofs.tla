-------------------------- MODULE BackupRestoreProofs --------------------------
(***************************************************************************)
(* Proofs about BackupRestore: for any number of scripts and edits, what   *)
(* the marker and the safety archive promise, and what a restore that says *)
(* it is complete has done.                                                *)
(***************************************************************************)
EXTENDS BackupRestore, TLAPS

-------------------------------------------------------------------------------
(* The invariant. *)

Laying == {"lay_config", "lay_certs", "lay_passwords", "lay_acl", "lay_data", "check", "start"}

\* Which script is at which command.
Control ==
    /\ script = "none" <=> pc = "idle"
    /\ pc \in RestoreSteps => script = "restore"
    /\ script = "restore" => source \in 1 .. Len(archives)
    /\ script = "restore" /\ pc \notin {"stop"} \cup Laying => safety = 0

Undecided == script = "restore" => outcome = "none"

\* The broker has a state on disk from the start, and it is never removed.
StateThere == live["data"] # None

\* The archive that is being written is the last one.
WrittenLast ==
    /\ pc \in {"packing", "mark"} => archives # <<>>
    /\ pc = "mark" => archives[Len(archives)].whole

Same(group, files) == \A f \in group : files[f] = before[f]

\* What the safety backup has copied, as long as nothing has been laid.
SafetyStarted ==
    script = "restore" =>
        /\ pc \in {"validate", "confirm", "stop"} \cup BackupSteps => Same(Files \ {"data"}, live)
        /\ pc = "copy_certs" => Same(ConfigFiles, stage)
        /\ pc = "copy_security" => Same(ConfigFiles \cup {"certs"}, stage)
        /\ pc \in {"copy_data", "pack"} => Same(Files \ {"data"}, stage)
        /\ pc \in {"packing", "mark"} => Same(Files \ {"data"}, archives[Len(archives)].files)

\* What the restore has done to the broker: nobody else stops or starts it.
Served ==
    script = "restore" =>
        /\ pc \notin Laying => running = up /\ passedOver = {}
        /\ pc \in Laying => (running <=> "stop" \in passedOver)

\* A running broker may overwrite the data.
Owed(f) == Archive[f] # None /\ f \notin passedOver /\ (f = "data" => "stop" \notin passedOver)

Restored(group) == \A f \in group : Owed(f) => live[f] = Archive[f]

\* What it has laid and not passed over.
Laid ==
    script = "restore" =>
        /\ pc \in Laying \ {"lay_config"} => Restored(ConfigFiles)
        /\ pc \in Laying \ {"lay_config", "lay_certs"} => Restored({"certs"})
        /\ pc \in {"lay_acl", "lay_data", "check", "start"} => Restored({"passwords"})
        /\ pc \in {"lay_data", "check", "start"} => Restored({"acl"})
        /\ pc \in {"check", "start"} => Restored({"data"})

IInv ==
    /\ TypeOK
    /\ Control /\ Undecided /\ StateThere
    /\ WrittenLast
    /\ MarkedArchiveIsWhole
    /\ SafetyArchiveHoldsWhatWas
    /\ SafetyStarted
    /\ Served
    /\ Laid

-------------------------------------------------------------------------------
(* The archives under a step: they are only added to, and become whole. *)

Kept ==
    /\ Len(archives) <= Len(archives') /\ archives' \in Seq([files : FileSets, whole : BOOLEAN])
    /\ \A a \in 1 .. Len(archives) :
           /\ archives'[a].files = archives[a].files
           /\ archives[a].whole => archives'[a].whole

LEMMA Element ==
    ASSUME NEW S, NEW s \in Seq(S), NEW i \in 1 .. Len(s)
    PROVE  s[i] \in S
OBVIOUS

LEMMA Replaced ==
    ASSUME NEW S, NEW s \in Seq(S), NEW i \in 1 .. Len(s), NEW e \in S
    PROVE  LET t == [s EXCEPT ![i] = e]
           IN  /\ t \in Seq(S) /\ Len(t) = Len(s) /\ t[i] = e
               /\ \A j \in 1 .. Len(s) : j # i => t[j] = s[j]
OBVIOUS

LEMMA PackStep ==
    ASSUME TypeOK, Pack
    PROVE  /\ Kept /\ Len(archives') = Len(archives) + 1
           /\ archives'[Len(archives')].files = stage
<1> DEFINE entry == [files |-> stage, whole |-> FALSE]
<1>1. entry \in [files : FileSets, whole : BOOLEAN] /\ entry.files = stage
  BY DEF TypeOK
<1>2. archives \in Seq([files : FileSets, whole : BOOLEAN]) /\ archives' = Append(archives, entry)
  BY DEF TypeOK, Pack
<1> HIDE DEF entry
<1>3. /\ archives' \in Seq([files : FileSets, whole : BOOLEAN])
      /\ Len(archives') = Len(archives) + 1 /\ Len(archives) \in Nat
      /\ archives'[Len(archives) + 1] = entry
      /\ \A a \in 1 .. Len(archives) : archives'[a] = archives[a]
  BY <1>1, <1>2
<1> QED
  BY <1>1, <1>3 DEF Kept

LEMMA PackedStep ==
    ASSUME TypeOK, WrittenLast, Packed
    PROVE  /\ Kept /\ Len(archives') = Len(archives) /\ archives # <<>>
           /\ archives'[Len(archives')].whole
<1> DEFINE Entry == [files : FileSets, whole : BOOLEAN]
           last == archives[Len(archives)]
<1>1. archives \in Seq(Entry) /\ archives # <<>> /\ Len(archives) \in Nat
      /\ Len(archives) \in 1 .. Len(archives)
  BY DEF TypeOK, Packed, WrittenLast
<1>2. last \in Entry
  BY <1>1, Element
<1>3. [last EXCEPT !.whole = TRUE] \in Entry /\ [last EXCEPT !.whole = TRUE].files = last.files
      /\ [last EXCEPT !.whole = TRUE].whole
  BY <1>2
<1>4. archives' = [archives EXCEPT ![Len(archives)] = [last EXCEPT !.whole = TRUE]]
  BY DEF Packed
<1> DEFINE packed == [last EXCEPT !.whole = TRUE]
<1> HIDE DEF packed, Entry
<1>5. /\ archives' \in Seq(Entry) /\ Len(archives') = Len(archives)
      /\ archives'[Len(archives)] = packed
      /\ \A a \in 1 .. Len(archives) : a # Len(archives) => archives'[a] = archives[a]
  <2>1. archives' = [archives EXCEPT ![Len(archives)] = packed] /\ packed \in Entry
    BY <1>3, <1>4 DEF packed
  <2> QED
    BY <1>1, <2>1, Replaced
<1>6. packed.files = last.files /\ packed.whole
  BY <1>3 DEF packed
<1>7. \A a \in 1 .. Len(archives) : /\ archives'[a].files = archives[a].files
                                    /\ archives[a].whole => archives'[a].whole
  BY <1>5, <1>6
<1> QED
  BY <1>1, <1>5, <1>6, <1>7 DEF Kept, Entry

LEMMA SameArchives ==
    ASSUME TypeOK, UNCHANGED archives
    PROVE  Kept
BY DEF Kept, TypeOK

-------------------------------------------------------------------------------
(* What a step that touches neither the marker nor the safety archive keeps. *)

LEMMA PromisesKept ==
    ASSUME TypeOK, MarkedArchiveIsWhole, SafetyArchiveHoldsWhatWas, Kept, UNCHANGED marker,
           \/ UNCHANGED <<safety, before>>
           \/ safety' = 0
    PROVE  MarkedArchiveIsWhole' /\ SafetyArchiveHoldsWhatWas'
<1>1. marker # 0 => marker \in 1 .. Len(archives)
  BY DEF TypeOK
<1>2. safety # 0 => safety \in 1 .. Len(archives)
  BY DEF TypeOK
<1>3. MarkedArchiveIsWhole'
  BY <1>1 DEF MarkedArchiveIsWhole, Kept
<1>4. SafetyArchiveHoldsWhatWas'
  BY <1>2 DEF SafetyArchiveHoldsWhatWas, Kept
<1> QED
  BY <1>3, <1>4

LEMMA ArchiveTyped ==
    ASSUME TypeOK, Control, script = "restore"
    PROVE  Archive \in FileSets
<1>1. source \in 1 .. Len(archives) /\ archives \in Seq([files : FileSets, whole : BOOLEAN])
  BY DEF TypeOK, Control
<1>2. archives[source] \in [files : FileSets, whole : BOOLEAN]
  BY <1>1, Element
<1> QED
  BY <1>2 DEF Archive

(* While an archive is laid over the live files, their types are kept.       *)
LEMMA OverlayTyped ==
    ASSUME TypeOK, Control, script = "restore", NEW group \in SUBSET Files,
           live' = Overlay(group) \/ Tears(group)
    PROVE  live' \in FileSets
BY ArchiveTyped DEF TypeOK, FileSets, Overlay, Tears

-------------------------------------------------------------------------------
(* Types. *)

LEMMA NextTyped ==
    ASSUME IInv, [Next]_vars
    PROVE  TypeOK'
<1> USE DEF BackupSteps, RestoreSteps
<1>1. TypeOK /\ Control /\ WrittenLast
  BY DEF IInv
<1>2. CASE Environment
  <2>1. edits' = edits + 1 /\ edits' \in 0 .. MaxEdits /\ edits' \in Versions
    BY <1>1, <1>2, BoundsAssumption DEF Environment, TypeOK, Versions
  <2>2. \A group : Written(group) \in FileSets
    BY <1>1, <1>2, <2>1 DEF Environment, TypeOK, Written, FileSets
  <2>3. live' \in FileSets /\ key' \in Versions /\ memory' \in Versions
    BY <1>1, <1>2, <2>1, <2>2 DEF Environment, Edit, RotateCertificate, EditState, TypeOK
  <2> QED
    BY <1>1, <1>2, <2>1, <2>3 DEF Environment, TypeOK, storeVars, restoreVars, historyVars
<1>3. CASE BeginBackup
  <2>1. scripts' \in 0 .. MaxScripts
    BY <1>1, <1>3, BoundsAssumption DEF BeginBackup, TypeOK
  <2> QED
    BY <1>1, <1>3, <2>1 DEF BeginBackup, TypeOK, brokerVars, storeVars, restoreVars, historyVars
<1>4. ASSUME NEW a \in DOMAIN archives, BeginRestore(a) PROVE TypeOK'
  <2>1. scripts' \in 0 .. MaxScripts
    BY <1>1, <1>4, BoundsAssumption DEF BeginRestore, TypeOK
  <2>2. a \in 0 .. Len(archives) /\ 0 \in 0 .. Len(archives)
    BY <1>1 DEF TypeOK
  <2> QED
    BY <1>1, <1>4, <2>1, <2>2 DEF BeginRestore, TypeOK, brokerVars, storeVars
<1>5. ASSUME NEW group \in SUBSET Files, NEW step, NEW next \in BackupSteps,
             CopyGroup(group, step, next)
      PROVE  TypeOK'
  <2>1. stage' \in FileSets
    BY <1>1, <1>5 DEF CopyGroup, Copy, TypeOK, FileSets
  <2> QED
    BY <1>1, <1>5, <2>1
       DEF CopyGroup, Goto, TypeOK, brokerVars, storeVars, restoreVars, historyVars
<1>6. CASE CopyData
  <2>1. stage' \in FileSets
    BY <1>1, <1>6 DEF CopyData, Copy, TypeOK, FileSets
  <2> QED
    BY <1>1, <1>6, <2>1
       DEF CopyData, Goto, TypeOK, brokerVars, storeVars, restoreVars, historyVars
<1>7. Nothing \in FileSets
  BY DEF Nothing, FileSets
<1>8. CASE Pack
  <2>1. Kept /\ archives' \in Seq([files : FileSets, whole : BOOLEAN])
        /\ {marker, source, safety} \subseteq 0 .. Len(archives')
    BY <1>1, <1>8, PackStep DEF Kept, TypeOK
  <2> QED
    BY <1>1, <1>7, <1>8, <2>1 DEF Pack, Goto, TypeOK, brokerVars, restoreVars, historyVars
<1>9. CASE Packed
  <2>1. archives' \in Seq([files : FileSets, whole : BOOLEAN])
        /\ {marker, source, safety} \subseteq 0 .. Len(archives')
    BY <1>1, <1>9, PackedStep DEF Kept, TypeOK
  <2> QED
    BY <1>1, <1>9, <2>1 DEF Packed, Goto, TypeOK, brokerVars, restoreVars, historyVars
<1>10. CASE Mark
  <2>1. Len(archives) \in 0 .. Len(archives) /\ 0 \in 0 .. Len(archives)
    BY <1>1 DEF TypeOK
  <2> QED
    BY <1>1, <1>10, <2>1 DEF Mark, BackupEnds, TypeOK, brokerVars, historyVars
<1>11. CASE BackupFails
  <2>1. 0 \in 0 .. Len(archives)
    BY <1>1 DEF TypeOK
  <2> QED
    BY <1>1, <1>7, <1>11, <2>1 DEF BackupFails, BackupEnds, TypeOK, brokerVars, storeVars, historyVars
<1>12. CASE Validate \/ Confirm \/ Check
  BY <1>1, <1>12
     DEF Validate, Confirm, Check, Goto, Ends, TypeOK, brokerVars, storeVars, restoreVars,
         historyVars
<1>13. CASE Stop
  BY <1>1, <1>13 DEF Stop, Skips, Goto, TypeOK, storeVars, historyVars
<1>14. CASE LayConfig \/ LayCerts \/ LayPasswords \/ LayAcl \/ LayData
  <2>1. live' \in FileSets
    <3>1. script = "restore"
      BY <1>1, <1>14 DEF LayConfig, LayCerts, LayPasswords, LayAcl, LayData, Control
    <3>2. live' = live \/ \E group \in SUBSET Files : live' = Overlay(group) \/ Tears(group)
      BY <1>14 DEF LayConfig, LayCerts, LayPasswords, LayAcl, LayData, ConfigFiles, SecurityFiles, Files
    <3> QED
      BY <1>1, <3>1, <3>2, OverlayTyped DEF TypeOK
  <2>2. /\ pc' \in BackupSteps \cup RestoreSteps \cup {"idle"}
        /\ script' \in {"none", "backup", "restore"}
        /\ passedOver' \subseteq {"stop", "certs", "passwords", "data", "start"}
        /\ outcome' \in {"none", "complete", "refused", "aborted", "failed", "killed"}
    BY <1>1, <1>14 DEF LayConfig, LayCerts, LayPasswords, LayAcl, LayData, Skips, Goto, Ends, TypeOK,
                     restoreVars
  <2> QED
    BY <1>1, <1>14, <2>1, <2>2
       DEF LayConfig, LayCerts, LayPasswords, LayAcl, LayData, TypeOK, brokerVars, storeVars, restoreVars,
           historyVars
<1>15. CASE Start
  <2>1. running' \in BOOLEAN /\ memory' \in Versions
    <3>1. Loadable(live) => live["data"] \in Versions
      BY <1>1 DEF IInv, StateThere, Loadable, TypeOK, FileSets, Files
    <3>2. \/ Loadable(live) /\ running' = TRUE /\ memory' = live["data"]
          \/ UNCHANGED <<running, memory>>
      BY <1>15, Zenon DEF Start, brokerVars
    <3> QED
      BY <1>1, <3>1, <3>2 DEF TypeOK
  <2> QED
    BY <1>1, <1>15, <2>1 DEF Start, Skips, Ends, TypeOK, storeVars, restoreVars, historyVars
<1>16. CASE Kill
  BY <1>1, <1>7, <1>16 DEF Kill, TypeOK, brokerVars, storeVars, restoreVars, historyVars
<1>17. CASE UNCHANGED vars
  BY <1>1, <1>17 DEF vars, TypeOK, brokerVars, storeVars, restoreVars, historyVars
<1> QED
  BY <1>2, <1>3, <1>4, <1>5, <1>6, <1>8, <1>9, <1>10, <1>11, <1>12, <1>13, <1>14, <1>15, <1>16,
     <1>17 DEF Next, Backup, Restore, ConfigFiles, SecurityFiles, Files

-------------------------------------------------------------------------------
(* Steps. *)

LEMMA NextUndecided ==
    ASSUME IInv, [Next]_vars
    PROVE  Undecided'
<1> USE DEF Undecided
<1>1. Undecided
  BY DEF IInv
<1>2. CASE Environment \/ BeginBackup \/ Backup \/ Kill \/ UNCHANGED vars
  BY <1>1, <1>2
     DEF Environment, BeginBackup, Backup, CopyGroup, CopyData, Pack, Packed, Mark, BackupFails,
         BackupEnds, Goto, Kill, vars
<1>3. CASE \E a \in DOMAIN archives : BeginRestore(a)
  BY <1>1, <1>3 DEF BeginRestore
<1>4. CASE Restore
  BY <1>1, <1>4
     DEF Restore, Validate, Confirm, Stop, LayConfig, LayCerts, LayPasswords, LayAcl, LayData, Check,
         Start, Goto, Ends
<1> QED
  BY <1>2, <1>3, <1>4 DEF Next

LEMMA NextInvariant ==
    ASSUME IInv, [Next]_vars
    PROVE  IInv'
<1> USE DEF BackupSteps, RestoreSteps, Laying
<1>1. TypeOK' /\ Undecided' /\ TypeOK /\ Control /\ StateThere /\ WrittenLast
      /\ MarkedArchiveIsWhole /\ SafetyArchiveHoldsWhatWas
  BY NextTyped, NextUndecided DEF IInv
<1>2. ASSUME UNCHANGED archives, pc' \notin {"packing", "mark"} \/ pc' = pc PROVE WrittenLast'
  BY <1>1, <1>2 DEF WrittenLast
<1>3. CASE Environment
  <2>1. UNCHANGED <<running, archives, marker, script, pc, stage, source, safety,
                    passedOver, before, up>>
    BY <1>3 DEF Environment, storeVars, restoreVars, historyVars
  <2>2. /\ pc # "idle" => running /\ \A f \in Files \ {"data"} : live'[f] = live[f]
        /\ live'["data"] # None
    <3>1. edits + 1 \in Nat
      BY <1>1, BoundsAssumption DEF TypeOK
    <3>2. edits + 1 # None
      BY <3>1, FilesAssumption
    <3> QED
      BY <1>1, <1>3, <3>2
         DEF Environment, Edit, RotateCertificate, EditState, Written, StateThere, Files
  <2>3. Control' /\ StateThere' /\ WrittenLast' /\ Served'
    BY <1>1, <2>1, <2>2 DEF IInv, Control, StateThere, WrittenLast, Served
  <2>4. MarkedArchiveIsWhole' /\ SafetyArchiveHoldsWhatWas'
    BY <1>1, <2>1, SameArchives, PromisesKept
  <2>5. SafetyStarted'
    BY <1>1, <2>1, <2>2 DEF IInv, SafetyStarted, Same, Control
  <2>6. Laid'
    <3> SUFFICES ASSUME script = "restore", pc \in Laying PROVE Laid'
      BY <2>1 DEF Laid
    <3>1. "stop" \in passedOver
      BY <2>2 DEF IInv, Served
    <3>2. \A f \in Files : Owed(f) => live'[f] = live[f]
      BY <2>2, <3>1 DEF Owed
    <3>3. \A f : Owed(f)' <=> Owed(f)
      BY <2>1 DEF Owed, Archive
    <3>4. Archive' = Archive
      BY <2>1 DEF Archive
    <3>5. ASSUME NEW group \in SUBSET Files, Restored(group) PROVE Restored(group)'
      BY <3>2, <3>3, <3>4, <3>5 DEF Restored
    <3> QED
      BY <2>1, <3>5 DEF IInv, Laid, Files, ConfigFiles, SecurityFiles
  <2> QED
    BY <1>1, <2>3, <2>4, <2>5, <2>6 DEF IInv
<1>4. CASE BeginBackup
  <2>1. UNCHANGED <<running, live, archives, marker, stage, source, safety,
                    before, up>> /\ script' = "backup" /\ pc' = "copy_config"
    BY <1>4 DEF BeginBackup, storeVars, restoreVars, historyVars, brokerVars
  <2>2. MarkedArchiveIsWhole' /\ SafetyArchiveHoldsWhatWas'
    BY <1>1, <2>1, SameArchives, PromisesKept
  <2> QED
    BY <1>1, <2>1, <2>2
       DEF IInv, Control, StateThere, WrittenLast, SafetyStarted, Served, Laid
<1>5. ASSUME NEW a \in DOMAIN archives, BeginRestore(a) PROVE IInv'
  <2>1. /\ UNCHANGED <<running, live, archives, marker, stage>>
        /\ script' = "restore" /\ pc' = "validate" /\ source' = a /\ safety' = 0 /\ passedOver' = {}
        /\ before' = live /\ up' = running /\ a \in 1 .. Len(archives)
    BY <1>1, <1>5 DEF BeginRestore, storeVars, brokerVars, TypeOK
  <2>2. MarkedArchiveIsWhole' /\ SafetyArchiveHoldsWhatWas'
    BY <1>1, <2>1, SameArchives, PromisesKept
  <2> QED
    BY <1>1, <2>1, <2>2
       DEF IInv, Control, StateThere, WrittenLast, SafetyStarted, Same, Served, Laid
<1>6. ASSUME CopyGroup(ConfigFiles, "copy_config", "copy_certs")
             \/ CopyGroup({"certs"}, "copy_certs", "copy_security")
             \/ CopyGroup(SecurityFiles, "copy_security", "copy_data")
             \/ CopyData
      PROVE  IInv'
  <2>1. /\ UNCHANGED <<running, live, archives, marker, script, source, safety,
                       passedOver, before, up>>
        /\ \/ pc = "copy_config" /\ pc' = "copy_certs" /\ Copy(ConfigFiles)
           \/ pc = "copy_certs" /\ pc' = "copy_security" /\ Copy({"certs"})
           \/ pc = "copy_security" /\ pc' = "copy_data" /\ Copy(SecurityFiles)
           \/ pc = "copy_data" /\ pc' = "pack" /\ \A f \in Files \ {"data"} : stage'[f] = stage[f]
    BY <1>1, <1>6 DEF CopyGroup, CopyData, Copy, Goto, storeVars, restoreVars, historyVars,
                 brokerVars, TypeOK, FileSets
  <2>2. MarkedArchiveIsWhole' /\ SafetyArchiveHoldsWhatWas'
    BY <1>1, <2>1, SameArchives, PromisesKept
  <2>3. SafetyStarted'
    BY <1>1, <2>1 DEF IInv, SafetyStarted, Same, Copy, Files, ConfigFiles, SecurityFiles
  <2> QED
    BY <1>1, <2>1, <2>2, <2>3 DEF IInv, Control, StateThere, WrittenLast, Served, Laid
<1>7. CASE Pack \/ Packed
  <2>1. UNCHANGED <<running, live, marker, script, source, safety, passedOver, before, up>>
    BY <1>7 DEF Pack, Packed, Goto, restoreVars, historyVars, brokerVars
  <2>2. Kept /\ archives' # <<>> /\ Len(archives') \in 1 .. Len(archives')
    BY <1>1, <1>7, PackStep, PackedStep DEF Kept, TypeOK
  <2>3. MarkedArchiveIsWhole' /\ SafetyArchiveHoldsWhatWas'
    BY <1>1, <2>1, <2>2, PromisesKept
  <2>4. WrittenLast'
    BY <1>1, <1>7, <2>2, PackedStep DEF Pack, Packed, Goto, WrittenLast
  <2>5. Control' /\ Served' /\ Laid' /\ StateThere'
    <3>1. /\ pc \in {"pack", "packing"} /\ pc' \in {"packing", "mark"}
          /\ Len(archives) <= Len(archives') /\ Len(archives) \in Nat /\ Len(archives') \in Nat
      BY <1>1, <1>7, <2>2 DEF Pack, Packed, Goto, Kept, TypeOK
    <3> QED
      BY <1>1, <2>1, <3>1 DEF IInv, Control, Served, Laid, StateThere
  <2>6. SafetyStarted'
    <3>1. CASE Pack
      BY <1>1, <2>1, <3>1, PackStep DEF Pack, Goto, IInv, SafetyStarted, Same
    <3>2. CASE Packed
      <4>1. archives'[Len(archives')].files = archives[Len(archives)].files
        BY <1>1, <3>2, <2>2, PackedStep DEF Kept
      <4> QED
        BY <1>1, <2>1, <3>2, <4>1 DEF Packed, Goto, IInv, SafetyStarted, Same
    <3> QED
      BY <1>7, <3>1, <3>2
  <2> QED
    BY <1>1, <2>3, <2>4, <2>5, <2>6 DEF IInv
<1>8. CASE Mark
  <2>1. /\ UNCHANGED <<running, live, archives, source, passedOver, before, up>>
        /\ marker' = Len(archives) /\ pc = "mark"
        /\ \/ script = "restore" /\ script' = script /\ pc' = "stop" /\ safety' = Len(archives)
           \/ script # "restore" /\ script' = "none" /\ pc' = "idle" /\ safety' = safety
    BY <1>8 DEF Mark, BackupEnds, historyVars, brokerVars
  <2>2. MarkedArchiveIsWhole'
    BY <1>1, <2>1 DEF MarkedArchiveIsWhole, WrittenLast
  <2>3. SafetyArchiveHoldsWhatWas'
    BY <1>1, <2>1 DEF SafetyArchiveHoldsWhatWas, IInv, SafetyStarted, Same, WrittenLast
  <2> QED
    BY <1>1, <2>1, <2>2, <2>3
       DEF IInv, Control, StateThere, WrittenLast, SafetyStarted, Same, Served, Laid
<1>9. CASE BackupFails
  <2>1. /\ UNCHANGED <<running, live, archives, marker, source, passedOver, before, up>>
        /\ pc \in BackupSteps
        /\ \/ script = "restore" /\ script' = script /\ pc' = "stop" /\ safety' = 0
           \/ script # "restore" /\ script' = "none" /\ pc' = "idle" /\ safety' = safety
    BY <1>9 DEF BackupFails, BackupEnds, historyVars, brokerVars, storeVars
  <2>2. MarkedArchiveIsWhole' /\ SafetyArchiveHoldsWhatWas'
    BY <1>1, <2>1, SameArchives, PromisesKept
  <2> QED
    BY <1>1, <2>1, <2>2
       DEF IInv, Control, StateThere, WrittenLast, SafetyStarted, Same, Served, Laid

\* The steps of restore.sh that leave the archives and the marker.
<1>10. ASSUME UNCHANGED <<archives, marker, source, safety, before>>
       PROVE  MarkedArchiveIsWhole' /\ SafetyArchiveHoldsWhatWas'
  BY <1>1, <1>10, SameArchives, PromisesKept
<1>11. CASE Validate \/ Confirm \/ Check
  <2>1. /\ UNCHANGED <<running, live, archives, marker, stage, source, safety, passedOver,
                       before, up>>
        /\ \/ script' = "none" /\ pc' = "idle"
           \/ /\ script' = script
              /\ \/ pc = "validate" /\ pc' = "confirm"
                 \/ pc = "confirm" /\ pc' = "copy_config"
                 \/ pc = "check" /\ pc' = "start"
    BY <1>11 DEF Validate, Confirm, Check, Goto, Ends, storeVars, restoreVars, historyVars,
                 brokerVars
  <2> QED
    BY <1>1, <1>10, <2>1
       DEF IInv, Control, StateThere, WrittenLast, SafetyStarted, Same, Served, Laid, Restored,
           Owed, Archive
<1>12. CASE Stop
  <2>1. /\ UNCHANGED <<live, archives, marker, stage, script, source, safety, before, up>>
        /\ pc = "stop" /\ pc' = "lay_config"
        /\ \/ ~running' /\ passedOver' = passedOver
           \/ running' /\ "stop" \in passedOver'
    BY <1>1, <1>12 DEF Stop, Skips, Goto, storeVars, historyVars, TypeOK
  <2>2. Served'
    BY <1>1, <2>1 DEF IInv, Control, Served
  <2> QED
    BY <1>1, <1>10, <2>1, <2>2
       DEF IInv, Control, StateThere, WrittenLast, SafetyStarted, Same, Laid
<1>13. CASE LayConfig \/ LayCerts \/ LayPasswords \/ LayAcl \/ LayData
  <2>1. /\ UNCHANGED <<running, archives, marker, stage, source, safety, before, up>>
        /\ \/ script' = "none" /\ pc' = "idle"
           \/ /\ script' = script
              /\ \/ pc = "lay_config" /\ pc' = "lay_certs"
                 \/ pc = "lay_certs" /\ pc' = "lay_passwords"
                 \/ pc = "lay_passwords" /\ pc' = "lay_acl"
                 \/ pc = "lay_acl" /\ pc' = "lay_data"
                 \/ pc = "lay_data" /\ pc' = "check"
        /\ passedOver \subseteq passedOver' /\ ("stop" \in passedOver' => "stop" \in passedOver)
    BY <1>1, <1>13
       DEF LayConfig, LayCerts, LayPasswords, LayAcl, LayData, Skips, Goto, Ends, storeVars,
           restoreVars, historyVars, brokerVars, TypeOK
  <2>2. live' = live \/ \E group \in SUBSET Files : live' = Overlay(group) \/ Tears(group)
    BY <1>13 DEF LayConfig, LayCerts, LayPasswords, LayAcl, LayData, ConfigFiles, SecurityFiles, Files
  <2>3. StateThere'
    BY <1>1, <2>2, FilesAssumption DEF StateThere, Overlay, Tears, TypeOK, FileSets, Files
  <2> DEFINE Lays(group) ==
                 \A f \in Files :
                     /\ f \notin group => live'[f] = live[f]
                     /\ f \in group /\ f \notin passedOver' => live'[f] = Overlay(group)[f]
  <2>4. script' = "restore" =>
            \/ pc = "lay_config" /\ Lays(ConfigFiles)
            \/ pc = "lay_certs" /\ Lays({"certs"})
            \/ pc = "lay_passwords" /\ Lays({"passwords"})
            \/ pc = "lay_acl" /\ Lays({"acl"})
            \/ pc = "lay_data" /\ Lays({"data"})
    <3>1. \A group \in SUBSET Files : live' = Overlay(group) => Lays(group)
      BY DEF Overlay
    <3>2. \A f \in Files : Tears({f}) /\ f \in passedOver' => Lays({f})
      BY DEF Tears, Overlay
    <3>3. live' = live /\ "data" \in passedOver' => Lays({"data"})
      OBVIOUS
    <3>4. ConfigFiles \in SUBSET Files /\ {"certs", "passwords", "acl", "data"} \subseteq Files
      BY DEF Files, ConfigFiles, SecurityFiles
    <3> HIDE DEF Lays
    <3>5. CASE LayConfig
      BY <3>1, <3>4, <3>5 DEF LayConfig, Ends
    <3>6. CASE LayCerts
      BY <3>1, <3>2, <3>4, <3>6 DEF LayCerts, Skips
    <3>7. CASE LayPasswords
      BY <3>1, <3>2, <3>4, <3>7 DEF LayPasswords, Skips, Ends
    <3>8. CASE LayAcl
      BY <3>1, <3>4, <3>8 DEF LayAcl, Ends
    <3>9. CASE LayData
      BY <3>1, <3>3, <3>4, <3>9 DEF LayData, Skips, Ends
    <3> QED
      BY <1>13, <3>5, <3>6, <3>7, <3>8, <3>9
  <2>5. Laid'
    <3>1. Archive' = Archive
      BY <2>1 DEF Archive
    <3>2. ASSUME NEW g \in SUBSET Files, NEW h \in SUBSET Files, Lays(g)
          PROVE  Restored(g)' /\ (Restored(h) => Restored(h)')
      BY <2>1, <3>1, <3>2 DEF Overlay, Restored, Owed
    <3> HIDE DEF Lays
    <3> QED
      BY <1>1, <2>1, <2>4, <3>2 DEF IInv, Laid, ConfigFiles, SecurityFiles, Files
  <2> QED
    BY <1>1, <1>10, <2>1, <2>3, <2>5
       DEF IInv, Control, WrittenLast, SafetyStarted, Served
<1>14. CASE Start \/ Kill
  <2>1. /\ UNCHANGED <<live, archives, marker, source, safety, before>>
        /\ script' = "none" /\ pc' = "idle"
    BY <1>14 DEF Start, Kill, Ends, storeVars, restoreVars, historyVars, brokerVars
  <2> QED
    BY <1>1, <1>10, <2>1
       DEF IInv, Control, StateThere, WrittenLast, SafetyStarted, Served, Laid
<1>15. CASE UNCHANGED vars
  <2>1. UNCHANGED <<running, live, archives, marker, script, pc, stage, source, safety,
                    passedOver, before, up>>
    BY <1>15 DEF vars, storeVars, restoreVars, historyVars, brokerVars
  <2> QED
    BY <1>1, <1>10, <2>1
       DEF IInv, Control, StateThere, WrittenLast, SafetyStarted, Same, Served, Laid, Restored,
           Owed, Archive
<1> QED
  BY <1>3, <1>4, <1>5, <1>6, <1>7, <1>8, <1>9, <1>11, <1>12, <1>13, <1>14, <1>15
     DEF Next, Backup, Restore

-------------------------------------------------------------------------------
(* What follows. *)

LEMMA InitInvariant ==
    ASSUME Init
    PROVE  IInv
<1>1. TypeOK
  <2>1. live \in FileSets /\ Nothing \in FileSets /\ 0 \in Versions
    BY BoundsAssumption DEF Init, FileSets, Versions, Nothing
  <2>2. /\ archives \in Seq([files : FileSets, whole : BOOLEAN])
        /\ {marker, source, safety} \subseteq 0 .. Len(archives)
    <3>1. live \in FileSets /\ [files |-> live, whole |-> TRUE] \in [files : FileSets, whole : BOOLEAN]
      BY <2>1
    <3>2. CASE archives = <<>>
      BY <3>2 DEF Init
    <3>3. CASE archives = <<[files |-> live, whole |-> TRUE]>>
      BY <3>1, <3>3 DEF Init
    <3> QED
      BY <3>2, <3>3 DEF Init
  <2>3. 0 \in 0 .. MaxScripts /\ 0 \in 0 .. MaxEdits /\ 0 \in 0 .. 0
    BY BoundsAssumption
  <2> QED
    BY <2>1, <2>2, <2>3 DEF Init, TypeOK
<1>2. StateThere
  BY FilesAssumption DEF Init, StateThere, Files
<1> QED
  BY <1>1, <1>2
     DEF Init, IInv, Control, Undecided, WrittenLast, MarkedArchiveIsWhole, SafetyArchiveHoldsWhatWas,
         SafetyStarted, Served, Laid, RestoreSteps

LEMMA Invariant == Spec => []IInv
<1>1. IInv /\ [Next]_vars => IInv'
  BY NextInvariant
<1> QED
  BY <1>1, InitInvariant, PTL DEF Spec

(* Every variable keeps its type.                                            *)
THEOREM TypeCorrect == Spec => []TypeOK
<1>1. IInv => TypeOK
  BY DEF IInv
<1> QED
  BY <1>1, Invariant, PTL

(* The archive that last-backup names is complete (backup.sh 93-97).         *)
THEOREM MarkerNamesAWholeArchive == Spec => []MarkedArchiveIsWhole
<1>1. IInv => MarkedArchiveIsWhole
  BY DEF IInv
<1> QED
  BY <1>1, Invariant, PTL

(* The safety archive of a restore holds the files as they were before it    *)
(* (restore.sh 54-56), for as long as it is spoken of.                       *)
THEOREM SafetyArchiveIsExact == Spec => []SafetyArchiveHoldsWhatWas
<1>1. IInv => SafetyArchiveHoldsWhatWas
  BY DEF IInv
<1> QED
  BY <1>1, Invariant, PTL

(* A restore that says it is complete has brought back whatever it did not   *)
(* pass over, and started a broker that can run (restore.sh 58-115).         *)
THEOREM CompleteIsComplete == Spec => CompleteRestoreIsExact
<1>1. ASSUME IInv, [Next]_vars, CompletesRestore
      PROVE  /\ \A f \in Files \ passedOver :
                    Archive[f] # None /\ (f = "data" => "stop" \notin passedOver)
                        => live'[f] = Archive[f]
             /\ Loadable(live)' /\ {"stop", "start"} \cap passedOver' = {}
                    => running' /\ memory' = live'["data"]
  <2>1. /\ pc = "start" /\ outcome' = "complete" /\ script = "restore" /\ outcome = "none"
        /\ running <=> "stop" \in passedOver
    BY <1>1 DEF CompletesRestore, IInv, Control, Undecided, Served, RestoreSteps, Laying
  <2>2. Start
    <3>1. ~Environment /\ ~Kill /\ ~UNCHANGED vars
      BY <2>1 DEF Environment, Kill, vars
    <3>2. ~BeginBackup /\ (\A a \in DOMAIN archives : ~BeginRestore(a)) /\ ~Backup
      BY <2>1 DEF BeginBackup, BeginRestore, Backup, CopyGroup, CopyData, Pack, Packed, Mark,
                  BackupFails, BackupSteps
    <3>3. ~Validate /\ ~Confirm /\ ~Stop /\ ~LayConfig /\ ~LayCerts /\ ~LayPasswords /\ ~LayAcl
          /\ ~LayData /\ ~Check
      BY <2>1 DEF Validate, Confirm, Stop, LayConfig, LayCerts, LayPasswords, LayAcl, LayData, Check
    <3> QED
      BY <1>1, <3>1, <3>2, <3>3 DEF Next, Restore
  <2>3. \A f \in Files : Owed(f) => live[f] = Archive[f]
    BY <1>1, <2>1 DEF IInv, Laid, Restored, Laying, Files, ConfigFiles, SecurityFiles
  <2>4. live' = live /\ key' = key /\ passedOver \subseteq passedOver'
    BY <2>2 DEF Start, Skips
  <2>5. Loadable(live)' = Loadable(live)
    BY <2>4 DEF Loadable
  <2>6. Loadable(live) /\ {"stop", "start"} \cap passedOver' = {} => running' /\ memory' = live["data"]
    <3>1. CASE "start" \in passedOver'
      BY <3>1
    <3>2. CASE "start" \notin passedOver'
      BY <2>1, <2>2, <2>4, <3>2 DEF Start, Skips, Ends
    <3> QED
      BY <3>1, <3>2
  <2> QED
    BY <2>3, <2>4, <2>5, <2>6 DEF Owed
<1>2. IInv /\ [Next]_vars =>
          [CompletesRestore =>
              /\ \A f \in Files \ passedOver :
                     Archive[f] # None /\ (f = "data" => "stop" \notin passedOver)
                         => live'[f] = Archive[f]
              /\ Loadable(live)' /\ {"stop", "start"} \cap passedOver' = {}
                     => running' /\ memory' = live'["data"]]_vars
  BY <1>1
<1> QED
  BY <1>2, Invariant, PTL DEF Spec, CompleteRestoreIsExact

(* A restore that is refused or given up has not touched the broker; one     *)
(* that is complete leaves a broker down that ran and can run only if Docker *)
(* answered at the stop and no longer at the start (restore.sh 19-62, 111).  *)
THEOREM ServiceGoesOn == Spec => RestoreKeepsServing
<1>1. ASSUME IInv, [Next]_vars, script = "restore", pc' = "idle",
             outcome' \in {"refused", "aborted", "complete"}
      PROVE  /\ outcome' \in {"refused", "aborted"} => running' = up
             /\ outcome' = "complete" /\ up /\ Loadable(live)'
                    => running' \/ ("start" \in passedOver' /\ "stop" \notin passedOver')
  <2>1. TypeOK /\ Control /\ Served /\ pc # "idle" /\ outcome = "none"
    BY <1>1 DEF IInv, Control, Undecided
  <2>2. CASE Start
    <3>1. live' = live /\ key' = key /\ pc = "start" /\ outcome' \in {"complete", "failed"}
      BY <1>1, <2>2 DEF Start, Ends
    <3>2. Loadable(live)' = Loadable(live)
      BY <3>1 DEF Loadable
    <3>3. running <=> "stop" \in passedOver
      BY <1>1, <2>1, <3>1 DEF Served, Laying
    <3>4. outcome' = "complete" /\ Loadable(live)
              => running' \/ ("start" \in passedOver' /\ "stop" \notin passedOver')
      <4>1. CASE running
        BY <2>2, <4>1 DEF Start, brokerVars
      <4>2. CASE ~running
        BY <2>2, <3>3, <4>2 DEF Start, Skips, Ends, brokerVars
      <4> QED
        BY <4>1, <4>2
    <3> QED
      BY <3>1, <3>2, <3>4
  <2>3. CASE Validate \/ Confirm
    <3>1. running' = running /\ running = up /\ outcome' # "complete"
      BY <1>1, <2>1, <2>3 DEF Validate, Confirm, Served, Laying, Goto, Ends, brokerVars
    <3> QED
      BY <1>1, <3>1, Zenon
  <2>4. Start \/ Validate \/ Confirm
    <3>1. ~Environment /\ ~Kill /\ ~UNCHANGED vars
      BY <1>1, <2>1 DEF Environment, Kill, vars
    <3>2. ~BeginBackup /\ (\A a \in DOMAIN archives : ~BeginRestore(a)) /\ ~Backup
      <4>1. ~BeginBackup /\ \A a \in DOMAIN archives : ~BeginRestore(a)
        BY <2>1 DEF BeginBackup, BeginRestore
      <4>2. ~Mark /\ ~BackupFails
        BY <1>1, <2>1 DEF Mark, BackupFails, BackupEnds
      <4>3. ~CopyData /\ ~Pack /\ ~Packed
        BY <1>1, <2>1 DEF CopyData, Pack, Packed, Goto
      <4>4. \A group, step, next : next # "idle" => ~CopyGroup(group, step, next)
        BY <1>1, <2>1 DEF CopyGroup, Goto
      <4> QED
        BY <4>1, <4>2, <4>3, <4>4 DEF Backup
    <3>3. /\ ~Stop /\ ~LayConfig /\ ~LayCerts /\ ~LayPasswords /\ ~LayAcl /\ ~LayData
          /\ ~Check
      BY <1>1, <2>1 DEF Stop, LayConfig, LayCerts, LayPasswords, LayAcl, LayData, Check, Goto, Ends
    <3> QED
      BY <1>1, <3>1, <3>2, <3>3 DEF Next, Restore
  <2> QED
    BY <2>2, <2>3, <2>4
<1>2. IInv /\ [Next]_vars =>
          [script = "restore" /\ pc' = "idle" =>
              /\ outcome' \in {"refused", "aborted"} => running' = up
              /\ outcome' = "complete" /\ up /\ Loadable(live)'
                     => running' \/ ("start" \in passedOver' /\ "stop" \notin passedOver')]_vars
  BY <1>1
<1> QED
  BY <1>2, Invariant, PTL DEF Spec, RestoreKeepsServing

===============================================================================
