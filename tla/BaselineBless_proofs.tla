------------------------ MODULE BaselineBless_proofs ------------------------
(* Safety of BaselineBless for every set of baselines, selection and number   *)
(* of commands, with every failure it models; and, when removals succeed, that *)
(* the transaction keeps every baseline and implements BaselineStore, wherever *)
(* a command fails or is killed.                                              *)
EXTENDS BaselineBless, TLAPS

\* The root, the staging and the backup directory of a command are distinct.
LEMMA DirsApart ==
  /\ \A i, j : Stage(i) # Saved(j) /\ Stage(i) # Root /\ Saved(i) # Root
  /\ \A i, j : (Stage(i) = Stage(j) => i = j) /\ (Saved(i) = Saved(j) => i = j)
  /\ Root \in Dir
  /\ \A i \in 1..MaxRuns : Stage(i) \in Dir /\ Saved(i) \in Dir
  BY DEF Stage, Saved, Root, Dir

\* The trees a command stages and installs.
Staged == Override(before, {updates[i] : i \in 1..done}, n)
Target == Override(before, Selected, n)

\* A directory that does not exist holds nothing, and the names of the commands
\* to come are free.
DirsKnown ==
  /\ \A d \in Dir : d \notin dirs => files[d] = {}
  /\ \A i \in 1..MaxRuns : i > n => Stage(i) \notin dirs /\ Saved(i) \notin dirs
  /\ pc # "idle" => n > 0

\* Where the old, the staged and the finished tree are in each phase.
TreesByPhase ==
  /\ pc \in {"stage", "copy", "write"} => files[Root] = before /\ backup \notin dirs
  /\ pc = "stage" => staging \notin dirs
  /\ pc \in {"stage", "copy"} => done = 0
  /\ pc \in {"copy", "write", "install"} => staging \in dirs
  /\ pc = "write" => files[staging] = Staged /\ (rootExists <=> Root \in dirs)
  /\ pc = "install" => files[staging] = Target
  /\ pc \in {"install", "rollback"} => Root \notin dirs /\ backup \in dirs /\ files[backup] = before
  /\ pc \in {"purge", "undo"} => Root \in dirs /\ files[Root] = Target /\ staging \notin dirs
  /\ pc = "purge" => files[backup] = before
  /\ pc \in {"undo", "restore"} => files[backup] \subseteq before
  /\ result = "ok" => pc = "idle"

BlessInv == TypeOK /\ DirsKnown /\ TreesByPhase /\ NeverMixed /\ SuccessInstalls

\* While a command runs, its directories are among those of the model.
LEMMA OwnDirs ==
  ASSUME TypeOK, DirsKnown, pc # "idle"
  PROVE  /\ staging \in Dir /\ backup \in Dir /\ Root \in Dir
         /\ staging # backup /\ staging # Root /\ backup # Root
         /\ n \in 1..MaxRuns /\ n \in Version
<1>1. n \in 1..MaxRuns
  BY BlessAssumption DEF TypeOK, DirsKnown
<1> QED
  BY <1>1, DirsApart DEF TypeOK, staging, backup, Version

LEMMA OverrideTyped ==
  ASSUME NEW tree \in SUBSET File, NEW S \in SUBSET Path, NEW i \in Version
  PROVE  Override(tree, S, i) \in SUBSET File
  BY DEF Override, File

LEMMA OverrideNothing ==
  ASSUME NEW tree, NEW i
  PROVE  Override(tree, {}, i) = tree
  BY DEF Override

LEMMA UpdatesTyped ==
  ASSUME TypeOK
  PROVE  Len(updates) \in Nat /\ \A i \in 1..Len(updates) : updates[i] \in Path
<1>1. updates = <<>> \/ updates \in Selections
  BY DEF TypeOK
<1>2. <<>> \in Seq(Path)
  OBVIOUS
<1>3. updates \in Seq(Path)
  BY <1>1, <1>2, BlessAssumption
<1> QED
  BY <1>3

\* What the file operations leave alone.
LEMMA RenameEffect ==
  ASSUME TypeOK, NEW from \in Dir, NEW to \in Dir, from # to, Rename(from, to)
  PROVE  /\ dirs' = (dirs \ {from}) \cup {to} /\ dirs' \subseteq Dir
         /\ files' \in [Dir -> SUBSET File]
         /\ files'[to] = files[from] /\ files'[from] = {}
         /\ \A d \in Dir : d # from /\ d # to => files'[d] = files[d]
  BY DEF TypeOK, Rename

LEMMA RemoveEffect ==
  ASSUME TypeOK, NEW d \in Dir, NEW ok \in BOOLEAN, RemoveDir(d, ok)
  PROVE  /\ dirs' \subseteq dirs /\ dirs \ {d} \subseteq dirs'
         /\ files' \in [Dir -> SUBSET File]
         /\ files'[d] \subseteq files[d] /\ (d \notin dirs' => files'[d] = {})
         /\ \A e \in Dir : e # d => files'[e] = files[e]
         /\ ok => d \notin dirs'
         /\ ~ok => RemovalMayFail
<1>1. CASE ok /\ dirs' = dirs \ {d} /\ files' = [files EXCEPT ![d] = {}]
  BY <1>1 DEF TypeOK
<1>2. CASE ~ok /\ RemovalMayFail /\ d \in dirs /\ dirs' = dirs
           /\ \E left \in SUBSET files[d] : files' = [files EXCEPT ![d] = left]
  BY <1>2 DEF TypeOK
<1> QED
  BY <1>1, <1>2 DEF RemoveDir

----------------------------------------------------------------------------
LEMMA InitInv == Init => BlessInv
<1> SUFFICES ASSUME Init PROVE BlessInv
  OBVIOUS
<1>1. PICK checkedIn \in SUBSET Path, there \in BOOLEAN :
        /\ ~there => checkedIn = {}
        /\ dirs = IF there THEN {Root} ELSE {}
        /\ files = [d \in Dir |-> IF d = Root THEN checkedIn \X {0} ELSE {}]
        /\ before = checkedIn \X {0}
        /\ known = checkedIn
  BY DEF Init
<1>2. checkedIn \X {0} \in SUBSET File
  BY BlessAssumption DEF File, Version
<1>3. TypeOK
  <2>1. dirs \subseteq Dir /\ files \in [Dir -> SUBSET File] /\ before \subseteq File
    BY <1>1, <1>2, DirsApart
  <2>2. updates \in {<<>>} \cup Selections /\ done \in 0..Len(updates)
    BY DEF Init
  <2>3. n \in 0..MaxRuns
    BY BlessAssumption DEF Init
  <2> QED
    BY <2>1, <2>2, <2>3 DEF Init, TypeOK, Phases
<1>4. DirsKnown
  BY <1>1, DirsApart DEF Init, DirsKnown
<1>5. NeverMixed
  BY <1>1, DirsApart DEF NeverMixed
<1> QED
  BY <1>3, <1>4, <1>5 DEF Init, BlessInv, TreesByPhase, SuccessInstalls

----------------------------------------------------------------------------
\* Each step preserves the invariant.

LEMMA BeginStep ==
  ASSUME BlessInv, Begin PROVE BlessInv'
<1> USE DEF BlessInv
<1>1. n' = n + 1 /\ n \in Nat /\ n' \in 1..MaxRuns
  BY BlessAssumption DEF Begin, TypeOK
<1>2. Root \in Dir /\ staging' \in Dir /\ staging' = Stage(n') /\ backup' = Saved(n')
  BY <1>1, DirsApart DEF staging, backup
<1>3. staging' \notin dirs /\ backup' \notin dirs
  BY <1>1, <1>2 DEF DirsKnown
<1>4. files[Root] \subseteq File
  BY <1>2 DEF TypeOK
<1>5. TypeOK'
  <2>1. updates' \in {<<>>} \cup Selections /\ done' = 0
    BY DEF Begin
  <2>2. Len(updates)' \in Nat
    <3>1. updates' = <<>> \/ updates' \in Seq(Path)
      BY <2>1, BlessAssumption
    <3> QED
      BY <3>1
  <2>3. done' \in 0..Len(updates')
    BY <2>1, <2>2
  <2>4. /\ pc' \in {"idle", "stage"} /\ result' \in {"none", "error"}
        /\ armed' \subseteq {"stage", "backup"} /\ rootExists' = FALSE
        /\ before' = files[Root] /\ UNCHANGED <<dirs, files>>
    BY DEF Begin
  <2>5. n' \in 0..MaxRuns
    BY <1>1, BlessAssumption
  <2>6. dirs' \subseteq Dir /\ files' \in [Dir -> SUBSET File] /\ before' \subseteq File
    BY <1>4, <2>4 DEF TypeOK
  <2>7. rootExists' \in BOOLEAN
    BY <2>4
  <2> QED
    BY <2>1, <2>3, <2>4, <2>5, <2>6, <2>7 DEF TypeOK, Phases
<1>6. DirsKnown'
  BY <1>1 DEF Begin, DirsKnown, TypeOK
<1>7. result' # "ok" /\ pc' \in {"idle", "stage"} /\ before' = files[Root] /\ done' = 0
      /\ dirs' = dirs /\ files' = files
  BY DEF Begin
<1> QED
  BY <1>3, <1>5, <1>6, <1>7 DEF TreesByPhase, NeverMixed, SuccessInstalls

LEMMA CreateStagingStep ==
  ASSUME BlessInv, CreateStaging PROVE BlessInv'
<1> USE DEF BlessInv
<1>1. pc = "stage"
  BY DEF CreateStaging
<1>2. /\ staging \in Dir /\ Root \in Dir /\ staging # backup /\ staging # Root
      /\ n \in 1..MaxRuns
  BY <1>1, OwnDirs
<1>3. /\ dirs' \in {dirs, dirs \cup {staging}} /\ pc' \in {"copy", "drop_backup"}
      /\ pc' = "copy" => staging \in dirs'
      /\ result' \in {result, "error"}
      /\ UNCHANGED <<files, n, updates, done, rootExists, armed, before>>
  BY DEF CreateStaging, Bail
<1>4. TypeOK'
  BY <1>2, <1>3 DEF TypeOK, Phases
<1>5. DirsKnown'
  BY <1>1, <1>2, <1>3, DirsApart DEF DirsKnown, TypeOK, staging
<1>6. result' # "ok" /\ backup' = backup /\ staging' = staging
  BY <1>1, <1>3 DEF TreesByPhase, backup, staging
<1>7. NeverMixed'
  BY <1>3 DEF NeverMixed, Selected
<1> QED
  BY <1>1, <1>2, <1>3, <1>4, <1>5, <1>6, <1>7 DEF TreesByPhase, SuccessInstalls

LEMMA CopyRootStep ==
  ASSUME BlessInv, CopyRoot PROVE BlessInv'
<1> USE DEF BlessInv
<1>1. pc = "copy"
  BY DEF CopyRoot
<1>2. /\ staging \in Dir /\ Root \in Dir /\ staging # backup /\ staging # Root
      /\ n \in 1..MaxRuns
  BY <1>1, OwnDirs
<1>3. PICK copy \in SUBSET files[Root] :
        /\ files' = [files EXCEPT ![staging] = copy]
        /\ pc' \in {"write", "drop_backup"}
        /\ pc' = "write" => copy = files[Root]
        /\ result' \in {result, "error"}
        /\ rootExists' = (Root \in dirs)
        /\ UNCHANGED <<dirs, n, updates, done, armed, before>>
  BY DEF CopyRoot, Copied, Bail
<1>4. files' \in [Dir -> SUBSET File] /\ files'[staging] = copy
      /\ \A d \in Dir : d # staging => files'[d] = files[d]
  BY <1>2, <1>3 DEF TypeOK
<1>5. TypeOK'
  BY <1>3, <1>4 DEF TypeOK, Phases
<1>6. DirsKnown'
  BY <1>1, <1>3, <1>4 DEF DirsKnown, TreesByPhase
<1>7. result' # "ok" /\ backup' = backup /\ staging' = staging
  BY <1>1, <1>3 DEF TreesByPhase, backup, staging
<1>8. NeverMixed'
  BY <1>2, <1>3, <1>4 DEF NeverMixed, Selected
<1>9. pc' = "write" => files'[staging'] = Staged'
  <2>1. done' = 0 /\ before' = before /\ files[Root] = before /\ n' = n
    BY <1>1, <1>3 DEF TreesByPhase
  <2>2. Staged' = Override(before, {}, n)
    BY <2>1 DEF Staged
  <2> QED
    BY <1>3, <1>4, <1>7, <2>1, <2>2, OverrideNothing
<1> QED
  BY <1>1, <1>2, <1>3, <1>4, <1>5, <1>6, <1>7, <1>8, <1>9 DEF TreesByPhase, SuccessInstalls

LEMMA WriteUpdateStep ==
  ASSUME BlessInv, WriteUpdate PROVE BlessInv'
<1> USE DEF BlessInv
<1> DEFINE path == updates[done + 1]
<1>1. pc = "write" /\ done + 1 \in 1..Len(updates) /\ done \in Nat
  BY UpdatesTyped DEF WriteUpdate, TypeOK
<1>2. /\ staging \in Dir /\ Root \in Dir /\ staging # backup /\ staging # Root
      /\ n \in 1..MaxRuns /\ n \in Version
  BY <1>1, OwnDirs
<1>3. path \in Path
  BY <1>1, UpdatesTyped
<1>4. /\ pc' \in {"write", "drop_backup"} /\ result' \in {result, "error"}
      /\ UNCHANGED <<dirs, n, updates, rootExists, armed, before>>
  BY DEF WriteUpdate, Bail
<1>5. /\ \/ files' = [files EXCEPT ![staging] = Override(files[staging], {path}, n)]
         \/ UNCHANGED files /\ pc' = "drop_backup"
      /\ done' = done + 1 \/ UNCHANGED done
      /\ pc' = "write" => done' = done + 1
  BY DEF WriteUpdate, Bail
<1>6. /\ files' \in [Dir -> SUBSET File]
      /\ \A d \in Dir : d # staging => files'[d] = files[d]
      /\ pc' = "write" => /\ files'[staging] = Override(files[staging], {path}, n)
                          /\ done' = done + 1
  <2>1. Override(files[staging], {path}, n) \in SUBSET File
    BY <1>2, <1>3, OverrideTyped DEF TypeOK
  <2> QED
    BY <1>2, <1>5, <2>1 DEF TypeOK
<1>7. TypeOK'
  BY <1>1, <1>4, <1>5, <1>6 DEF TypeOK, Phases
<1>8. DirsKnown'
  BY <1>1, <1>4, <1>6 DEF DirsKnown, TreesByPhase
<1>9. result' # "ok" /\ backup' = backup /\ staging' = staging
  BY <1>1, <1>4 DEF TreesByPhase, backup, staging
<1>10. NeverMixed'
  BY <1>2, <1>4, <1>6 DEF NeverMixed, Selected
<1>11. pc' = "write" => files'[staging'] = Staged'
  <2> SUFFICES ASSUME pc' = "write" PROVE files'[staging] = Staged'
    BY <1>9
  <2> DEFINE S == {updates[i] : i \in 1..done}
  <2>1. files'[staging] = Override(before, S \cup {path}, n)
    <3>1. files[staging] = Override(before, S, n)
      BY <1>1 DEF TreesByPhase, Staged
    <3> HIDE DEF S, path
    <3>2. Override(Override(before, S, n), {path}, n) = Override(before, S \cup {path}, n)
      BY DEF Override
    <3> QED
      BY <1>6, <3>1, <3>2
  <2>2. S \cup {path} = {updates[i] : i \in 1..(done + 1)}
    <3>1. 1..(done + 1) = 1..done \cup {done + 1}
      BY <1>1
    <3> QED
      BY <3>1
  <2> QED
    BY <1>4, <1>6, <2>1, <2>2 DEF Staged
<1> QED
  BY <1>1, <1>2, <1>4, <1>6, <1>7, <1>8, <1>9, <1>10, <1>11 DEF TreesByPhase, SuccessInstalls

LEMMA BackUpRootStep ==
  ASSUME BlessInv, BackUpRoot PROVE BlessInv'
<1> USE DEF BlessInv
<1>1. pc = "write" /\ done = Len(updates) /\ Root \in dirs
  BY DEF BackUpRoot, TreesByPhase
<1>2. /\ staging \in Dir /\ Root \in Dir /\ backup \in Dir
      /\ staging # backup /\ staging # Root /\ backup # Root /\ n \in 1..MaxRuns
  BY <1>1, OwnDirs
<1>3. /\ pc' \in {"install", "drop_backup"} /\ result' \in {result, "error"}
      /\ UNCHANGED <<n, updates, done, rootExists, armed, before>>
  BY DEF BackUpRoot, Bail
<1>4. \/ Rename(Root, backup) /\ pc' = "install"
      \/ UNCHANGED <<dirs, files>> /\ pc' = "drop_backup"
  BY DEF BackUpRoot, Bail
<1>5. /\ files' \in [Dir -> SUBSET File] /\ dirs' \subseteq Dir
      /\ pc' = "install" => /\ dirs' = (dirs \ {Root}) \cup {backup}
                            /\ files'[backup] = files[Root] /\ files'[Root] = {}
                            /\ files'[staging] = files[staging]
      /\ pc' = "drop_backup" => UNCHANGED <<dirs, files>>
      /\ \A d \in Dir : d # Root /\ d # backup => files'[d] = files[d]
  BY <1>2, <1>4, RenameEffect DEF TypeOK
<1>6. TypeOK'
  BY <1>3, <1>5 DEF TypeOK, Phases
<1>7. DirsKnown'
  <2>1. \A d \in Dir : d \notin dirs' => files'[d] = {}
    BY <1>2, <1>3, <1>5 DEF DirsKnown
  <2>2. \A i \in 1..MaxRuns : i > n => Stage(i) \notin dirs' /\ Saved(i) \notin dirs'
    BY <1>2, <1>3, <1>5, DirsApart DEF DirsKnown, backup
  <2> QED
    BY <1>1, <1>3, <2>1, <2>2 DEF DirsKnown
<1>8. result' # "ok" /\ backup' = backup /\ staging' = staging
  BY <1>1, <1>3 DEF TreesByPhase, backup, staging
<1>9. NeverMixed'
  BY <1>3, <1>5 DEF NeverMixed, Selected
<1>10. files[staging] = Target /\ Target' = Target
  BY <1>1, <1>3 DEF TreesByPhase, Staged, Target, Selected
<1> QED
  BY <1>1, <1>2, <1>3, <1>5, <1>6, <1>7, <1>8, <1>9, <1>10 DEF TreesByPhase, SuccessInstalls

LEMMA InstallOverStep ==
  ASSUME BlessInv, InstallOver PROVE BlessInv'
<1> USE DEF BlessInv
<1>1. pc = "install"
  BY DEF InstallOver
<1>2. /\ staging \in Dir /\ Root \in Dir /\ backup \in Dir
      /\ staging # backup /\ staging # Root /\ backup # Root /\ n \in 1..MaxRuns
  BY <1>1, OwnDirs
<1>3. /\ pc' \in {"purge", "rollback"}
      /\ UNCHANGED <<n, updates, done, rootExists, armed, result, before>>
  BY DEF InstallOver
<1>4. /\ files' \in [Dir -> SUBSET File] /\ dirs' \subseteq Dir
      /\ pc' = "purge" => /\ dirs' = (dirs \ {staging}) \cup {Root}
                          /\ files'[Root] = files[staging] /\ files'[staging] = {}
      /\ pc' = "rollback" => UNCHANGED <<dirs, files>>
      /\ \A d \in Dir : d # Root /\ d # staging => files'[d] = files[d]
  BY <1>2, RenameEffect DEF TypeOK, InstallOver
<1>5. TypeOK'
  BY <1>3, <1>4 DEF TypeOK, Phases
<1>6. DirsKnown'
  <2>1. \A d \in Dir : d \notin dirs' => files'[d] = {}
    BY <1>2, <1>3, <1>4 DEF DirsKnown
  <2>2. \A i \in 1..MaxRuns : i > n => Stage(i) \notin dirs' /\ Saved(i) \notin dirs'
    BY <1>2, <1>3, <1>4, DirsApart DEF DirsKnown
  <2> QED
    BY <1>1, <1>3, <2>1, <2>2 DEF DirsKnown
<1>7. result' # "ok" /\ backup' = backup /\ staging' = staging /\ Target' = Target
  BY <1>1, <1>3 DEF TreesByPhase, backup, staging, Target, Selected
<1>8. NeverMixed'
  BY <1>1, <1>3, <1>4, <1>7 DEF NeverMixed, Target, TreesByPhase
<1> QED
  BY <1>1, <1>2, <1>3, <1>4, <1>5, <1>6, <1>7, <1>8 DEF TreesByPhase, SuccessInstalls

LEMMA InstallFirstStep ==
  ASSUME BlessInv, InstallFirst PROVE BlessInv'
<1> USE DEF BlessInv
<1>1. pc = "write" /\ done = Len(updates) /\ Root \notin dirs
  BY DEF InstallFirst, TreesByPhase
<1>2. /\ staging \in Dir /\ Root \in Dir /\ backup \in Dir
      /\ staging # backup /\ staging # Root /\ backup # Root /\ n \in 1..MaxRuns
  BY <1>1, OwnDirs
<1>3. UNCHANGED <<n, updates, done, rootExists, before>>
  BY DEF InstallFirst
<1>4. files[staging] = Target /\ Target' = Target /\ backup' = backup /\ staging' = staging
  BY <1>1, <1>3 DEF TreesByPhase, Staged, Target, Selected, backup, staging
<1>5. CASE Rename(staging, Root) /\ pc' = "idle" /\ result' = "ok" /\ armed' = {}
  <2>1. /\ dirs' = (dirs \ {staging}) \cup {Root} /\ dirs' \subseteq Dir
        /\ files' \in [Dir -> SUBSET File]
        /\ files'[Root] = Target /\ files'[staging] = {}
        /\ \A d \in Dir : d # Root /\ d # staging => files'[d] = files[d]
    BY <1>2, <1>4, <1>5, RenameEffect
  <2>2. TypeOK'
    BY <1>3, <1>5, <2>1 DEF TypeOK, Phases
  <2>3. DirsKnown'
    <3>1. \A d \in Dir : d \notin dirs' => files'[d] = {}
      BY <1>2, <2>1 DEF DirsKnown
    <3>2. \A i \in 1..MaxRuns : i > n => Stage(i) \notin dirs' /\ Saved(i) \notin dirs'
      BY <2>1, DirsApart DEF DirsKnown
    <3> QED
      BY <1>3, <1>5, <3>1, <3>2 DEF DirsKnown
  <2>4. Root \in dirs' /\ dirs' \cap {staging', backup'} = {}
    BY <1>1, <1>2, <1>4, <2>1 DEF TreesByPhase
  <2> QED
    BY <1>4, <1>5, <2>1, <2>2, <2>3, <2>4 DEF TreesByPhase, NeverMixed, SuccessInstalls, Target
<1>6. CASE UNCHANGED <<dirs, files, armed>> /\ pc' = "drop_backup" /\ result' = "error"
  <2>1. TypeOK' /\ DirsKnown'
    BY <1>1, <1>3, <1>6 DEF TypeOK, Phases, DirsKnown
  <2> QED
    BY <1>3, <1>4, <1>6, <2>1 DEF TreesByPhase, NeverMixed, SuccessInstalls, Selected
<1> QED
  BY <1>5, <1>6 DEF InstallFirst, Bail

LEMMA RollbackStep ==
  ASSUME BlessInv, Rollback PROVE BlessInv'
<1> USE DEF BlessInv
<1>1. pc = "rollback"
  BY DEF Rollback
<1>2. /\ Root \in Dir /\ backup \in Dir /\ backup # Root /\ n \in 1..MaxRuns
  BY <1>1, OwnDirs
<1>3. /\ pc' = "drop_backup" /\ result' = "error" /\ armed' \subseteq armed
      /\ UNCHANGED <<n, updates, done, rootExists, before>>
  BY DEF Rollback, Bail, AfterRollback
<1>4. /\ files' \in [Dir -> SUBSET File] /\ dirs' \subseteq dirs \cup {Root}
      /\ dirs' \subseteq Dir
      /\ files'[Root] \in {files[Root], files[backup]}
      /\ \A d \in Dir : d \notin dirs' => files'[d] \in {files[d], {}} /\ (d \in dirs => files'[d] = {})
  BY <1>2, RenameEffect DEF TypeOK, Rollback
<1>5. TypeOK'
  BY <1>3, <1>4 DEF TypeOK, Phases
<1>6. DirsKnown'
  <2>1. \A d \in Dir : d \notin dirs' => files'[d] = {}
    BY <1>4 DEF DirsKnown
  <2>2. \A i \in 1..MaxRuns : i > n => Stage(i) \notin dirs' /\ Saved(i) \notin dirs'
    BY <1>3, <1>4, DirsApart DEF DirsKnown
  <2> QED
    BY <1>1, <1>3, <2>1, <2>2 DEF DirsKnown
<1>7. NeverMixed'
  BY <1>1, <1>3, <1>4 DEF NeverMixed, TreesByPhase, Selected
<1> QED
  BY <1>3, <1>5, <1>6, <1>7 DEF TreesByPhase, SuccessInstalls

LEMMA PurgeBackupStep ==
  ASSUME BlessInv, PurgeBackup PROVE BlessInv'
<1> USE DEF BlessInv
<1>1. pc = "purge"
  BY DEF PurgeBackup
<1>2. /\ Root \in Dir /\ backup \in Dir /\ backup # Root /\ staging # backup /\ n \in 1..MaxRuns
  BY <1>1, OwnDirs
<1>3. PICK ok \in BOOLEAN :
        /\ RemoveDir(backup, ok)
        /\ IF ok THEN pc' = "idle" /\ result' = "ok" /\ armed' = {}
                 ELSE pc' = "undo" /\ UNCHANGED <<result, armed>>
  BY DEF PurgeBackup
<1>4. UNCHANGED <<n, updates, done, rootExists, before>>
  BY DEF PurgeBackup
<1>5. /\ dirs' \subseteq dirs /\ Root \in dirs'
      /\ files' \in [Dir -> SUBSET File]
      /\ files'[backup] \subseteq files[backup] /\ (backup \notin dirs' => files'[backup] = {})
      /\ \A e \in Dir : e # backup => files'[e] = files[e]
      /\ dirs \ {backup} \subseteq dirs' /\ (ok => backup \notin dirs')
  BY <1>1, <1>2, <1>3, RemoveEffect DEF TreesByPhase
<1>6. TypeOK'
  BY <1>3, <1>4, <1>5 DEF TypeOK, Phases
<1>7. DirsKnown'
  BY <1>1, <1>3, <1>4, <1>5 DEF DirsKnown
<1>8. /\ files'[Root] = Target /\ Target' = Target /\ backup' = backup /\ staging' = staging
      /\ staging \notin dirs' /\ files[backup] = before
  BY <1>1, <1>2, <1>4, <1>5 DEF TreesByPhase, Target, Selected, backup, staging
<1>9. result' = "ok" => pc' = "idle" /\ backup \notin dirs'
  BY <1>1, <1>3, <1>5 DEF TreesByPhase
<1> QED
  BY <1>2, <1>3, <1>4, <1>5, <1>6, <1>7, <1>8, <1>9
  DEF TreesByPhase, NeverMixed, SuccessInstalls, Target

LEMMA UndoInstallStep ==
  ASSUME BlessInv, UndoInstall PROVE BlessInv'
<1> USE DEF BlessInv
<1>1. pc = "undo"
  BY DEF UndoInstall
<1>2. /\ staging \in Dir /\ Root \in Dir /\ backup \in Dir
      /\ staging # backup /\ staging # Root /\ backup # Root /\ n \in 1..MaxRuns
  BY <1>1, OwnDirs
<1>3. /\ pc' = "restore" /\ armed' \subseteq armed
      /\ UNCHANGED <<n, updates, done, rootExists, result, before>>
  BY DEF UndoInstall
<1>4. /\ files' \in [Dir -> SUBSET File] /\ dirs' \subseteq Dir
      /\ dirs' \subseteq dirs \cup {staging} /\ files'[backup] = files[backup]
      /\ files'[Root] \in {files[Root], {}}
      /\ \A d \in Dir : d \notin dirs' => files'[d] \in {files[d], {}} /\ (d \in dirs => files'[d] = {})
  BY <1>2, RenameEffect DEF TypeOK, UndoInstall
<1>5. TypeOK'
  BY <1>3, <1>4 DEF TypeOK, Phases
<1>6. DirsKnown'
  <2>1. \A d \in Dir : d \notin dirs' => files'[d] = {}
    BY <1>4 DEF DirsKnown
  <2>2. \A i \in 1..MaxRuns : i > n => Stage(i) \notin dirs' /\ Saved(i) \notin dirs'
    BY <1>2, <1>3, <1>4, DirsApart DEF DirsKnown, staging
  <2> QED
    BY <1>1, <1>3, <2>1, <2>2 DEF DirsKnown
<1>7. NeverMixed'
  BY <1>1, <1>3, <1>4 DEF NeverMixed, Selected
<1>8. result' # "ok" /\ files'[backup'] \subseteq before'
  BY <1>1, <1>3, <1>4 DEF TreesByPhase, backup
<1> QED
  BY <1>3, <1>5, <1>6, <1>7, <1>8 DEF TreesByPhase, SuccessInstalls

LEMMA RestoreBackupStep ==
  ASSUME BlessInv, RestoreBackup PROVE BlessInv'
<1> USE DEF BlessInv
<1>1. pc = "restore"
  BY DEF RestoreBackup
<1>2. /\ Root \in Dir /\ backup \in Dir /\ backup # Root /\ n \in 1..MaxRuns
  BY <1>1, OwnDirs
<1>3. /\ pc' = "drop_backup" /\ result' = "error" /\ armed' \subseteq armed
      /\ UNCHANGED <<n, updates, done, rootExists, before>>
  BY DEF RestoreBackup, Bail
<1>4. /\ files' \in [Dir -> SUBSET File] /\ dirs' \subseteq dirs \cup {Root}
      /\ dirs' \subseteq Dir
      /\ files'[Root] \in {files[Root], files[backup]}
      /\ \A d \in Dir : d \notin dirs' => files'[d] \in {files[d], {}} /\ (d \in dirs => files'[d] = {})
  BY <1>2, RenameEffect DEF TypeOK, RestoreBackup
<1>5. TypeOK'
  BY <1>3, <1>4 DEF TypeOK, Phases
<1>6. DirsKnown'
  <2>1. \A d \in Dir : d \notin dirs' => files'[d] = {}
    BY <1>4 DEF DirsKnown
  <2>2. \A i \in 1..MaxRuns : i > n => Stage(i) \notin dirs' /\ Saved(i) \notin dirs'
    BY <1>3, <1>4, DirsApart DEF DirsKnown
  <2> QED
    BY <1>1, <1>3, <2>1, <2>2 DEF DirsKnown
<1>7. NeverMixed'
  BY <1>1, <1>3, <1>4 DEF NeverMixed, TreesByPhase, Selected
<1> QED
  BY <1>3, <1>5, <1>6, <1>7 DEF TreesByPhase, SuccessInstalls

\* A guard removes its own directory or nothing.
LEMMA DropStep ==
  ASSUME BlessInv, pc \in {"drop_backup", "drop_stage"},
         NEW kind, NEW d \in {staging, backup}, NEW next \in {"drop_stage", "idle"},
         DropGuard(kind, d, next)
  PROVE  BlessInv'
<1> USE DEF BlessInv
<1>1. /\ staging \in Dir /\ backup \in Dir /\ Root \in Dir
      /\ d \in Dir /\ d # Root /\ n \in 1..MaxRuns
  BY OwnDirs
<1>2. /\ pc' = next
      /\ UNCHANGED <<n, updates, done, rootExists, armed, result, before>>
  BY DEF DropGuard
<1>3. /\ files' \in [Dir -> SUBSET File] /\ dirs' \subseteq dirs
      /\ \A e \in Dir : e # d => files'[e] = files[e]
      /\ \A e \in Dir : e \notin dirs' => files'[e] = {}
  <2>1. CASE UNCHANGED <<dirs, files>>
    BY <2>1 DEF TypeOK, DirsKnown
  <2>2. ASSUME NEW ok \in BOOLEAN, RemoveDir(d, ok)
        PROVE  <1>3
    BY <1>1, <2>2, RemoveEffect DEF DirsKnown
  <2> QED
    BY <2>1, <2>2 DEF DropGuard
<1>4. TypeOK'
  BY <1>2, <1>3 DEF TypeOK, Phases
<1>5. DirsKnown'
  BY <1>2, <1>3 DEF DirsKnown
<1>6. NeverMixed'
  BY <1>1, <1>2, <1>3 DEF NeverMixed, Selected
<1>7. result' # "ok"
  BY <1>2 DEF TreesByPhase
<1> QED
  BY <1>2, <1>4, <1>5, <1>6, <1>7 DEF TreesByPhase, SuccessInstalls

LEMMA CrashStep ==
  ASSUME BlessInv, Crash PROVE BlessInv'
<1> USE DEF BlessInv
<1>1. /\ pc # "idle" /\ pc' = "idle" /\ result' = "killed"
      /\ UNCHANGED <<dirs, n, updates, done, rootExists, armed, before>>
  BY DEF Crash
<1>2. /\ staging \in Dir /\ backup \in Dir /\ Root \in Dir
      /\ staging # Root /\ backup # Root /\ n \in 1..MaxRuns
  BY <1>1, OwnDirs
<1>3. Removing \subseteq {staging, backup}
  BY DEF Removing
<1>4. /\ files' \in [Dir -> SUBSET File] /\ files'[Root] = files[Root]
      /\ \A e \in Dir : files'[e] \subseteq files[e]
  BY <1>2, <1>3 DEF Crash, TypeOK
<1>5. TypeOK'
  BY <1>1, <1>4 DEF TypeOK, Phases
<1>6. DirsKnown'
  BY <1>1, <1>4 DEF DirsKnown
<1>7. NeverMixed'
  BY <1>1, <1>4 DEF NeverMixed, Selected
<1> QED
  BY <1>1, <1>5, <1>6, <1>7 DEF TreesByPhase, SuccessInstalls

LEMMA InvStep == BlessInv /\ [Next]_vars => BlessInv'
<1> SUFFICES ASSUME BlessInv, [Next]_vars PROVE BlessInv'
  OBVIOUS
<1>1. CASE DropBackup
  BY <1>1, DropStep DEF DropBackup
<1>2. CASE DropStaging
  BY <1>2, DropStep DEF DropStaging
<1>3. CASE UNCHANGED vars
  <2>1. TypeOK' /\ DirsKnown'
    BY <1>3 DEF vars, BlessInv, TypeOK, DirsKnown
  <2>2. TreesByPhase'
    BY <1>3 DEF vars, BlessInv, TreesByPhase, staging, backup, Staged, Target, Selected
  <2>3. NeverMixed' /\ SuccessInstalls'
    BY <1>3 DEF vars, BlessInv, NeverMixed, SuccessInstalls, staging, backup, Selected
  <2> QED
    BY <2>1, <2>2, <2>3 DEF BlessInv
<1> QED
  BY <1>1, <1>2, <1>3, BeginStep, CreateStagingStep, CopyRootStep, WriteUpdateStep,
     BackUpRootStep, InstallOverStep, InstallFirstStep, RollbackStep, PurgeBackupStep,
     UndoInstallStep, RestoreBackupStep, CrashStep
  DEF Next, Finished

\* The directories, the files in them and the command's locals stay in their sets.
THEOREM BlessTyped == Spec => []TypeOK
<1>1. BlessInv => TypeOK
  BY DEF BlessInv
<1> QED
  BY InitInv, InvStep, <1>1, PTL DEF Spec

\* A command that reports success has installed exactly its selection over the tree it found.
THEOREM BlessSafe == Spec => []SuccessInstalls
<1>1. BlessInv => SuccessInstalls
  BY DEF BlessInv
<1> QED
  BY InitInv, InvStep, <1>1, PTL DEF Spec

\* Whatever fails or is killed, old and new files never mix at the root.
THEOREM BlessNeverMixes == Spec => []NeverMixed
<1>1. BlessInv => NeverMixed
  BY DEF BlessInv
<1> QED
  BY InitInv, InvStep, <1>1, PTL DEF Spec

----------------------------------------------------------------------------
\* What holds when removals succeed.

\* The new tree is never taken back, and a backup that still exists has no guard.
Guarded ==
  /\ pc \notin {"undo", "restore"}
  /\ pc = "drop_backup" /\ "backup" \in armed => backup \notin dirs

\* ErrorKeepsTree, from the first failure on.
ErrorKept ==
  pc \in {"drop_backup", "drop_stage"} \/ (pc = "idle" /\ result = "error") =>
    \/ files[Root] = before
    \/ Root \notin dirs /\ backup \in dirs /\ files[backup] = before

\* NothingLost, without the staging directory the command is going to drop.
Lasting == {d \in dirs : pc # "idle" => d # staging}
Kept == \A p \in known : \E d \in Lasting : p \in Names(files[d])

AtomicInv == BlessInv /\ Guarded /\ ErrorKept /\ Kept

----------------------------------------------------------------------------
\* The five ways in which a step moves trees.

\* Nothing but the command's staging directory changes.
Beside ==
  /\ dirs' \ {staging} = dirs \ {staging}
  /\ \A d \in Dir : d # staging => files'[d] = files[d]

\* The root becomes the backup.
Withdrawal ==
  /\ Root \in dirs /\ backup \notin dirs /\ files[Root] = before
  /\ dirs' = (dirs \ {Root}) \cup {backup}
  /\ files'[backup] = files[Root]
  /\ \A d \in Dir : d \notin {Root, backup} => files'[d] = files[d]

\* The backup becomes the root again.
Return ==
  /\ Root \notin dirs /\ backup \in dirs /\ files[backup] = before
  /\ dirs' = (dirs \ {backup}) \cup {Root}
  /\ files'[Root] = files[backup]
  /\ \A d \in Dir : d \notin {Root, backup} => files'[d] = files[d]

\* The finished tree becomes the root.
Installation ==
  /\ Root \notin dirs
  /\ \/ backup \in dirs /\ files[backup] = before
     \/ backup \notin dirs /\ before = {}
  /\ dirs' = (dirs \ {staging}) \cup {Root}
  /\ files'[Root] = Target
  /\ \A d \in Dir : d \notin {Root, staging} => files'[d] = files[d]

\* The old tree is removed, in part if the command is killed.
Purge ==
  /\ Root \in dirs /\ files[Root] = Target /\ files[backup] = before
  /\ dirs \ {backup} \subseteq dirs' /\ dirs' \subseteq dirs
  /\ \A d \in Dir : d # backup => files'[d] = files[d]

Moves == Beside \/ Withdrawal \/ Return \/ Installation \/ Purge

\* One command's step.
Working == /\ pc # "idle"
           /\ UNCHANGED <<n, updates, before, known>>
           /\ Moves
           /\ Guarded' /\ ErrorKept'

LEMMA CreateStagingWorks ==
  ASSUME AtomicInv, CreateStaging PROVE Working
<1> USE DEF AtomicInv, BlessInv
<1>1. pc = "stage"
  BY DEF CreateStaging
<1>2. staging # backup /\ staging # Root /\ staging' = staging /\ backup' = backup
  BY <1>1, OwnDirs DEF CreateStaging, staging, backup
<1>3. /\ dirs' \in {dirs, dirs \cup {staging}} /\ pc' \in {"copy", "drop_backup"}
      /\ UNCHANGED <<files, n, updates, armed, before, known>>
  BY DEF CreateStaging, Bail
<1> QED
  BY <1>1, <1>2, <1>3
  DEF Working, Moves, Beside, Guarded, ErrorKept, TreesByPhase

\* Copying and writing touch the staging directory only.
LEMMA StagingWorks ==
  ASSUME AtomicInv, CopyRoot \/ WriteUpdate PROVE Working
<1> USE DEF AtomicInv, BlessInv
<1>1. pc \in {"copy", "write"}
  BY DEF CopyRoot, WriteUpdate
<1>2. /\ staging \in Dir /\ Root \in Dir /\ staging # backup /\ staging # Root
      /\ staging' = staging /\ backup' = backup
  BY <1>1, OwnDirs DEF CopyRoot, WriteUpdate, staging, backup
<1>3. /\ pc' \in {"write", "drop_backup"}
      /\ UNCHANGED <<dirs, n, updates, armed, before, known>>
  BY DEF CopyRoot, WriteUpdate, Bail
<1>4. \A d \in Dir : d # staging => files'[d] = files[d]
  BY <1>2 DEF CopyRoot, WriteUpdate, TypeOK
<1> QED
  BY <1>1, <1>2, <1>3, <1>4
  DEF Working, Moves, Beside, Guarded, ErrorKept, TreesByPhase

LEMMA BackUpRootWorks ==
  ASSUME AtomicInv, BackUpRoot PROVE Working
<1> USE DEF AtomicInv, BlessInv
<1>1. pc = "write" /\ Root \in dirs /\ files[Root] = before /\ backup \notin dirs
  BY DEF BackUpRoot, TreesByPhase
<1>2. Root \in Dir /\ backup \in Dir /\ backup # Root /\ backup' = backup
  BY <1>1, OwnDirs DEF BackUpRoot, backup
<1>3. UNCHANGED <<n, updates, armed, before, known>>
  BY DEF BackUpRoot
<1>4. CASE Rename(Root, backup) /\ pc' = "install"
  <2>1. Withdrawal
    BY <1>1, <1>2, <1>4, RenameEffect DEF Withdrawal
  <2> QED
    BY <1>1, <1>3, <1>4, <2>1 DEF Working, Moves, Guarded, ErrorKept
<1>5. CASE UNCHANGED <<dirs, files>> /\ pc' = "drop_backup"
  BY <1>1, <1>2, <1>3, <1>5 DEF Working, Moves, Beside, Guarded, ErrorKept
<1> QED
  BY <1>4, <1>5 DEF BackUpRoot, Bail

LEMMA InstallOverWorks ==
  ASSUME AtomicInv, InstallOver PROVE Working
<1> USE DEF AtomicInv, BlessInv
<1>1. /\ pc = "install" /\ files[staging] = Target
      /\ Root \notin dirs /\ backup \in dirs /\ files[backup] = before
  BY DEF InstallOver, TreesByPhase
<1>2. Root \in Dir /\ staging \in Dir /\ staging # Root
  BY <1>1, OwnDirs
<1>3. UNCHANGED <<n, updates, before, known>> /\ pc' \in {"purge", "rollback"}
  BY DEF InstallOver
<1>4. CASE Rename(staging, Root)
  <2>1. Installation
    BY <1>1, <1>2, <1>4, RenameEffect DEF Installation
  <2> QED
    BY <1>1, <1>3, <2>1 DEF Working, Moves, Guarded, ErrorKept
<1>5. CASE UNCHANGED <<dirs, files>>
  BY <1>1, <1>3, <1>5 DEF Working, Moves, Beside, Guarded, ErrorKept
<1> QED
  BY <1>4, <1>5 DEF InstallOver

LEMMA InstallFirstWorks ==
  ASSUME AtomicInv, InstallFirst PROVE Working
<1> USE DEF AtomicInv, BlessInv
<1>1. /\ pc = "write" /\ done = Len(updates) /\ files[staging] = Staged
      /\ Root \notin dirs /\ backup \notin dirs /\ files[Root] = before
  BY DEF InstallFirst, TreesByPhase
<1>2. Root \in Dir /\ staging \in Dir /\ staging # Root /\ backup' = backup
  BY <1>1, OwnDirs DEF InstallFirst, backup
<1>3. files[staging] = Target /\ before = {}
  BY <1>1, <1>2 DEF Staged, Target, Selected, DirsKnown
<1>4. UNCHANGED <<n, updates, before, known>>
  BY DEF InstallFirst
<1>5. CASE Rename(staging, Root) /\ pc' = "idle" /\ result' = "ok"
  <2>1. Installation
    BY <1>1, <1>2, <1>3, <1>5, RenameEffect DEF Installation
  <2> QED
    BY <1>1, <1>4, <1>5, <2>1 DEF Working, Moves, Guarded, ErrorKept
<1>6. CASE UNCHANGED <<dirs, files, armed>> /\ pc' = "drop_backup"
  BY <1>1, <1>2, <1>4, <1>6 DEF Working, Moves, Beside, Guarded, ErrorKept
<1> QED
  BY <1>5, <1>6 DEF InstallFirst, Bail

LEMMA RollbackWorks ==
  ASSUME AtomicInv, Rollback PROVE Working
<1> USE DEF AtomicInv, BlessInv
<1>1. pc = "rollback" /\ Root \notin dirs /\ backup \in dirs /\ files[backup] = before
  BY DEF Rollback, TreesByPhase
<1>2. Root \in Dir /\ backup \in Dir /\ backup # Root /\ backup' = backup
  BY <1>1, OwnDirs DEF Rollback, backup
<1>3. UNCHANGED <<n, updates, before, known>> /\ pc' = "drop_backup"
  BY DEF Rollback, Bail
<1>4. CASE Rename(backup, Root)
  <2>1. Return /\ files'[Root] = before /\ backup \notin dirs'
    BY <1>1, <1>2, <1>4, RenameEffect DEF Return
  <2> QED
    BY <1>1, <1>2, <1>3, <2>1 DEF Working, Moves, Guarded, ErrorKept
<1>5. CASE UNCHANGED <<dirs, files>> /\ armed' = armed \ {"backup"}
  BY <1>1, <1>2, <1>3, <1>5 DEF Working, Moves, Beside, Guarded, ErrorKept
<1> QED
  BY <1>4, <1>5 DEF Rollback, AfterRollback

LEMMA PurgeBackupWorks ==
  ASSUME AtomicInv, ~RemovalMayFail, PurgeBackup PROVE Working
<1> USE DEF AtomicInv, BlessInv
<1>1. pc = "purge" /\ Root \in dirs /\ files[Root] = Target /\ files[backup] = before
  BY DEF PurgeBackup, TreesByPhase
<1>2. backup \in Dir /\ backup' = backup
  BY <1>1, OwnDirs DEF PurgeBackup, backup
<1>3. PICK ok \in BOOLEAN :
        RemoveDir(backup, ok) /\ (ok => pc' = "idle" /\ result' = "ok")
  BY DEF PurgeBackup
<1>4. pc' = "idle" /\ result' = "ok" /\ Purge
  BY <1>1, <1>2, <1>3, RemoveEffect DEF Purge
<1>5. UNCHANGED <<n, updates, before, known>>
  BY DEF PurgeBackup
<1> QED
  BY <1>1, <1>4, <1>5 DEF Working, Moves, Guarded, ErrorKept

\* The guard of a backup finds nothing to remove.
LEMMA DropBackupWorks ==
  ASSUME AtomicInv, DropBackup PROVE Working
<1> USE DEF AtomicInv, BlessInv
<1>1. pc = "drop_backup"
  BY DEF DropBackup
<1>2. /\ Root \in Dir /\ backup \in Dir /\ backup # Root
      /\ staging' = staging /\ backup' = backup
  BY <1>1, OwnDirs DEF DropBackup, DropGuard, staging, backup
<1>3. UNCHANGED <<n, updates, armed, before, known>> /\ pc' = "drop_stage"
  BY DEF DropBackup, DropGuard
<1>4. dirs' = dirs /\ \A d \in Dir : files'[d] = files[d]
  <2>1. CASE UNCHANGED <<dirs, files>>
    BY <2>1
  <2>2. ASSUME "backup" \in armed, NEW ok \in BOOLEAN, RemoveDir(backup, ok) PROVE <1>4
    <3>1. backup \notin dirs /\ files[backup] = {}
      BY <1>1, <1>2, <2>2 DEF Guarded, DirsKnown
    <3>2. /\ dirs' \subseteq dirs /\ dirs \ {backup} \subseteq dirs'
          /\ files'[backup] \subseteq files[backup]
          /\ \A e \in Dir : e # backup => files'[e] = files[e]
      BY <1>2, <2>2, RemoveEffect
    <3>3. dirs' = dirs
      BY <3>1, <3>2
    <3>4. files'[backup] = {}
      BY <3>1, <3>2
    <3> QED
      BY <3>1, <3>2, <3>3, <3>4
  <2> QED
    BY <2>1, <2>2 DEF DropBackup, DropGuard
<1> QED
  BY <1>1, <1>2, <1>3, <1>4 DEF Working, Moves, Beside, Guarded, ErrorKept

LEMMA DropStagingWorks ==
  ASSUME AtomicInv, DropStaging PROVE Working
<1> USE DEF AtomicInv, BlessInv
<1>1. pc = "drop_stage"
  BY DEF DropStaging
<1>2. /\ Root \in Dir /\ backup \in Dir /\ staging \in Dir /\ staging # Root
      /\ staging # backup /\ staging' = staging /\ backup' = backup
  BY <1>1, OwnDirs DEF DropStaging, DropGuard, staging, backup
<1>3. UNCHANGED <<n, updates, before, known>> /\ pc' = "idle"
  BY DEF DropStaging, DropGuard
<1>4. Beside
  BY <1>2, RemoveEffect DEF DropStaging, DropGuard, Beside
<1> QED
  BY <1>1, <1>2, <1>3, <1>4 DEF Working, Moves, Beside, Guarded, ErrorKept

LEMMA CrashWorks ==
  ASSUME AtomicInv, Crash PROVE Working
<1> USE DEF AtomicInv, BlessInv
<1>1. pc # "idle" /\ pc' = "idle" /\ result' = "killed"
      /\ UNCHANGED <<dirs, n, updates, before, known>>
  BY DEF Crash
<1>2. staging \in Dir /\ backup \in Dir /\ Root \in Dir
  BY <1>1, OwnDirs
<1>3. CASE \A d \in Dir : d # staging => files'[d] = files[d]
  BY <1>1, <1>3 DEF Working, Moves, Beside, Guarded, ErrorKept
<1>4. ASSUME pc \in {"purge", "drop_backup"}, "backup" \in armed,
             NEW left \in SUBSET files[backup], files' = [files EXCEPT ![backup] = left]
      PROVE  Working
  <2>1. \A d \in Dir : d # backup => files'[d] = files[d]
    BY <1>2, <1>4 DEF TypeOK
  <2>2. CASE pc = "purge"
    <3>1. Purge
      BY <1>1, <2>1, <2>2 DEF Purge, TreesByPhase
    <3> QED
      BY <1>1, <3>1 DEF Working, Moves, Guarded, ErrorKept
  <2>3. CASE pc = "drop_backup"
    <3>1. files[backup] = {}
      BY <1>2, <1>4, <2>3 DEF Guarded, DirsKnown
    <3>2. \A d \in Dir : files'[d] = files[d]
      BY <1>2, <1>4, <2>1, <3>1 DEF TypeOK
    <3> QED
      BY <1>3, <3>2
  <2> QED
    BY <1>4, <2>2, <2>3
<1>5. CASE UNCHANGED files
  BY <1>3, <1>5
<1>6. CASE \E d \in Removing : d[1] \in armed /\
             \E left \in SUBSET files[d] : files' = [files EXCEPT ![d] = left]
  <2>1. PICK d \in Removing : d[1] \in armed /\
             \E left \in SUBSET files[d] : files' = [files EXCEPT ![d] = left]
    BY <1>6
  <2>2. CASE pc \in {"purge", "drop_backup"}
    <3>1. d = backup /\ backup[1] = "backup"
      BY <2>2 DEF Removing, backup, Saved
    <3> QED
      BY <1>4, <2>1, <2>2, <3>1
  <2>3. CASE pc = "drop_stage"
    <3>1. d = staging
      BY <2>3 DEF Removing
    <3>2. \A e \in Dir : e # staging => files'[e] = files[e]
      BY <1>2, <2>1, <3>1 DEF TypeOK
    <3> QED
      BY <1>3, <3>2
  <2>4. pc \in {"purge", "drop_backup", "drop_stage"}
    BY <2>1 DEF Removing
  <2> QED
    BY <2>2, <2>3, <2>4
<1> QED
  BY <1>5, <1>6 DEF Crash

\* Every step but a start is one of the moves, or none.
LEMMA StepWorks ==
  ASSUME AtomicInv, ~RemovalMayFail, Next PROVE Begin \/ Working \/ UNCHANGED vars
<1>1. ~UndoInstall /\ ~RestoreBackup
  BY DEF AtomicInv, Guarded, UndoInstall, RestoreBackup
<1> QED
  BY <1>1, CreateStagingWorks, StagingWorks, BackUpRootWorks, InstallOverWorks,
     InstallFirstWorks, RollbackWorks, PurgeBackupWorks, DropBackupWorks,
     DropStagingWorks, CrashWorks
  DEF Next, Finished

----------------------------------------------------------------------------
\* The invariant.

LEMMA AtomicInit == Init => AtomicInv
<1> SUFFICES ASSUME Init PROVE AtomicInv
  OBVIOUS
<1>1. BlessInv
  BY InitInv
<1>2. pc = "idle" /\ result = "none"
  BY DEF Init
<1>3. Kept
  <2> SUFFICES ASSUME NEW p \in known PROVE \E d \in Lasting : p \in Names(files[d])
    BY DEF Kept
  <2>1. Root \in Dir /\ Root \in dirs /\ files[Root] = known \X {0}
    BY DirsApart DEF Init
  <2>2. Root \in Lasting
    BY <1>2, <2>1 DEF Lasting
  <2>3. <<p, 0>> \in files[Root] /\ <<p, 0>>[1] = p
    BY <2>1
  <2> QED
    BY <2>2, <2>3 DEF Names
<1> QED
  BY <1>1, <1>2, <1>3 DEF AtomicInv, Guarded, ErrorKept

\* A start adds the paths at the root to those that are kept.
LEMMA BeginKeeps ==
  ASSUME AtomicInv, BlessInv', Begin PROVE AtomicInv'
<1> USE DEF AtomicInv
<1>1. /\ pc = "idle" /\ pc' \in {"idle", "stage"} /\ before' = files[Root]
      /\ known' = known \cup Names(files[Root])
      /\ UNCHANGED <<dirs, files>>
  BY DEF Begin
<1>2. pc' = "stage" => staging' \notin dirs'
  BY DEF BlessInv, TreesByPhase
<1>3. Lasting = dirs /\ Lasting' = dirs
  BY <1>1, <1>2 DEF Lasting
<1>4. Kept'
  <2> SUFFICES ASSUME NEW p \in known' PROVE \E d \in dirs : p \in Names(files[d])
    BY <1>1, <1>3 DEF Kept, Names
  <2>1. CASE p \in known
    BY <1>3, <2>1 DEF Kept
  <2>2. CASE p \in Names(files[Root])
    <3>1. Root \in dirs
      BY <2>2, DirsApart DEF Names, BlessInv, DirsKnown
    <3> QED
      BY <2>2, <3>1
  <2> QED
    BY <1>1, <2>1, <2>2
<1>5. Guarded' /\ ErrorKept'
  BY <1>1 DEF Guarded, ErrorKept
<1> QED
  BY <1>4, <1>5

\* Rewriting keeps every path.
LEMMA TargetKeepsNames == Names(before) \subseteq Names(Target)
<1> SUFFICES ASSUME NEW f \in before PROVE \E g \in Target : g[1] = f[1]
  BY DEF Names
<1>1. CASE f[1] \in Selected
  <2>1. <<f[1], n>> \in Target /\ <<f[1], n>>[1] = f[1]
    BY <1>1 DEF Target, Override
  <2> QED
    BY <2>1
<1>2. CASE f[1] \notin Selected
  BY <1>2 DEF Target, Override
<1> QED
  BY <1>1, <1>2

\* Whatever a lasting directory held, a lasting directory still holds.
LEMMA MovesKeep ==
  ASSUME AtomicInv, Working PROVE Kept'
<1>1. /\ staging \in Dir /\ Root \in Dir /\ backup \in Dir
      /\ staging # backup /\ staging # Root /\ backup # Root
      /\ dirs \subseteq Dir /\ staging' = staging /\ known' = known
  BY OwnDirs DEF AtomicInv, BlessInv, Working, TypeOK, staging
<1>2. Lasting = dirs \ {staging} /\ dirs' \ {staging} \subseteq Lasting'
  BY <1>1 DEF Lasting, Working
<1> SUFFICES ASSUME NEW d \in dirs, d # staging
             PROVE  \E e \in dirs' \ {staging} : Names(files[d]) \subseteq Names(files'[e])
  BY <1>1, <1>2 DEF AtomicInv, Kept, Names
<1>3. CASE Beside
  BY <1>1, <1>3 DEF Beside
<1>4. CASE Withdrawal
  BY <1>1, <1>4 DEF Withdrawal
<1>5. CASE Return
  BY <1>1, <1>5 DEF Return
<1>6. CASE Installation
  BY <1>1, <1>6 DEF Installation
<1>7. CASE Purge
  BY <1>1, <1>7, TargetKeepsNames DEF Purge
<1> QED
  BY <1>3, <1>4, <1>5, <1>6, <1>7 DEF Working, Moves

LEMMA AtomicStep ==
  ASSUME ~RemovalMayFail PROVE AtomicInv /\ [Next]_vars => AtomicInv'
<1> SUFFICES ASSUME AtomicInv, [Next]_vars PROVE AtomicInv'
  OBVIOUS
<1>1. BlessInv'
  BY InvStep DEF AtomicInv
<1>2. CASE Begin
  BY <1>1, <1>2, BeginKeeps
<1>3. CASE Working
  BY <1>1, <1>3, MovesKeep DEF AtomicInv, Working
<1>4. CASE UNCHANGED vars
  BY <1>1, <1>4 DEF vars, AtomicInv, Guarded, ErrorKept, Kept, Lasting, Names, staging, backup
<1> QED
  BY <1>2, <1>3, <1>4, StepWorks

LEMMA AtomicAlways == ASSUME ~RemovalMayFail PROVE Spec => []AtomicInv
  BY AtomicInit, AtomicStep, PTL DEF Spec

\* When removals succeed, a command that reports an error has changed nothing or
\* kept the whole tree it started from in its backup directory.
THEOREM ErrorKeeps == ASSUME ~RemovalMayFail PROVE Spec => []ErrorKeepsTree
<1>1. AtomicInv => ErrorKeepsTree
  BY DEF AtomicInv, ErrorKept, ErrorKeepsTree
<1> QED
  BY <1>1, AtomicAlways, PTL

\* When removals succeed, a baseline that was ever found at the root is in some
\* directory for good, whatever else fails and wherever commands are killed.
THEOREM NoneLost == ASSUME ~RemovalMayFail PROVE Spec => []NothingLost
<1>1. AtomicInv => NothingLost
  BY DEF AtomicInv, Kept, Lasting, NothingLost
<1> QED
  BY <1>1, AtomicAlways, PTL

----------------------------------------------------------------------------
\* The refinement.

Tree == IF Root \in dirs THEN files[Root] ELSE IF backup \in dirs THEN files[backup] ELSE {}

LEMMA StoreInit == Init => Store!Init
<1> SUFFICES ASSUME Init PROVE Store!Init
  OBVIOUS
<1>1. PICK checkedIn \in SUBSET Path, there \in BOOLEAN :
        /\ ~there => checkedIn = {}
        /\ dirs = IF there THEN {Root} ELSE {}
        /\ files = [d \in Dir |-> IF d = Root THEN checkedIn \X {0} ELSE {}]
  BY DEF Init
<1>2. Tree = checkedIn \X {0} /\ (Root \notin dirs => Tree = {})
  <2>1. CASE there
    BY <1>1, <2>1, DirsApart DEF Tree
  <2>2. CASE ~there
    BY <1>1, <2>2 DEF Tree
  <2> QED
    BY <2>1, <2>2
<1>3. n = 0 /\ Selected = {}
  BY DEF Init, Selected
<1> QED
  BY <1>2, <1>3 DEF Store!Init, Tree

LEMMA BeginStarts ==
  ASSUME AtomicInv, BlessInv', Begin PROVE Store!Start
<1>1. /\ n' = n + 1 /\ updates' \in Selections
      /\ UNCHANGED <<dirs, files>>
  BY DEF Begin
<1>2. n' \in 1..MaxRuns /\ n' > n
  BY <1>1, BlessAssumption DEF Begin, AtomicInv, BlessInv, TypeOK
<1>3. backup' \notin dirs'
  BY <1>1, <1>2 DEF AtomicInv, BlessInv, DirsKnown, backup
<1>4. Tree' = IF Root \in dirs THEN Tree ELSE {}
  BY <1>1, <1>3 DEF Tree, Root
<1>5. \E list \in Selections : Selected' = {list[i] : i \in 1..Len(list)}
  BY <1>1 DEF Selected
<1> QED
  BY <1>1, <1>4, <1>5 DEF Store!Start, Tree, Root

\* Beside and Purge are invisible, the three other moves are the store's.
LEMMA MovesImplement ==
  ASSUME AtomicInv, Working PROVE [Store!Next]_(Store!vars)
<1>1. /\ staging \in Dir /\ Root \in Dir /\ backup \in Dir
      /\ staging # backup /\ staging # Root /\ backup # Root
      /\ backup' = backup /\ Root' = Root /\ n' = n /\ Selected' = Selected
  BY OwnDirs DEF AtomicInv, BlessInv, Working, backup, Root, Selected
<1>2. CASE Beside
  <2>1. Tree' = Tree /\ (Root \in dirs' <=> Root \in dirs)
    BY <1>1, <1>2 DEF Beside, Tree
  <2> QED
    BY <1>1, <2>1 DEF Store!vars, Tree
<1>3. CASE Purge
  <2>1. Tree' = Tree /\ Root \in dirs' /\ Root \in dirs
    BY <1>1, <1>3 DEF Purge, Tree
  <2> QED
    BY <1>1, <2>1 DEF Store!vars, Tree
<1>4. CASE Withdrawal
  <2>1. Tree' = Tree /\ Root \notin dirs' /\ Root \in dirs
    BY <1>1, <1>4 DEF Withdrawal, Tree
  <2> QED
    BY <1>1, <2>1 DEF Store!Next, Store!Withdraw, Tree
<1>5. CASE Return
  <2>1. Tree' = Tree /\ Root \in dirs' /\ Root \notin dirs
    BY <1>1, <1>5 DEF Return, Tree
  <2> QED
    BY <1>1, <2>1 DEF Store!Next, Store!PutBack, Tree
<1>6. CASE Installation
  <2>1. Tree = before /\ Tree' = Target /\ Root \in dirs' /\ Root \notin dirs
    BY <1>1, <1>6 DEF Installation, Tree
  <2>2. Tree' = {f \in Tree : f[1] \notin Selected} \cup (Selected \X {n})
    BY <2>1 DEF Target, Override
  <2> QED
    BY <1>1, <2>1, <2>2 DEF Store!Next, Store!Replace, Store!Rewritten, Tree
<1> QED
  BY <1>2, <1>3, <1>4, <1>5, <1>6 DEF Working, Moves

LEMMA StoreStep ==
  ASSUME ~RemovalMayFail, AtomicInv, BlessInv', [Next]_vars PROVE [Store!Next]_(Store!vars)
<1>1. CASE Begin
  BY <1>1, BeginStarts DEF Store!Next
<1>2. CASE Working
  BY <1>2, MovesImplement
<1>3. CASE UNCHANGED vars
  BY <1>3 DEF vars, Store!vars, Root, backup, Selected
<1> QED
  BY <1>1, <1>2, <1>3, StepWorks

\* When removals succeed, the transaction implements its promise: each change of
\* the baseline tree is whole, whichever rename fails and wherever a command is
\* killed.
THEOREM ImplementsStore == ASSUME ~RemovalMayFail PROVE Spec => ReplacesAtomically
<1>1. AtomicInv => BlessInv
  BY DEF AtomicInv
<1>2. AtomicInv /\ AtomicInv' /\ [Next]_vars => [Store!Next]_(Store!vars)
  BY StoreStep DEF AtomicInv
<1> QED
  BY StoreInit, AtomicAlways, <1>2, PTL DEF Spec, ReplacesAtomically, Store!Spec
=============================================================================
