--------------------------- MODULE BaselineBless ---------------------------
(***************************************************************************)
(* bless_baselines_transactionally: a tree of checked-in baseline files is *)
(* replaced by a copy with the selected files rewritten, through a staging *)
(* directory, a backup, two renames and a rollback; commands that bless    *)
(* run one after another, and any of them may be killed.                   *)
(*                                                                         *)
(* A directory is the set of its <<path, version>> files; version 0 is     *)
(* what was checked in, n what the n-th command wrote.  A rename is atomic,*)
(* every operation may fail, and a recursive removal that fails may have   *)
(* removed any part.  Bug... operators are plausible mistakes in the       *)
(* definition that follows them; they are not part of the specification.   *)
(***************************************************************************)
EXTENDS Naturals, Sequences

CONSTANTS
  Path,            \* baseline files, relative to the root
  Selections,      \* lists of updates a command may bless
  MaxRuns,         \* commands run one after another
  RemovalMayFail,  \* whether remove_dir_all can fail
  Crashes          \* whether a command can be killed

ASSUME BlessAssumption ==
  /\ Selections \subseteq Seq(Path)
  /\ MaxRuns \in Nat
  /\ RemovalMayFail \in BOOLEAN
  /\ Crashes \in BOOLEAN

VARIABLES
  dirs,        \* the directories that exist
  files,       \* the files of each directory
  n,           \* the commands started so far
  pc,          \* the operation the command is at, "idle" outside a command
  updates,     \* the updates it blesses
  done,        \* how many of them are staged
  rootExists,  \* whether it found a baseline root
  armed,       \* directories whose guard is armed
  result,      \* of the last command: none yet, ok, error, killed
  before,      \* history: the root's files when the command started
  known        \* history: the paths the root had when any command started

vars == <<dirs, files, n, pc, updates, done, rootExists, armed, result, before, known>>

Version == 0..MaxRuns
File    == Path \X Version

Root     == <<"root", 0>>
Stage(i) == <<"stage", i>>
Saved(i) == <<"backup", i>>
Dir      == {Root} \cup ({"stage", "backup"} \X (1..MaxRuns))

BugStagedInPlace == Root
staging == Stage(n)
backup  == Saved(n)

Selected == {updates[i] : i \in 1..Len(updates)}

Names(tree) == {f[1] : f \in tree}

\* A tree with the files of a selection rewritten by the i-th command.
Override(tree, selection, i) ==
  {f \in tree : f[1] \notin selection} \cup (selection \X {i})

----------------------------------------------------------------------------
Init ==
  /\ \E checkedIn \in SUBSET Path, present \in BOOLEAN :
       /\ ~present => checkedIn = {}
       /\ dirs = IF present THEN {Root} ELSE {}
       /\ files = [d \in Dir |-> IF d = Root THEN checkedIn \X {0} ELSE {}]
       /\ before = checkedIn \X {0}
       /\ known = checkedIn
  /\ n = 0
  /\ pc = "idle"
  /\ updates = <<>>
  /\ done = 0
  /\ rootExists = FALSE
  /\ armed = {}
  /\ result = "none"

\* fs::rename of one directory to a name that is free or an empty directory.
CanRename(to) == to \notin dirs \/ files[to] = {}

Rename(from, to) ==
  /\ dirs' = (dirs \ {from}) \cup {to}
  /\ files' = [files EXCEPT ![to] = files[from], ![from] = {}]

\* fs::remove_dir_all; a removal that fails leaves the directory itself.
RemoveDir(d, ok) ==
  \/ /\ ok
     /\ dirs' = dirs \ {d}
     /\ files' = [files EXCEPT ![d] = {}]
  \/ /\ ~ok /\ RemovalMayFail /\ d \in dirs
     /\ \E left \in SUBSET files[d] : files' = [files EXCEPT ![d] = left]
     /\ UNCHANGED dirs

Bail(ok, next) ==
  /\ pc' = IF ok THEN next ELSE "drop_backup"
  /\ result' = IF ok THEN result ELSE "error"

\* A command reaches its bless: the names of its own staging and backup
\* directories are fresh.
Begin ==
  /\ pc = "idle" /\ n < MaxRuns
  /\ n' = n + 1
  /\ updates' \in Selections
  /\ done' = 0
  /\ rootExists' = FALSE
  /\ before' = files[Root]
  /\ known' = known \cup Names(files[Root])
  /\ IF updates' = <<>>
       THEN pc' = "idle" /\ result' = "error" /\ armed' = {}
       ELSE pc' = "stage" /\ result' = "none" /\ armed' = {"stage", "backup"}
  /\ UNCHANGED <<dirs, files>>

CreateStaging ==
  /\ pc = "stage"
  /\ \E ok \in BOOLEAN :
       /\ dirs' = IF ok THEN dirs \cup {staging} ELSE dirs
       /\ Bail(ok, "copy")
  /\ UNCHANGED <<files, n, updates, done, rootExists, armed, before, known>>

\* What copy_directory has copied when it succeeds, and at most when it fails.
BugCopySkipsUnselected == {f \in files[Root] : f[1] \in Selected}
Copied == files[Root]

CopyRoot ==
  /\ pc = "copy"
  /\ rootExists' = (Root \in dirs)
  /\ \E ok \in BOOLEAN, copy \in SUBSET Copied :
       /\ ok => copy = Copied
       /\ files' = [files EXCEPT ![staging] = copy]
       /\ Bail(ok, "write")
  /\ UNCHANGED <<dirs, n, updates, done, armed, before, known>>

\* Stages one update; a second update of the same path is refused.  What was
\* written may fail to read back.
WriteUpdate ==
  /\ pc = "write" /\ done < Len(updates)
  /\ LET path == updates[done + 1]
         again == \E i \in 1..done : updates[i] = path
     IN  \E ok, written \in BOOLEAN :
           /\ ok => written
           /\ again => ~written
           /\ files' = IF written THEN [files EXCEPT ![staging] = Override(@, {path}, n)]
                                  ELSE files
           /\ done' = IF ok THEN done + 1 ELSE done
           /\ Bail(ok, "write")
  /\ UNCHANGED <<dirs, n, updates, rootExists, armed, before, known>>

\* The old root is moved away.
BackUpRoot ==
  /\ pc = "write" /\ done = Len(updates) /\ rootExists
  /\ \E ok \in BOOLEAN :
       /\ IF ok THEN Rename(Root, backup) ELSE UNCHANGED <<dirs, files>>
       /\ Bail(ok, "install")
  /\ UNCHANGED <<n, updates, done, rootExists, armed, before, known>>

\* The staged tree becomes the root.
InstallOver ==
  /\ pc = "install"
  /\ \/ Rename(staging, Root) /\ pc' = "purge"
     \/ UNCHANGED <<dirs, files>> /\ pc' = "rollback"
  /\ UNCHANGED <<n, updates, done, rootExists, armed, result, before, known>>

InstallFirst ==
  /\ pc = "write" /\ done = Len(updates) /\ ~rootExists
  /\ \/ /\ CanRename(Root)
        /\ Rename(staging, Root)
        /\ pc' = "idle" /\ result' = "ok" /\ armed' = {}
     \/ UNCHANGED <<dirs, files, armed>> /\ Bail(FALSE, "idle")
  /\ UNCHANGED <<n, updates, done, rootExists, before, known>>

\* The guards after a rollback: what could not be put back is kept.
BugBackupDropped(restored) == armed
AfterRollback(restored) == IF restored THEN armed ELSE armed \ {"backup"}

Rollback ==
  /\ pc = "rollback"
  /\ \E ok \in BOOLEAN :
       /\ IF ok THEN Rename(backup, Root) ELSE UNCHANGED <<dirs, files>>
       /\ armed' = AfterRollback(ok)
       /\ Bail(FALSE, "idle")
  /\ UNCHANGED <<n, updates, done, rootExists, before, known>>

PurgeBackup ==
  /\ pc = "purge"
  /\ \E ok \in BOOLEAN :
       /\ RemoveDir(backup, ok)
       /\ IF ok THEN pc' = "idle" /\ result' = "ok" /\ armed' = {}
                ELSE pc' = "undo" /\ UNCHANGED <<result, armed>>
  /\ UNCHANGED <<n, updates, done, rootExists, before, known>>

\* The backup could not be removed: the new root is moved back to staging and
\* what is left of the old one is put in its place.
UndoInstall ==
  /\ pc = "undo"
  /\ \/ Rename(Root, staging) /\ UNCHANGED armed
     \/ UNCHANGED <<dirs, files>> /\ armed' = armed \ {"stage"}
  /\ pc' = "restore"
  /\ UNCHANGED <<n, updates, done, rootExists, result, before, known>>

RestoreBackup ==
  /\ pc = "restore"
  /\ \/ CanRename(Root) /\ Rename(backup, Root) /\ UNCHANGED armed
     \/ UNCHANGED <<dirs, files>> /\ armed' = {}
  /\ Bail(FALSE, "idle")
  /\ UNCHANGED <<n, updates, done, rootExists, before, known>>

\* DirectoryGuard::drop, in reverse order of declaration; errors are ignored.
DropGuard(kind, d, next) ==
  /\ IF kind \in armed THEN \E ok \in BOOLEAN : RemoveDir(d, ok)
                       ELSE UNCHANGED <<dirs, files>>
  /\ pc' = next
  /\ UNCHANGED <<n, updates, done, rootExists, armed, result, before, known>>

DropBackup  == pc = "drop_backup" /\ DropGuard("backup", backup, "drop_stage")
DropStaging == pc = "drop_stage" /\ DropGuard("stage", staging, "idle")

\* The command is killed; a removal it was in may be half done.
Removing == CASE pc \in {"purge", "drop_backup"} -> {backup}
              [] pc = "drop_stage" -> {staging}
              [] OTHER -> {}

Crash ==
  /\ Crashes /\ pc # "idle"
  /\ pc' = "idle"
  /\ result' = "killed"
  /\ \/ UNCHANGED files
     \/ \E d \in Removing : d[1] \in armed /\
          \E left \in SUBSET files[d] : files' = [files EXCEPT ![d] = left]
  /\ UNCHANGED <<dirs, n, updates, done, rootExists, armed, before, known>>

Finished == pc = "idle" /\ n = MaxRuns /\ UNCHANGED vars

Next ==
  \/ Begin \/ CreateStaging \/ CopyRoot \/ WriteUpdate
  \/ BackUpRoot \/ InstallOver \/ InstallFirst \/ Rollback
  \/ PurgeBackup \/ UndoInstall \/ RestoreBackup
  \/ DropBackup \/ DropStaging \/ Crash \/ Finished

Spec == Init /\ [][Next]_vars

----------------------------------------------------------------------------
\* Properties.

Phases == {"idle", "stage", "copy", "write", "install", "rollback", "purge", "undo",
           "restore", "drop_backup", "drop_stage"}

TypeOK ==
  /\ dirs \subseteq Dir
  /\ files \in [Dir -> SUBSET File]
  /\ n \in 0..MaxRuns
  /\ pc \in Phases
  /\ updates \in {<<>>} \cup Selections
  /\ done \in 0..Len(updates)
  /\ rootExists \in BOOLEAN
  /\ armed \subseteq {"stage", "backup"}
  /\ result \in {"none", "ok", "error", "killed"}
  /\ before \subseteq File

\* A command that reports success has replaced exactly the selected files of the
\* tree it started from, and left neither staging nor backup behind.
SuccessInstalls ==
  result = "ok" =>
    /\ Root \in dirs /\ files[Root] = Override(before, Selected, n)
    /\ dirs \cap {staging, backup} = {}

\* A command that reports an error has changed nothing, or kept the whole tree
\* it started from in its backup directory.
ErrorKeepsTree ==
  pc = "idle" /\ result = "error" =>
    \/ files[Root] = before
    \/ Root \notin dirs /\ backup \in dirs /\ files[backup] = before

\* Whatever fails and whenever a command is killed, a baseline that any command
\* found at the root is still in some directory, be it rewritten.
NothingLost == \A p \in known : \E d \in dirs : p \in Names(files[d])

\* Old and new files never mix at the root, whatever fails: it holds the finished
\* tree or files of the old one, if not always all of them.
NeverMixed ==
  files[Root] = Override(before, Selected, n) \/ files[Root] \subseteq before

\* The tree a reader of the code has in mind: the root, or, while it is moved
\* away, the backup of the command that moved it.
Store ==
  INSTANCE BaselineStore WITH
    tree      <- IF Root \in dirs THEN files[Root]
                 ELSE IF backup \in dirs THEN files[backup] ELSE {},
    present   <- Root \in dirs,
    command   <- n,
    selection <- Selected

\* The renames implement the promise: every change of the tree at the root is
\* whole, whichever rename fails and wherever the command is killed.
ReplacesAtomically == Store!Spec
=============================================================================
