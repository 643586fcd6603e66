----------------------------- MODULE Workspace -----------------------------
(***************************************************************************)
(* What a command prepares in the integration directory before it does      *)
(* anything else: the runtime assets an installed binary carries, the       *)
(* signing secrets, and the administrator's password.  Other processes      *)
(* prepare the same directory at the same time.                             *)
(***************************************************************************)
EXTENDS Command

VARIABLES
  assets,    \* the versioned asset directory: absent, complete, other
  unpacked,  \* has this command a temporary asset tree?
  file,      \* each secret file: absent, empty, opened by another process, or who wrote it
  mine       \* what this command read or wrote of each, "none" while nothing

workspaceVars == <<assets, unpacked, file, mine>>

SecretFile == {"secrets", "password"}
Content    == {"absent", "empty", "opened", "ours", "theirs"}
Written(c) == c \in {"ours", "theirs"}

WorkspaceInit ==
  /\ assets \in IF setting.repository THEN {"absent"} ELSE {"absent", "complete", "other"}
  /\ unpacked = FALSE
  /\ file = [f \in SecretFile |-> "absent"] /\ mine = [f \in SecretFile |-> "none"]

\* Nothing is managed yet: an error here is the end of the command.
LoadFails == GotoWith("ended", {"config"})

FileStep == [secrets |-> [read |-> "read secrets", create |-> "create secrets",
                          write |-> "write secrets", reread |-> "reread secrets",
                          done |-> "read password"],
             password |-> [read |-> "read password", create |-> "create password",
                           write |-> "write password", reread |-> "reread password",
                           done |-> FirstStep]]

\* A standalone command needs no control plane and so no secrets; those the environment gives are
\* not looked for in a file.
AfterAssets == IF Routed /\ ~setting.given THEN "read secrets" ELSE FirstStep

----------------------------------------------------------------------------
\* materialize_runtime_assets.  The repository's own directory serves as it is.

ValidAssets == assets = "complete"

FindAssets ==
  /\ at = "assets"
  /\ \/ setting.repository /\ Goto(AfterAssets)
     \/ ~setting.repository /\ ValidAssets /\ Goto(AfterAssets)
     \/ ~setting.repository /\ assets = "absent" /\ Goto("unpack")
     \/ ~setting.repository /\ LoadFails
  /\ UNCHANGED workspaceVars

\* write_asset_tree fills a temporary directory that no other process knows.
Unpack ==
  /\ at = "unpack"
  /\ \/ unpacked' = TRUE /\ Goto("activate")
     \/ unpacked' = FALSE /\ LoadFails
  /\ UNCHANGED <<assets, file, mine>>

\* The rename does not replace a directory another process has put there meanwhile, which then has
\* to be valid.  The temporary tree goes either way.
Activate ==
  /\ at = "activate"
  /\ unpacked' = FALSE
  /\ \/ assets = "absent" /\ assets' = "complete" /\ Goto(AfterAssets)
     \/ assets # "absent" /\ ValidAssets /\ Goto(AfterAssets) /\ UNCHANGED assets
     \/ LoadFails /\ UNCHANGED assets
  /\ UNCHANGED <<file, mine>>

----------------------------------------------------------------------------
\* Secret files.

\* parse_local_secrets refuses the signing secrets when one is missing or short; the password is
\* whatever the file holds.
Parsed(f) == f = "secrets" => Written(file[f])

TakeFile(f) ==
  \/ /\ Parsed(f)
     /\ mine' = [mine EXCEPT ![f] = IF Written(file[f]) THEN file[f] ELSE "empty"]
     /\ Goto(FileStep[f].done)
  \/ ~Parsed(f) /\ LoadFails /\ UNCHANGED mine

ReadFile(f) ==
  /\ at = FileStep[f].read
  /\ \/ file[f] = "absent" /\ Goto(FileStep[f].create) /\ UNCHANGED mine
     \/ file[f] # "absent" /\ TakeFile(f)
     \/ LoadFails /\ UNCHANGED mine
  /\ UNCHANGED <<assets, unpacked, file>>

\* The mistake of opening the file whether it is there or not.
BugCreateFile(f) ==
  /\ at = FileStep[f].create
  /\ \/ file' = [file EXCEPT ![f] = "empty"] /\ Goto(FileStep[f].write)
     \/ LoadFails /\ UNCHANGED file
  /\ UNCHANGED <<assets, unpacked, mine>>

\* create_private_file makes a new file or none.
CreateFile(f) ==
  /\ at = FileStep[f].create
  /\ \/ /\ file[f] = "absent"
        /\ file' = [file EXCEPT ![f] = "empty"] /\ Goto(FileStep[f].write)
     \/ file[f] # "absent" /\ Goto(FileStep[f].reread) /\ UNCHANGED file
     \/ LoadFails /\ UNCHANGED file
  /\ UNCHANGED <<assets, unpacked, mine>>

WriteFile(f) ==
  /\ at = FileStep[f].write
  /\ \/ /\ file' = [file EXCEPT ![f] = "ours"] /\ mine' = [mine EXCEPT ![f] = "ours"]
        /\ Goto(FileStep[f].done)
     \/ LoadFails /\ UNCHANGED <<file, mine>>
  /\ UNCHANGED <<assets, unpacked>>

\* Another process was first; it may not have written yet.
RereadFile(f) ==
  /\ at = FileStep[f].reread
  /\ TakeFile(f) \/ (LoadFails /\ UNCHANGED mine)
  /\ UNCHANGED <<assets, unpacked, file>>

WorkspaceNext ==
  \/ FindAssets \/ Unpack \/ Activate
  \/ \E f \in SecretFile : ReadFile(f) \/ CreateFile(f) \/ WriteFile(f) \/ RereadFile(f)

\* A kill leaves the temporary tree, under a name nothing looks at, and an unwritten file.
WorkspaceKilled == unpacked' = FALSE /\ UNCHANGED <<assets, file, mine>>

\* Another process prepares the same directory by the same steps.
OtherPrepares ==
  /\ \/ assets = "absent" /\ assets' = "complete" /\ UNCHANGED file
     \/ \E f \in SecretFile, c \in {"opened", "theirs"} :
          /\ file[f] \in {"absent", "opened"} \ {c}
          /\ file' = [file EXCEPT ![f] = c] /\ UNCHANGED assets
  /\ UNCHANGED <<unpacked, mine>>
=============================================================================
