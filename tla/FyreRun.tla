------------------------------- MODULE FyreRun -------------------------------
(***************************************************************************)
(* One FYRE run and the destroy commands for it: the run directory, the     *)
(* machines Terraform makes, the measurement of every scenario, the helpers *)
(* that are made bigger, the campaign's time bound, Ctrl-C and kills.       *)
(*                                                                         *)
(* Terraform is a process of its own, one at a time on a state (it locks    *)
(* it).  It makes a machine and then records it; killed between the two it  *)
(* leaves one nobody knows.  Its parent's kill does not stop it.  Commands  *)
(* that touch neither machines nor results may only fail.  Bug... operators *)
(* are plausible mistakes in the definition that follows them; they are not *)
(* part of the specification.                                               *)
(***************************************************************************)
EXTENDS Naturals, Sequences

CONSTANTS
  Machine,      \* the virtual machines of a scenario
  Scenarios,    \* scenarios of the matrix
  Sizes,        \* helper_sizes
  MaxDestroys,  \* destroy commands
  Concurrent    \* may one be given while the run is alive?

ASSUME FyreAssumption ==
  /\ Scenarios \in Nat \ {0} /\ Sizes \in Nat \ {0} /\ MaxDestroys \in Nat
  /\ Concurrent \in BOOLEAN

VARIABLES
  root,         \* does the run's directory exist?
  disk,         \* cleanup_required in run.json
  variables,    \* does the file with Terraform's variables exist?
  cloud,        \* the run's machines that exist
  tracked,      \* those in Terraform's state
  terraform,    \* the Terraform process that is running
  pc, attempt,  \* of the run, and of the current destroy command
  index, size, completed,  \* the run's locals
  request,      \* why the campaign command failed
  alloc,        \* the helper sizes of the machines
  results,      \* the results directory, by scenario
  archived,     \* the directories under invalidated
  seen,         \* cleanup_required as the destroy command read it
  exit,         \* how the run ended
  primary,      \* has the run failed before its cleanup?
  interrupted,  \* has Ctrl-C killed a command of the run's work?
  destroys,     \* destroy commands so far
  measured      \* the measurements that were completed

campaign == <<index, size, completed, request, alloc, results, archived, measured>>
machines == <<cloud, tracked, terraform>>
files    == <<root, disk, variables>>
outcome  == <<exit, primary, interrupted>>
command  == <<seen, destroys>>
vars     == <<campaign, machines, files, outcome, command, pc, attempt>>

Process  == {"run", "destroy"}
Role     == {"locust", "fast-time"}
Scenario == 1..Scenarios
Size     == 0..(Sizes - 1)

Result(state, a) == [state |-> state, alloc |-> a]
NoResult == Result("none", [r \in Role |-> 0])
NoProcess == [op |-> "none", by |-> "nobody", fresh |-> {}]
Running(op, p) == [op |-> op, by |-> p, fresh |-> {}]

Init ==
  /\ root = FALSE /\ disk = "none" /\ variables = FALSE
  /\ cloud = {} /\ tracked = {} /\ terraform = NoProcess
  /\ pc = [p \in Process |-> "idle"] /\ attempt = [p \in Process |-> 0]
  /\ index = 1 /\ size \in [Role -> Size] /\ completed = <<>>
  /\ request = "none" /\ alloc = size
  /\ results = [s \in Scenario |-> NoResult] /\ archived = {}
  /\ seen = "none" /\ exit = "none" /\ primary = "ok" /\ interrupted = FALSE
  /\ destroys = 0 /\ measured = {}

Goto(p, l) == pc' = [pc EXCEPT ![p] = l]

----------------------------------------------------------------------------
\* Terraform.

MakeMachine(m) ==
  /\ terraform.op = "apply" /\ m \notin cloud
  /\ cloud' = cloud \cup {m}
  /\ terraform' = [terraform EXCEPT !.fresh = @ \cup {m}]
  /\ UNCHANGED tracked

RecordMachine(m) ==
  /\ m \in terraform.fresh
  /\ tracked' = tracked \cup {m}
  /\ terraform' = [terraform EXCEPT !.fresh = @ \ {m}]
  /\ UNCHANGED cloud

DeleteMachine(m) ==
  /\ terraform.op = "destroy" /\ m \in tracked
  /\ cloud' = cloud \ {m}
  /\ tracked' = tracked \ {m}
  /\ UNCHANGED terraform

\* It ends by itself, having recorded what it made.
CanSucceed == tracked = IF terraform.op = "apply" THEN Machine ELSE {}
Ends(p, ok) ==
  /\ terraform.op # "none" /\ terraform.by = p /\ terraform.fresh = {}
  /\ ok => CanSucceed
  /\ terraform' = NoProcess
  /\ UNCHANGED <<cloud, tracked>>

\* It is killed, what it just made unrecorded.
Killed(p) ==
  /\ terraform.by = p
  /\ terraform' = NoProcess
  /\ UNCHANGED <<cloud, tracked>>

\* The process works, or ends when nobody waits for it any more.
Terraform ==
  /\ \/ \E m \in Machine : MakeMachine(m) \/ RecordMachine(m) \/ DeleteMachine(m)
     \/ Ends("nobody", FALSE)
  /\ UNCHANGED <<campaign, files, outcome, command, pc, attempt>>

----------------------------------------------------------------------------
\* The run, until its machines are wanted.

\* The first error ends the work; what follows is collecting and destroying.
Fail == Goto("run", "collecting") /\ primary' = "error"

\* Ctrl-C kills the command that is waited for; if that has just ended by itself,
\* Ctrl-C is without effect.
MayBeCtrlC == interrupted' \in {interrupted, TRUE}

\* A failure before the first state is written leaves a directory without one.
StartRun ==
  /\ pc["run"] = "idle" /\ ~root
  /\ \/ root' = TRUE /\ Goto("run", "write_state") /\ UNCHANGED exit
     \/ root' \in BOOLEAN /\ Goto("run", "ended") /\ exit' = "error"
  /\ UNCHANGED <<campaign, machines, disk, variables, primary, interrupted, command, attempt>>

\* A write that fails leaves the state as it was: it goes to another file first, which is
\* then renamed.
BugTruncated == "none"
Unwritten == disk

WriteFirstState ==
  /\ pc["run"] = "write_state"
  /\ \E written, terraformFound \in BOOLEAN :
       /\ disk' = IF written THEN "required" ELSE Unwritten
       /\ IF written /\ terraformFound
            THEN Goto("run", "prepare") /\ UNCHANGED exit
            ELSE Goto("run", "ended") /\ exit' = "error"
  /\ UNCHANGED <<campaign, machines, root, variables, primary, interrupted, command, attempt>>

\* terraform init and validate.
Prepare ==
  /\ pc["run"] = "prepare"
  /\ \/ Goto("run", "quota_state") /\ UNCHANGED <<primary, interrupted>>
     \/ Fail /\ MayBeCtrlC
  /\ UNCHANGED <<campaign, machines, files, exit, command, attempt>>

\* A state written in passing.
StateWritten(next) ==
  \/ disk' = "required" /\ Goto("run", next) /\ UNCHANGED primary
  \/ disk' = Unwritten /\ Fail

WriteQuotaState ==
  /\ pc["run"] = "quota_state"
  /\ StateWritten("quota")
  /\ UNCHANGED <<campaign, machines, root, variables, exit, interrupted, command, attempt>>

\* The refresh makes no machine; quota too small is one more way to fail.
CheckQuota ==
  /\ pc["run"] = "quota"
  /\ \/ /\ variables' = TRUE /\ terraform.op = "none"
        /\ Goto("run", "next") /\ UNCHANGED <<primary, interrupted>>
     \/ variables' \in {variables, TRUE} /\ Fail /\ MayBeCtrlC
  /\ UNCHANGED <<campaign, machines, root, disk, exit, command, attempt>>

----------------------------------------------------------------------------
\* The matrix.

NextScenario ==
  /\ pc["run"] = "next"
  /\ \/ index \in Scenario /\ StateWritten("apply")
     \/ index \notin Scenario /\ Goto("run", "manifest") /\ UNCHANGED <<disk, primary>>
  /\ UNCHANGED <<campaign, machines, root, variables, exit, interrupted, command, attempt>>

StartApply ==
  /\ pc["run"] = "apply"
  /\ \/ /\ variables' = TRUE /\ terraform.op = "none"
        /\ terraform' = Running("apply", "run")
        /\ Goto("run", "applying") /\ UNCHANGED primary
     \/ /\ variables' \in {variables, TRUE}
        /\ Fail /\ UNCHANGED terraform
  /\ UNCHANGED <<campaign, cloud, tracked, root, disk, exit, interrupted, command, attempt>>

ApplyEnds ==
  /\ pc["run"] = "applying"
  /\ \/ /\ Ends("run", TRUE)
        /\ alloc' = size
        /\ Goto("run", "reset") /\ UNCHANGED <<primary, interrupted>>
     \/ /\ \/ Ends("run", FALSE) /\ UNCHANGED interrupted
           \/ Killed("run") /\ interrupted' = TRUE
        /\ Fail /\ UNCHANGED alloc
  /\ UNCHANGED <<index, size, completed, request, results, archived, measured>>
  /\ UNCHANGED <<files, exit, command, attempt>>

\* Inventory, the scenario's empty directory, the state.
ResetResults ==
  /\ pc["run"] = "reset"
  /\ \/ /\ results' = [results EXCEPT ![index] = Result("partial", alloc)]
        /\ StateWritten("campaign")
     \/ results' \in {results, [results EXCEPT ![index] = NoResult]} /\ UNCHANGED disk /\ Fail
  /\ UNCHANGED <<index, size, completed, request, alloc, archived, measured>>
  /\ UNCHANGED <<machines, root, variables, exit, interrupted, command, attempt>>

CampaignSucceeds ==
  /\ pc["run"] = "campaign"
  /\ results' = [results EXCEPT ![index] = Result("done", alloc)]
  /\ measured' = measured \cup {<<index, alloc>>}
  /\ completed' = Append(completed, index)
  /\ StateWritten("next")
  /\ index' = IF pc'["run"] = "next" THEN index + 1 ELSE index
  /\ UNCHANGED <<size, request, alloc, archived, machines, root, variables>>
  /\ UNCHANGED <<exit, interrupted, command, attempt>>

CampaignFails ==
  /\ pc["run"] = "campaign"
  /\ \/ request' \in Role /\ UNCHANGED interrupted
     \/ request' = "error" /\ MayBeCtrlC
  /\ Goto("run", "collect")
  /\ UNCHANGED <<index, size, completed, alloc, results, archived, measured>>
  /\ UNCHANGED <<machines, files, exit, primary, command, attempt>>

\* The last recovery of artifacts, Ctrl-C in it included, changes nothing; the request
\* of the saturated helper may be unreadable.
Collect ==
  /\ pc["run"] = "collect"
  /\ MayBeCtrlC
  /\ \/ request \in Role /\ Goto("run", "grow") /\ UNCHANGED primary
     \/ Fail
  /\ UNCHANGED <<campaign, machines, files, exit, command, attempt>>

BugGrown(n) == IF n + 1 < Sizes THEN n + 1 ELSE n
Grown(n) == n + 1

BugToArchive == {index}
ToArchive == Scenario

BugRestart == index
Restart == 1

\* A saturated helper grows, what was measured is put aside, and the matrix starts
\* over; renames before a failing one have happened.
Archive(S, role) ==
  /\ archived' = archived \cup
       {[role |-> role, size |-> Grown(size[role]), at |-> index, scenario |-> s,
         result |-> results[s]] : s \in {t \in S : results[t].state # "none"}}
  /\ results' = [s \in Scenario |-> IF s \in S THEN NoResult ELSE results[s]]

GrowHelper ==
  /\ pc["run"] = "grow"
  /\ size' = [size EXCEPT ![request] = Grown(@)]
  /\ \/ /\ Grown(size[request]) >= Sizes
        /\ Fail /\ UNCHANGED <<results, archived, completed, index>>
     \/ /\ Grown(size[request]) < Sizes
        /\ Archive(ToArchive, request)
        /\ completed' = <<>>
        /\ index' = Restart
        /\ Goto("run", "next") /\ UNCHANGED primary
     \/ /\ Grown(size[request]) < Sizes
        /\ \E S \in SUBSET Scenario : Archive(S, request)
        /\ Fail /\ UNCHANGED <<completed, index>>
  /\ UNCHANGED <<request, alloc, measured, machines, files, exit, interrupted, command, attempt>>

\* The time bound drops the command that is waited for, which kills it.
Timeout ==
  /\ pc["run"] \in {"applying", "campaign", "collect"}
  /\ IF pc["run"] = "applying" THEN Killed("run") ELSE UNCHANGED machines
  /\ request' = "error"
  /\ Goto("run", "collect")
  /\ UNCHANGED <<index, size, completed, alloc, results, archived, measured>>
  /\ UNCHANGED <<files, outcome, command, attempt>>

----------------------------------------------------------------------------
\* The end of the run.

WriteManifest ==
  /\ pc["run"] = "manifest"
  /\ (Goto("run", "collecting") /\ UNCHANGED primary) \/ Fail
  /\ UNCHANGED <<campaign, machines, files, exit, interrupted, command, attempt>>

\* States whose write may fail unnoticed.
Collecting ==
  /\ pc["run"] = "collecting"
  /\ disk' \in {Unwritten, "required"}
  /\ Goto("run", IF primary = "ok" THEN "report" ELSE "destroying")
  /\ UNCHANGED <<campaign, machines, root, variables, outcome, command, attempt>>

Report ==
  /\ pc["run"] = "report"
  /\ \/ UNCHANGED <<primary, interrupted>>
     \/ primary' = "error" /\ MayBeCtrlC
  /\ Goto("run", "destroying")
  /\ UNCHANGED <<campaign, machines, files, exit, command, attempt>>

Destroying ==
  /\ pc["run"] = "destroying"
  /\ disk' \in {Unwritten, "required"}
  /\ Goto("run", "destroy")
  /\ UNCHANGED <<campaign, machines, root, variables, outcome, command, attempt>>

BugOneMoreAttempt(n) == n < 3
MoreAttempts(n) == n + 1 < 3

\* One attempt of terraform_destroy is over.
AttemptFails(p) ==
  /\ attempt' = [attempt EXCEPT ![p] = IF MoreAttempts(@) THEN @ + 1 ELSE 0]
  /\ Goto(p, IF MoreAttempts(attempt[p]) THEN "destroy" ELSE "unclean")

\* Nothing to destroy, a process, or one that finds the state locked.
StartDestroy(p) ==
  /\ pc[p] = "destroy"
  /\ \/ ~variables /\ Goto(p, "clean") /\ UNCHANGED <<terraform, attempt>>
     \/ /\ variables /\ terraform.op = "none"
        /\ terraform' = Running("destroy", p)
        /\ Goto(p, "waiting") /\ UNCHANGED attempt
     \/ variables /\ AttemptFails(p) /\ UNCHANGED terraform
  /\ UNCHANGED <<campaign, cloud, tracked, files, outcome, command>>

BugCleaned(ok) == TRUE
Cleaned(ok) == ok

DestroyEnds(p) ==
  /\ pc[p] = "waiting"
  /\ \E ok \in BOOLEAN :
       /\ Ends(p, ok) \/ (~ok /\ Killed(p))
       /\ IF Cleaned(ok) THEN Goto(p, "clean") /\ attempt' = [attempt EXCEPT ![p] = 0]
                         ELSE AttemptFails(p)
  /\ UNCHANGED <<campaign, files, outcome, command>>

Finish ==
  /\ pc["run"] \in {"clean", "unclean"}
  /\ disk' \in {Unwritten, IF pc["run"] = "clean" THEN "done" ELSE "required"}
  /\ exit' = IF primary = "ok" /\ pc["run"] = "clean" THEN "ok" ELSE "error"
  /\ Goto("run", "ended")
  /\ UNCHANGED <<campaign, machines, root, variables, primary, interrupted, command, attempt>>

\* A kill; a process that was waited for goes on.
Orphaned(p) == terraform' = [terraform EXCEPT !.by = IF @ = p THEN "nobody" ELSE @]

KillRun ==
  /\ pc["run"] \notin {"idle", "ended"}
  /\ Orphaned("run")
  /\ exit' = "killed"
  /\ Goto("run", "ended")
  /\ UNCHANGED <<campaign, cloud, tracked, files, primary, interrupted, command, attempt>>

----------------------------------------------------------------------------
\* The destroy command; without a state that can be read it refuses.

StartCommand ==
  /\ pc["destroy"] = "idle" /\ destroys < MaxDestroys
  /\ Concurrent \/ pc["run"] \in {"idle", "ended"}
  /\ disk # "none"
  /\ destroys' = destroys + 1
  /\ seen' = disk
  /\ Goto("destroy", "write")
  /\ UNCHANGED <<campaign, machines, files, outcome, attempt>>

WriteDestroying ==
  /\ pc["destroy"] = "write"
  /\ \/ disk' = seen /\ Goto("destroy", "destroy")
     \/ disk' = Unwritten /\ Goto("destroy", "idle")
  /\ UNCHANGED <<campaign, machines, root, variables, outcome, command, attempt>>

WriteDestroyed ==
  /\ pc["destroy"] \in {"clean", "unclean"}
  /\ disk' \in {Unwritten} \cup IF pc["destroy"] = "clean" THEN {"done"} ELSE {}
  /\ Goto("destroy", "idle")
  /\ UNCHANGED <<campaign, machines, root, variables, outcome, command, attempt>>

KillCommand ==
  /\ pc["destroy"] # "idle"
  /\ Orphaned("destroy")
  /\ Goto("destroy", "idle") /\ attempt' = [attempt EXCEPT !["destroy"] = 0]
  /\ UNCHANGED <<campaign, cloud, tracked, files, outcome, command>>

----------------------------------------------------------------------------
Run ==
  \/ WriteFirstState \/ Prepare \/ WriteQuotaState \/ CheckQuota
  \/ NextScenario \/ StartApply \/ ApplyEnds \/ ResetResults
  \/ CampaignSucceeds \/ CampaignFails \/ Collect \/ GrowHelper
  \/ WriteManifest \/ Collecting \/ Report \/ Destroying \/ Finish
  \/ StartDestroy("run") \/ DestroyEnds("run")

Command ==
  \/ StartCommand \/ WriteDestroying \/ WriteDestroyed \/ KillCommand
  \/ StartDestroy("destroy") \/ DestroyEnds("destroy")

Finished == pc["run"] = "ended" /\ UNCHANGED vars

Next == StartRun \/ Run \/ Timeout \/ KillRun \/ Command \/ Terraform \/ Finished

Spec == Init /\ [][Next]_vars

\* Every command the run waits for ends.
FairSpec == Spec /\ WF_vars(Run) /\ WF_vars(Terraform)

----------------------------------------------------------------------------
\* Properties.

RunPhases == {"idle", "write_state", "prepare", "quota_state", "quota", "next", "apply",
  "applying", "reset", "campaign", "collect", "grow", "manifest", "collecting", "report",
  "destroying", "destroy", "waiting", "clean", "unclean", "ended"}
CommandPhases == {"idle", "write", "destroy", "waiting", "clean", "unclean"}

Alloc  == [Role -> Size]

TypeOK ==
  /\ root \in BOOLEAN /\ variables \in BOOLEAN
  /\ disk \in {"none", "required", "done"} /\ seen \in {"none", "required", "done"}
  /\ cloud \subseteq Machine /\ tracked \subseteq cloud
  /\ terraform \in [op: {"none", "apply", "destroy"}, by: Process \cup {"nobody"},
                    fresh: SUBSET Machine]
  /\ pc \in [Process -> RunPhases \cup CommandPhases]
  /\ pc["run"] \in RunPhases /\ pc["destroy"] \in CommandPhases
  /\ attempt \in [Process -> 0..2]
  /\ index \in 1..(Scenarios + 1) /\ completed \in Seq(Scenario)
  /\ size \in [Role -> 0..Sizes] /\ alloc \in Alloc
  /\ request \in Role \cup {"none", "error"}
  /\ results \in [Scenario -> [state: {"none", "partial", "done"}, alloc: Alloc]]
  /\ measured \subseteq (Scenario \X Alloc)
  /\ exit \in {"none", "ok", "error", "killed"} /\ primary \in {"ok", "error"}
  /\ interrupted \in BOOLEAN /\ destroys \in 0..MaxDestroys

\* As soon as and as long as a machine exists, the destroy command accepts the run
\* and has the variables it needs: kills, failed writes and timeouts included.
Destroyable == cloud # {} => root /\ disk # "none" /\ variables

\* A run that ended well, and one whose state says that no cleanup is required, has no
\* machine that Terraform knows of, whatever was left running by whom.
ReleasedMeansGone == disk = "done" \/ exit = "ok" => tracked = {}

\* What is reported is one row for every scenario, in order, all measured with the
\* helper sizes the run ended with.
OneAllocation ==
  pc["run"] = "report" \/ exit = "ok" =>
    /\ \A s \in Scenario : results[s] = Result("done", size)
    /\ completed = [s \in Scenario |-> s]

\* No completed measurement is ever lost: it is among the results, or put aside under
\* a name of its own.
MeasurementsKept ==
  /\ \A m \in measured :
       \/ results[m[1]] = Result("done", m[2])
       \/ \E a \in archived : a.scenario = m[1] /\ a.result = Result("done", m[2])
  /\ \A a, b \in archived : a = b \/ <<a.role, a.size, a.at, a.scenario>>
                                     # <<b.role, b.size, b.at, b.scenario>>

\* The run ends: helpers do not grow for ever, and the cleanup gives up.
RunEnds == pc["run"] # "idle" ~> pc["run"] = "ended"

\* Once Ctrl-C has killed one of its commands the run makes no more machines.
InterruptedRunStops ==
  [][interrupted /\ terraform.op # "apply" => terraform'.op # "apply"]_vars
=============================================================================
