--------------------------- MODULE StackLifecycle ---------------------------
(***************************************************************************)
(* The two Compose projects: how a command chooses its images, decides what *)
(* to build and pull, brings a stack up, and takes stacks down.  The routed *)
(* and the standalone stack of the external lane are the same project.      *)
(*                                                                         *)
(* Control-plane images are tags named for a revision of main.  The         *)
(* dataplane image is one tag: in source mode its content is the revision   *)
(* in its label, else the published version.  Of what Compose is given the  *)
(* files are kept, by what they are for; environment, mounts and host ports *)
(* are left out.                                                            *)
(***************************************************************************)
EXTENDS Checkout, FiniteSets

VARIABLES
  published,   \* newest revision with a published control-plane image
  wanted,      \* control-plane image this process resolved, 0 while none
  local,       \* images of the local daemon: control-plane tags, dataplane content (0: none)
  build,       \* does this command build?
  stack,       \* containers of each project
  data,        \* volumes of each project: none, older than this command, made by it
  telemetry,   \* is the telemetry project up? (nothing takes it down)
  sweeping     \* lanes this command still has to take down

stackVars == <<published, wanted, local, build, stack, data, telemetry, sweeping>>

Down == [up |-> "none", files |-> {}, cp |-> 0, dp |-> 0, tool |-> "none"]

StackInit ==
  /\ published = 1 /\ wanted = 0 /\ build = FALSE /\ telemetry = FALSE /\ sweeping = <<>>
  /\ local = [cp |-> {}, dp |-> 0]
  /\ stack = [l \in LaneName |-> Down]
  /\ data = [l \in LaneName |-> "none"]

HasRunning(l) == stack[l].up # "none" \/ stack[l].tool = "running"
StackFails == Fail /\ UNCHANGED stackVars
Proceed(step) == Goto(step) /\ UNCHANGED stackVars

----------------------------------------------------------------------------
\* Compose projects.

SourceFiles       == IF setting.source THEN {"dataplane build"} ELSE {}
DataplaneFiles    == {"dataplane"} \cup SourceFiles
ControlplaneFiles == {"controlplane"}
StandaloneFiles   == {"standalone"} \cup SourceFiles

Observed(files) == files \cup {"telemetry"}

RoutedProject(l) == IF l = "external" THEN DataplaneFiles ELSE ControlplaneFiles

\* stack up prepares the stack for the conformance fixture it starts.
RuntimeProject(l) == Observed(RoutedProject(l)) \cup {"runtime"}

\* A session brings up the lane's stack, a load test on the builtin lane with direct connections.
PerformanceProject ==
  LET files == RoutedProject(Lane)
                 \cup (IF command.op = "load" /\ ~External THEN {"load"} ELSE {})
  IN IF command.telemetry THEN Observed(files) ELSE files

StandaloneProject == IF command.telemetry THEN Observed(StandaloneFiles) ELSE StandaloneFiles

ProjectFiles == IF Routed
                  THEN IF command.op = "up" THEN RuntimeProject(Lane) ELSE PerformanceProject
                  ELSE StandaloneProject

----------------------------------------------------------------------------
\* Images.

\* latest_published_controlplane_image takes a revision whose manifest cannot be read for one
\* that is not published.
Resolvable == {r \in 1..tree["controlplane"].fetched : r <= published}

\* The revisions in the label of the dataplane image and of the source it is to be built from.
ImageRevision    == local.dp
SourceRevision   == tree["dataplane"].head
MatchingRevision == ImageRevision # 0 /\ ImageRevision = SourceRevision

\* In automatic mode a stale or missing dataplane source image is built; the control plane's is
\* prebuilt.
AutoBuild == External /\ setting.source /\ ~MatchingRevision

ResolveBuild == setting.build = "always" \/ (setting.build = "auto" /\ AutoBuild)

\* The first Compose command of a process that names the control-plane image resolves it, once.
ComposeEnvironment ==
  IF Routed /\ wanted = 0 THEN wanted' \in Resolvable ELSE UNCHANGED wanted

KeepsStack == UNCHANGED <<published, local, stack, data, telemetry, sweeping>>

\* The Compose files of the external lane, rendered, have to keep the contract.
ValidateContract ==
  /\ at = "contract"
  /\ \/ ComposeEnvironment /\ Goto("build") /\ UNCHANGED build /\ KeepsStack
     \/ StackFails

\* The control-plane image is resolved first, whatever is built.
DecideBuild ==
  /\ at = "build" /\ Routed
  /\ \/ ComposeEnvironment /\ build' = ResolveBuild /\ Goto("pull cp") /\ KeepsStack
     \/ StackFails

DecideStandaloneBuild ==
  /\ at = "build" /\ ~Routed
  /\ \/ build' = ResolveBuild /\ Goto("pull dp") /\ UNCHANGED wanted /\ KeepsStack
     \/ StackFails

\* pull_if_changed: an image that is there will do when the registry does not answer, and has
\* to do when the policy is never.
PullIfChanged(present, pulled, step) ==
  \/ present /\ Proceed(step)
  \/ /\ setting.pull = "always"
     /\ local' = pulled /\ Goto(step)
     /\ UNCHANGED <<published, wanted, build, stack, data, telemetry, sweeping>>
  \/ StackFails

PullControlplane ==
  /\ at = "pull cp"
  /\ IF ~build
       THEN PullIfChanged(wanted \in local.cp, [local EXCEPT !.cp = @ \cup {wanted}], "pull dp")
       ELSE Proceed("pull dp")

PullDataplane ==
  /\ at = "pull dp"
  /\ IF External /\ ~setting.source /\ (Routed \/ ~build)
       THEN PullIfChanged(local.dp # 0, [local EXCEPT !.dp = upstream["dataplane"]], "decide")
       ELSE Proceed("decide")

----------------------------------------------------------------------------
\* Up.

\* What runs: the services of the routed stack, each with the image of its container.
Snapshot == [services |-> stack["external"].up = "full" /\ "dataplane" \in stack["external"].files,
             cp |-> stack["external"].cp, dp |-> stack["external"].dp]

\* The mistake of comparing the revisions but not what the dataplane container was made from.
BugCurrent ==
  /\ Snapshot.services /\ Snapshot.cp = wanted
  /\ setting.source => MatchingRevision

\* The freshness comparison knows images and revisions, nothing else.
Current ==
  /\ Snapshot.services /\ Snapshot.cp = wanted /\ Snapshot.dp = local.dp
  /\ setting.source => MatchingRevision

MayReuse == External /\ Routed /\ ~command.telemetry /\ ~command.fresh

Reusable == MayReuse /\ ~build /\ Current

Decide ==
  /\ at = "decide"
  /\ \/ Reusable /\ Proceed("wait")
     \/ ~Reusable /\ ~command.fresh /\ Proceed("other")
     \/ /\ ~Reusable /\ command.fresh
        /\ sweeping' = <<Lane>> /\ Goto("compose down")
        /\ UNCHANGED <<published, wanted, local, build, stack, data, telemetry>>
     \/ StackFails

EnsureOtherStopped(step) ==
  \/ ~HasRunning(Other(Lane)) /\ Proceed(step)
  \/ StackFails

CheckOther == at = "other" /\ EnsureOtherStopped(IF command.telemetry THEN "telemetry" ELSE "up")

StartTelemetry ==
  /\ at = "telemetry"
  /\ \/ telemetry' = TRUE /\ Goto("up")
        /\ UNCHANGED <<published, wanted, local, build, stack, data, sweeping>>
     \/ StackFails

\* What Compose has locally after it built and pulled as compose_pull_policies says.
Prepared ==
  [cp |-> local.cp \cup (IF Routed THEN {wanted} ELSE {}),
   dp |-> CASE ~External                            -> local.dp
            [] setting.source                       -> IF build THEN SourceRevision
                                                                ELSE local.dp
            [] ~setting.source /\ setting.pull = "always" -> upstream["dataplane"]
            [] ~setting.source /\ setting.pull = "never"  -> local.dp]

\* Images Compose may neither pull nor build have to be there.
Available ==
  /\ Routed => wanted \in local.cp \/ build \/ setting.pull = "always"
  /\ External => Prepared.dp # 0

NewData == [data EXCEPT ![Lane] = IF @ = "none" THEN "new" ELSE @]

\* Compose recreates what changed.  It fails on the host ports of another stack, and may fail
\* after the images are made, or with some of the containers.
Up ==
  /\ at = "up"
  /\ \/ /\ Available /\ stack[Other(Lane)].up # "full"
        /\ local' = Prepared
        /\ stack' = [stack EXCEPT ![Lane] =
             [@ EXCEPT !.up = "full", !.files = ProjectFiles, !.cp = wanted,
                       !.dp = IF External THEN Prepared.dp ELSE 0]]
        /\ data' = NewData
        /\ Goto("wait")
     \/ /\ Fail
        /\ local' \in {local} \cup (IF Available THEN {Prepared} ELSE {})
        /\ \/ UNCHANGED <<stack, data>>
           \/ stack' = [stack EXCEPT ![Lane].up = "some"] /\ data' = NewData
  /\ UNCHANGED <<published, wanted, build, telemetry, sweeping>>

\* From a stack that answers: stack up and a standalone session start a fixture in it.
AfterUp == IF command.op = "up" \/ ~Routed THEN "fixture" ELSE "prepare"

\* wait_for_http_endpoint polls until its deadline: only a whole stack answers.
WaitForEndpoint ==
  /\ at = "wait"
  /\ \/ stack[Lane].up = "full" /\ Proceed(AfterUp)
     \/ StackFails

\* stack up ends with the routed stack's fixture; a standalone stack gets its token and its
\* routing configuration next.
AfterFixture == IF Routed THEN "ended" ELSE "token"

Started == stack' = [stack EXCEPT ![Lane].up = IF @ = "none" THEN "some" ELSE @]

\* Its image is built or pulled before its containers start in the project.
StartFixture ==
  /\ at = "fixture" /\ command.op # "load"
  /\ \/ Started /\ Goto(AfterFixture)
     \/ Fail /\ (UNCHANGED stack \/ Started)
  /\ UNCHANGED <<published, wanted, local, build, data, telemetry, sweeping>>

\* The backend of a standalone load test is one service of the project.
StartFastTime ==
  /\ at = "fixture" /\ command.op = "load"
  /\ \/ Started /\ Goto(AfterFixture)
     \/ Fail /\ (UNCHANGED stack \/ Started)
  /\ UNCHANGED <<published, wanted, local, build, data, telemetry, sweeping>>

----------------------------------------------------------------------------
\* Down.

Swept(l) ==
  /\ stack' = [stack EXCEPT ![l] = Down]
  /\ data' = [data EXCEPT ![l] = IF command.fresh THEN "none" ELSE @]

\* A failed removal may have taken some of the containers.
Partly(l) == stack' = stack \/ (stack[l].up = "full" /\ stack' = [stack EXCEPT ![l].up = "some"])

\* Where a sweep leads: a fresh start goes on when all of it succeeded.
AfterSweep(failed) ==
  CASE Tail(sweeping) # <<>>                           -> "compose down"
    [] Tail(sweeping) = <<>> /\ command.op = "up"
         /\ ~failed /\ failures = {}                   -> "other"
    [] OTHER                                           -> "ended"

\* Compose is asked only when the control plane's Compose file is there, and needs the control-plane
\* image's name, which may have to be resolved.
ComposeDown ==
  /\ at = "compose down" /\ Routed
  /\ \/ /\ tree["controlplane"].head = 0
        /\ Goto("label") /\ UNCHANGED <<stack, data, wanted>>
     \/ /\ tree["controlplane"].head > 0
        /\ \/ Swept(Head(sweeping)) /\ Goto("label") /\ ComposeEnvironment
           \/ /\ GotoWith("label", {"cleanup"})
              /\ Partly(Head(sweeping)) /\ UNCHANGED <<data, wanted>>
  /\ UNCHANGED <<published, local, build, telemetry, sweeping>>

\* A standalone stack needs neither.  When its environment cannot be prepared, nothing is removed.
StandaloneDown ==
  /\ at = "compose down" /\ ~Routed
  /\ \/ Swept(Head(sweeping)) /\ Goto("label") /\ UNCHANGED sweeping
     \/ GotoWith("label", {"cleanup"}) /\ Partly(Head(sweeping)) /\ UNCHANGED <<data, sweeping>>
     \/ /\ GotoWith(AfterSweep(TRUE), {"cleanup"})
        /\ sweeping' = Tail(sweeping) /\ UNCHANGED <<stack, data>>
  /\ UNCHANGED <<published, wanted, local, build, telemetry>>

\* What still has the project's label is removed, whether Compose failed or not.
RemoveByLabel ==
  /\ at = "label"
  /\ \/ Swept(Head(sweeping)) /\ Goto(AfterSweep(FALSE))
     \/ /\ GotoWith(AfterSweep(TRUE), {"cleanup"})
        /\ Partly(Head(sweeping)) /\ UNCHANGED data
  /\ sweeping' = Tail(sweeping)
  /\ UNCHANGED <<published, wanted, local, build, telemetry>>

StackNext == \/ ValidateContract \/ DecideBuild \/ DecideStandaloneBuild
             \/ PullControlplane \/ PullDataplane
             \/ Decide \/ CheckOther \/ StartTelemetry \/ Up \/ WaitForEndpoint
             \/ StartFixture \/ StartFastTime
             \/ ComposeDown \/ StandaloneDown \/ RemoveByLabel
=============================================================================
