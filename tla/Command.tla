------------------------------ MODULE Command -------------------------------
(***************************************************************************)
(* One invocation of the command line: what was asked, how far it is, and   *)
(* the errors it will report.  An error of the primary work of a managed    *)
(* session sends it to its cleanup; any other command ends there.           *)
(***************************************************************************)
EXTENDS Naturals, Sequences

CONSTANTS
  Request,   \* what is asked
  Setting    \* the configurations

LaneName == {"builtin", "external"}

\* Standalone commands work on the external lane alone.
StandaloneLane(r) == r.standalone => r.lane = "external"

\* stack up and stack down; only they may ask for new volumes, only down takes both lanes.  What up
\* starts always has the telemetry exporters.
AskableOfStack(r) == /\ r.op \in {"up", "down"} /\ (r.lane = "all" => r.op = "down")
                     /\ r.telemetry = (r.op = "up")

\* probe, and load run, which alone chooses about telemetry.
AskableOfLane(r) == /\ r.op \in {"probe", "load"} /\ r.lane # "all" /\ ~r.fresh
                    /\ r.op = "probe" => r.telemetry

\* The live suites need the control plane.  On the fixture-direct lane they need no stack at all
\* ("reference"), only the builtin lane's environment.
AskableOfLive(r) == /\ r.op \in {"live", "reference"} /\ r.lane # "all" /\ ~r.fresh /\ r.telemetry
                    /\ ~r.standalone /\ (r.op = "reference" => r.lane = "builtin")

AskableOfInspect(r) == r.op = "inspect" /\ r.lane # "all" /\ ~r.fresh /\ r.telemetry

Askable == {r \in [op : {"up", "down", "probe", "inspect", "load", "live", "reference"},
                   lane : LaneName \cup {"all"},
                   standalone : BOOLEAN, telemetry : BOOLEAN, fresh : BOOLEAN] :
              /\ StandaloneLane(r)
              /\ AskableOfStack(r) \/ AskableOfLane(r) \/ AskableOfLive(r) \/ AskableOfInspect(r)}

\* What a loaded configuration decides: are the checkouts generated ones; is the dataplane built
\* from source; is the workspace the repository, with its own assets; does the environment give
\* the secrets; has the public base URL a path; what is built and pulled.
Configured == [generated : BOOLEAN, source : BOOLEAN, repository : BOOLEAN, given : BOOLEAN,
               path : BOOLEAN,
               build : {"auto", "never", "always"}, pull : {"always", "never"}]

ASSUME RequestAssumption == Request \subseteq Askable
ASSUME SettingAssumption == Setting \subseteq Configured

VARIABLES
  setting,    \* the configuration, the same for every command
  command,    \* the invocation that runs, or ran last
  at,         \* how far it is
  failures    \* the errors it will report

commandVars == <<setting, command, at, failures>>

Nothing == [op |-> "none", lane |-> "external", standalone |-> FALSE,
            telemetry |-> FALSE, fresh |-> FALSE]

CommandInit == /\ setting \in Setting /\ command = Nothing
               /\ at = "ended" /\ failures = {}

\* The operations that bring a stack up for themselves and take it down again.
IsSession == command.op \in {"probe", "inspect", "load", "live"}
Lane      == command.lane
Routed    == ~command.standalone
External  == Lane = "external"
Other(lane) == IF lane = "builtin" THEN "external" ELSE "builtin"
Running   == at \notin {"ended", "killed"}

\* Where a command goes once its sources are up to date.
SourcesReady == CASE command.op = "reference"                      -> "reference"
                  [] command.op # "reference" /\ Routed /\ External -> "contract"
                  [] OTHER                                         -> "build"

\* A standalone command needs no source unless the dataplane is built from one.
SourceStep == IF Routed \/ setting.source THEN "clone" ELSE SourcesReady

\* Where a command starts once its configuration is loaded.
FirstStep == CASE command.op = "down" -> "compose down"
               [] command.op = "load" -> "settings"
               [] OTHER               -> SourceStep

Goto(step) == at' = step /\ UNCHANGED <<setting, command, failures>>

\* A failed cleanup is remembered, and the cleanup goes on.
GotoWith(step, errors) ==
  at' = step /\ failures' = failures \cup errors /\ UNCHANGED <<setting, command>>

Fail == GotoWith(IF IsSession THEN "revoke" ELSE "ended", {"primary"})
=============================================================================
