--------------------------- MODULE ConformanceRun ---------------------------
(***************************************************************************)
(* `cf-integration conformance run`: the matrix of (client version, server *)
(* era) entries, the lanes each entry starts, runs and cleans up, Ctrl-C,  *)
(* and the decision to replace the checked-in baselines.                   *)
(*                                                                         *)
(* Abstractions.  A command, an HTTP call or a file operation succeeds or  *)
(* fails; a failed start may or may not leave the thing it started, and a  *)
(* failed cleanup any part of the Sticky things it was to remove; the data *)
(* of a lane's artifacts is one of four words.  A compose project and the  *)
(* services in it are separate resources, because they are released by     *)
(* separate commands.  Left out: progress output, report text, the shared  *)
(* observability project (the first stack starts it, no run stops it) and  *)
(* the tool containers, which live no longer than the command they wrap.   *)
(*                                                                         *)
(* An operator named Bug... is not part of the specification.  It is a     *)
(* plausible mistake in the definition that follows it, kept to confirm    *)
(* that a property fails when the code makes that mistake.                 *)
(***************************************************************************)
EXTENDS Naturals

CONSTANTS
  Matrix,        \* number of matrix entries; entries are 1..Matrix in order
  DefaultSpec,   \* entries whose client version is DEFAULT_MCP_SPEC_VERSION
  Requests,      \* command lines: lanes, --standalone, --bless
  Sticky         \* resources that a failed cleanup can leave behind

Lane     == {"direct", "builtin", "external"}
Topology == {"builtin", "external"}
Item     == Lane \cup {"client"}   \* artifact directories of one entry

\* `--standalone` permits the external lane only; the default is every lane.
Request == [lanes: (SUBSET Lane) \ {{}}, standalone: BOOLEAN, bless: BOOLEAN]

ASSUME MatrixAssumption == Matrix \in Nat \ {0}

ASSUME RequestsAssumption ==
  Requests \subseteq {r \in Request : r.standalone => r.lanes = {"external"}}

VARIABLES
  request,   \* the command line
  outcome,   \* how the process ended, "running" until then
  pc,        \* the phase the orchestration is in
  entry,     \* the matrix entry being run
  run,       \* locals of run_conformance_with_interrupt
  scope,     \* locals of the lane (or client) part being run
  ctrlc,     \* Ctrl-C: no handler yet, handler armed, pressed, observed
  res,       \* what exists outside the process, by resource
  artifact,  \* what each entry's artifact directories hold
  verdict    \* failures, reported_failure and evaluated lanes of the matrix

vars == <<request, outcome, pc, entry, run, scope, ctrlc, res, artifact, verdict>>

----------------------------------------------------------------------------
\* Resources.

Fixture         == <<"fixture", "direct">>   \* standalone fixture project
Stack(t)        == <<"stack", t>>            \* the lane's compose project
Service(t)      == <<"service", t>>          \* fixture service inside it
Registration(t) == <<"registration", t>>     \* gateway and server in its database
Token(t)        == <<"token", t>>            \* managed token in its catalog
Paused          == <<"paused", "external">>  \* gateway stopped for the client run

Containers(t) == {Stack(t), Service(t)} \cup (IF t = "external" THEN {Paused} ELSE {})
Volumes(t)    == {Registration(t), Token(t)}
Resource      == {Fixture} \cup UNION {Containers(t) \cup Volumes(t) : t \in Topology}

\* "prior": left by an earlier command; "stuck": a cleanup of it failed;
\* "lost": created by a request whose response never arrived.  A stack that is not
\* "none" has running containers.
Status == {"none", "prior", "up", "stuck", "lost"}

\* What is left of `from` after a cleanup of the resources S that left `keep`.
Without(from, S, keep) ==
  [r \in Resource |-> IF r \in keep THEN "stuck" ELSE IF r \in S THEN "none" ELSE from[r]]

\* A cleanup of S: everything is gone, or it failed and part of S may be left.
Release(S, ok) ==
  \E keep \in SUBSET {r \in S \cap Sticky : res[r] # "none"} :
    /\ ok => keep = {}
    /\ res' = Without(res, S, keep)

----------------------------------------------------------------------------
\* Selection: topologies, evidence lanes, the client run.

Topologies == request.lanes \cap Topology

FirstTopology == IF "builtin" \in request.lanes THEN "builtin" ELSE "external"

\* conformance_evidence_lanes: a routed lane needs the direct lane's evidence.
Evidence == request.lanes \cup (IF Topologies # {} THEN {"direct"} ELSE {})

HasClientRun(e) == e \in DefaultSpec /\ "external" \in request.lanes

RunExternalClient == HasClientRun(entry)

\* Everything that entry e must have produced and gated for a success.
Required(e) == Evidence \cup (IF HasClientRun(e) THEN {"client"} ELSE {})

Standalone == request.standalone /\ scope.lane = "external"

NewScope(lane) ==
  [lane |-> lane, failed |-> FALSE, started |-> FALSE, service |-> FALSE,
   fixture |-> FALSE, token |-> FALSE, paused |-> FALSE]

NewRun == [opfail |-> FALSE, err |-> FALSE, interrupted |-> FALSE,
           cancel |-> FALSE, retained |-> FALSE]

----------------------------------------------------------------------------
\* Matrix loop.

Init ==
  /\ request \in Requests
  /\ outcome = "running"
  /\ pc = "docker"
  /\ entry = 1
  /\ run = NewRun
  /\ scope = NewScope("direct")
  /\ ctrlc = "default"
  /\ \E left \in SUBSET {Fixture, Stack("builtin"), Stack("external")} :
       /\ ~({Stack("builtin"), Stack("external")} \subseteq left)
       /\ res = [r \in Resource |-> IF r \in left THEN "prior" ELSE "none"]
  /\ \E old \in {"absent", "partial", "stale"} :
       artifact = [e \in 1..Matrix |-> [x \in Item |-> old]]
  /\ verdict = [failures |-> FALSE, reported |-> FALSE, evaluated |-> {}]

RequireDocker ==
  /\ pc = "docker"
  /\ \E ok \in BOOLEAN :
       /\ pc' = IF ok THEN "setup" ELSE "exit"
       /\ outcome' = IF ok THEN outcome ELSE "failed"
  /\ UNCHANGED <<request, entry, run, scope, ctrlc, res, artifact, verdict>>

\* The next iteration of the matrix loop, or its end.
BugOneEntryTooMany == entry > Matrix
LastEntry == entry = Matrix

NextEntry ==
  /\ entry' = IF LastEntry THEN entry ELSE entry + 1
  /\ pc' = IF LastEntry THEN "finalize" ELSE "setup"

PrepareSetupLog ==
  /\ pc = "setup"
  /\ \/ /\ pc' = "clear"
        /\ run' = NewRun
        /\ scope' = NewScope("direct")
        /\ UNCHANGED <<entry, verdict>>
     \/ /\ verdict' = [verdict EXCEPT !.failures = TRUE]
        /\ NextEntry
        /\ UNCHANGED <<run, scope>>
  /\ UNCHANGED <<request, outcome, ctrlc, res, artifact>>

\* The directories clear_conformance removes.
BugClientKept == Lane
ClearedItems == Item

\* Scenario lookup, clear_conformance and the loopback check.  An error leaves
\* some artifacts of an earlier command in place and ends the entry's run.
ClearArtifacts ==
  /\ pc = "clear"
  /\ \E ok \in BOOLEAN, gone \in SUBSET ClearedItems :
       /\ ok => gone = ClearedItems
       /\ artifact' = [artifact EXCEPT ![entry] =
                         [x \in Item |-> IF x \in gone THEN "absent" ELSE @[x]]]
       /\ run' = [run EXCEPT !.err = ~ok]
       /\ pc' = IF ok THEN "stop_prior" ELSE "evaluate"
  /\ UNCHANGED <<request, outcome, entry, scope, ctrlc, res, verdict>>

----------------------------------------------------------------------------
\* Ctrl-C.  Before the first poll of the interrupt future no handler is
\* installed and the signal ends the process; afterwards it is remembered until
\* a select! polls it.  "racing": pressed during the phase that is being polled.

ClientPhases == {"client_up", "client_pause", "client_run", "client_restore", "client_down"}
PolledPhases == {"start_fixture", "scenarios", "start_service", "provision"} \cup ClientPhases

Armed == IF ctrlc = "default" THEN "armed" ELSE ctrlc

CtrlC ==
  /\ outcome = "running"
  /\ \/ /\ ctrlc = "default"
        /\ outcome' = "killed"
        /\ pc' = "exit"
        /\ UNCHANGED ctrlc
     \/ /\ ctrlc = "armed"
        /\ ctrlc' = IF pc \in PolledPhases THEN "racing" ELSE "pressed"
        /\ UNCHANGED <<outcome, pc>>
  /\ UNCHANGED <<request, entry, run, scope, res, artifact, verdict>>

Pending == ctrlc \in {"pressed", "racing"}

\* The signal once the phase it raced with is over.
Unseen == IF ctrlc = "racing" THEN "pressed" ELSE ctrlc

\* A select! between an operation and the interrupt: either may win a race, and
\* the loser's signal stays for the next select!.  A signal pressed earlier wins
\* over any operation but one that fails before it first waits.
Poll(seen, ok) ==
  /\ seen => Pending
  /\ ctrlc = "pressed" => seen \/ ~ok
  /\ ctrlc' = IF seen THEN "seen" ELSE Unseen

----------------------------------------------------------------------------
\* The fixture-direct lane.

StopPriorFixture ==
  /\ pc = "stop_prior"
  /\ \E ok \in BOOLEAN :
       /\ Release({Fixture}, ok)
       /\ run' = [run EXCEPT !.opfail = ~ok]
  /\ ctrlc' = Armed
  /\ pc' = "start_fixture"
  /\ UNCHANGED <<request, outcome, entry, scope, artifact, verdict>>

\* finish_phase_after_interrupt: the start is awaited even when Ctrl-C wins.  A
\* failed endpoint lookup is a failure that leaves the fixture up.
StartFixture ==
  /\ pc = "start_fixture"
  /\ \E ok, seen, up \in BOOLEAN :
       /\ Poll(seen, ok)
       /\ ok => up
       /\ res' = IF up THEN [res EXCEPT ![Fixture] = "up"] ELSE res
       /\ run' = [run EXCEPT !.interrupted = @ \/ seen]
       /\ scope' = [scope EXCEPT !.failed = ~ok \/ seen]
       /\ pc' = IF ok /\ ~seen THEN "scenarios" ELSE "stop_fixture"
  /\ UNCHANGED <<request, outcome, entry, artifact, verdict>>

\* Where the cleanup of the lane that ran scenarios begins.
LaneCleanup == IF scope.lane = "direct" THEN "stop_fixture" ELSE "revoke"

\* run_official_conformance_target ran to its end: the completion marker is
\* written last, and only over a complete and valid scenario set.
ScenariosEnd ==
  /\ pc = "scenarios"
  /\ \E result \in {"absent", "partial", "fresh"} :
       /\ Poll(FALSE, result = "fresh")
       /\ artifact' = [artifact EXCEPT ![entry][scope.lane] = result]
       /\ scope' = [scope EXCEPT !.failed = (result # "fresh")]
  /\ pc' = LaneCleanup
  /\ UNCHANGED <<request, outcome, entry, run, res, verdict>>

BugCancelNotSent == FALSE
CancelOnInterrupt == TRUE

\* Ctrl-C won: the runner is told to cancel and then awaited.
InterruptScenarios ==
  /\ pc = "scenarios"
  /\ Pending
  /\ ctrlc' = "seen"
  /\ run' = [run EXCEPT !.interrupted = TRUE, !.cancel = CancelOnInterrupt]
  /\ pc' = "cancelling"
  /\ UNCHANGED <<request, outcome, entry, scope, res, artifact, verdict>>

\* The runner was killed and reaped, or had ended; its result is dropped.
ScenariosCancelled ==
  /\ pc = "cancelling"
  /\ run.cancel
  /\ \E result \in {"absent", "partial", "fresh"} :
       artifact' = [artifact EXCEPT ![entry][scope.lane] = result]
  /\ scope' = [scope EXCEPT !.failed = TRUE]
  /\ pc' = LaneCleanup
  /\ UNCHANGED <<request, outcome, entry, run, ctrlc, res, verdict>>

StopFixture ==
  /\ pc = "stop_fixture"
  /\ \E ok \in BOOLEAN :
       /\ Release({Fixture}, ok)
       /\ run' = [run EXCEPT !.opfail = @ \/ scope.failed \/ ~ok]
  /\ scope' = NewScope("direct")
  /\ pc' = IF Topologies = {} \/ run.interrupted THEN "compare" ELSE "reset"
  /\ UNCHANGED <<request, outcome, entry, ctrlc, artifact, verdict>>

----------------------------------------------------------------------------
\* The routed lanes.

\* Pre-run reset of the integration stacks; an error is recorded and the run
\* goes on.
ResetStacks ==
  /\ pc = "reset"
  /\ \E ok \in BOOLEAN :
       /\ Release(UNION {Containers(t) \cup Volumes(t) :
                           t \in IF request.standalone THEN {"external"} ELSE Topology}, ok)
       /\ run' = [run EXCEPT !.opfail = @ \/ ~ok]
  /\ scope' = NewScope(FirstTopology)
  /\ pc' = "stack_up"
  /\ UNCHANGED <<request, outcome, entry, ctrlc, artifact, verdict>>

\* ensure_other_stack_stopped: both lanes publish the same host ports.
BugNoPortCheck(t) == FALSE
OtherStackRunning(t) == \E other \in Topology \ {t} : res[Stack(other)] # "none"

\* stack_up_for_conformance and stack_up_standalone_dataplane: it may fail before
\* it touches anything, in the reset of a fresh start, at the port check, or
\* after compose created containers.
BringUp(t, fresh, ok) ==
  \/ ~ok /\ UNCHANGED res
  \/ ~ok /\ fresh /\ Release(Containers(t) \cup Volumes(t), FALSE)
  \/ LET cleared == IF fresh THEN Without(res, Containers(t) \cup Volumes(t), {}) ELSE res
     IN  IF OtherStackRunning(t)
           THEN ~ok /\ res' = cleared
           ELSE res' = [cleared EXCEPT ![Stack(t)] = "up"]

StackUp ==
  /\ pc = "stack_up"
  /\ \E ok \in BOOLEAN :
       /\ BringUp(scope.lane, TRUE, ok)
       /\ scope' = [scope EXCEPT !.failed = ~ok, !.started = ok]
       /\ pc' = IF ok THEN "start_service" ELSE "revoke"
  /\ UNCHANGED <<request, outcome, entry, run, ctrlc, artifact, verdict>>

\* The next phase of a lane, or its cleanup once topology_failure is set.
BugFailureIgnored(failed, next) == next
Continue(failed, next) == IF failed THEN "revoke" ELSE next

StartService ==
  /\ pc = "start_service"
  /\ \E ok, seen, up \in BOOLEAN :
       /\ Poll(seen, ok)
       /\ ok => up
       /\ res' = IF up THEN [res EXCEPT ![Service(scope.lane)] = "up"] ELSE res
       /\ run' = [run EXCEPT !.interrupted = @ \/ seen]
       /\ scope' = [scope EXCEPT !.failed = ~ok \/ seen, !.service = ok]
       /\ pc' = Continue(~ok \/ seen, IF Standalone THEN "issue_token" ELSE "provision")
  /\ UNCHANGED <<request, outcome, entry, artifact, verdict>>

\* Registration of the fixture: an admin token, the client's provision (which
\* cleans up after its own failure) and, for the external lane, the wait for the
\* publisher's snapshot.  A successful provision is remembered even when Ctrl-C
\* or the wait fails the lane.
Provision ==
  /\ pc = "provision"
  /\ \E ok, seen, published \in BOOLEAN, left \in {"none", "stuck"} :
       /\ Poll(seen, ok)
       /\ left = "stuck" => ~ok /\ Registration(scope.lane) \in Sticky
       /\ (seen \/ scope.lane = "builtin" \/ ~ok) => published
       /\ res' = [res EXCEPT ![Registration(scope.lane)] = IF ok THEN "up" ELSE left]
       /\ run' = [run EXCEPT !.interrupted = @ \/ seen]
       /\ LET failed == ~ok \/ seen \/ ~published
          IN  /\ scope' = [scope EXCEPT !.failed = failed, !.fixture = ok]
              /\ pc' = Continue(failed, "issue_token")
  /\ UNCHANGED <<request, outcome, entry, artifact, verdict>>

\* issue_conformance_token, whose response may be lost after the catalog stored
\* the token; or the standalone lane's own token and published configuration.
IssueToken ==
  /\ pc = "issue_token"
  /\ \E ok \in BOOLEAN, stored \in {"none", "lost"} :
       /\ res' = IF Standalone THEN res
                 ELSE [res EXCEPT ![Token(scope.lane)] = IF ok THEN "up" ELSE stored]
       /\ scope' = [scope EXCEPT !.failed = ~ok, !.token = ok /\ ~Standalone]
       /\ pc' = Continue(~ok, "scenarios")
  /\ UNCHANGED <<request, outcome, entry, run, ctrlc, artifact, verdict>>

----------------------------------------------------------------------------
\* Cleanup of a routed lane: token, registration and service, stack.  Every
\* error is kept beside the first one (finish_with_cleanup).

BugCleanupErrorDropped(ok) == FALSE
Failed(ok) == ~ok

CleanUp(S, next) ==
  /\ \E ok \in BOOLEAN :
       /\ S = {} => ok
       /\ Release(S, ok)
       /\ scope' = [scope EXCEPT !.failed = @ \/ Failed(ok)]
  /\ pc' = next

RevokeToken ==
  /\ pc = "revoke"
  /\ CleanUp(IF scope.token THEN {Token(scope.lane)} ELSE {}, "unregister")
  /\ UNCHANGED <<request, outcome, entry, run, ctrlc, artifact, verdict>>

\* The registration's cleanup and the service's are both attempted.
Unregister ==
  /\ pc = "unregister"
  /\ CleanUp((IF scope.fixture THEN {Registration(scope.lane)} ELSE {})
               \cup (IF scope.service THEN {Service(scope.lane)} ELSE {}),
             "stack_down")
  /\ UNCHANGED <<request, outcome, entry, run, ctrlc, artifact, verdict>>

BugReuseAfterInterrupt ==
  scope.lane = "external" /\ scope.started /\ RunExternalClient
CanReuseExternalStack ==
  scope.lane = "external" /\ scope.started /\ ~run.interrupted /\ RunExternalClient

AfterTopology ==
  IF run.interrupted THEN "compare"
  ELSE IF scope.lane = "builtin" /\ "external" \in request.lanes THEN "stack_up"
  ELSE IF RunExternalClient THEN "client_up" ELSE "compare"

StackDown ==
  /\ pc = "stack_down"
  /\ \E ok \in BOOLEAN :
       /\ CanReuseExternalStack => ok
       /\ IF CanReuseExternalStack THEN UNCHANGED res ELSE Release(Containers(scope.lane), ok)
       /\ run' = [run EXCEPT !.opfail = @ \/ scope.failed \/ Failed(ok),
                             !.retained = CanReuseExternalStack,
                             !.cancel = @ \/ run.interrupted]
  /\ pc' = AfterTopology
  /\ scope' = NewScope(IF AfterTopology = "compare" THEN "direct" ELSE "external")
  /\ UNCHANGED <<request, outcome, entry, ctrlc, artifact, verdict>>

----------------------------------------------------------------------------
\* The external data plane as a client: the control-plane publisher is paused
\* while the scenarios run.

ClientUp ==
  /\ pc = "client_up"
  /\ \E ok \in BOOLEAN :
       /\ ctrlc = "pressed" => ~ok
       /\ BringUp("external", ~run.retained, ok)
       /\ scope' = [scope EXCEPT !.failed = ~ok]
       /\ pc' = IF ~ok THEN "client_down"
                ELSE IF request.standalone THEN "client_run" ELSE "client_pause"
  /\ UNCHANGED <<request, outcome, entry, run, ctrlc, artifact, verdict>>

\* set_control_plane_publisher(false); a failed command may have stopped it.
PausePublisher ==
  /\ pc = "client_pause"
  /\ \E ok, stopped \in BOOLEAN :
       /\ ok => stopped
       /\ res' = IF stopped THEN [res EXCEPT ![Paused] = "up"] ELSE res
       /\ scope' = [scope EXCEPT !.failed = ~ok, !.paused = ok]
       /\ pc' = IF ok THEN "client_run" ELSE "client_down"
  /\ UNCHANGED <<request, outcome, entry, run, ctrlc, artifact, verdict>>

\* run_official_client_conformance: the marker is also written when the scenario
\* set is complete but a driver or token failure was recorded.
ClientResult ==
  /\ \E result \in {"absent", "partial", "fresh"}, ok \in BOOLEAN :
       /\ ok => result = "fresh"
       /\ artifact' = [artifact EXCEPT ![entry]["client"] = result]
       /\ scope' = [scope EXCEPT !.failed = ~ok]
  /\ pc' = "client_restore"
  /\ UNCHANGED <<request, outcome, entry, run, ctrlc, res, verdict>>

ClientEnds      == pc = "client_run" /\ ~run.cancel /\ ClientResult
ClientCancelled == pc = "client_run" /\ run.cancel /\ ClientResult

RestorePublisher ==
  /\ pc = "client_restore"
  /\ CleanUp(IF scope.paused THEN {Paused} ELSE {}, "client_down")
  /\ UNCHANGED <<request, outcome, entry, run, ctrlc, artifact, verdict>>

ClientDown ==
  /\ pc = "client_down"
  /\ \E ok \in BOOLEAN :
       /\ Release(Containers("external"), ok)
       /\ run' = [run EXCEPT !.opfail = @ \/ scope.failed \/ ~ok, !.retained = FALSE]
  /\ scope' = NewScope("direct")
  /\ ctrlc' = Unseen
  /\ pc' = "compare"
  /\ UNCHANGED <<request, outcome, entry, artifact, verdict>>

\* One select! spans the whole client part: Ctrl-C is observed in any phase of
\* it, the phases are run to their end, and the result is dropped.
InterruptClient ==
  /\ pc \in ClientPhases
  /\ Pending
  /\ ctrlc' = "seen"
  /\ run' = [run EXCEPT !.opfail = TRUE, !.interrupted = TRUE, !.cancel = CancelOnInterrupt]
  /\ UNCHANGED <<request, outcome, pc, entry, scope, res, artifact, verdict>>

----------------------------------------------------------------------------
\* The end of an entry: comparison report, failure log, artifacts, baselines.

\* The comparison report is written for a clean run of all three lanes; the log
\* of the operational failures is appended, and an error there replaces them.
WriteComparison ==
  /\ pc = "compare"
  /\ \E reportOk, logOk \in BOOLEAN :
       LET opfail == \/ run.opfail
                     \/ ~run.interrupted /\ request.lanes = Lane /\ ~reportOk
       IN  run' = [run EXCEPT !.opfail = opfail /\ logOk, !.err = opfail /\ ~logOk]
  /\ pc' = "evaluate"
  /\ UNCHANGED <<request, outcome, entry, scope, ctrlc, res, artifact, verdict>>

\* load_conformance_artifact: a directory without a valid marker is an error, and
\* whether the marker is from this command cannot be told.
Complete(items) == {x \in items : artifact[entry][x] \in {"fresh", "stale"}}
Broken(items)   == \E x \in items : artifact[entry][x] = "partial"

\* The gate of one direction over its loaded lanes: an error, or comparisons
\* that match, do not match, or whose report could not be written.
Gate(loaded, loadFailed, gate) ==
  [lanes  |-> IF loadFailed \/ gate = "error" THEN {}
              ELSE {<<entry, x, artifact[entry][x]>> : x \in loaded},
   failed |-> \/ loadFailed
              \/ loaded # {} /\ \/ gate \in {"error", "unwritten"}
                                \/ gate = "mismatch" /\ ~request.bless]

Gates == {"match", "mismatch", "unwritten", "error"}

\* Ctrl-C observed during the entry ends the matrix.
BugMatrixGoesOn == FALSE
StopsMatrix == ctrlc = "seen"

Evaluate ==
  /\ pc = "evaluate"
  /\ LET clean == ~run.err /\ ~run.opfail
         server == Complete(Evidence)
         lacking == Broken(Evidence) \/ (clean /\ server # Evidence)
     IN  \E serverGate, clientGate \in Gates :
           /\ ("direct" \notin server /\ server # {}) => serverGate = "error"
           /\ LET s == Gate(server, lacking, serverGate)
                  c == Gate(Complete({"client"}), Broken({"client"}), clientGate)
              IN  verdict' =
                    [failures  |-> verdict.failures \/ run.err \/ s.failed \/ c.failed,
                     reported  |-> verdict.reported \/ run.opfail \/ StopsMatrix,
                     evaluated |-> verdict.evaluated \cup s.lanes \cup c.lanes]
  /\ IF StopsMatrix THEN pc' = "finalize" /\ UNCHANGED entry ELSE NextEntry
  /\ UNCHANGED <<request, outcome, run, scope, ctrlc, res, artifact>>

\* finalize_conformance_execution; the baseline transaction may itself fail.
MayBless == ~verdict.failures /\ ~verdict.reported /\ request.bless

Finalize ==
  /\ pc = "finalize"
  /\ outcome' \in IF MayBless THEN {"blessed", "failed"}
                  ELSE IF verdict.failures THEN {"failed"}
                  ELSE IF verdict.reported THEN {"reported"}
                  ELSE {"matched"}
  /\ pc' = "exit"
  /\ UNCHANGED <<request, entry, run, scope, ctrlc, res, artifact, verdict>>

Exited == outcome # "running" /\ UNCHANGED vars

----------------------------------------------------------------------------
\* Every command the program waits for ends by itself, the scenario runs alone
\* excepted: those may hang until they are cancelled.
Steps ==
  \/ RequireDocker \/ PrepareSetupLog \/ ClearArtifacts
  \/ StopPriorFixture \/ StartFixture \/ StopFixture
  \/ ResetStacks \/ StackUp \/ StartService \/ Provision \/ IssueToken
  \/ RevokeToken \/ Unregister \/ StackDown
  \/ ClientUp \/ PausePublisher \/ RestorePublisher \/ ClientDown
  \/ InterruptScenarios \/ ScenariosCancelled \/ ClientCancelled
  \/ WriteComparison \/ Evaluate \/ Finalize

Next == Steps \/ ScenariosEnd \/ ClientEnds \/ InterruptClient \/ CtrlC \/ Exited

Spec == Init /\ [][Next]_vars

FairSpec == Spec /\ WF_vars(Steps) /\ WF_vars(InterruptClient)

----------------------------------------------------------------------------
\* Properties.

Phases == {"docker", "setup", "clear", "stop_prior", "start_fixture", "scenarios",
           "cancelling", "stop_fixture", "reset", "stack_up", "start_service",
           "provision", "issue_token", "revoke", "unregister", "stack_down",
           "compare", "evaluate", "finalize", "exit"} \cup ClientPhases

RunState == [opfail: BOOLEAN, err: BOOLEAN, interrupted: BOOLEAN, cancel: BOOLEAN,
             retained: BOOLEAN]

ScopeState == [lane: Lane, failed: BOOLEAN, started: BOOLEAN, service: BOOLEAN,
               fixture: BOOLEAN, token: BOOLEAN, paused: BOOLEAN]

Signal  == {"default", "armed", "pressed", "racing", "seen"}
Outcome == {"running", "killed", "failed", "reported", "blessed", "matched"}

Artifacts == [1..Matrix -> [Item -> {"absent", "partial", "stale", "fresh"}]]

Verdicts == [failures: BOOLEAN, reported: BOOLEAN,
             evaluated: SUBSET ((1..Matrix) \X Item \X {"stale", "fresh"})]

TypeOK ==
  /\ request \in Requests
  /\ outcome \in Outcome
  /\ pc \in Phases
  /\ entry \in 1..Matrix
  /\ run \in RunState
  /\ scope \in ScopeState
  /\ ctrlc \in Signal
  /\ res \in [Resource -> Status]
  /\ artifact \in Artifacts
  /\ verdict \in Verdicts

Succeeded == outcome \in {"blessed", "matched"}

\* A zero exit, and a blessing above all, is never vacuous: every lane that every
\* entry had to produce was gated, on artifacts this command wrote, and nothing
\* else entered the gate; and a Ctrl-C the program has observed is no success.
\* (load_selected_conformance_results, clear_conformance and the failure lists of
\* execute_conformance_with_interrupt)
SuccessIsEarned ==
  Succeeded =>
    /\ verdict.evaluated = UNION {{<<e, x, "fresh">> : x \in Required(e)} : e \in 1..Matrix}
    /\ ctrlc # "seen"

\* A zero exit leaves nothing behind: no fixture, stack, registration or token.
\* Only stacks of an earlier command survive, when no routed lane was selected.
SuccessLeavesNothing ==
  Succeeded =>
    \A r \in Resource : res[r] = "none" \/ (res[r] = "prior" /\ Topologies = {})

\* However the command ends by itself, whatever it started was at least tried to
\* be cleaned up: nothing is still "up" without a failed cleanup.
NothingForgotten == outcome \notin {"running", "killed"} => \A r \in Resource : res[r] # "up"

\* The two lanes publish the same host ports: their stacks never run together.
OneStackAtATime == \E t \in Topology : res[Stack(t)] = "none"

\* Scenarios run only against a target that is completely set up, and with the
\* token and registration made for it.
TargetIsReady ==
  pc = "scenarios" =>
    \A r \in IF scope.lane = "direct" THEN {Fixture}
              ELSE {Stack(scope.lane), Service(scope.lane)}
                     \cup (IF Standalone THEN {} ELSE Volumes(scope.lane)) :
      res[r] = "up"

\* Once Ctrl-C is observed nothing is started for another lane or entry: what
\* exists only shrinks.  (The client part finishes its own start.)
NothingStartsAfterInterrupt ==
  [][ctrlc = "seen" /\ pc \notin ClientPhases
       => entry' = entry /\ \A r \in Resource : res'[r] \in {res[r], "none", "stuck"}]_vars

\* Ctrl-C ends even a run whose scenarios hang, whenever it is pressed.
InterruptEndsRun == ctrlc \in {"pressed", "racing", "seen"} ~> outcome # "running"

\* README: "Ctrl-C finishes cleanup for the active run, skips the remaining matrix
\* entries, and leaves baselines unchanged."
InterruptedCleanupNeverBlesses ==
  [](pc \in {"stop_fixture", "stack_down", "client_down"} /\ ctrlc = "pressed"
       => [](outcome # "blessed"))
=============================================================================
