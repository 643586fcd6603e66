# A verification project for contextforge-dev-tools

TLA+ models of `cf-integration`, the command that starts the two ContextForge
lanes (the built-in data plane and the external one), runs conformance, load and
live tests against them, and cleans up after itself. The models are checked with
TLC on small instances; the main safety theorems are proved with TLAPS for every
value of the constants.

## 1. The system

| Component (under `src/`) | State it keeps | Operations | Talks to |
| --- | --- | --- | --- |
| Conformance run, `src/runtime/conformance/mod.rs` | locals of the matrix loop, the interrupt future, artifact directories | `execute_with_interrupt`, `run_with_interrupt`, the client part | stacks, tokens, fixture client, runner, reports, baselines |
| Reports, `src/runtime/conformance/reports.rs` | none (artifacts on disk) | clear, load, require, compare, regenerate | run |
| Baselines, `src/conformance/baseline.rs`, `results.rs` | the workspace's tree, the packaged copy, those `--baseline-dir` names | load, score, subtract, compare (gate); bless (transaction) | run, reports |
| Stack lifecycle, `src/runtime/stack/`, `src/infrastructure/stack.rs` | Compose projects, volumes, published ports | up, down, reset, freshness, port check | Docker |
| Control-plane tokens, `src/runtime/control_plane.rs` | the gateway's token catalog | issue, revoke | run, sessions |
| Fixture provisioning, `src/conformance/fixture.rs` | gateway and virtual server catalogs | provision, reconcile, cleanup | run |
| Managed sessions, `src/runtime/session.rs` | scope (stack, service, token) | `with_managed_*` | load, live, probe, debug |
| Process runner, tool containers, `src/infrastructure/process.rs`, `src/runtime/tools.rs` | children, log files, containers | run, cancel, remove | everything |
| Checkouts, `src/infrastructure/checkout.rs` | generated source trees | ensure, replace | stack lifecycle |
| FYRE, `src/runtime/fyre.rs` | run directory, state file, VMs | run, status, destroy | terraform, ssh |
| Benchmark campaign, `benchmarks/fyre/campaign.py` | measured phases, results | capacity search, comparison | FYRE |
| Configuration and assets, `src/infrastructure/config.rs`, `assets.rs` | secret files, asset directory | load, create, materialize | every command |
| Auth proxy, `src/mcp/auth_proxy.rs` | listener, streams | forward, shutdown | conformance client |
| MCP probe and gateway client, `src/mcp/` | MCP session | initialize, list, call | probe, inspect, run |
| Load tests, `src/runtime/performance/`, `src/performance/` | report directory | run Locust, audit reports | sessions |
| Live suites, `src/runtime/live/` | none | make and pytest groups | sessions |
| Inspect, CI, helpers, CLI, Compose rendering | none to speak of | sequences of commands, parsing, rendering | the components above |

Everything is sequential inside one process, except at `tokio::select!`, where an
operation races Ctrl-C. The other actors are Docker, the gateways, the file
system, the user and other runs of the same command. What is hard:

* **Ctrl-C** is only seen where a `select!` polls it, can win or lose against an
  operation that ends in the same poll, and must still run every cleanup.
* **Partial failure.** Every start can fail after it has created something; every
  cleanup can fail; the errors of both are kept side by side.
* **Stale artifacts.** Results of an earlier command lie in the directories from
  which this one is judged.
* **Baselines of several lanes.** A routed lane's baseline is what was left after subtracting the
  direct lane's findings of that day; lanes are blessed apart, and into a tree which the next
  command need not be the one to read.
* **Replacing baselines** takes two renames and a removal, each of which may fail,
  or be the last thing the process does.
* **Lost and late answers.** A create that timed out may have taken effect, or take
  effect later; the catalog it happens in is shared with other users.
* **Terraform** is a process of its own that makes machines which cost money and keeps
  running when its parent is killed; the time bound and Ctrl-C kill it in mid-work.
* **Swapping a checkout** takes a clone and two renames, any of which may be the last
  thing the process does, and there may be work in the old one.
* **Reuse.** Images, checkouts, running stacks, secrets and volumes of earlier commands
  are used again when they seem current, while upstream moves on.
* **Several processes** prepare the same directory, and several terminals share two
  Compose projects.
* **A load outlives its caller.** A lost ssh connection ends a phase for the campaign, not
  on the Locust host, which keeps the report directories of every command, too.

What makes each part correct: a run that reports success has gated everything it had to, on its
own results (*conformance run*); it leaves nothing behind, and whatever it leaves after a failure
it tried to remove (*run, stacks, tokens, fixtures*); the two lanes never run together (*stacks*);
Ctrl-C ends the command and changes no baseline (*run*); the baseline tree is replaced whole or
not at all (*baselines*); a pass means what was accepted in the tree it read, and the screen, the
report and the gate agree (*gate, reports*); provisioning leaves no object it created and deletes
none it did not (*fixtures*); a run that holds machines can always be destroyed (*FYRE*); a search
ends with a load it confirmed, near the one that failed (*campaign*); a session tests what was
asked for, says what it could not give back, and reports nothing good of a bad target (*sessions,
stacks, probe, load, live*); no commit made in a checkout and no secret in use is ever replaced
(*checkouts, configuration*; uncommitted edits of a generated checkout are: `checkout.rs:111-131`
resets and cleans it).

`PROJECT.json` lists the components, the hazards at their lines with the
properties that cover them, and the source lines of every definition.

## 2. Modules

| Module | Contents |
| --- | --- |
| `ConformanceRun` | one `conformance run` command, from the Docker check to the exit code |
| `ConformanceRun_proofs` | all of its safety properties |
| `BaselineBless` | the baseline transaction, over several commands, with failures and kills |
| `BaselineStore` | the promise: the tree changes as a whole |
| `BaselineBless_proofs` | safety of the transaction, whatever fails; with removals that work: nothing is lost, and the transaction implements the promise |
| `BaselineGate` | results, findings, comparison, report and blessing of one matrix entry, over many commands |
| `BaselineGate_proofs` | all of its safety properties |
| `FixtureProvision` | provisioning the fixture over the admin API, its undoing and cleanup |
| `FixtureProvision_proofs` | its type invariant and three safety theorems |
| `FyreRun` | one FYRE run, terraform, and the destroy commands for it |
| `FyreRun_proofs` | its type invariant and four safety theorems |
| `LoadPhase` | one load phase of a campaign: containers on the Locust host, and the result made of them |
| `CapacitySearch` | doubling, bisection, confirmation and calibration over such phases |
| `FixedComparison` | both lanes, level by level, over such phases |
| `BenchmarkCampaign` | the campaign command, composed of the three |
| `BenchmarkCampaign_proofs` | all of its safety properties |
| `Command` | one invocation: what can be asked, how far it is, what it will report |
| `Workspace` | assets, secret files and password in the integration directory |
| `Checkout` | bringing a source checkout up to date, or replacing it |
| `StackLifecycle` | images, builds, freshness, up, fixture, down of the two Compose projects |
| `McpProbe` | the probe of the public route, request by request |
| `ToolRun` | the Inspector's tool container and its Docker client |
| `Workload` | the load test and the live suites |
| `ManagedSession` | the commands composed of the seven above, with tokens, kills and other terminals |
| `ManagedSession_proofs` | its type invariant and four safety theorems |
| `ServedStack_proofs` | that a command works on the stack that was asked for |
| `MCConformanceRun`, `MCBaselineBless`, `MCBaselineGate`, `MCFixtureProvision`, `MCFyreRun`, `MCBenchmarkCampaign`, `MCManagedSession` | the instances TLC checks |

### ConformanceRun

`pc` is the phase of `run_conformance_with_interrupt` (or of the matrix loop
around it), `entry` the loop's index. `run` and `scope` are the function's locals:
`opfail` is whether `operational_failures` is non-empty, `err` whether the
function returned an error, `interrupted`, `cancel` (the value in the
cancellation channel) and `retained` (`retained_external_stack`); `failed` is
`topology_failure` (or the lane's result), `started`, `service`, `fixture`,
`token` and `paused` are the handles and flags a lane's cleanup looks at. `res`
is what exists outside the process. `verdict` holds the matrix's `failures`,
`reported_failure`, and what the gate was given.

One action is one awaited step: `StopPriorFixture`, `StartFixture`,
`ScenariosEnd`, `StopFixture`; `ResetStacks`, `StackUp`, `StartService`,
`Provision`, `IssueToken`, `RevokeToken`, `Unregister`, `StackDown`; `ClientUp`,
`PausePublisher`, `ClientEnds`, `RestorePublisher`, `ClientDown`;
`WriteComparison`, `Evaluate`, `Finalize`. Each succeeds or fails; a failed start
may leave the thing, a failed cleanup may leave any of the `Sticky` things.

`ctrlc` follows tokio. Until the interrupt future is polled for the first time no
handler is installed and Ctrl-C kills the process (`default`); afterwards
(`armed`) it is remembered (`pressed`, or `racing` when the current phase is being
polled) until a `select!` polls it (`seen`). `select!` polls its branches in random
order: an operation that is ready at its first poll (one that fails before it
waits) may win over a signal pressed before.

A Compose project is one resource and the services in it others, since the code
removes them by different commands. `lost` is a token whose creation succeeded
but whose response did not arrive: only the reset of volumes removes it.

### BaselineBless

The actions are the file operations of `bless_baselines_transactionally` in
order: create staging, copy the root, write each update, rename the root away,
rename staging in, remove the backup, and the rollbacks of the last two; then the
two `DirectoryGuard`s drop. A directory is the set of its `<<path, version>>`
files, so that a mixture of old and new is visible. A removal that fails has
removed any part of the tree (`RemovalMayFail`). A command can be killed between
any two operations, or inside a removal (`Crashes`); its directories stay, and up
to `MaxRuns` commands follow one another. Each gets fresh names, as the
transaction's UUID does.

`BaselineStore` has no directories: a tree that is at the root or withdrawn, and
steps that put it back, replace it with the selection rewritten, or, when the next
command starts, abandon it. The refinement maps the tree to the root, or to the
running command's backup while the root is moved away.

### BaselineGate

`ConformanceRun` knows whether a gate was given the right artifacts; this module knows what is in
them. A result is the set of checks the official runner wrote for a scenario, `artifact` each
item's directory (an item is a lane or the client) with its completion marker, `baseline` its
file in every directory of baselines. These are the workspace's (`config.root()`), the copy in the
program (`config.asset_root()` of an installed one), and those `--baseline-dir` may name; `root`
is the one this command reads or replaces. `BaselineRoots` chooses it as `mod.rs:331-338` does:
`--bless` has the workspace's, a gate has them only in a workspace with all assets and the packaged
ones otherwise; since a baseline is such an asset, a gate whose workspace lost one reads the
packaged copy of all. `Begin` to `End` are the steps of `execute_conformance_with_interrupt` for one
entry: the artifacts are cleared or cannot be (`ClearFails`; a failed removal leaves any part,
`Remains`), the lanes and the client run, the server's and the client's items are gated one after
the other (`Gate`), and the command passes, fails or blesses. A run writes any results, with or
without a marker; only the marker's condition, the exact scenarios, is kept (`Completed`).

The operators are the pure functions of the code: `Readable` is the validation in
`load_conformance_artifact`, `ScoredFindings` and `Actual` the findings and the subtraction of the
direct lane's, `Comparison` and `Matches` the gate's answer; `Outcome`, `GatedOutcome` and `Row`
the classes of the comparison report, `Shown` the symbol on the screen. `accepted` is not in the
code: it remembers what an item of a tree was last blessed from, or what it came with.

Abstractions: the catalog of scenarios is the pinned one and does not change; between two commands
a baseline may be lost, made unusable or checked out of another version of the repository (`Edit`),
and another version of the program installed (`Install`), but nobody writes a baseline by hand, and
those of a version (`Packages`) name scenarios of the catalog; nobody blesses into the packaged
copy, which the program would then refuse (`validate_materialized_assets`); there is one directory
of results and one workspace; the identity that an artifact claims is right; the order, size and
number of lines of a baseline file are the one condition `unusable`.

### FixtureProvision

Where `ConformanceRun` has one step `Provision` and one `Unregister`, this module has
every HTTP request of `ConformanceFixtureClient`. `gateway` and `server` are the
catalog as far as the client looks at it: the gateways of the reserved name with
what `is_owned` sees of them, and the server with the fixed id. `job` holds the
locals of the function that runs: clearing the way (`start`), `reconcile`, the
undoing of a failed provision (`undo`) or `cleanup`; `mine` is the gateway id of
`ProvisionedConformanceFixture`, `result` what the last call returned.

`ListServers` to `PassEnds` are `delete_owned_server`, `delete_reserved_gateways_once`
and `delete_owned_gateway`; `CreateGateway`, `Refresh`, `PollCatalogs` and
`CreateServer` are the rest of `provision`. Every request may be refused before it does
anything or be applied without its answer arriving. A create without an answer may
also be applied while the client already sends other requests: `late` holds it, and
`Late` bounds how many requests the client can be ahead of it. `Meddle` is everybody
else: they add look-alikes of the same name or id and change or delete what the
fixture made. `Crash` kills the process anywhere; the next `provision` follows.

The three catalogs of a poll are read in one step: what they return is used only to
decide whether the gateway's items are all there. A deletion is applied at once or
never; a late one would matter for the server only, whose id is reused.

### FyreRun

`pc["run"]` is the place in `run_fyre`, `run_fyre_matrix` and `terraform_destroy`,
`pc["destroy"]` the one in `destroy_fyre`. `root`, `disk` and `variables` are the files
that decide what `destroy` can do: the run's directory, `cleanup_required` in its state
file, and the variables file without which `terraform_destroy` has nothing to do. A
failed `write_state` leaves the old file (it renames a temporary one); where the code
ignores the error (`let _ =`) the run goes on, elsewhere it is the run's error. `index`,
`size`, `completed` are the loop's locals, `results` and `archived` the directories of
measurements, each with the helper sizes it was measured with (`alloc`).

`terraform` is the process: who waits for it (`by`), and which machines it has made and
not yet written to its state (`fresh`). It is killed by Ctrl-C, or by the timeout, which
drops the future that waits for it (`kill_on_drop`); machines it had not recorded are
then known to nobody. A kill of the *run* instead leaves it working (`Orphaned`).
Terraform holds a lock on its state, so only one process works at a time and a second
one fails.

Left out: what a campaign does (`campaign.py` is one step that succeeds, fails, or asks
for a bigger helper); the phase names; `quota`, whose refresh makes no machine, as one
step; `status`, which only reads; two writers of the same temporary state file; Ctrl-C
that arrives while no command is waited for, which `run_cancellable` does not see.

### BenchmarkCampaign

`LoadPhase` is what `run_phase` and `run_locust.py` do. Its caller calls it with a label and takes
its result; `container` holds the master and the workers, whose inspection may fail (`Seen`).
`reports` are the directories on the Locust host that hold a `measurement-start.txt`. The host is
kept over scenarios, restarts and commands, directories are named by their labels only and
accepted when they exist (`run_locust.py:124`), so that a command starts with those of earlier
ones (`OldReports`, any set); `began` says whether this phase has written its own
(`BeginMeasurement`), and `Report` asks for a marker, not whose it is. A phase whose connection
breaks returns, and the load goes on (`leftover`), its measurement, too. What an *earlier command*
left loading, when its recovery failed, is not modelled: `leftover` starts `FALSE`, and what the
campaign's properties say of loads is said within one command. Of a throughput the result says
whether it is five percent above the one it is compared with.

`CapacitySearch` keeps the locals of `capacity_search`: `passing` and `failing` are its
results, `low` and `high` the bisection's bounds, `candidate` and `confirmed` the
confirmation. `FixedComparison` keeps which lane's containers are on the target: a failed
`docker compose down` is ignored by the code, and remembered in `survived`.
`BenchmarkCampaign` composes them with the preparation of the hosts, kills, the recovery
and the exit status, on which the FYRE run decides to grow a helper.

### ManagedSession and its parts

The modules are a chain of EXTENDS in the order in which a command uses them. `at` is the
place in the program; between two commands it is `ended` or `killed`. An error of the
primary work leads a session to `revoke`, the first step of `finish`; any other command
ends. `failures` says whose errors the command reports: of its configuration (nothing is
managed yet), its primary work, the revocation, the removal of the tool container, the
cleanup.

* `Workspace`: one action per file operation of `materialize_runtime_assets`,
  `load_or_create_local_secrets` and `load_or_create_admin_password`. The content of a file
  is who wrote it; `opened` is one another process has created and not yet written.
* `Checkout`: one action per Git command or rename of `ensure` and
  `replace_generated_checkout`. A checkout is its origin, what it has fetched and its
  commit; `beside` are the staging clone and the kept copy.
* `StackLifecycle`: `DecideBuild` to `WaitForEndpoint` are `stack_up_with_project` and its
  standalone counterpart, `ComposeDown` to `RemoveByLabel` the cleanup. A stack is how much
  of it runs, from which Compose files, and with which images. The registry may be silent, a
  failed start may leave containers, a failed removal may take some.
* `McpProbe`: one action per request. `target` is what the probe will meet, settled when it
  begins; `says` is how much of the handshake it does, the empty 202 for the notification last;
  while the publisher has not reached the dataplane the route answers 404. Retries are stuttering,
  the deadline is the failure that is always possible.
* `ToolRun`: the client has the daemon create and start the container; killing it stops
  neither, and may leave a create request that is obeyed later (`LateCreate`).
* `Workload`: `outcome` is what a Locust run or a live group leaves to be judged.
* `ManagedSession`: `Begin` is a new process, which knows nothing of the one before it.
  `token` is what the catalog says and `held` whether the scope knows. `Kill`, `Pushed`,
  `OtherTerminal`, `Interrupt` and `OtherPrepares` happen between any two steps.

Abstractions: refs are branches; the control plane's image is a tag named for a revision, the
dataplane's one tag with a revision in it; of Compose's input the files are kept, by what they
are for (mounts, environment, ports and CPU sets are not); `CF_FORCE_STACK_RESTART` and a
bearer token given in the environment are left out; temporary trees a kill leaves have names
nobody looks at and are forgotten.

## 3. What is checked

| Run | Question | Instance |
| --- | --- | --- |
| `conformance_run` | What reaches the gate? What does a run leave behind? Is the target of the scenarios ready? What does Ctrl-C stop, and does it end the command? | two entries, the client part in the second; the default selection, the direct lane and the standalone one, blessing, and one routed lane comparing |
| `conformance_late_interrupt` | *(violated)* does Ctrl-C during a cleanup leave the baselines alone? | one entry, one lane, `--bless` |
| `bless_atomic` | With removals that work, is any baseline ever lost, and is the tree replaced as a whole? | three files, two commands, kills |
| `bless_faults` | With every failure, is a reported success exact, and is the root never a mixture? | three files, two commands, kills |
| `bless_failed_purge` | *(violated)* does a failed removal lose baselines? | two files, one command |
| `baseline_gate` | What does a pass mean, what does a bless leave, and do screen, report and gate agree? | one scenario, two checks, four results; the workspace and the packaged copy, two versions of the baselines; the direct lane or the external one blessed, the external one gated, and all lanes with their report |
| `baseline_unselected` | *(violated)* does `--bless` leave unselected baselines alone? | as `baseline_gate` |
| `fixture_provision` | What does a provision, failed or not, leave in a shared catalog? Does it end? | three provisions with kills, two changes by others, creates late by one request |
| `fyre_run` | Can every machine be destroyed? Are measurements consistent and kept? Does the run end? | two scenarios, two machines, two helper sizes, one destroy command |
| `benchmark_campaign` | What do a confirmed capacity and comparison promise? Does the search end? | two workers, the directories of two earlier searches, loads from 4 to 16, a boundary of 34 %, two confirmations, two levels |
| `managed_session` | What does a session leave, test and report? What of the user's does it keep? | two commands out of fourteen, four configurations, two revisions, one kill, interrupt, push or other process |
| `fyre_interrupt` | *(violated)* does a run that Ctrl-C interrupted stop making machines? | one scenario, one machine, two helper sizes |

**Properties of the run.** `SuccessIsEarned`: a zero exit has gated exactly the lanes every entry
required, all on artifacts this command wrote; nothing stale entered, and Ctrl-C was not observed.
`SuccessLeavesNothing` and `NothingForgotten`: after a zero exit nothing is left; after any exit
of its own whatever is left is there because its cleanup failed. `OneStackAtATime`: the port check
and the cleanups keep the two stacks apart even after failed cleanups. `TargetIsReady`: scenarios
see a complete target. `NothingStartsAfterInterrupt`, `InterruptEndsRun`: an observed Ctrl-C
starts nothing, and ends even a command whose scenarios hang.

**Properties of the transaction.** `SuccessInstalls`: exactly the selected files
changed. `ErrorKeepsTree`: an error left the old tree at the root, or whole in the
backup. `NothingLost`: no baseline disappears from every directory. `NeverMixed`:
the root is never half old and half new. `ReplacesAtomically`: the promise of
`BaselineStore`.

**Properties of the gate.** `PassMeansAccepted`: what a passing command found and what was
accepted in the tree it read, at each item's last bless there, differ by the direct fixture's
findings only, although lanes are blessed one by one and each bless subtracts another direct
result. `BlessedPasses`: the tree a bless replaced is one the same results pass with. Neither says
anything of another tree: a gate that reads the packaged copy passes whatever was blessed in the
workspace. `ShownAsGated`: the rows of a lane are green if and only if its comparison matches,
stale findings included, which are in no result. `ReportedIsGated`: the report, which classifies
scenarios, decides each, and never contradicts the gate, which compares checks.

**Properties of provisioning.** `CleanMeansGone`: an error without a cleanup error in
it, and a cleanup that succeeds, leave no gateway of the fixture, although creates
were lost. `SuccessIsExclusive`: a provision that succeeds made the only gateway and
server of the fixture. `ForeignGatewaysSurvive`: what was never the fixture's is never
deleted. `CallsEnd`: polling and reconciliation give up.

**Properties of FYRE.** `Destroyable`: as long as any machine exists, the run's state and
variables are on disk. `ReleasedMeansGone`: a success, and a state without required
cleanup, mean that no machine is left that terraform knows of. `OneAllocation`: the
report has one row for every scenario, in order, measured with the helper sizes of the
last restart. `MeasurementsKept`: a restart loses no measurement and gives no two the
same name. `RunEnds`: growing helpers, retries and timeouts end.

**Properties of campaigns.** `NeverAboveFailure`: nothing is measured at or above the load that
failed last. `ConfirmedIsBracketed`: a reported capacity passed, was confirmed as often as asked,
and lies within the boundary of the last failure. `ComparisonIsFair`: each lane is alone on the
target, every level of both is measured, and no phase ran beside the load of an earlier one when
the comparison is confirmed. `PassedIsMeasured`: a phase that passes began its own measurement,
unless an earlier command left a marker under its label; no marker of this command's other phases
can be taken for it. `CampaignEndsAtLast`: the doubling, every bisection and the lowering of
candidates end.

**Properties of sessions.** `LeftIsReported`: a token that lives on, containers of the lane, a
tool that runs on: each is reported with the error of the step that should have removed it
(but for what another terminal started, and for a token whose creation was never answered,
which the failed work reports). `ServesCurrent`: a test meets, and `stack up` reports, the
whole stack of the lane from the files that were asked for, with the image that was resolved
and the revision that was checked out, on new volumes when those were asked for. Two
exceptions are the code's: a stack found current keeps its other Compose files, and building
may be switched off. `ReportTellsTruth`: success means a route that refuses strangers, knows
the server, goes through the dataplane, and whose tool does not fail; no failed worker, no
report with a token in it; every group passed. `CheckoutsKept`: a checkout that has a commit
goes only to the side, what lies there is dropped only when a whole one is in its place, and
a foreign worktree is not touched. `SecretsKept`: a secret once written is never replaced,
what a command holds is what the file holds, and no command goes on with incomplete secrets
or assets.

`ReleasedMeansGone` speaks of the machines in terraform's state only: one that a killed
terraform had made and not recorded is left to FYRE's expiry. And it holds only if
`destroy` is given after the run has ended (`Concurrent = FALSE`): given while the run
has not yet written its variables file, it finds nothing to destroy and may write
`destroyed` when the run has already made machines; the run's own cleanup still follows.
The other invariants hold in that case too.

`CleanMeansGone` depends on how late a create can be: with `Late = 2` TLC finds a
gateway that appears after the second quiet poll. Two quiet polls tolerate a create
that is late by one request and no more; the poll interval (100 ms) and the request
timeout (30 s) decide how likely that is, and the model does not measure time. A late
create of the *server* is not reconciled at all, which is why the property promises no
server only after a cleanup; `SuccessIsExclusive` shows that the next provision
removes it.

**Bounds.** Two entries are the least with an entry before and one after each end of the loop, and
with the client part in one of them only; TLC starts from every stack and fixture a previous
command can leave, and artifacts of an earlier command are absent, partial or valid in all
directories. `Sticky` is limited to one resource to keep the state space small; the theorems hold
for any. One scenario with two checks is the least of which one lane finds a part and another all,
and the same check with another status; scenarios are compared one by one. The gate's instance has
no client run: the client's results are one more item that nothing is subtracted from, and the
theorems cover it. Two trees are the least of which a command writes one and reads the other, two
versions (without baselines, and with one for the direct lane) the least that an installation
changes; directories of `--baseline-dir` behave like the workspace's and are left to the theorems.
Three baseline files are the least with a selected, an unselected and a twice selected one; two
commands are the least in which one finds what another left. Three provisions are the least in
which one is undisturbed after two that left something; six gateway ids are enough for every
create of three provisions and the two of others; with three reconciliation attempts (the code has
five) both ends are reachable, two quiet polls in a row and giving up. Two scenarios are the least
with a measurement to put aside when the second one saturates a helper, two sizes the least of
which a helper can exhaust, two machines the least of which one is recorded and the other not. The
earlier searches confirmed 12 and 6, so that some labels of a search are old and others new. Loads
from 4 to 16 with a boundary of 34 % are the least with two doublings and a bisection of more than
one step on either side; two confirmations the least of which the first succeeds and the second
fails. Two commands are the least in which one finds what the other left, two revisions the least
with something to be stale; the fourteen requests are every operation, on each lane and standalone
where its steps differ there; the four configurations differ in every switch the modelled code
reads. Only one surprise happens in a behaviour: a second one at the same time as the first
multiplies the states beyond what can be checked in minutes; failures of operations are not
surprises and may happen at every step.

**Fairness.** `FairSpec` assumes that every command the program waits for ends by
itself, except scenario runs, which may hang until they are told to cancel
(`ScenariosEnd` and `ClientEnds` are outside of the weakly fair `Steps`). The step
that takes Ctrl-C is weakly fair since `select!` polls the signal and the operation
both; nothing obliges the user to press it. In `FixtureProvision` the client's steps are
weakly fair because every request has a timeout, and a late create is applied or lost.
Nothing obliges anybody to start a provision or to meddle. In `FyreRun` the steps of the
run and of terraform are weakly fair: the commands the run waits for end. A timeout, Ctrl-C
or a kill need never come. In `BenchmarkCampaign` some step is always taken (`WF_vars(Next)`):
every command of a campaign has a timeout, and Locust a run time; nothing favours any outcome of
a phase. `ManagedSession` states safety only and assumes no fairness: a build or a live suite may
take for ever.

**Disagreements found.** Ctrl-C during a cleanup that polls nothing is never observed, and the
last entry then blesses although the README promises unchanged baselines. A backup removal that
fails half way makes the rollback restore what is left of the old tree and delete the complete new
one. Ctrl-C during the recovery of artifacts that follows a helper's saturation is swallowed: the
FYRE run grows the helper and provisions again, where its README promises recovery and cleanup.
Blessing a routed lane alone rewrites the direct lane's baseline too, which was not selected.
`PROJECT.json` quotes the lines. Without a run of its own: a kill between the two renames of a
bless (`baseline.rs:280`) makes the next `--bless` a first one, and what it did not select is gone
from the root; it is left in the hidden backup (`NothingLost`).

## 4. What is proved

`ConformanceRun_proofs`, for every matrix length, set of requests and set of
sticky resources:

* `TypeCorrect`: `Spec => []TypeOK`, action by action.
* `SuccessEarned`: `SuccessIsEarned` by itself is not inductive, it speaks of the
  exit only. `EarnedSoFar` strengthens it with what holds on the way: an observed
  interrupt is recorded as a failure (`InterruptRecorded`), between the clearing
  and the evaluation the entry's artifacts are its own (`OwnArtifacts`), a client
  part without a failure has its artifact (`ClientCompleted`), and what has been
  evaluated so far is what was required, or a failure is on record
  (`EvaluatedSoFar`). And an observed signal stays on record from where it is seen to where the
  exit is chosen (`InterruptReported`).
* `OneStack`: a stack starts only while the other's resource is gone.
* `NothingIsForgotten`: `AllHeld` names for every resource that is up the phase that answers for
  it and the handle it will be found by (`Held`); a step that drops the handle or leaves the
  phase is the one that releases the resource, or tries to.
* `TargetsAreReady`: the other direction. What a phase needs is up (`Prepared`), and no step
  between takes it away: the kinds of resources, and those of the two lanes, are distinct.
* `InterruptStartsNothing`: once the signal is seen only closing phases are left, and in those
  of a lane the flag that ends the entry is set (`SeenStops`).
* `SuccessCleansUp`: what a cleanup or a lost answer left behind is on record when it happens and
  stays there: in the scope, then the entry's failures, then the verdict (`NotYetFailed`,
  `Recorded`, `LeftRecorded`); what an earlier command left is gone when its phase is over, or
  that too is on record (`PriorRecorded`). With `NothingIsForgotten` a clean verdict leaves
  nothing to be there.

`BaselineBless_proofs`, for every set of files, selections and number of commands:

* `BlessTyped`, `BlessSafe` (`SuccessInstalls`) and `BlessNeverMixes`, with every failure and
  kill. The inductive invariant `BlessInv` says in which directory the old, the
  staged and the finished tree are in each phase, and that directories of later
  commands do not exist yet.

* Under the assumption `~RemovalMayFail`, without which `bless_failed_purge` refutes them,
  `ErrorKeeps` and `NoneLost`: `AtomicInv` adds to `BlessInv` that a guard never holds the
  only copy of the tree (`Guarded`), that an error keeps it (`ErrorKept`), and in which
  directories every baseline ever seen is (`Kept`).
* `ImplementsStore`, under the same assumption: `Spec => ReplacesAtomically`. Each file operation
  is a stutter of `BaselineStore` or one of its steps (withdraw, return, install, purge).

`BaselineGate_proofs`, for every catalog, set of checks and results, directories of baselines,
versions and requests:

* `PassedAsAccepted` and `BlessSettles`, from `GateInv`. A comparison made stays true until the
  command ends, for nothing it depends on moves (`Compares`); a command without a failure has
  compared all that is required, and each matches unless it blesses (`Whole`); and in every tree a
  written baseline is what was accepted there less what the direct fixture had *then*
  (`Accounted`), whether it was blessed, checked out or installed. The
  subtractions of then and now cancel only because a routed lane is never gated without the
  direct one, whose own baseline matches in the same command.
* `ScreenAgreesWithGate`: a stale finding belongs to a scenario of the catalog, because a
  baseline was once a readable result.
* `ReportAgreesWithGate` holds of every typed state: an outcome of a readable
  scenario is a failure exactly if one of its checks is a finding of that status (`RowOf`).
* `GateTyped`.

`FixtureProvision_proofs`:

* `FixtureTypes`, and `ForeignSurvive`: what is on the list to delete was once exactly
  the fixture's (`TodoOurs`), for any lateness and interference.
* `CleanIsGone` and `SuccessExclusive`, under `Late <= 1`. The invariant `CleanInv` rests
  on one observation: a request in a state where everything undecided is already one
  request old decides it (`Settled`). Hence the way is clear before the create
  (`StartClears`), undoing only has to look for one gateway (`UndoClears`), and the second
  quiet poll sees a catalog nothing of the fixture's can enter any more
  (`QuietIsQuiet`).

`FyreRun_proofs`, for every set of machines, matrix, number of helper sizes and of destroy
commands:

* `TypeCorrect`, with what types need: sizes in use exist and an index within the loop is
  a scenario's (`InUse`), what terraform has not recorded exists (`FreshExist`).
* `CanBeDestroyed`: the state is written before the variables, the variables before an
  apply, and nothing takes either back (`WrittenInOrder`).
* `ReportsOneAllocation`: on every way round the matrix, the scenarios before `index` are
  measured with the sizes in use (`MeasuredAlike`); a restart empties the claim.
* `NoMeasurementLost`: a scenario not yet reached has no results for the reset to remove,
  and what was put aside bears a size below every later one (`NothingOverwritten`).
* `ReleasedIsGone`, under `~Concurrent`: from a clean destroy to the write that says so
  nobody can start an apply (`ReleasedAlone`).

The proofs assume the modules' `ASSUME`s: the matrix is not empty, requests
are ones the CLI accepts, selections are lists of paths, the fixture client has the
attempts its builder demands, a FYRE matrix has a scenario and a helper size, a search starts above
zero with a boundary that can be reached, a comparison names each of its levels once (the check
of the run's configuration, `fyre.rs:744`). Each theorem names any other assumption.

`ManagedSession_proofs`, for every set of requests, configurations and sources (that has the
two repositories) and every bound, with the composition of all seven parts, kills and other
terminals included. Most of the work is that a step of one part leaves the others' facts
alone: each part has *frame lemmas* (`...Quiet`, `...Flow`) that say what it does to the
program counter, once for all invariants.

* `CheckoutsNeverLost`: while a checkout is replaced, the program counter says which of the
  three directories is whole (`Known`), and only a generated one is replaced (`Generated`).
* `SecretsNeverReplaced`: what a process holds of a written file is what the file holds
  (`Shared`), and a command past its configuration holds all it needs (`Furnished`).
* `SessionsTyped`: the typing needs the control flow, since a step looks at what an earlier one
  resolved. `OnTrack` says at which steps a command of each kind may be, `Resolved` that a
  routed command knows its image from the decision to build on.
* `SessionsSayWhatTheyLeave`: a live token is the scope's or its answer was lost
  (`TokenKnown`), the session's cleanup sweeps its own lane or has an error to report
  (`LaneSwept`), a tool that runs after its client is an error of the removal (`ToolKnown`).
* `CleanReportsAreTrue`: at every step of the probe what has been seen so far is true of the
  target (`ProbeKnown`), and in every later step of a load or live run an outcome that is not
  clean has been reported (`WorkKnown`); a command that ends its work undone has failed
  (`Reported`).

`ServedStack_proofs` proves `SessionsServeCurrent` on top of it, in three layers, each with a lemma
that steps of other parts leave it alone. *Sources*: what is not in the queue any more is up
to date (`Updating`), so that everything is when a stack is raised (`Brought`). *Images*: a
dataplane image that will not be built has the revision that is checked out (`Matching`), and
a fresh start has no volumes left when it gets to `up` (`Emptied`). *Containers*: what serves
is what was asked for (`Served`); for a stack found current this needs that the files of the
dataplane come and go together (`Grouped`).

`BenchmarkCampaign_proofs`, for every number of workers, levels and search bounds:

* `SearchStaysBelow` and `CapacityIsBracketed`, from `CapacityInv`: in each state of the search
  which loads passed, how the candidate lies between the last passed and the last failed one
  (`Doubling`, `Bisecting`, `Confirming`), and that the load being measured is that candidate.
  That the greatest of a set of loads is one of them (`MaxOf`) is derived from the
  well-foundedness of the natural numbers.
* `PassedPhasesAreSound`: a phase passes with no container ended badly, but for one Docker could
  not inspect (`PassedMeansNoCrash`, which no run repeats), from what a phase about to report a
  success has seen of its containers (`NoCrashSeen`).
* `ComparisonsAreFair`, from `FairInv`: how many levels each lane has behind it at which lane and
  level (`InOrder`), which lane is on the target (`Alone`), and that a phase whose load went on
  is the last one (`Undisturbed`).
* `CampaignIsTyped`, for the composition.
* `PassedAreMeasured`, for any directories of earlier commands: the labels this command has
  added to them (`Written`) are those of phases the search or the comparison has behind it
  (`SearchLabels`, `ComparisonLabels`); a search never measures one load twice under one name and
  round, a comparison never one level twice, so that a phase that has not begun its measurement
  finds no marker of this command (`Unbegun`).

Only model-checked: liveness (`InterruptEndsRun`, `CallsEnd`, `RunEnds`, `CampaignEndsAtLast`),
which is out of the prover's reach under fairness. Every other property of a run that passes is
proved, for the parameters its theorem names.

## 5. What is not modelled, and the plan

Not modelled: parsing, rendering and progress output; what scenarios do; Docker's own behaviour
beyond success, failure and what is left; taking the observability project down, which no command
does; the discovery and rendering of `conformance report`; `debug token`; the read-only stack
commands; the auth proxy, the CI runner, the helper commands and the conformance client, with
their reasons in `PROJECT.json`.

Behaviour met while modelling that no property refutes, because no document promises otherwise:

* A generated clone that is killed in mid-transfer has its origin and no commit; `ensure` fails
  on it (`git reset` needs one) until it is deleted (`checkout.rs:241`; `Killed`, `Switch`).
* A `secrets.env` created and not yet written, by a kill or another process, is an error until it
  is removed; an empty `admin-password` is accepted by the configuration and refused at login
  (`config.rs:715`, `757`; `Parsed`, `AdminLogin`).
* A manifest that cannot be inspected counts as not published, so an older control-plane image
  is used without a word (`stack/mod.rs:1457`; `Resolvable`).
* The revision in an image's label says nothing of uncommitted edits (`stack.rs:140`).
* Ctrl-C outside of the Inspector's tool run kills the process: `finish` does not run, and the
  next command finds the stack, and the catalog the token (`Kill`).
* A session's `finish` takes down a stack that the user had up before (`Revoke`, `ComposeDown`).
* When the environment of a standalone cleanup cannot be prepared, the removal by label is
  skipped (`stack/mod.rs:1217`; `StandaloneDown`).
* A base URL with a path makes every probe fail: the probe keeps it, the client clears it
  (`SameEndpoint`).
* The audit removes reports with this command's token only; those of a killed load, whose token
  was never revoked, stay (`locust.rs:169`).
* An installed program, and one in a workspace that lacks any asset, gates with its packaged
  baselines, while `--bless` replaces the workspace's (`mod.rs:331-338`, `config.rs:272-285`,
  `assets.rs:103`): blessing and gating again can fail as before, and a pass says nothing of what
  was blessed (`BaselineRoots`).
* A phase whose master ends by its run time without having begun the measurement, in a directory
  where an earlier scenario or restart left `measurement-start.txt` under the same label, passes,
  and the helpers' pressure is averaged from that old time on (`run_locust.py:124`,
  `campaign.py:558`, `604-618`, `706`; `Report`). `ansible/bootstrap.yml` does not clear them.
* A confirmed comparison is saved before the last reset of the target, which may still raise
  (`campaign.py:1206`; `Finally`); a bisection with `boundary_percent` below
  `100 / (first_users + 1)` measures one load for ever (`SearchAssumption`).

Planned, most important first:

1. Two commands at once on one integration directory, as processes of their own: today the
   other terminal is a few atomic acts.
2. In `FyreRun`: a destroy command that is given again and again ends with no machine.
