--------------------------- MODULE ManagedSession ---------------------------
(***************************************************************************)
(* The commands that work on a local stack, composed of their parts: stack  *)
(* up and down, and the managed sessions (probe, inspect, load, live) that  *)
(* bring a stack up, obtain a token, run one operation, and give everything *)
(* back whatever happened.  Commands follow one another; upstream, the      *)
(* user's other terminal and a signal act between their steps.              *)
(***************************************************************************)
EXTENDS Workload

CONSTANTS MaxCommands,    \* bound on commands
          MaxSurprises    \* bound on kills, interrupts, pushes and other processes' steps

ASSUME BoundsAssumption == MaxCommands \in Nat /\ MaxSurprises \in Nat

VARIABLES
  token,       \* the catalog token of this command: none, live, revoked
  held,        \* does the session scope know it?
  disturbed,   \* has another terminal changed a stack during this command?
  commands,    \* commands begun
  surprises    \* surprises so far

sessionVars == <<token, held, disturbed>>
bounds      == <<commands, surprises>>
partVars    == <<stackVars, target, toolVars, outcome>>
vars == <<commandVars, workspaceVars, checkoutVars, partVars, sessionVars, bounds>>

Init ==
  /\ CommandInit /\ WorkspaceInit /\ CheckoutInit /\ StackInit
  /\ ProbeInit /\ ToolInit /\ WorkloadInit
  /\ token = "none" /\ held = FALSE /\ disturbed = FALSE
  /\ commands = 0 /\ surprises = 0

----------------------------------------------------------------------------
\* A command begins as a new process: it knows no secret, image or token, and a tool that a killed
\* command left is to it a container of the project like any other.

SelectedLanes(r) == IF r.lane = "all" THEN <<"builtin", "external">> ELSE <<r.lane>>

Begin(r) ==
  /\ ~Running /\ commands < MaxCommands
  /\ commands' = commands + 1
  /\ command' = r /\ failures' = {} /\ at' = "assets"
  /\ unpacked' = FALSE /\ mine' = [f \in SecretFile |-> "none"]
  /\ queue' = IF r.op = "down" THEN <<>> ELSE Needed(r)
  /\ sweeping' = IF r.op = "down" THEN SelectedLanes(r) ELSE <<>>
  /\ wanted' = 0 /\ build' = FALSE
  /\ stack' = [l \in LaneName |->
       [stack[l] EXCEPT !.up = IF @ = "none" /\ HasRunning(l) THEN "some" ELSE @, !.tool = "none"]]
  /\ data' = [l \in LaneName |-> IF data[l] = "new" THEN "old" ELSE data[l]]
  /\ target' = Innocent /\ cancelled' = FALSE /\ late' = FALSE /\ outcome' = NoOutcome
  /\ token' = "none" /\ held' = FALSE /\ disturbed' = FALSE
  /\ UNCHANGED <<setting, assets, file, upstream, tree, beside, published, local, telemetry,
                 surprises>>

----------------------------------------------------------------------------
\* From a stack that answers to the operation.

OperationStep == CASE command.op = "probe"   -> "anonymous"
                   [] command.op = "inspect" -> "tool image"
                   [] OTHER                  -> "operate"

\* What the probe will meet is settled when it begins; a standalone configuration has tools.
Operate ==
  /\ Goto(OperationStep)
  /\ IF command.op = "probe" THEN target' \in {t \in Target : Routed \/ t.tool # "none"}
                             ELSE UNCHANGED target
  /\ IF command.op = "live"
       THEN \E n \in Groups : outcome' = [NoOutcome EXCEPT !.left = n]
       ELSE UNCHANGED outcome

StackStays  == UNCHANGED <<stackVars, toolVars>>
NotYet      == UNCHANGED <<target, outcome>>

\* prepare_test_target: the other lane again, and on the external one the publisher's snapshot.
Prepare ==
  /\ at = "prepare"
  /\ \/ /\ ~HasRunning(Other(Lane))
        /\ External => stack["external"].up = "full"
        /\ IF command.op = "live" THEN Operate ELSE Goto("login") /\ NotYet
     \/ Fail /\ NotYet
  /\ StackStays /\ UNCHANGED sessionVars

\* An empty password is refused before it is sent.  On the builtin lane the administrator's session
\* token is the token; it is in no catalog.
AdminLogin ==
  /\ at = "login"
  /\ \/ /\ mine["password"] # "empty" /\ stack[Lane].up = "full"
        /\ IF External THEN Goto("issue") /\ NotYet ELSE Operate
     \/ Fail /\ NotYet
  /\ StackStays /\ UNCHANGED sessionVars

\* The token exists from the moment the catalog obeys; the scope knows it only when the answer can
\* be read.
IssueToken ==
  /\ at = "issue"
  /\ \/ /\ stack[Lane].up = "full" /\ token' = "live"
        /\ \/ held' = TRUE /\ Operate
           \/ Fail /\ NotYet /\ UNCHANGED held
     \/ Fail /\ NotYet /\ UNCHANGED <<token, held>>
  /\ StackStays /\ UNCHANGED disturbed

\* A standalone stack has a token issuer of its own, and nothing to revoke.
StandaloneToken ==
  /\ at = "token"
  /\ Goto("publish") \/ Fail
  /\ StackStays /\ NotYet /\ UNCHANGED sessionVars

\* It gets its routing configuration from the command, with the tools its fixture or its load
\* backend has: none, or no echo, is an error.
PublishFixture ==
  /\ at = "publish" /\ command.op # "load"
  /\ \/ IF IsSession THEN Operate ELSE Goto("ended") /\ NotYet
     \/ Fail /\ NotYet
  /\ StackStays /\ UNCHANGED sessionVars

PublishFastTime ==
  /\ at = "publish" /\ command.op = "load"
  /\ Operate \/ (Fail /\ NotYet)
  /\ StackStays /\ UNCHANGED sessionVars

----------------------------------------------------------------------------
\* finish: the token while the stack is still up, then the stack.

\* The catalog revokes when it is reached, whether its answer can be read or not.
RevokeObeyed ==
  token' \in {"live"} \cup (IF stack[Lane].up = "full" THEN {"revoked"} ELSE {})

Revoke ==
  /\ at = "revoke"
  /\ sweeping' = <<Lane>>
  /\ \/ ~held /\ Goto("compose down") /\ UNCHANGED token
     \/ held /\ RevokeObeyed /\ token' = "revoked" /\ Goto("compose down")
     \/ held /\ RevokeObeyed /\ GotoWith("compose down", {"revoke"})
  /\ UNCHANGED <<published, wanted, local, build, stack, data, telemetry>>
  /\ UNCHANGED <<toolVars, held, disturbed>> /\ NotYet

SessionNext == Prepare \/ AdminLogin \/ IssueToken \/ StandaloneToken
                 \/ PublishFixture \/ PublishFastTime \/ Revoke

----------------------------------------------------------------------------
\* What happens beside the commands.

Kill ==
  /\ Running
  /\ at' = "killed" /\ UNCHANGED <<setting, command, failures>>
  /\ WorkspaceKilled /\ CheckoutKilled
  /\ sweeping' = <<>>
  /\ UNCHANGED <<published, wanted, local, build, stack, data, telemetry, target, toolVars, outcome,
                 sessionVars>>

Pushed ==
  /\ \/ (\E s \in Source : Push(s)) /\ UNCHANGED published
     \/ published < upstream["controlplane"] /\ published' = published + 1 /\ UNCHANGED checkoutVars
  /\ UNCHANGED <<commandVars, workspaceVars, wanted, local, build, stack, data, telemetry, sweeping,
                 target, toolVars, outcome, sessionVars>>

\* Another terminal takes a stack down, or brings the routed one of a free lane up.
OtherTerminal ==
  /\ \E l \in LaneName :
       \/ stack[l].up # "none" /\ stack' = [stack EXCEPT ![l] = Down] /\ UNCHANGED <<local, data>>
       \/ /\ stack[l].up = "none" /\ ~HasRunning(Other(l)) /\ (l = "external" => local.dp # 0)
          /\ local' = [local EXCEPT !.cp = @ \cup {published}]
          /\ stack' = [stack EXCEPT ![l] = [@ EXCEPT !.up = "full", !.files = RuntimeProject(l), !.cp = published,
                                              !.dp = IF l = "external" THEN local.dp ELSE 0]]
          /\ data' = [data EXCEPT ![l] = IF @ = "none" THEN "old" ELSE @]
  /\ disturbed' = TRUE
  /\ UNCHANGED <<commandVars, workspaceVars, checkoutVars, published, wanted, build, telemetry,
                 sweeping, target, toolVars, outcome, token, held>>

Surprise ==
  /\ surprises < MaxSurprises /\ surprises' = surprises + 1
  /\ \/ Kill \/ Pushed \/ OtherTerminal
     \/ Interrupt /\ UNCHANGED <<workspaceVars, checkoutVars, outcome, sessionVars>>
     \/ OtherPrepares /\ UNCHANGED <<commandVars, checkoutVars, partVars, sessionVars>>
  /\ UNCHANGED commands

----------------------------------------------------------------------------
Next ==
  \/ \E r \in Request : Begin(r)
  \/ WorkspaceNext /\ UNCHANGED <<checkoutVars, partVars, sessionVars, bounds>>
  \/ CheckoutNext /\ UNCHANGED <<workspaceVars, partVars, sessionVars, bounds>>
  \/ /\ StackNext
     /\ UNCHANGED <<workspaceVars, checkoutVars, target, toolVars, outcome, sessionVars, bounds>>
  \/ /\ ProbeNext \/ BecomesReady
     /\ UNCHANGED <<workspaceVars, checkoutVars, toolVars, outcome, sessionVars, bounds>>
  \/ ToolNext /\ UNCHANGED <<workspaceVars, checkoutVars, outcome, sessionVars, bounds>>
  \/ /\ WorkloadNext
     /\ UNCHANGED <<workspaceVars, checkoutVars, stackVars, target, toolVars, sessionVars, bounds>>
  \/ SessionNext /\ UNCHANGED <<workspaceVars, checkoutVars, bounds>>
  \/ Surprise

Spec == Init /\ [][Next]_vars

----------------------------------------------------------------------------
ComposeFile == {"dataplane", "controlplane", "standalone", "dataplane build", "telemetry", "runtime",
                "load"}

\* Every variable has its type.
TypeOK ==
  /\ setting \in Setting /\ command \in Request \cup {Nothing}
  /\ failures \subseteq {"config", "primary", "revoke", "cleanup", "remove"}
  /\ assets \in {"absent", "complete", "other"} /\ file \in [SecretFile -> Content]
  /\ mine \in [SecretFile -> {"none", "empty", "ours", "theirs"}]
  /\ upstream \in [Source -> 1..MaxRevision]
  /\ \A s \in Source : \A t \in {tree[s], beside[s].old} :
       /\ t.origin \in {"absent", "none", "configured", "other"}
       /\ t.head \in 0..MaxRevision /\ t.fetched \in 0..MaxRevision
  /\ published \in 1..MaxRevision /\ wanted \in 0..MaxRevision
  /\ local.cp \subseteq 1..MaxRevision /\ local.dp \in 0..MaxRevision
  /\ \A l \in LaneName : /\ stack[l].up \in {"none", "some", "full"}
                         /\ stack[l].files \subseteq ComposeFile
                         /\ stack[l].cp \in 0..MaxRevision /\ stack[l].dp \in 0..MaxRevision
                         /\ stack[l].tool \in {"none", "created", "running"}
                         /\ data[l] \in {"none", "old", "new"}
  /\ target \in Target /\ token \in {"none", "live", "revoked"}
  /\ outcome \in [left : 0..3, failed : BOOLEAN, worker : BOOLEAN, tainted : BOOLEAN,
                  unread : BOOLEAN]
  /\ {unpacked, build, telemetry, held, cancelled, late, disturbed} \subseteq BOOLEAN
  /\ commands \in 0..MaxCommands /\ surprises \in 0..MaxSurprises

\* A session that began and ended of itself says what it left: a token the catalog still honours, containers of
\* its lane, and, as soon as the tool run is over, a tool container that runs on
\* (ManagedSessionScope::finish, run_tool).
LeftIsReported ==
  IsSession /\ "config" \notin failures =>
    /\ at = "ended" /\ token = "live" => failures \cap {"primary", "revoke"} # {}
    /\ at = "ended" /\ token = "live" /\ held => "revoke" \in failures
    /\ at = "ended" /\ HasRunning(Lane) => "cleanup" \in failures \/ disturbed
    /\ at \in {"revoke", "compose down", "label", "ended"} /\ Tool = "running" =>
         "remove" \in failures

Operating ==
  \/ at \in {"operate", "tool image", "anonymous", "publish"}
  \/ at = "ended" /\ command.op = "up" /\ failures = {}

\* What a test meets, and what stack up reports, is what was asked for: the whole stack of the lane,
\* from its Compose files (but for a stack found current), the image that was resolved and the revision that was checked out (unless building is switched
\* off), on new volumes when they were asked for (resolve_build, compose_pull_policies,
\* integration_freshness, stack_up_with_project).
ServesCurrent ==
  Operating /\ ~disturbed =>
    /\ stack[Lane].up = "full"
    /\ \/ stack[Lane].files = ProjectFiles
       \/ MayReuse /\ DataplaneFiles \subseteq stack[Lane].files
    /\ Routed => stack[Lane].cp = wanted /\ Whole(tree["controlplane"])
    /\ External => stack[Lane].dp = local.dp
    /\ External /\ setting.source =>
         /\ Whole(tree["dataplane"])
         /\ setting.build # "never" => stack[Lane].dp = tree["dataplane"].head
         /\ setting.generated => tree["dataplane"].head = tree["dataplane"].fetched
    /\ command.fresh => data[Lane] = "new"

\* A checkout that has a commit only ever goes to the side, what lies there is dropped only when a
\* whole checkout is in its place, and a worktree that is not generated and has another origin is
\* not touched (CheckoutManager::ensure, replace_generated_checkout).  Edits without a commit are
\* not modelled: a generated checkout is reset and cleaned.
CheckoutsKept ==
  [][\A s \in Source :
       /\ tree[s].head > 0 /\ tree'[s].head = 0 => beside'[s].old = tree[s]
       /\ beside[s].old.head > 0 /\ beside'[s].old = Absent =>
            Whole(tree'[s]) \/ tree'[s] = beside[s].old
       /\ ~setting.generated /\ tree[s].origin = "other" => tree'[s] = tree[s]]_vars

\* Two processes may prepare one directory: a secret once written is never replaced, so what a command
\* holds is what the file holds and every later command will use; a routed command that goes on has
\* complete signing secrets, and one that is not in the repository complete assets
\* (create_private_file, parse_local_secrets, materialize_runtime_assets).
SecretsKept ==
  [][/\ \A f \in SecretFile :
          /\ Written(file[f]) => file'[f] = file[f]
          /\ Written(mine'[f]) => mine'[f] = file'[f]
     /\ Running /\ at' = FirstStep /\ at' # at =>
          /\ Routed /\ ~setting.given => Written(mine'["secrets"])
          /\ ~setting.repository => assets' = "complete"]_vars

\* A command that reports no failure tells the truth: the probe met a route that refuses strangers,
\* knows the server, goes through the dataplane on the external lane, and has no tool that fails; no
\* load worker failed and no report holds the token; every live group ran, and passed
\* (run_probe, audit_reports, finalize_locust_run, combine_live_results).
ReportTellsTruth ==
  at = "ended" /\ failures = {} =>
    /\ command.op = "probe" =>
         /\ target.guarded # "200" /\ target.ready /\ target.says # "little"
         /\ target.tool \notin {"errors", "none"}
         /\ External => target.backend = "dataplane"
    /\ command.op \in {"load", "live", "reference"} => outcome = NoOutcome
=============================================================================
