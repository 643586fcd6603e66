---------------------------- MODULE BaselineGate ----------------------------
(***************************************************************************)
(* The regression gate of one matrix entry over many commands: what the    *)
(* official runner writes, how its artifacts are loaded, compared with the *)
(* baselines, shown and classified, and how `--bless` makes today's        *)
(* findings baselines.  There are several directories of baselines: the    *)
(* workspace's, the copy that the program is packaged with, and those that *)
(* --baseline-dir names.  What a command blesses need not be what the next *)
(* one reads.                                                              *)
(*                                                                         *)
(* Abstractions.  A scenario's result is a set of checks; a check is its   *)
(* identifier (with the name that tells reused ones apart), its status and *)
(* whether its message says that the fixture lacks something.  A baseline  *)
(* file is absent, unusable (malformed, unsorted, too large, no file) or   *)
(* written.  How the lanes come to their results is ConformanceRun, how    *)
(* the baseline directory is replaced is BaselineBless: here a replacement *)
(* happens or does not.  The identity an artifact claims (oracle, target,  *)
(* fixture) is always right, and references, counts and text are left out. *)
(* There is one directory of results, and one workspace: the baselines of  *)
(* another one are a directory that --baseline-dir names.                  *)
(*                                                                         *)
(* An operator named Bug... is not part of the specification, but a        *)
(* plausible mistake in the definition that follows it.                    *)
(***************************************************************************)
CONSTANTS
  Catalog,         \* the pinned scenarios of the suite
  Stray,           \* scenarios outside of it
  CheckId,         \* identifiers of checks
  Outputs,         \* the sets of checks the runner may write for a scenario
  Other,           \* directories outside of the workspace that --baseline-dir may name
  Packages,        \* the baselines of the repository's versions, from which programs are built
  Requests,        \* command lines: lanes, --bless and --baseline-dir
  DefaultVersion   \* whether the entry has the client version with a client run

Lane   == {"direct", "builtin", "external"}
Routed == {"builtin", "external"}
Item   == Lane \cup {"client"}
Tree   == {"workspace", "packaged"} \cup Other

Status == {"success", "failure", "warning", "skipped", "info", "other"}
Check  == [id: CheckId, status: Status, shaped: BOOLEAN]

ASSUME OutputsAssumption  == Outputs \subseteq SUBSET Check
ASSUME RequestsAssumption ==
  Requests \subseteq [lanes: (SUBSET Lane) \ {{}}, bless: BOOLEAN,
                      baseline_dir: {"default", "workspace"} \cup Other]
ASSUME CatalogAssumption  == Catalog \cap Stray = {}
ASSUME VersionAssumption  == DefaultVersion \in BOOLEAN

\* Nobody names the packaged copy: once it is changed, the program refuses it.
ASSUME OtherAssumption == {"default", "packaged"} \cap Other = {}

Finding == [scenario: Catalog \cup Stray, id: CheckId, status: {"failure", "warning"}]

Document   == [state: {"absent", "unusable", "written"}, findings: SUBSET Finding]
NoBaseline == [state |-> "absent", findings |-> {}]
Unusable   == [state |-> "unusable", findings |-> {}]
Written(F) == [state |-> "written", findings |-> F]

\* A version's baselines, if it has them, were blessed with its own catalog.
ASSUME PackagesAssumption ==
  Packages \subseteq [Item -> {NoBaseline} \cup
                            {Written(F) : F \in SUBSET {f \in Finding : f.scenario \in Catalog}}]

VARIABLES
  request,      \* the command line
  root,         \* baseline_root: the tree it compares with, or replaces
  at,           \* "idle", the direction gated next, or "finalize"
  artifact,     \* each item's directory: its marker and the results beneath it
  baseline,     \* each item's baseline file, in every tree
  comparisons,  \* the comparisons made by this command, by item
  failed,       \* whether it has a failure, reported or not
  verdict,      \* how the last command ended, unless baselines were changed since
  accepted      \* what each file in every tree was last blessed from: the item's findings and
                \* those of the direct fixture; or what it came with (only the properties read it)

vars == <<request, root, at, artifact, baseline, comparisons, failed, verdict, accepted>>

----------------------------------------------------------------------------
\* Results and findings.

\* One set of checks for each scenario that has a directory.
Results == UNION {[S -> Outputs] : S \in SUBSET (Catalog \cup Stray)}

\* The whole catalog, nothing else, and no empty list of checks.
Exact(res) == DOMAIN res = Catalog /\ \A s \in Catalog : res[s] # {}

Known(res) == \A s \in DOMAIN res : \A c \in res[s] : c.status # "other"

\* Repeated checks collapse to one finding.
ScoredFindings(res) ==
  {f \in Finding : /\ f.scenario \in DOMAIN res
                   /\ \E c \in res[f.scenario] : c.id = f.id /\ c.status = f.status}

----------------------------------------------------------------------------
\* Artifacts.

Nothing == [state |-> "absent", results |-> <<>>]
Partial == [state |-> "partial", results |-> <<>>]

\* The marker needs the exact scenarios.
Completed == {[state |-> "complete", results |-> res] : res \in {r \in Results : Exact(r)}}

\* A routed lane needs the direct lane's evidence.
Evidence == request.lanes \cup (IF request.lanes \cap Routed # {} THEN {"direct"} ELSE {})

HasClientRun == DefaultVersion /\ "external" \in request.lanes
Required     == Evidence \cup (IF HasClientRun THEN {"client"} ELSE {})

Complete(S) == {i \in S : artifact[i].state = "complete"}

\* load_conformance_artifact: the marker first, then the scenarios, then the statuses.
Readable(i)   == /\ artifact[i].state = "complete"
                 /\ Exact(artifact[i].results) /\ Known(artifact[i].results)
Unreadable(S) == \E i \in S : artifact[i].state # "absent" /\ ~Readable(i)

Scored(i) == ScoredFindings(artifact[i].results)

----------------------------------------------------------------------------
\* Comparison with the baselines.

\* What is gated: a routed lane answers only for what the direct fixture does not do too.
BugByScenario(i) ==
  IF i \in Routed
    THEN {f \in Scored(i) : \A g \in Scored("direct") : g.scenario # f.scenario \/ g.id # f.id}
    ELSE Scored(i)
Actual(i) == IF i \in Routed THEN Scored(i) \ Scored("direct") ELSE Scored(i)

Comparison(i) ==
  LET expected == baseline[root][i].findings
  IN  [actual |-> Actual(i), unexpected |-> Actual(i) \ expected, stale |-> expected \ Actual(i)]

BugStalePasses(c) == c.unexpected = {}
Matches(c) == c.unexpected = {} /\ c.stale = {}

\* evaluate_baselines gives up on all of R.
Faulty(R) ==
  \/ R \cap Routed # {} /\ "direct" \notin R
  \/ \E i \in R : \/ baseline[root][i].state = "unusable"
                  \/ baseline[root][i].state = "absent" /\ ~request.bless

\* The items of R are compared and reported, or the gate fails without a comparison.
Gate(R, unloaded) ==
  IF unloaded \/ Faulty(R)
    THEN failed' = TRUE /\ UNCHANGED comparisons
    ELSE /\ comparisons' = [i \in DOMAIN comparisons \cup R |->
                              IF i \in R THEN Comparison(i) ELSE comparisons[i]]
         /\ \E unwritten \in BOOLEAN :
              /\ unwritten => R # {}
              /\ failed' = \/ failed \/ unwritten
                           \/ ~request.bless /\ \E i \in R : ~Matches(Comparison(i))

----------------------------------------------------------------------------
\* One command.

\* A workspace that lacks a baseline that the program was built with, or any other of its assets,
\* has the packaged ones instead of its own; but what is blessed is always its own.
MayBeComplete ==
  \A i \in Item : baseline["packaged"][i].state = "written" => baseline["workspace"][i].state # "absent"

BaselineRoots(r) ==
  IF r.baseline_dir # "default" THEN {r.baseline_dir}
  ELSE IF r.bless THEN {"workspace"}
  ELSE {"packaged"} \cup {t \in {"workspace"} : MayBeComplete}

Uncompared    == [i \in {} |-> {}]
CameWith(d)   == [own |-> d.findings, direct |-> {}]
NoBaselines   == [i \in Item |-> NoBaseline]
ComeWith(doc) == [i \in Item |-> CameWith(doc[i])]

Init ==
  /\ request \in Requests
  /\ root = "workspace"
  /\ at = "idle"
  /\ artifact = [i \in Item |-> Nothing]
  /\ \E p \in Packages : baseline = [t \in Tree |-> IF t = "packaged" THEN p ELSE NoBaselines]
  /\ comparisons = Uncompared
  /\ failed = FALSE
  /\ verdict = "none"
  /\ accepted = [t \in Tree |-> ComeWith(baseline[t])]

\* The setup log cannot be prepared: the entry is not run.
Begin ==
  /\ at = "idle"
  /\ request' \in Requests
  /\ root' \in BaselineRoots(request')
  /\ at' = "run" \/ at' = "finalize"
  /\ failed' = (at' = "finalize")
  /\ verdict' = "none"
  /\ UNCHANGED <<artifact, baseline, comparisons, accepted>>

\* The artifacts of an earlier command are cleared one after another.
ClearedBefore == [direct |-> {}, builtin |-> {"direct"}, external |-> {"direct", "builtin"},
                  client |-> Lane]

\* What a directory whose removal failed may still hold: not all scenarios, no marker, nothing.
Remains(i) ==
  {artifact[i], Nothing, Partial} \cup
  IF artifact[i].state = "complete"
    THEN LET res == artifact[i].results
         IN  {[state |-> "complete", results |-> [s \in S |-> res[s]]] : S \in SUBSET DOMAIN res}
    ELSE {}

\* They cannot all be cleared, and nothing runs.
ClearFails ==
  /\ at = "run"
  /\ \E k \in Item : \E rest \in Remains(k) :
       artifact' = [i \in Item |-> IF i \in ClearedBefore[k] THEN Nothing
                                  ELSE IF i = k THEN rest ELSE artifact[i]]
  /\ failed' = TRUE
  /\ at' = "server"
  /\ UNCHANGED <<request, root, baseline, comparisons, verdict, accepted>>

\* The lanes and the client run, each of which completes or not.  A run without failure has
\* completed all, and one of all three lanes has loaded them for its comparison report.  The
\* client's marker needs known statuses, too.
Run ==
  /\ at = "run"
  /\ \E left \in [Required -> {Nothing, Partial} \cup Completed] :
       /\ HasClientRun => Known(left["client"].results)
       /\ artifact' = [i \in Item |-> IF i \in Required THEN left[i] ELSE Nothing]
  /\ failed' \in BOOLEAN
  /\ ~failed' => /\ \A i \in Required : artifact'[i].state = "complete"
                 /\ Lane \subseteq request.lanes => ~Unreadable(Lane)'
  /\ at' = "server"
  /\ UNCHANGED <<request, root, baseline, comparisons, verdict, accepted>>

\* A run without failure must have left every lane of evidence.
GateServer ==
  /\ at = "server"
  /\ LET missing == ~failed /\ Complete(Evidence) # Evidence
     IN  Gate(Complete(Evidence), Unreadable(Evidence) \/ missing)
  /\ at' = "client"
  /\ UNCHANGED <<request, root, artifact, baseline, verdict, accepted>>

GateClient ==
  /\ at = "client"
  /\ Gate(Complete({"client"}), Unreadable({"client"}))
  /\ at' = "finalize"
  /\ UNCHANGED <<request, root, artifact, baseline, verdict, accepted>>

Ends(how) ==
  /\ at' = "idle"
  /\ verdict' = how
  /\ comparisons' = Uncompared
  /\ failed' = FALSE
  /\ UNCHANGED <<request, root, artifact>>

\* The baselines of the entry are replaced by what was compared.
BugSelectedOnly ==
  [i \in Item |-> IF i \in DOMAIN comparisons /\ i \in request.lanes \cup {"client"}
                    THEN Written(comparisons[i].actual) ELSE baseline[root][i]]
Blessed ==
  [i \in Item |-> IF i \in DOMAIN comparisons
                    THEN Written(comparisons[i].actual) ELSE baseline[root][i]]

\* What is then accepted.
Accepts ==
  [i \in Item |-> IF i \in DOMAIN comparisons
                    THEN [own |-> Scored(i), direct |-> IF i \in Routed THEN Scored("direct") ELSE {}]
                    ELSE accepted[root][i]]

Bless ==
  /\ at = "finalize" /\ ~failed /\ request.bless /\ DOMAIN comparisons # {}
  /\ baseline' = [baseline EXCEPT ![root] = Blessed]
  /\ accepted' = [accepted EXCEPT ![root] = Accepts]
  /\ Ends("blessed")

\* The command ends without a replacement, one that failed included.
End ==
  /\ at = "finalize"
  /\ Ends(IF failed \/ request.bless THEN "failed" ELSE "passed")
  /\ UNCHANGED <<baseline, accepted>>

\* Killed at any time; a killed run leaves what it wrote.
Kill ==
  /\ at # "idle"
  /\ Ends("killed")
  /\ UNCHANGED <<baseline, accepted>>

\* Between two commands a baseline is lost, made unusable, or checked out of another version.
Edit ==
  /\ at = "idle"
  /\ \E t \in Tree \ {"packaged"}, i \in Item :
       \E d \in {NoBaseline, Unusable} \cup {p[i] : p \in Packages} :
         /\ baseline[t][i].state = "absent" => d # Unusable
         /\ baseline' = [baseline EXCEPT ![t] = [@ EXCEPT ![i] = d]]
         /\ accepted' = [accepted EXCEPT ![t] = [@ EXCEPT ![i] = CameWith(d)]]
  /\ verdict' = "none"
  /\ UNCHANGED <<request, root, at, artifact, comparisons, failed>>

\* Another version of the program is installed.
Install ==
  /\ at = "idle"
  /\ \E p \in Packages :
       /\ baseline' = [baseline EXCEPT !["packaged"] = p]
       /\ accepted' = [accepted EXCEPT !["packaged"] = ComeWith(p)]
  /\ verdict' = "none"
  /\ UNCHANGED <<request, root, at, artifact, comparisons, failed>>

Next == \/ Begin \/ ClearFails \/ Run \/ GateServer \/ GateClient
        \/ Bless \/ End \/ Kill \/ Edit \/ Install

Spec == Init /\ [][Next]_vars

----------------------------------------------------------------------------
\* What a developer is told.

\* The outcome of a scenario that has checks.
Outcome(checks) ==
  LET failures == {c \in checks : c.status = "failure"}
      Has(S)   == \E c \in checks : c.status \in S
  IN  IF failures # {}
        THEN IF \A c \in failures : c.shaped THEN "fixture failure" ELSE "failure"
      ELSE IF Has({"other"}) THEN "ambiguous"
      ELSE IF Has({"success", "warning"}) THEN "compliant"
      ELSE IF Has({"skipped", "info"}) THEN "not applicable"
      ELSE "ambiguous"

\* The fixture is pinned: what it lacks is a failure of the lane.
GatedOutcome(checks) == IF Outcome(checks) = "fixture failure" THEN "failure" ELSE Outcome(checks)

OutcomeOf(i, s) ==
  IF s \in DOMAIN artifact[i].results THEN GatedOutcome(artifact[i].results[s]) ELSE "missing"

\* A row of the comparison report: its class, which for a compared row is the set of failing lanes.
Row(s) ==
  LET outcome == [i \in Lane |-> OutcomeOf(i, s)]
      Some(S) == \E i \in Lane : outcome[i] \in S
      failing == {i \in Lane : outcome[i] = "failure"}
  IN  [class   |-> IF Some({"fixture failure"}) THEN "fixture failure"
                   ELSE IF Some({"ambiguous", "missing"}) THEN "ambiguous"
                   ELSE IF \A i \in Lane : outcome[i] = "not applicable" THEN "not applicable"
                   ELSE "compared",
       failing |-> failing]

\* The report is written from three readable lanes.
Reportable == \A i \in Lane : Readable(i)

\* How a scenario of a compared lane is shown when nothing is being blessed.
Of(F, s) == {f \in F : f.scenario = s}
BugNoXPass(i, s) ==
  LET c == comparisons[i]
  IN  IF Of(c.unexpected, s) # {} THEN "fail"
      ELSE IF Of(c.actual, s) # {} THEN "xfail" ELSE "pass"
Shown(i, s) ==
  LET c       == comparisons[i]
      outcome == OutcomeOf(i, s)
  IN  IF Of(c.unexpected, s) # {} THEN "fail"
      ELSE IF Of(c.stale, s) # {} THEN "xpass"
      ELSE IF Of(c.actual, s) # {} \/ outcome = "failure" THEN "xfail"
      ELSE IF outcome = "compliant" THEN "pass"
      ELSE IF outcome = "not applicable" THEN "skip" ELSE "unknown"

----------------------------------------------------------------------------
\* Properties.

Compared == [actual: SUBSET Finding, unexpected: SUBSET Finding, stale: SUBSET Finding]
Accepted == [own: SUBSET Finding, direct: SUBSET Finding]

\* Every variable has its type.
TypeOK ==
  /\ request \in Requests /\ root \in Tree
  /\ at \in {"idle", "run", "server", "client", "finalize"}
  /\ artifact \in [Item -> {Nothing, Partial} \cup [state: {"complete"}, results: Results]]
  /\ baseline \in [Tree -> [Item -> Document]]
  /\ DOMAIN comparisons \subseteq Item
  /\ \A i \in DOMAIN comparisons : comparisons[i] \in Compared
  /\ failed \in BOOLEAN
  /\ verdict \in {"none", "passed", "failed", "blessed", "killed"}
  /\ accepted \in [Tree -> [Item -> Accepted]]

\* A command that passes has found what was accepted when each item was last blessed in the tree
\* it reads (or what that tree came with), except for what the direct fixture answers for: a new
\* finding of a routed lane is one that the direct lane was accepted with there, and one that has
\* gone was the direct fixture's when the lane was blessed (evaluate_baselines, and every command
\* that may have blessed a part of the items in any tree since).  Of what was blessed in another
\* tree a pass says nothing (baseline_root).
PassMeansAccepted ==
  at = "idle" /\ verdict = "passed" =>
    LET then == accepted[root]
    IN  \A i \in Required :
          /\ Scored(i) \subseteq then[i].own \cup (IF i \in Routed THEN then["direct"].own ELSE {})
          /\ then[i].own \subseteq Scored(i) \cup then[i].direct

\* A command that blesses has read every item it needed, and the tree that it replaced, however few
\* lanes it selected, is one that the same results pass with.  A command without --bless that reads
\* this tree is one with the same --baseline-dir, or in a workspace with all assets.
BlessedPasses ==
  at = "idle" /\ verdict = "blessed" =>
    \A i \in Required :
      Readable(i) /\ baseline[root][i].state = "written" /\ Matches(Comparison(i))

\* The rows on the screen and the gate agree: a lane has a failed or unexpectedly passing scenario
\* if and only if its comparison does not match, although a stale finding is in no result
\* (conformance_test_status, and that a baseline names scenarios of the catalog only).
ShownAsGated ==
  at = "finalize" /\ ~request.bless =>
    \A i \in DOMAIN comparisons :
      Matches(comparisons[i]) <=> \A s \in Catalog : Shown(i, s) \notin {"fail", "xpass", "unknown"}

\* The report and the gate are computed apart, one by scenario and one by check: no row is
\* undecided or excused (compare_result_sets), a failure the report attributes to the gateways
\* alone is among the findings that the gate compares, and a report without failures leaves the
\* gate no failure to compare.
ReportedIsGated ==
  Reportable => \A s \in Catalog, i \in Lane :
    /\ Row(s).class \notin {"ambiguous", "fixture failure"}
    /\ i \in Row(s).failing /\ (i \in Routed => "direct" \notin Row(s).failing) =>
         \E f \in Actual(i) : f.scenario = s /\ f.status = "failure"
    /\ i \notin Row(s).failing => \A f \in Actual(i) : f.scenario = s => f.status # "failure"

\* README.md:282: `--bless` replaces only the selected baselines.
BlessesSelected ==
  [][\A i \in Item : verdict' = "blessed" /\ baseline'[root][i] # baseline[root][i] =>
       i \in request.lanes \/ (i = "client" /\ HasClientRun)]_vars
=============================================================================
