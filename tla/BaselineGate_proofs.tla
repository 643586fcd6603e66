------------------------ MODULE BaselineGate_proofs ------------------------
(* Safety of BaselineGate for every catalog, set of outputs and requests.     *)
EXTENDS BaselineGate, TLAPS

\* What a command has compared is what the gate would compare now: neither the artifacts nor the
\* baselines move before it ends.
Compares ==
  /\ at \in {"idle", "run", "server"} => comparisons = Uncompared
  /\ \A i \in DOMAIN comparisons :
       /\ comparisons[i] = Comparison(i)
       /\ Readable(i)
       /\ i \in Routed => "direct" \in DOMAIN comparisons
       /\ baseline[root][i].state = "written" \/ request.bless

\* A command without failure has left all it needs, and compared it.
Whole ==
  ~failed =>
    /\ at \in {"server", "client"} => \A i \in Required : artifact[i].state = "complete"
    /\ at \in {"server", "client"} /\ "client" \notin Required => artifact["client"].state = "absent"
    /\ at = "client" => DOMAIN comparisons = Evidence
    /\ at = "finalize" => DOMAIN comparisons = Required
    /\ ~request.bless => \A i \in DOMAIN comparisons : Matches(comparisons[i])

\* A baseline, of any tree, is what its last bless accepted of the item, less what the direct
\* fixture had then; or what it came with.
Kept(d, acc) ==
  /\ d.state = "written" => d.findings = acc.own \ acc.direct
  /\ d.state # "written" => d.findings = {}
  /\ \A f \in acc.own : f.scenario \in Catalog
Accounted ==
  \A t \in Tree, i \in Item :
    /\ Kept(baseline[t][i], accepted[t][i])
    /\ i \notin Routed => accepted[t][i].direct = {}

GateInv == TypeOK /\ Compares /\ Whole /\ Accounted /\ PassMeansAccepted /\ BlessedPasses

----------------------------------------------------------------------------
\* Operators.

\* A readable scenario without an unknown status is decided, and it fails if and only if one of its
\* checks does.
LEMMA Decided ==
  ASSUME NEW checks \in SUBSET Check, checks # {}, \A c \in checks : c.status # "other"
  PROVE  /\ GatedOutcome(checks) \in {"failure", "compliant", "not applicable"}
         /\ GatedOutcome(checks) = "failure" <=> \E c \in checks : c.status = "failure"
<1>1. \A c \in checks : c.status \in {"success", "failure", "warning", "skipped", "info"}
  BY DEF Check, Status
<1>2. CASE \E c \in checks : c.status = "failure"
  BY <1>2 DEF GatedOutcome, Outcome
<1>3. CASE \A c \in checks : c.status # "failure"
  BY <1>1, <1>3 DEF GatedOutcome, Outcome
<1> QED
  BY <1>2, <1>3

LEMMA ReadableResults ==
  ASSUME TypeOK, NEW i \in Item, Readable(i)
  PROVE  /\ artifact[i].results \in [Catalog -> Outputs]
         /\ DOMAIN artifact[i].results = Catalog
         /\ \A s \in Catalog : /\ artifact[i].results[s] \in SUBSET Check
                               /\ artifact[i].results[s] # {}
                               /\ \A c \in artifact[i].results[s] : c.status # "other"
<1>1. artifact[i] \in [state: {"complete"}, results: Results]
  BY DEF TypeOK, Readable, Nothing, Partial
<1>2. artifact[i].results \in Results
  BY <1>1
<1>3. PICK S \in SUBSET (Catalog \cup Stray) : artifact[i].results \in [S -> Outputs]
  BY <1>2 DEF Results
<1>4. DOMAIN artifact[i].results = Catalog /\ S = Catalog
  BY <1>3 DEF Readable, Exact
<1> QED
  BY <1>3, <1>4, OutputsAssumption DEF Readable, Exact, Known

\* The rows of a readable item.
LEMMA RowOf ==
  ASSUME TypeOK, NEW i \in Item, Readable(i), NEW s \in Catalog
  PROVE  /\ OutcomeOf(i, s) \in {"failure", "compliant", "not applicable"}
         /\ OutcomeOf(i, s) = "failure" <=> \E f \in Scored(i) : f.scenario = s /\ f.status = "failure"
<1> DEFINE res == artifact[i].results
<1>1. /\ DOMAIN res = Catalog /\ res[s] \in SUBSET Check /\ res[s] # {}
      /\ \A c \in res[s] : c.status # "other"
  BY ReadableResults
<1>2. OutcomeOf(i, s) = GatedOutcome(res[s])
  BY <1>1 DEF OutcomeOf
<1>3. ASSUME NEW c \in res[s], c.status = "failure"
      PROVE  \E f \in Scored(i) : f.scenario = s /\ f.status = "failure"
  <2> DEFINE f == [scenario |-> s, id |-> c.id, status |-> "failure"]
  <2>1. f \in Finding
    BY <1>1 DEF Finding, Check
  <2>2. f \in Scored(i)
    BY <1>1, <1>3, <2>1 DEF Scored, ScoredFindings
  <2> QED
    BY <2>2
<1>4. ASSUME NEW f \in Scored(i), f.scenario = s, f.status = "failure"
      PROVE  \E c \in res[s] : c.status = "failure"
  BY <1>4 DEF Scored, ScoredFindings
<1> QED
  BY <1>1, <1>2, <1>3, <1>4, Decided

LEMMA ScoredTyped == ASSUME NEW i PROVE Scored(i) \in SUBSET Finding
  BY DEF Scored, ScoredFindings

LEMMA ScoredInCatalog ==
  ASSUME NEW i, Readable(i), NEW f \in Scored(i)
  PROVE  f.scenario \in Catalog
  BY DEF Readable, Exact, Scored, ScoredFindings

LEMMA ComparisonTyped ==
  ASSUME TypeOK, NEW i \in Item
  PROVE  Comparison(i) \in Compared /\ Actual(i) \in SUBSET Finding
  BY ScoredTyped DEF Comparison, Compared, Actual, TypeOK, Document

----------------------------------------------------------------------------
\* Rows and findings of a state.

\* ReportedIsGated holds of every state that is typed.
LEMMA TypedReports == ASSUME TypeOK PROVE ReportedIsGated
<1> SUFFICES ASSUME Reportable, NEW s \in Catalog, NEW i \in Lane
             PROVE  /\ Row(s).class \notin {"ambiguous", "fixture failure"}
                    /\ /\ i \in Row(s).failing
                       /\ i \in Routed => "direct" \notin Row(s).failing
                       => \E f \in Actual(i) : f.scenario = s /\ f.status = "failure"
                    /\ i \notin Row(s).failing =>
                         \A f \in Actual(i) : f.scenario = s => f.status # "failure"
  BY DEF ReportedIsGated
<1>1. \A l \in Lane : l \in Row(s).failing <=>
                        \E f \in Scored(l) : f.scenario = s /\ f.status = "failure"
  <2>1. \A l \in Lane : l \in Row(s).failing <=> OutcomeOf(l, s) = "failure"
    BY DEF Row
  <2> QED
    BY <2>1, RowOf DEF Reportable, Item
<1>2. Actual(i) \subseteq Scored(i)
  BY DEF Actual
<1>3. ASSUME i \in Row(s).failing, i \in Routed => "direct" \notin Row(s).failing
      PROVE  \E f \in Actual(i) : f.scenario = s /\ f.status = "failure"
  <2>1. PICK f \in Scored(i) : f.scenario = s /\ f.status = "failure"
    BY <1>1, <1>3
  <2>2. i \in Routed => f \notin Scored("direct")
    BY <1>1, <1>3, <2>1 DEF Lane
  <2> QED
    BY <2>1, <2>2 DEF Actual
<1>4. Row(s).class \notin {"ambiguous", "fixture failure"}
  <2>1. \A l \in Lane : OutcomeOf(l, s) \in {"failure", "compliant", "not applicable"}
    BY RowOf DEF Reportable, Item
  <2> QED
    BY <2>1 DEF Row
<1> QED
  BY <1>1, <1>2, <1>3, <1>4

----------------------------------------------------------------------------
\* The screen.

\* While the comparisons stand, the rows of a lane agree with its comparison.
LEMMA ShownOfState == ASSUME TypeOK, Compares, Accounted PROVE ShownAsGated
<1> SUFFICES ASSUME NEW i \in DOMAIN comparisons
             PROVE  Matches(comparisons[i]) <=>
                      \A s \in Catalog : Shown(i, s) \notin {"fail", "xpass", "unknown"}
  BY DEF ShownAsGated
<1> DEFINE c == comparisons[i]
<1>1. i \in Item /\ c = Comparison(i) /\ Readable(i)
  BY DEF Compares, TypeOK
<1>2. ASSUME Matches(c), NEW s \in Catalog
      PROVE  Shown(i, s) \notin {"fail", "xpass", "unknown"}
  <2>1. OutcomeOf(i, s) \in {"failure", "compliant", "not applicable"}
    BY <1>1, RowOf
  <2>2. Of(c.unexpected, s) = {} /\ Of(c.stale, s) = {}
    BY <1>2 DEF Matches, Of
  <2> QED
    BY <2>1, <2>2 DEF Shown
<1>3. ASSUME NEW f \in c.unexpected
      PROVE  \E s \in Catalog : Shown(i, s) = "fail"
  <2>1. f \in Scored(i)
    BY <1>1 DEF Comparison, Actual
  <2>2. f.scenario \in Catalog
    BY <1>1, <2>1, ScoredInCatalog
  <2>3. Of(c.unexpected, f.scenario) # {}
    BY DEF Of
  <2> QED
    BY <2>2, <2>3 DEF Shown
<1>4. ASSUME NEW f \in c.stale
      PROVE  \E s \in Catalog : Shown(i, s) \in {"fail", "xpass"}
  <2>1. f \in baseline[root][i].findings
    BY <1>1 DEF Comparison
  <2>2. f.scenario \in Catalog
    BY <1>1, <2>1 DEF Accounted, Kept, TypeOK, Document
  <2>3. Of(c.stale, f.scenario) # {}
    BY DEF Of
  <2> QED
    BY <2>2, <2>3 DEF Shown
<1> QED
  BY <1>2, <1>3, <1>4 DEF Matches

----------------------------------------------------------------------------
\* The invariant and the steps of a command.

LEMMA NoneCompared == DOMAIN Uncompared = {}
  BY DEF Uncompared

\* What is read and compared depends on the request, the artifacts and the baselines only.
LEMMA Unmoved ==
  ASSUME UNCHANGED <<request, artifact>>
  PROVE  /\ Required' = Required /\ Evidence' = Evidence
         /\ \A i : Scored(i)' = Scored(i) /\ (Readable(i)' <=> Readable(i)) /\ Actual(i)' = Actual(i)
         /\ UNCHANGED <<root, baseline>> => \A i : Comparison(i)' = Comparison(i)
<1>1. Required' = Required /\ Evidence' = Evidence
  BY DEF Required, Evidence, HasClientRun
<1>2. \A i : Scored(i)' = Scored(i) /\ (Readable(i)' <=> Readable(i))
  BY DEF Scored, Readable
<1>3. \A i : Actual(i)' = Actual(i)
  BY <1>2 DEF Actual
<1> QED
  BY <1>1, <1>2, <1>3 DEF Comparison

LEMMA RequiredItems ==
  ASSUME TypeOK
  PROVE  /\ Evidence \subseteq Lane /\ Required \subseteq Item
         /\ Required \cap Routed # {} => "direct" \in Evidence
         /\ "client" \in Required <=> HasClientRun
         /\ Required = Evidence \cup (IF HasClientRun THEN {"client"} ELSE {})
<1>1. request.lanes \subseteq Lane
  BY RequestsAssumption DEF TypeOK
<1>2. Evidence \subseteq Lane
  BY <1>1 DEF Evidence, Lane
<1>3. Required \cap Routed = Evidence \cap Routed
  BY DEF Required, Routed
<1>4. Evidence \cap Routed # {} => "direct" \in Evidence
  BY DEF Evidence, Routed
<1> QED
  BY <1>2, <1>3, <1>4 DEF Required, Item, Lane

\* What a version comes with is accepted as it is.
LEMMA Coming ==
  ASSUME NEW i \in Item, NEW d \in {NoBaseline, Unusable} \cup {p[i] : p \in Packages}
  PROVE  /\ d \in Document
         /\ CameWith(d) \in Accepted /\ Kept(d, CameWith(d)) /\ CameWith(d).direct = {}
<1>1. /\ d \in Document
      /\ d.state # "written" => d.findings = {}
      /\ \A f \in d.findings : f.scenario \in Catalog
  <2>1. CASE d \in {NoBaseline, Unusable}
    BY <2>1 DEF NoBaseline, Unusable, Document
  <2>2. CASE \E p \in Packages : d = p[i]
    <3>1. d \in {NoBaseline} \cup {Written(F) : F \in SUBSET {f \in Finding : f.scenario \in Catalog}}
      BY <2>2, PackagesAssumption
    <3>2. CASE d = NoBaseline
      BY <3>2 DEF NoBaseline, Document
    <3>3. ASSUME NEW F \in SUBSET {f \in Finding : f.scenario \in Catalog}, d = Written(F)
          PROVE  d \in Document /\ d.state = "written" /\ \A f \in d.findings : f.scenario \in Catalog
      BY <3>3 DEF Written, Document
    <3> QED
      BY <3>1, <3>2, <3>3
  <2> QED
    BY <2>1, <2>2
<1>2. d.findings \in SUBSET Finding
  BY <1>1 DEF Document
<1>3. CameWith(d) = [own |-> d.findings, direct |-> {}]
  BY DEF CameWith
<1> QED
  BY <1>1, <1>2, <1>3 DEF Accepted, Kept

LEMMA ComingAll ==
  ASSUME NEW p \in Packages \cup {NoBaselines}
  PROVE  /\ p \in [Item -> Document] /\ ComeWith(p) \in [Item -> Accepted]
         /\ \A i \in Item : Kept(p[i], ComeWith(p)[i]) /\ ComeWith(p)[i].direct = {}
<1>1. p = [i \in Item |-> p[i]]
  BY PackagesAssumption DEF NoBaselines
<1>2. \A i \in Item : p[i] \in {NoBaseline, Unusable} \cup {q[i] : q \in Packages}
  BY DEF NoBaselines
<1>3. \A i \in Item : /\ p[i] \in Document
                      /\ CameWith(p[i]) \in Accepted /\ Kept(p[i], CameWith(p[i]))
                      /\ CameWith(p[i]).direct = {}
  BY <1>2, Coming
<1> QED
  BY <1>1, <1>3 DEF ComeWith

LEMMA InitInv == Init => GateInv
<1> SUFFICES ASSUME Init PROVE GateInv
  OBVIOUS
<1>0. PICK p \in Packages : baseline = [t \in Tree |-> IF t = "packaged" THEN p ELSE NoBaselines]
  BY DEF Init
<1>1. \A t \in Tree : baseline[t] \in Packages \cup {NoBaselines} /\ accepted[t] = ComeWith(baseline[t])
  BY <1>0 DEF Init
<1>2. baseline \in [Tree -> [Item -> Document]] /\ accepted \in [Tree -> [Item -> Accepted]]
  <2>1. \A t \in Tree : baseline[t] \in [Item -> Document] /\ accepted[t] \in [Item -> Accepted]
    BY <1>1, ComingAll
  <2>2. baseline = [t \in Tree |-> baseline[t]] /\ accepted = [t \in Tree |-> accepted[t]]
    BY <1>0 DEF Init
  <2> QED
    BY <2>1, <2>2
<1>3. TypeOK
  BY <1>2, NoneCompared DEF Init, TypeOK, Tree
<1>4. Compares /\ Whole
  BY NoneCompared DEF Init, Compares, Whole
<1>5. Accounted
  BY <1>1, ComingAll DEF Accounted
<1> QED
  BY <1>3, <1>4, <1>5 DEF GateInv, Init, PassMeansAccepted, BlessedPasses

LEMMA BeginInv == ASSUME GateInv, Begin PROVE GateInv'
<1>1. root' \in Tree
  <2>1. request'.baseline_dir \in {"default", "workspace"} \cup Other
    BY RequestsAssumption DEF Begin
  <2>2. \A r : r.baseline_dir \in {"default", "workspace"} \cup Other => BaselineRoots(r) \subseteq Tree
    BY DEF BaselineRoots, Tree
  <2> QED
    BY <2>1, <2>2 DEF Begin
<1>2. TypeOK'
  BY <1>1, NoneCompared DEF GateInv, TypeOK, Begin
<1>3. Compares' /\ Whole'
  BY NoneCompared DEF GateInv, Compares, Whole, Begin
<1>4. Accounted'
  BY DEF GateInv, Accounted, Begin
<1> QED
  BY <1>2, <1>3, <1>4 DEF GateInv, Begin, PassMeansAccepted, BlessedPasses

LEMMA RemainsTyped ==
  ASSUME TypeOK, NEW i \in Item
  PROVE  Remains(i) \subseteq {Nothing, Partial} \cup [state: {"complete"}, results: Results]
<1>1. artifact[i] \in {Nothing, Partial} \cup [state: {"complete"}, results: Results]
  BY DEF TypeOK
<1>2. ASSUME artifact[i].state = "complete", NEW S \in SUBSET DOMAIN artifact[i].results
      PROVE  [s \in S |-> artifact[i].results[s]] \in Results
  <2>1. artifact[i].results \in Results
    BY <1>1, <1>2 DEF Nothing, Partial
  <2>2. PICK T \in SUBSET (Catalog \cup Stray) : artifact[i].results \in [T -> Outputs]
    BY <2>1 DEF Results
  <2>3. [s \in S |-> artifact[i].results[s]] \in [S -> Outputs]
    BY <2>2
  <2> QED
    BY <2>2, <2>3 DEF Results
<1>3. CASE artifact[i].state = "complete"
  BY <1>1, <1>2, <1>3 DEF Remains
<1>4. CASE artifact[i].state # "complete"
  BY <1>1, <1>4 DEF Remains
<1> QED
  BY <1>3, <1>4

LEMMA ClearFailsInv == ASSUME GateInv, ClearFails PROVE GateInv'
<1>1. TypeOK'
  <2>1. PICK k \in Item : \E rest \in Remains(k) :
          artifact' = [i \in Item |-> IF i \in ClearedBefore[k] THEN Nothing
                                     ELSE IF i = k THEN rest ELSE artifact[i]]
    BY DEF ClearFails
  <2>2. Remains(k) \subseteq {Nothing, Partial} \cup [state: {"complete"}, results: Results]
    BY RemainsTyped DEF GateInv
  <2>3. artifact' \in [Item -> {Nothing, Partial} \cup [state: {"complete"}, results: Results]]
    BY <2>1, <2>2 DEF GateInv, TypeOK
  <2> QED
    BY <2>3 DEF GateInv, TypeOK, ClearFails
<1>2. Compares' /\ Whole'
  BY NoneCompared DEF GateInv, Compares, Whole, ClearFails
<1>3. Accounted'
  BY DEF GateInv, Accounted, ClearFails
<1> QED
  BY <1>1, <1>2, <1>3 DEF GateInv, ClearFails, PassMeansAccepted, BlessedPasses

LEMMA RunInv == ASSUME GateInv, Run PROVE GateInv'
<1>0. PICK left \in [Required -> {Nothing, Partial} \cup Completed] :
        artifact' = [i \in Item |-> IF i \in Required THEN left[i] ELSE Nothing]
  BY DEF Run
<1>1. TypeOK'
  <2>1. Completed \subseteq [state: {"complete"}, results: Results]
    BY DEF Completed
  <2>2. artifact' \in [Item -> {Nothing, Partial} \cup [state: {"complete"}, results: Results]]
    BY <1>0, <2>1
  <2> QED
    BY <2>2 DEF GateInv, TypeOK, Run
<1>2. Compares'
  BY NoneCompared DEF GateInv, Compares, Run
<1>3. Whole'
  <2>1. Required' = Required
    BY DEF Run, Required, Evidence, HasClientRun
  <2>2. ~failed' => \A i \in Required : artifact'[i].state = "complete"
    BY DEF Run
  <2>3. "client" \notin Required => artifact'["client"].state = "absent"
    BY <1>0 DEF Item, Nothing
  <2>4. at' = "server" /\ comparisons' = Uncompared
    BY DEF Run, GateInv, Compares
  <2> QED
    BY <2>1, <2>2, <2>3, <2>4, NoneCompared DEF Whole
<1>4. Accounted'
  BY DEF GateInv, Accounted, Run
<1> QED
  BY <1>1, <1>2, <1>3, <1>4 DEF GateInv, Run, PassMeansAccepted, BlessedPasses

----------------------------------------------------------------------------
\* The two gates.

\* Without a failure every item of R is compared; an item is compared with a baseline it has, or
\* to be blessed, and a routed one beside the direct lane.
LEMMA GateEffect ==
  ASSUME NEW R, NEW unloaded, Gate(R, unloaded)
  PROVE  /\ ~failed' => /\ ~failed /\ ~unloaded
                        /\ DOMAIN comparisons' = DOMAIN comparisons \cup R
                        /\ ~request.bless => \A i \in R : Matches(Comparison(i))
         /\ \/ comparisons' = comparisons
            \/ /\ ~Faulty(R) /\ ~unloaded
               /\ comparisons' = [i \in DOMAIN comparisons \cup R |->
                                    IF i \in R THEN Comparison(i) ELSE comparisons[i]]
         /\ failed \in BOOLEAN => failed' \in BOOLEAN
<1>1. CASE unloaded \/ Faulty(R)
  BY <1>1 DEF Gate
<1>2. CASE ~(unloaded \/ Faulty(R))
  BY <1>2 DEF Gate
<1> QED
  BY <1>1, <1>2

\* What a gate adds to the comparisons stands beside what they were.
LEMMA GateCompares ==
  ASSUME GateInv, NEW R, NEW unloaded, Gate(R, unloaded), R \subseteq Item,
         unloaded \/ \A i \in R : Readable(i),
         UNCHANGED <<request, root, artifact, baseline>>, at' \notin {"idle", "run", "server"}
  PROVE  /\ Compares'
         /\ DOMAIN comparisons' \subseteq Item
         /\ \A i \in DOMAIN comparisons' : comparisons'[i] \in Compared
<1> DEFINE Sound(c) ==
      \A i \in DOMAIN c : /\ c[i] = Comparison(i)
                          /\ Readable(i)
                          /\ i \in Routed => "direct" \in DOMAIN c
                          /\ baseline[root][i].state = "written" \/ request.bless
<1>1. Sound(comparisons) /\ DOMAIN comparisons \subseteq Item
  BY DEF GateInv, Compares, TypeOK
<1>2. ASSUME ~Faulty(R), ~unloaded,
             comparisons' = [i \in DOMAIN comparisons \cup R |->
                              IF i \in R THEN Comparison(i) ELSE comparisons[i]]
      PROVE  Sound(comparisons') /\ DOMAIN comparisons' \subseteq Item
  <2>1. R \cap Routed # {} => "direct" \in R
    BY <1>2 DEF Faulty
  <2>2. ASSUME NEW i \in R PROVE baseline[root][i].state = "written" \/ request.bless
    <3>1. baseline[root][i].state \in {"absent", "unusable", "written"}
      BY DEF GateInv, TypeOK, Document
    <3> QED
      BY <1>2, <3>1 DEF Faulty
  <2>3. DOMAIN comparisons' = DOMAIN comparisons \cup R
    BY <1>2
  <2>4. ASSUME NEW i \in R
        PROVE  comparisons'[i] = Comparison(i) /\ Readable(i)
    BY <1>2
  <2>5. ASSUME NEW i \in DOMAIN comparisons, i \notin R
        PROVE  comparisons'[i] = Comparison(i) /\ Readable(i)
    BY <1>1, <1>2, <2>5
  <2> QED
    BY <1>1, <2>1, <2>2, <2>3, <2>4, <2>5
<1>3. Sound(comparisons') /\ DOMAIN comparisons' \subseteq Item
  <2>1. CASE comparisons' = comparisons
    BY <1>1, <2>1
  <2>2. CASE comparisons' # comparisons
    <3>1. /\ ~Faulty(R) /\ ~unloaded
          /\ comparisons' = [i \in DOMAIN comparisons \cup R |->
                               IF i \in R THEN Comparison(i) ELSE comparisons[i]]
      BY <2>2, GateEffect
    <3> HIDE DEF Sound
    <3> QED
      BY <1>2, <3>1
  <2> QED
    BY <2>1, <2>2
<1>4. \A i : Comparison(i)' = Comparison(i) /\ (Readable(i)' <=> Readable(i))
  BY Unmoved
<1>5. \A i \in DOMAIN comparisons' : comparisons'[i] \in Compared
  BY <1>3, ComparisonTyped DEF GateInv
<1> QED
  BY <1>3, <1>4, <1>5 DEF Compares

LEMMA GateServerInv == ASSUME GateInv, GateServer PROVE GateInv'
<1> DEFINE R == Complete(Evidence)
           unloaded == Unreadable(Evidence) \/ (~failed /\ R # Evidence)
<1>1. Gate(R, unloaded)
  BY DEF GateServer
<1>2. R \subseteq Item
  BY RequiredItems DEF Complete, GateInv, Item
<1>3. unloaded \/ \A i \in R : Readable(i)
  BY DEF Unreadable, Complete
<1>4. UNCHANGED <<request, root, artifact, baseline, verdict, accepted>> /\ at = "server" /\ at' = "client"
  BY DEF GateServer
<1>5. Compares' /\ TypeOK'
  <2>1. /\ Compares'
        /\ DOMAIN comparisons' \subseteq Item
        /\ \A i \in DOMAIN comparisons' : comparisons'[i] \in Compared
    BY <1>1, <1>2, <1>3, <1>4, GateCompares
  <2>2. failed' \in BOOLEAN
    BY <1>1, GateEffect DEF GateInv, TypeOK
  <2> QED
    BY <1>4, <2>1, <2>2 DEF GateInv, TypeOK
<1>6. \A i \in DOMAIN comparisons' : comparisons'[i] = Comparison(i)
  <2>1. \A i : Comparison(i)' = Comparison(i)
    BY <1>4, Unmoved
  <2> QED
    BY <1>5, <2>1 DEF Compares
<1>7. Required' = Required /\ Evidence' = Evidence
  BY <1>4, Unmoved
<1>8. Whole'
  <2>1. comparisons = Uncompared
    BY <1>4 DEF GateInv, Compares
  <2>2. ASSUME ~failed'
        PROVE  /\ ~failed /\ DOMAIN comparisons' = Evidence
               /\ ~request.bless => \A i \in Evidence : Matches(Comparison(i))
    <3>1. ~failed /\ ~unloaded /\ DOMAIN comparisons' = DOMAIN comparisons \cup R
      BY <1>1, <2>2, GateEffect
    <3>2. R = Evidence
      BY <3>1
    <3>3. ~request.bless => \A i \in R : Matches(Comparison(i))
      BY <1>1, <2>2, GateEffect
    <3>4. DOMAIN comparisons' = Evidence
      BY <2>1, <3>1, <3>2, NoneCompared
    <3> QED
      BY <3>1, <3>2, <3>3, <3>4
  <2>3. ~failed' /\ ~request.bless => \A i \in DOMAIN comparisons' : Matches(comparisons'[i])
    BY <1>6, <2>2
  <2>4. ~failed' => \A i \in Required : artifact[i].state = "complete"
    BY <1>4, <2>2 DEF GateInv, Whole
  <2>5. ~failed' /\ "client" \notin Required => artifact["client"].state = "absent"
    BY <1>4, <2>2 DEF GateInv, Whole
  <2> QED
    BY <1>4, <1>7, <2>2, <2>3, <2>4, <2>5 DEF Whole
<1> QED
  BY <1>4, <1>5, <1>8 DEF GateInv, Accounted, PassMeansAccepted, BlessedPasses

LEMMA GateClientInv == ASSUME GateInv, GateClient PROVE GateInv'
<1> DEFINE R == Complete({"client"})
           unloaded == Unreadable({"client"})
<1>1. Gate(R, unloaded)
  BY DEF GateClient
<1>2. R \subseteq Item
  BY DEF Complete, Item
<1>3. unloaded \/ \A i \in R : Readable(i)
  BY DEF Unreadable, Complete
<1>4. UNCHANGED <<request, root, artifact, baseline, verdict, accepted>> /\ at = "client" /\ at' = "finalize"
  BY DEF GateClient
<1>5. Compares' /\ TypeOK'
  <2>1. /\ Compares'
        /\ DOMAIN comparisons' \subseteq Item
        /\ \A i \in DOMAIN comparisons' : comparisons'[i] \in Compared
    BY <1>1, <1>2, <1>3, <1>4, GateCompares
  <2>2. failed' \in BOOLEAN
    BY <1>1, GateEffect DEF GateInv, TypeOK
  <2> QED
    BY <1>4, <2>1, <2>2 DEF GateInv, TypeOK
<1>6. \A i \in DOMAIN comparisons' : comparisons'[i] = Comparison(i)
  <2>1. \A i : Comparison(i)' = Comparison(i)
    BY <1>4, Unmoved
  <2> QED
    BY <1>5, <2>1 DEF Compares
<1>7. Required' = Required /\ Evidence' = Evidence
  BY <1>4, Unmoved
<1>8. Whole'
  <2>1. ASSUME ~failed'
        PROVE  /\ ~failed /\ DOMAIN comparisons' = DOMAIN comparisons \cup R
               /\ ~request.bless => \A i \in R : Matches(Comparison(i))
    BY <1>1, <2>1, GateEffect
  <2>2. ~failed' => DOMAIN comparisons' = Required
    <3>1. ~failed => R = IF HasClientRun THEN {"client"} ELSE {}
      BY <1>4, RequiredItems DEF GateInv, Whole, Complete
    <3>2. ~failed => DOMAIN comparisons = Evidence
      BY <1>4 DEF GateInv, Whole
    <3>3. Required = Evidence \cup (IF HasClientRun THEN {"client"} ELSE {})
      BY RequiredItems DEF GateInv
    <3> QED
      BY <2>1, <3>1, <3>2, <3>3
  <2>3. ASSUME ~failed', ~request.bless, NEW i \in DOMAIN comparisons'
        PROVE  Matches(comparisons'[i])
    <3>1. comparisons'[i] = Comparison(i)
      BY <1>6, <2>3
    <3>2. ASSUME i \in DOMAIN comparisons PROVE Matches(Comparison(i))
      <4>1. comparisons[i] = Comparison(i)
        BY <3>2 DEF GateInv, Compares
      <4>2. Matches(comparisons[i])
        BY <2>1, <2>3, <3>2 DEF GateInv, Whole
      <4> QED
        BY <4>1, <4>2
    <3> QED
      BY <2>1, <2>3, <3>1, <3>2
  <2> QED
    BY <1>4, <1>7, <2>2, <2>3 DEF Whole
<1> QED
  BY <1>4, <1>5, <1>8 DEF GateInv, Accounted, PassMeansAccepted, BlessedPasses

----------------------------------------------------------------------------
\* The end of a command.

LEMMA BlessInv == ASSUME GateInv, Bless PROVE GateInv'
<1>1. /\ ~failed /\ at = "finalize" /\ at' = "idle" /\ verdict' = "blessed"
      /\ comparisons' = Uncompared /\ UNCHANGED <<request, root, artifact>>
  BY DEF Bless, Ends
<1>2. DOMAIN comparisons = Required /\ Required \subseteq Item /\ root \in Tree
  BY <1>1, RequiredItems DEF GateInv, Whole, TypeOK
<1>3. \A i \in Required : comparisons[i] = Comparison(i) /\ Readable(i)
  BY <1>2 DEF GateInv, Compares
<1>4. /\ \A i \in Item : i \in Required => Blessed[i] = Written(Actual(i))
      /\ \A i \in Item : i \notin Required => Blessed[i] = baseline[root][i]
  BY <1>2, <1>3 DEF Blessed, Comparison
<1>5. /\ \A i \in Item : i \in Required =>
           Accepts[i] = [own |-> Scored(i), direct |-> IF i \in Routed THEN Scored("direct") ELSE {}]
      /\ \A i \in Item : i \notin Required => Accepts[i] = accepted[root][i]
  BY <1>2 DEF Accepts
<1>6. \A i : Scored(i) \in SUBSET Finding /\ Actual(i) \in SUBSET Finding
  BY ScoredTyped DEF Actual
<1>7. /\ baseline' = [baseline EXCEPT ![root] = Blessed]
      /\ accepted' = [accepted EXCEPT ![root] = Accepts]
      /\ baseline \in [Tree -> [Item -> Document]] /\ accepted \in [Tree -> [Item -> Accepted]]
  BY DEF Bless, GateInv, TypeOK
<1>8. TypeOK'
  <2>1. Blessed \in [Item -> Document]
    <3>1. ASSUME NEW i \in Item PROVE Blessed[i] \in Document
      <4>1. Written(Actual(i)) \in Document
        BY <1>6 DEF Document, Written
      <4>2. baseline[root][i] \in Document
        BY <1>2, <1>7
      <4> QED
        BY <1>4, <4>1, <4>2
    <3>2. Blessed = [i \in Item |-> Blessed[i]]
      BY DEF Blessed
    <3> QED
      BY <3>1, <3>2
  <2>2. Accepts \in [Item -> Accepted]
    <3>1. ASSUME NEW i \in Item PROVE Accepts[i] \in Accepted
      <4>1. [own |-> Scored(i), direct |-> IF i \in Routed THEN Scored("direct") ELSE {}] \in Accepted
        BY <1>6 DEF Accepted
      <4>2. accepted[root][i] \in Accepted
        BY <1>2, <1>7
      <4> QED
        BY <1>5, <4>1, <4>2
    <3>2. Accepts = [i \in Item |-> Accepts[i]]
      BY DEF Accepts
    <3> QED
      BY <3>1, <3>2
  <2>3. baseline' \in [Tree -> [Item -> Document]] /\ accepted' \in [Tree -> [Item -> Accepted]]
    BY <1>7, <2>1, <2>2
  <2> QED
    BY <2>3, NoneCompared DEF GateInv, TypeOK, Bless, Ends
<1>9. Compares' /\ Whole'
  BY <1>1, NoneCompared DEF Compares, Whole
<1>10. Accounted'
  <2>1. SUFFICES ASSUME NEW t \in Tree, NEW i \in Item
        PROVE  /\ Kept(baseline'[t][i], accepted'[t][i])
               /\ i \notin Routed => accepted'[t][i].direct = {}
    BY DEF Accounted
  <2>2. /\ Kept(baseline[t][i], accepted[t][i])
        /\ i \notin Routed => accepted[t][i].direct = {}
    BY DEF GateInv, Accounted
  <2>3. CASE t = root /\ i \in Required
    <3>1. Actual(i) = Scored(i) \ (IF i \in Routed THEN Scored("direct") ELSE {})
      BY DEF Actual
    <3>2. \A f \in Scored(i) : f.scenario \in Catalog
      BY <1>3, <2>3, ScoredInCatalog
    <3>3. /\ baseline'[t][i] = Written(Actual(i))
          /\ accepted'[t][i] = [own |-> Scored(i), direct |-> IF i \in Routed THEN Scored("direct") ELSE {}]
      BY <1>4, <1>5, <1>7, <2>3
    <3>4. /\ baseline'[t][i].state = "written" /\ baseline'[t][i].findings = Actual(i)
          /\ accepted'[t][i].own = Scored(i)
          /\ accepted'[t][i].direct = IF i \in Routed THEN Scored("direct") ELSE {}
      BY <3>3 DEF Written
    <3> QED
      BY <3>1, <3>2, <3>4 DEF Kept
  <2>4. CASE ~(t = root /\ i \in Required)
    <3>1. baseline'[t][i] = baseline[t][i] /\ accepted'[t][i] = accepted[t][i]
      BY <1>2, <1>4, <1>5, <1>7, <2>4
    <3> QED
      BY <2>2, <3>1
  <2> QED
    BY <2>3, <2>4
<1>11. BlessedPasses'
  <2>1. /\ Required' = Required
        /\ \A i : (Readable(i)' <=> Readable(i)) /\ Actual(i)' = Actual(i)
    BY <1>1, Unmoved
  <2>2. ASSUME NEW i \in Required PROVE baseline'[root'][i].state = "written" /\ Matches(Comparison(i))'
    <3>1. baseline'[root'][i] = Written(Actual(i))
      BY <1>1, <1>2, <1>4, <1>7
    <3>2. baseline'[root'][i].state = "written" /\ baseline'[root'][i].findings = Actual(i)'
      BY <2>1, <3>1 DEF Written
    <3> QED
      BY <3>2 DEF Matches, Comparison
  <2> QED
    BY <1>3, <2>1, <2>2 DEF BlessedPasses
<1> QED
  BY <1>1, <1>8, <1>9, <1>10, <1>11 DEF GateInv, PassMeansAccepted

LEMMA EndInv == ASSUME GateInv, End PROVE GateInv'
<1> DEFINE then == accepted[root]
<1>1. /\ at = "finalize" /\ at' = "idle" /\ comparisons' = Uncompared
      /\ UNCHANGED <<request, root, artifact, baseline, accepted>>
      /\ verdict' = IF failed \/ request.bless THEN "failed" ELSE "passed"
  BY DEF End, Ends
<1>2. TypeOK'
  BY NoneCompared DEF GateInv, TypeOK, End, Ends
<1>3. Compares' /\ Whole' /\ Accounted'
  BY <1>1, NoneCompared DEF GateInv, Compares, Whole, Accounted
<1>4. PassMeansAccepted'
  <2>0. root \in Tree
    BY DEF GateInv, TypeOK
  <2>1. /\ Required' = Required
        /\ \A i : Scored(i)' = Scored(i)
    BY <1>1, Unmoved
  <2>2. SUFFICES ASSUME ~failed, ~request.bless, NEW i \in Required
        PROVE  /\ Scored(i) \subseteq
                    then[i].own \cup (IF i \in Routed THEN then["direct"].own ELSE {})
               /\ then[i].own \subseteq Scored(i) \cup then[i].direct
    BY <1>1, <2>1 DEF PassMeansAccepted
  <2>3. DOMAIN comparisons = Required
    BY <1>1, <2>2 DEF GateInv, Whole
  <2>4. \A l \in Required : Actual(l) = then[l].own \ then[l].direct
    <3>1. SUFFICES ASSUME NEW l \in Required PROVE Actual(l) = then[l].own \ then[l].direct
      OBVIOUS
    <3>2. l \in Item /\ comparisons[l] = Comparison(l) /\ baseline[root][l].state = "written"
      BY <2>2, <2>3, RequiredItems DEF GateInv, Compares
    <3>3. Matches(Comparison(l))
      BY <2>2, <2>3, <3>2 DEF GateInv, Whole
    <3>4. Actual(l) = baseline[root][l].findings
      BY <3>3 DEF Matches, Comparison
    <3>5. Kept(baseline[root][l], then[l])
      BY <3>2, <2>0 DEF GateInv, Accounted
    <3> QED
      BY <3>2, <3>4, <3>5 DEF Kept
  <2>5. CASE i \notin Routed
    <3>1. Actual(i) = Scored(i) /\ then[i].direct = {}
      BY <2>0, <2>5, RequiredItems DEF GateInv, Accounted, Actual
    <3> QED
      BY <2>4, <2>5, <3>1
  <2>6. CASE i \in Routed
    <3>1. "direct" \in Required /\ "direct" \notin Routed /\ "direct" \in Item
      BY <2>6, RequiredItems DEF GateInv, Routed, Item, Lane
    <3>2. Scored("direct") = then["direct"].own
      <4>1. Actual("direct") = Scored("direct") /\ then["direct"].direct = {}
        BY <2>0, <3>1 DEF GateInv, Accounted, Actual
      <4> QED
        BY <2>4, <3>1, <4>1
    <3>3. Actual(i) = Scored(i) \ Scored("direct")
      BY <2>6 DEF Actual
    <3> QED
      BY <2>4, <2>6, <3>2, <3>3
  <2> QED
    BY <2>5, <2>6
<1> QED
  BY <1>1, <1>2, <1>3, <1>4 DEF GateInv, BlessedPasses

LEMMA KillInv == ASSUME GateInv, Kill PROVE GateInv'
<1>1. /\ at' = "idle" /\ comparisons' = Uncompared /\ verdict' = "killed"
      /\ UNCHANGED <<request, root, artifact, baseline, accepted>>
  BY DEF Kill, Ends
<1>2. TypeOK'
  BY NoneCompared DEF GateInv, TypeOK, Kill, Ends
<1>3. Compares' /\ Whole' /\ Accounted'
  BY <1>1, NoneCompared DEF GateInv, Compares, Whole, Accounted
<1> QED
  BY <1>1, <1>2, <1>3 DEF GateInv, PassMeansAccepted, BlessedPasses

\* A verdict is of the past when baselines have changed.
LEMMA ChangedInv ==
  ASSUME GateInv, at = "idle", verdict' = "none", TypeOK', Accounted',
         UNCHANGED <<request, root, at, artifact, comparisons, failed>>
  PROVE  GateInv'
<1>1. Compares' /\ Whole'
  BY NoneCompared DEF GateInv, Compares, Whole
<1> QED
  BY <1>1 DEF GateInv, PassMeansAccepted, BlessedPasses

LEMMA EditInv == ASSUME GateInv, Edit PROVE GateInv'
<1>0. PICK t \in Tree \ {"packaged"}, i \in Item :
        \E d \in {NoBaseline, Unusable} \cup {p[i] : p \in Packages} :
          /\ baseline' = [baseline EXCEPT ![t] = [@ EXCEPT ![i] = d]]
          /\ accepted' = [accepted EXCEPT ![t] = [@ EXCEPT ![i] = CameWith(d)]]
  BY DEF Edit
<1>1. PICK d \in {NoBaseline, Unusable} \cup {p[i] : p \in Packages} :
        /\ baseline' = [baseline EXCEPT ![t] = [@ EXCEPT ![i] = d]]
        /\ accepted' = [accepted EXCEPT ![t] = [@ EXCEPT ![i] = CameWith(d)]]
  BY <1>0
<1>2. /\ at = "idle" /\ verdict' = "none"
      /\ UNCHANGED <<request, root, at, artifact, comparisons, failed>>
  BY DEF Edit
<1>3. /\ d \in Document
      /\ CameWith(d) \in Accepted /\ Kept(d, CameWith(d)) /\ CameWith(d).direct = {}
  BY Coming
<1>4. baseline \in [Tree -> [Item -> Document]] /\ accepted \in [Tree -> [Item -> Accepted]]
  BY DEF GateInv, TypeOK
<1>5. baseline' \in [Tree -> [Item -> Document]] /\ accepted' \in [Tree -> [Item -> Accepted]]
  BY <1>1, <1>3, <1>4
<1>6. TypeOK'
  BY <1>2, <1>5 DEF GateInv, TypeOK
<1>7. Accounted'
  <2>1. SUFFICES ASSUME NEW u \in Tree, NEW l \in Item
        PROVE  /\ Kept(baseline'[u][l], accepted'[u][l])
               /\ l \notin Routed => accepted'[u][l].direct = {}
    BY DEF Accounted
  <2>2. CASE u = t /\ l = i
    <3>1. baseline'[u][l] = d /\ accepted'[u][l] = CameWith(d)
      BY <1>1, <1>4, <2>2
    <3> QED
      BY <1>3, <3>1
  <2>3. CASE ~(u = t /\ l = i)
    <3>1. baseline'[u][l] = baseline[u][l] /\ accepted'[u][l] = accepted[u][l]
      BY <1>1, <1>4, <2>3
    <3> QED
      BY <3>1 DEF GateInv, Accounted
  <2> QED
    BY <2>2, <2>3
<1> QED
  BY <1>2, <1>6, <1>7, ChangedInv

LEMMA InstallInv == ASSUME GateInv, Install PROVE GateInv'
<1>1. PICK p \in Packages :
        /\ baseline' = [baseline EXCEPT !["packaged"] = p]
        /\ accepted' = [accepted EXCEPT !["packaged"] = ComeWith(p)]
  BY DEF Install
<1>2. /\ at = "idle" /\ verdict' = "none"
      /\ UNCHANGED <<request, root, at, artifact, comparisons, failed>>
  BY DEF Install
<1>3. /\ p \in [Item -> Document] /\ ComeWith(p) \in [Item -> Accepted]
      /\ \A i \in Item : Kept(p[i], ComeWith(p)[i]) /\ ComeWith(p)[i].direct = {}
  BY ComingAll
<1>4. baseline \in [Tree -> [Item -> Document]] /\ accepted \in [Tree -> [Item -> Accepted]]
  BY DEF GateInv, TypeOK
<1>5. TypeOK'
  <2>1. baseline' \in [Tree -> [Item -> Document]] /\ accepted' \in [Tree -> [Item -> Accepted]]
    BY <1>1, <1>3, <1>4
  <2> QED
    BY <1>2, <2>1 DEF GateInv, TypeOK
<1>6. Accounted'
  <2>1. SUFFICES ASSUME NEW u \in Tree, NEW l \in Item
        PROVE  /\ Kept(baseline'[u][l], accepted'[u][l])
               /\ l \notin Routed => accepted'[u][l].direct = {}
    BY DEF Accounted
  <2>2. CASE u = "packaged"
    BY <1>1, <1>3, <1>4, <2>2
  <2>3. CASE u # "packaged"
    <3>1. baseline'[u] = baseline[u] /\ accepted'[u] = accepted[u]
      BY <1>1, <1>4, <2>3
    <3> QED
      BY <3>1 DEF GateInv, Accounted
  <2> QED
    BY <2>2, <2>3
<1> QED
  BY <1>2, <1>5, <1>6, ChangedInv

LEMMA StutterInv == ASSUME GateInv, UNCHANGED vars PROVE GateInv'
<1>1. UNCHANGED <<request, root, at, artifact, baseline, comparisons, failed, verdict, accepted>>
  BY DEF vars
<1>2. TypeOK' /\ Accounted'
  BY <1>1 DEF GateInv, TypeOK, Accounted
<1>3. /\ Required' = Required /\ Evidence' = Evidence
      /\ \A l : /\ Scored(l)' = Scored(l) /\ (Readable(l)' <=> Readable(l))
               /\ Comparison(l)' = Comparison(l)
  BY <1>1, Unmoved
<1>4. Compares' /\ Whole'
  BY <1>1, <1>3 DEF GateInv, Compares, Whole
<1>5. PassMeansAccepted' /\ BlessedPasses'
  BY <1>1, <1>3 DEF GateInv, PassMeansAccepted, BlessedPasses
<1> QED
  BY <1>2, <1>4, <1>5 DEF GateInv

\* GateInv is inductive.
LEMMA GateInductive == Spec => []GateInv
<1>1. GateInv /\ [Next]_vars => GateInv'
  BY BeginInv, ClearFailsInv, RunInv, GateServerInv, GateClientInv, BlessInv, EndInv, KillInv,
     EditInv, InstallInv, StutterInv DEF Next
<1> QED
  BY InitInv, <1>1, PTL DEF Spec

----------------------------------------------------------------------------
\* Theorems.

\* TypeOK: findings, documents and comparisons keep their types, however the artifacts were left.
THEOREM GateTyped == Spec => []TypeOK
<1>1. GateInv => TypeOK
  BY DEF GateInv
<1> QED
  BY <1>1, GateInductive, PTL

\* PassMeansAccepted: between the last bless of an item in the tree that a passing command reads,
\* or the version it came with, and that command, no finding is new or gone that the direct fixture
\* does not answer for, whatever lanes were blessed in between, there and in any other tree.
THEOREM PassedAsAccepted == Spec => []PassMeansAccepted
<1>1. GateInv => PassMeansAccepted
  BY DEF GateInv
<1> QED
  BY <1>1, GateInductive, PTL

\* BlessedPasses: after a bless, as long as no baseline is changed, every required item is readable
\* and the same results match its baseline in the tree that was replaced.
THEOREM BlessSettles == Spec => []BlessedPasses
<1>1. GateInv => BlessedPasses
  BY DEF GateInv
<1> QED
  BY <1>1, GateInductive, PTL

\* ShownAsGated: conformance_test_status shows a lane as failed if and only if the gate fails it.
THEOREM ScreenAgreesWithGate == Spec => []ShownAsGated
<1>1. GateInv => ShownAsGated
  BY ShownOfState DEF GateInv
<1> QED
  BY <1>1, GateInductive, PTL

\* ReportedIsGated: classify_outcomes decides every scenario, and blames a lane, the fixture apart,
\* only for a failure that evaluate_baselines compares, and for each of them.
THEOREM ReportAgreesWithGate == Spec => []ReportedIsGated
<1>1. GateInv => ReportedIsGated
  BY TypedReports DEF GateInv
<1> QED
  BY <1>1, GateInductive, PTL
=============================================================================
