--------------------------- MODULE MCBaselineGate ---------------------------
(* Small instances of BaselineGate for TLC. *)
EXTENDS BaselineGate

CONSTANTS s1, s2, a, b   \* scenarios and identifiers of checks

OneScenario == {s1}
StrayOne    == {s2}
TwoIds      == {a, b}

Of1(id, status) == [id |-> id, status |-> status, shaped |-> FALSE]
Fails(id)       == [id |-> id, status |-> "failure", shaped |-> TRUE]

\* No finding, two, two of which one is the same, and a result that validation refuses.
PartOrAll ==
  {{Of1(a, "success")}, {Of1(a, "warning"), Of1(b, "warning")}, {Fails(a), Of1(b, "warning")},
   {Of1(a, "other")}}

\* The direct lane is blessed, a routed one blessed or gated, and all lanes gated, with their report.
SomeLanes ==
  {[lanes |-> lanes, bless |-> bless, baseline_dir |-> "default"] :
     <<lanes, bless>> \in {<<{"direct"}, TRUE>>, <<{"external"}, TRUE>>, <<{"external"}, FALSE>>,
                           <<Lane, FALSE>>}}

\* A version comes without baselines, or with the findings of the fixture and none of the
\* external lane.
OneWarning == {[scenario |-> s1, id |-> b, status |-> "warning"]}
TwoPackages ==
  {NoBaselines, [i \in Item |-> CASE i = "direct"   -> Written(OneWarning)
                                  [] i = "external" -> Written({})
                                  [] OTHER          -> NoBaseline]}
NoOtherTree == {}
=============================================================================
