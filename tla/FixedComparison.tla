--------------------------- MODULE FixedComparison ---------------------------
(***************************************************************************)
(* fixed_comparison: both lanes on one target, one after the other, every   *)
(* load level once.  Every level is a phase of LoadPhase; result.json is    *)
(* saved after each.                                                       *)
(***************************************************************************)
EXTENDS LoadPhase, Sequences

CONSTANT Levels    \* user_levels, in order

\* The configuration of a run is checked: a level is named once.
ASSUME LevelsAssumption ==
  /\ Levels \in Seq(Nat) /\ Levels # <<>>
  /\ \A i, j \in DOMAIN Levels : Levels[i] = Levels[j] => i = j

VARIABLES
  comparison,  \* where the comparison is
  lane, level, \* what it measures next
  runs,        \* levels that have a result, by lane
  target,      \* lanes whose containers are on the target
  survived,    \* has a docker compose down failed, which is ignored?
  saved,       \* the status in result.json
  verdict      \* how the comparison ends once the target is reset

comparisonVars == <<comparison, lane, level, runs, target, survived, saved, verdict>>

Lanes == <<"rust", "builtin">>
Lane == {"rust", "builtin"}

ComparisonInit ==
  /\ comparison = "idle" /\ lane = "rust" /\ level = 1 /\ runs = [l \in Lane |-> 0]
  /\ target = {} /\ survived = FALSE /\ saved = "none" /\ verdict = "none"

End(s, v) == comparison' = "finally" /\ saved' = s /\ verdict' = v

\* An exception is saved as a failure.
Raise == End("failed", "raised")

\* reset_comparison_target: both projects are brought down, a failure ignored.
ResetTarget ==
  /\ target' \in SUBSET target
  /\ survived' = (survived \/ target' # {})

PrepareLane ==
  /\ comparison = "prepare"
  /\ ResetTarget
  /\ comparison' = "deploy"
  /\ UNCHANGED <<lane, level, runs, saved, verdict, phaseVars>>

\* docker compose pull, tried four times, and up.
StartLane ==
  /\ comparison = "deploy"
  /\ target' \in {target, target \cup {lane}}
  /\ \/ lane \in target' /\ comparison' = "register" /\ UNCHANGED <<saved, verdict>>
     \/ Raise
  /\ UNCHANGED <<lane, level, runs, survived, phaseVars>>

Registered == comparison' = "measure" /\ UNCHANGED <<saved, verdict>>

\* A token of the helper, the published configuration and the lane's environment.
RegisterRust ==
  /\ comparison = "register" /\ lane = "rust"
  /\ Registered \/ Raise
  /\ UNCHANGED <<lane, level, runs, target, survived, phaseVars>>

\* The gateway, its six tools, which are waited for, and the server that offers them.  A
\* request is repeated, also one that was obeyed but not answered.
RegisterBuiltin ==
  /\ comparison = "register" /\ lane = "builtin"
  /\ Registered \/ Raise
  /\ UNCHANGED <<lane, level, runs, target, survived, phaseVars>>

MeasureLevel ==
  /\ comparison = "measure"
  /\ Call(lane, 0, Levels[level])
  /\ UNCHANGED comparisonVars

BugGoOn == FALSE
LevelFailed == result.kind = "failed"

BugLastLevel == level > Len(Levels)
LastLevel == level = Len(Levels)

\* The level's result is saved first; then a saturated helper, then a failure, ends it all.
LevelEnds ==
  /\ comparison = "measure" /\ Returned
  /\ IF result.kind = "raised"
       THEN Raise /\ UNCHANGED <<level, runs>>
       ELSE /\ runs' = [runs EXCEPT ![lane] = @ + 1]
            /\ IF result.saturated # "none" THEN End("inconclusive", "saturated") /\ UNCHANGED level
               ELSE IF LevelFailed THEN End("failed", "failed") /\ UNCHANGED level
               ELSE /\ comparison' = IF LastLevel THEN "reset" ELSE "measure"
                    /\ level' = IF LastLevel THEN 1 ELSE level + 1
                    /\ UNCHANGED <<saved, verdict>>
  /\ UNCHANGED <<lane, target, survived>>

\* A lane that is through leaves the target.
LaneEnds ==
  /\ comparison = "reset"
  /\ ResetTarget
  /\ \/ /\ lane = "rust" /\ lane' = "builtin" /\ comparison' = "prepare"
        /\ UNCHANGED <<saved, verdict>>
     \/ lane = "builtin" /\ End("confirmed", "confirmed") /\ UNCHANGED lane
     \/ Raise /\ UNCHANGED lane
  /\ UNCHANGED <<level, runs, phaseVars>>

\* On every way out the target is reset; an exception there replaces the verdict.
Finally ==
  /\ comparison = "finally"
  /\ ResetTarget
  /\ comparison' \in {verdict, "raised"}
  /\ UNCHANGED <<lane, level, runs, saved, verdict, phaseVars>>

ComparisonNext == 
  \/ PrepareLane \/ StartLane \/ RegisterRust \/ RegisterBuiltin
  \/ MeasureLevel \/ LevelEnds \/ LaneEnds \/ Finally

=============================================================================
