------------------------ MODULE ConformanceRun_proofs ------------------------
(* Safety of ConformanceRun for every matrix, selection and set of sticky     *)
(* resources.                                                                 *)
EXTENDS ConformanceRun, TLAPS

\* A cleanup and a start keep the resource table well typed, whatever fails.
LEMMA WithoutTyped ==
  ASSUME res \in [Resource -> Status], NEW S, NEW keep
  PROVE  Without(res, S, keep) \in [Resource -> Status]
  BY DEF Without, Status

LEMMA ReleaseTyped ==
  ASSUME res \in [Resource -> Status], NEW S, NEW ok, Release(S, ok)
  PROVE  res' \in [Resource -> Status]
  BY WithoutTyped DEF Release

LEMMA BringUpTyped ==
  ASSUME res \in [Resource -> Status], NEW t, NEW fresh, NEW ok, BringUp(t, fresh, ok)
  PROVE  res' \in [Resource -> Status]
<1> DEFINE S == Containers(t) \cup Volumes(t)
           cleared == IF fresh THEN Without(res, S, {}) ELSE res
<1>1. cleared \in [Resource -> Status]
  BY WithoutTyped
<1>2. [cleared EXCEPT ![Stack(t)] = "up"] \in [Resource -> Status]
  BY <1>1 DEF Status
<1>3. CASE Release(S, FALSE)
  BY <1>3, ReleaseTyped
<1> QED
  BY <1>1, <1>2, <1>3 DEF BringUp

\* The artifacts of a lane, and of the client run, are among those of its entry.
LEMMA LaneIsItem == "client" \in Item /\ (TypeOK => scope.lane \in Item)
  BY DEF TypeOK, ScopeState, Item

\* The locals of an entry's run and of a lane start well typed.
LEMMA NewTyped == NewRun \in RunState /\ \A lane \in Lane : NewScope(lane) \in ScopeState
  BY DEF NewRun, NewScope, RunState, ScopeState

LEMMA InitTyped == Init => TypeOK
<1> SUFFICES ASSUME Init PROVE TypeOK
  OBVIOUS
<1>1. entry \in 1..Matrix
  BY MatrixAssumption DEF Init
<1>2. run \in RunState /\ scope \in ScopeState
  BY DEF Init, NewRun, NewScope, RunState, ScopeState, Lane
<1>3. res \in [Resource -> Status]
  BY DEF Init, Status
<1>4. artifact \in Artifacts
  BY DEF Init, Artifacts
<1>5. verdict \in Verdicts
  BY DEF Init, Verdicts
<1> QED
  BY <1>1, <1>2, <1>3, <1>4, <1>5 DEF TypeOK, Init, Outcome, Phases, Signal

\* What a gate adds to the evaluated lanes is of the entry being run.
LEMMA GateTyped ==
  ASSUME TypeOK, NEW items \in SUBSET Item, NEW lacking, NEW gate
  PROVE  Gate(Complete(items), lacking, gate).lanes
           \in SUBSET ((1..Matrix) \X Item \X {"stale", "fresh"})
  BY DEF TypeOK, Gate, Complete, Artifacts

LEMMA EvaluateTyped == TypeOK /\ Evaluate => TypeOK'
<1> SUFFICES ASSUME TypeOK, Evaluate PROVE TypeOK'
  OBVIOUS
<1>1. verdict' \in Verdicts
  <2> DEFINE server == Complete(Evidence)
             lacking == Broken(Evidence) \/ ((~run.err /\ ~run.opfail) /\ server # Evidence)
  <2>1. Evidence \in SUBSET Item /\ {"client"} \in SUBSET Item
    BY RequestsAssumption DEF TypeOK, Request, Evidence, Item, Lane
  <2>2. PICK serverGate \in Gates, clientGate \in Gates :
          LET s == Gate(server, lacking, serverGate)
              c == Gate(Complete({"client"}), Broken({"client"}), clientGate)
          IN  verdict' =
                [failures  |-> verdict.failures \/ run.err \/ s.failed \/ c.failed,
                 reported  |-> verdict.reported \/ run.opfail \/ StopsMatrix,
                 evaluated |-> verdict.evaluated \cup s.lanes \cup c.lanes]
    BY DEF Evaluate
  <2> DEFINE s == Gate(server, lacking, serverGate)
             c == Gate(Complete({"client"}), Broken({"client"}), clientGate)
  <2>3. /\ s.lanes \in SUBSET ((1..Matrix) \X Item \X {"stale", "fresh"})
        /\ c.lanes \in SUBSET ((1..Matrix) \X Item \X {"stale", "fresh"})
    BY <2>1, GateTyped
  <2> HIDE DEF s, c
  <2> QED
    BY <2>2, <2>3 DEF TypeOK, Verdicts, s, c
<1>2. pc' \in Phases
  BY DEF Evaluate, NextEntry, Phases
<1>3. entry' \in 1..Matrix
  BY MatrixAssumption DEF TypeOK, Evaluate, NextEntry, LastEntry
<1> QED
  BY <1>1, <1>2, <1>3 DEF TypeOK, Evaluate

\* Type correctness: the phases, flags, resources and artifacts stay in their
\* sets through every step of the orchestration.
THEOREM TypeCorrect == Spec => []TypeOK
<1>1. TypeOK /\ [Next]_vars => TypeOK'
  <2> SUFFICES ASSUME TypeOK, [Next]_vars PROVE TypeOK'
    OBVIOUS
  <2>1. CASE RequireDocker
    <3>1. outcome' \in Outcome
      BY <2>1 DEF TypeOK, RequireDocker, Outcome
    <3>2. pc' \in Phases
      BY <2>1 DEF TypeOK, RequireDocker, Phases, ClientPhases
    <3> QED BY <2>1, <3>1, <3>2 DEF TypeOK, RequireDocker
  <2>2. CASE PrepareSetupLog
    <3>1. pc' \in Phases
      BY <2>2 DEF TypeOK, PrepareSetupLog, NextEntry, LastEntry, Phases, ClientPhases
    <3>2. entry' \in 1..Matrix
      BY <2>2, MatrixAssumption DEF TypeOK, PrepareSetupLog, NextEntry, LastEntry
    <3>3. run' \in RunState
      BY <2>2, NewTyped DEF TypeOK, PrepareSetupLog, NextEntry, LastEntry
    <3>4. scope' \in ScopeState
      BY <2>2, NewTyped DEF TypeOK, PrepareSetupLog, NextEntry, LastEntry, Lane
    <3>5. verdict' \in Verdicts
      BY <2>2 DEF TypeOK, PrepareSetupLog, NextEntry, LastEntry, Verdicts
    <3> QED BY <2>2, <3>1, <3>2, <3>3, <3>4, <3>5 DEF TypeOK, PrepareSetupLog, NextEntry, LastEntry
  <2>3. CASE ClearArtifacts
    <3>1. pc' \in Phases
      BY <2>3 DEF TypeOK, ClearArtifacts, ClearedItems, Phases, ClientPhases
    <3>2. run' \in RunState
      BY <2>3 DEF TypeOK, ClearArtifacts, ClearedItems, RunState
    <3>3. artifact' \in Artifacts
      BY <2>3 DEF TypeOK, ClearArtifacts, ClearedItems, Artifacts
    <3> QED BY <2>3, <3>1, <3>2, <3>3 DEF TypeOK, ClearArtifacts, ClearedItems
  <2>4. CASE StopPriorFixture
    <3>1. pc' \in Phases
      BY <2>4 DEF TypeOK, StopPriorFixture, Phases, ClientPhases
    <3>2. run' \in RunState
      BY <2>4 DEF TypeOK, StopPriorFixture, RunState
    <3>3. ctrlc' \in Signal
      BY <2>4 DEF TypeOK, StopPriorFixture, Armed, Signal
    <3>4. res' \in [Resource -> Status]
      BY <2>4, ReleaseTyped DEF TypeOK, StopPriorFixture
    <3> QED BY <2>4, <3>1, <3>2, <3>3, <3>4 DEF TypeOK, StopPriorFixture
  <2>5. CASE StartFixture
    <3>1. pc' \in Phases
      BY <2>5 DEF TypeOK, StartFixture, Phases, ClientPhases
    <3>2. run' \in RunState
      BY <2>5 DEF TypeOK, StartFixture, RunState
    <3>3. scope' \in ScopeState
      BY <2>5 DEF TypeOK, StartFixture, ScopeState
    <3>4. ctrlc' \in Signal
      BY <2>5 DEF TypeOK, StartFixture, Poll, Unseen, Signal
    <3>5. res' \in [Resource -> Status]
      BY <2>5 DEF TypeOK, StartFixture, Status
    <3> QED BY <2>5, <3>1, <3>2, <3>3, <3>4, <3>5 DEF TypeOK, StartFixture
  <2>6. CASE StopFixture
    <3>1. pc' \in Phases
      BY <2>6 DEF TypeOK, StopFixture, Phases, ClientPhases
    <3>2. run' \in RunState
      BY <2>6 DEF TypeOK, StopFixture, RunState
    <3>3. scope' \in ScopeState
      BY <2>6, NewTyped DEF TypeOK, StopFixture, Lane
    <3>4. res' \in [Resource -> Status]
      BY <2>6, ReleaseTyped DEF TypeOK, StopFixture
    <3> QED BY <2>6, <3>1, <3>2, <3>3, <3>4 DEF TypeOK, StopFixture
  <2>7. CASE ResetStacks
    <3>1. pc' \in Phases
      BY <2>7 DEF TypeOK, ResetStacks, Phases, ClientPhases
    <3>2. run' \in RunState
      BY <2>7 DEF TypeOK, ResetStacks, RunState
    <3>3. scope' \in ScopeState
      BY <2>7, NewTyped DEF TypeOK, ResetStacks, Lane, FirstTopology
    <3>4. res' \in [Resource -> Status]
      BY <2>7, ReleaseTyped DEF TypeOK, ResetStacks
    <3> QED BY <2>7, <3>1, <3>2, <3>3, <3>4 DEF TypeOK, ResetStacks
  <2>8. CASE StackUp
    <3>1. pc' \in Phases
      BY <2>8 DEF TypeOK, StackUp, Phases, ClientPhases
    <3>2. scope' \in ScopeState
      BY <2>8 DEF TypeOK, StackUp, ScopeState
    <3>3. res' \in [Resource -> Status]
      BY <2>8, BringUpTyped DEF TypeOK, StackUp
    <3> QED BY <2>8, <3>1, <3>2, <3>3 DEF TypeOK, StackUp
  <2>9. CASE StartService
    <3>1. pc' \in Phases
      BY <2>9 DEF TypeOK, StartService, Continue, Phases, ClientPhases
    <3>2. run' \in RunState
      BY <2>9 DEF TypeOK, StartService, RunState
    <3>3. scope' \in ScopeState
      BY <2>9 DEF TypeOK, StartService, ScopeState
    <3>4. ctrlc' \in Signal
      BY <2>9 DEF TypeOK, StartService, Poll, Unseen, Signal
    <3>5. res' \in [Resource -> Status]
      BY <2>9 DEF TypeOK, StartService, Status
    <3> QED BY <2>9, <3>1, <3>2, <3>3, <3>4, <3>5 DEF TypeOK, StartService
  <2>10. CASE Provision
    <3>1. pc' \in Phases
      BY <2>10 DEF TypeOK, Provision, Continue, Phases, ClientPhases
    <3>2. run' \in RunState
      BY <2>10 DEF TypeOK, Provision, RunState
    <3>3. scope' \in ScopeState
      BY <2>10, ZenonT(30) DEF TypeOK, Provision, ScopeState
    <3>4. ctrlc' \in Signal
      BY <2>10 DEF TypeOK, Provision, Poll, Unseen, Signal
    <3>5. res' \in [Resource -> Status]
      BY <2>10 DEF TypeOK, Provision, Status
    <3> QED BY <2>10, <3>1, <3>2, <3>3, <3>4, <3>5 DEF TypeOK, Provision
  <2>11. CASE IssueToken
    <3>1. pc' \in Phases
      BY <2>11 DEF TypeOK, IssueToken, Continue, Phases, ClientPhases
    <3>2. scope' \in ScopeState
      BY <2>11 DEF TypeOK, IssueToken, ScopeState
    <3>3. res' \in [Resource -> Status]
      BY <2>11 DEF TypeOK, IssueToken, Status
    <3> QED BY <2>11, <3>1, <3>2, <3>3 DEF TypeOK, IssueToken
  <2>12. CASE RevokeToken
    <3>1. pc' \in Phases
      BY <2>12 DEF TypeOK, RevokeToken, CleanUp, Phases, ClientPhases
    <3>2. scope' \in ScopeState
      BY <2>12 DEF TypeOK, RevokeToken, CleanUp, Failed, ScopeState
    <3>3. res' \in [Resource -> Status]
      BY <2>12, ReleaseTyped DEF TypeOK, RevokeToken, CleanUp
    <3> QED BY <2>12, <3>1, <3>2, <3>3 DEF TypeOK, RevokeToken, CleanUp
  <2>13. CASE Unregister
    <3>1. pc' \in Phases
      BY <2>13 DEF TypeOK, Unregister, CleanUp, Phases, ClientPhases
    <3>2. scope' \in ScopeState
      BY <2>13 DEF TypeOK, Unregister, CleanUp, Failed, ScopeState
    <3>3. res' \in [Resource -> Status]
      BY <2>13, ReleaseTyped DEF TypeOK, Unregister, CleanUp
    <3> QED BY <2>13, <3>1, <3>2, <3>3 DEF TypeOK, Unregister, CleanUp
  <2>14. CASE StackDown
    <3>1. pc' \in Phases
      BY <2>14 DEF TypeOK, StackDown, AfterTopology, Phases, ClientPhases
    <3>2. run' \in RunState
      BY <2>14 DEF TypeOK, StackDown, Failed, CanReuseExternalStack, RunState
    <3>3. scope' \in ScopeState
      BY <2>14, NewTyped DEF TypeOK, StackDown, Lane
    <3>4. res' \in [Resource -> Status]
      BY <2>14, ReleaseTyped DEF TypeOK, StackDown
    <3> QED BY <2>14, <3>1, <3>2, <3>3, <3>4 DEF TypeOK, StackDown
  <2>15. CASE ClientUp
    <3>1. pc' \in Phases
      BY <2>15 DEF TypeOK, ClientUp, Phases, ClientPhases
    <3>2. scope' \in ScopeState
      BY <2>15 DEF TypeOK, ClientUp, ScopeState
    <3>3. res' \in [Resource -> Status]
      BY <2>15, BringUpTyped DEF TypeOK, ClientUp
    <3> QED BY <2>15, <3>1, <3>2, <3>3 DEF TypeOK, ClientUp
  <2>16. CASE PausePublisher
    <3>1. pc' \in Phases
      BY <2>16 DEF TypeOK, PausePublisher, Phases, ClientPhases
    <3>2. scope' \in ScopeState
      BY <2>16 DEF TypeOK, PausePublisher, ScopeState
    <3>3. res' \in [Resource -> Status]
      BY <2>16 DEF TypeOK, PausePublisher, Status
    <3> QED BY <2>16, <3>1, <3>2, <3>3 DEF TypeOK, PausePublisher
  <2>17. CASE RestorePublisher
    <3>1. pc' \in Phases
      BY <2>17 DEF TypeOK, RestorePublisher, CleanUp, Phases, ClientPhases
    <3>2. scope' \in ScopeState
      BY <2>17 DEF TypeOK, RestorePublisher, CleanUp, Failed, ScopeState
    <3>3. res' \in [Resource -> Status]
      BY <2>17, ReleaseTyped DEF TypeOK, RestorePublisher, CleanUp
    <3> QED BY <2>17, <3>1, <3>2, <3>3 DEF TypeOK, RestorePublisher, CleanUp
  <2>18. CASE ClientDown
    <3>1. pc' \in Phases
      BY <2>18 DEF TypeOK, ClientDown, Phases, ClientPhases
    <3>2. run' \in RunState
      BY <2>18 DEF TypeOK, ClientDown, RunState
    <3>3. scope' \in ScopeState
      BY <2>18, NewTyped DEF TypeOK, ClientDown, Lane
    <3>4. ctrlc' \in Signal
      BY <2>18 DEF TypeOK, ClientDown, Unseen, Signal
    <3>5. res' \in [Resource -> Status]
      BY <2>18, ReleaseTyped DEF TypeOK, ClientDown
    <3> QED BY <2>18, <3>1, <3>2, <3>3, <3>4, <3>5 DEF TypeOK, ClientDown
  <2>19. CASE InterruptScenarios
    <3>1. pc' \in Phases
      BY <2>19 DEF TypeOK, InterruptScenarios, Phases, ClientPhases
    <3>2. run' \in RunState
      BY <2>19 DEF TypeOK, InterruptScenarios, CancelOnInterrupt, RunState
    <3>3. ctrlc' \in Signal
      BY <2>19 DEF TypeOK, InterruptScenarios, Signal
    <3> QED BY <2>19, <3>1, <3>2, <3>3 DEF TypeOK, InterruptScenarios
  <2>20. CASE ScenariosCancelled
    <3>1. pc' \in Phases
      BY <2>20 DEF TypeOK, ScenariosCancelled, LaneCleanup, Phases, ClientPhases
    <3>2. scope' \in ScopeState
      BY <2>20 DEF TypeOK, ScenariosCancelled, ScopeState
    <3>3. artifact' \in Artifacts
      BY <2>20, LaneIsItem DEF TypeOK, ScenariosCancelled, Artifacts
    <3> QED BY <2>20, <3>1, <3>2, <3>3 DEF TypeOK, ScenariosCancelled
  <2>21. CASE ClientCancelled
    <3>1. pc' \in Phases
      BY <2>21 DEF TypeOK, ClientCancelled, ClientResult, Phases, ClientPhases
    <3>2. scope' \in ScopeState
      BY <2>21 DEF TypeOK, ClientCancelled, ClientResult, ScopeState
    <3>3. artifact' \in Artifacts
      BY <2>21, LaneIsItem DEF TypeOK, ClientCancelled, ClientResult, Artifacts
    <3> QED BY <2>21, <3>1, <3>2, <3>3 DEF TypeOK, ClientCancelled, ClientResult
  <2>22. CASE WriteComparison
    <3>1. pc' \in Phases
      BY <2>22 DEF TypeOK, WriteComparison, Phases, ClientPhases
    <3>2. run' \in RunState
      BY <2>22 DEF TypeOK, WriteComparison, RunState
    <3> QED BY <2>22, <3>1, <3>2 DEF TypeOK, WriteComparison
  <2>23. CASE Finalize
    <3>1. pc' \in Phases
      BY <2>23 DEF TypeOK, Finalize, Phases, ClientPhases
    <3>2. outcome' \in Outcome
      BY <2>23 DEF TypeOK, Finalize, Outcome
    <3> QED BY <2>23, <3>1, <3>2 DEF TypeOK, Finalize
  <2>24. CASE ScenariosEnd
    <3>1. pc' \in Phases
      BY <2>24 DEF TypeOK, ScenariosEnd, LaneCleanup, Phases, ClientPhases
    <3>2. scope' \in ScopeState
      BY <2>24 DEF TypeOK, ScenariosEnd, ScopeState
    <3>3. ctrlc' \in Signal
      BY <2>24 DEF TypeOK, ScenariosEnd, Poll, Unseen, Signal
    <3>4. artifact' \in Artifacts
      BY <2>24, LaneIsItem DEF TypeOK, ScenariosEnd, Artifacts
    <3> QED BY <2>24, <3>1, <3>2, <3>3, <3>4 DEF TypeOK, ScenariosEnd
  <2>25. CASE ClientEnds
    <3>1. pc' \in Phases
      BY <2>25 DEF TypeOK, ClientEnds, ClientResult, Phases, ClientPhases
    <3>2. scope' \in ScopeState
      BY <2>25 DEF TypeOK, ClientEnds, ClientResult, ScopeState
    <3>3. artifact' \in Artifacts
      BY <2>25, LaneIsItem DEF TypeOK, ClientEnds, ClientResult, Artifacts
    <3> QED BY <2>25, <3>1, <3>2, <3>3 DEF TypeOK, ClientEnds, ClientResult
  <2>26. CASE InterruptClient
    <3>1. run' \in RunState
      BY <2>26 DEF TypeOK, InterruptClient, CancelOnInterrupt, RunState
    <3>2. ctrlc' \in Signal
      BY <2>26 DEF TypeOK, InterruptClient, Signal
    <3> QED BY <2>26, <3>1, <3>2 DEF TypeOK, InterruptClient
  <2>27. CASE CtrlC
    <3>1. pc' \in Phases
      BY <2>27 DEF TypeOK, CtrlC, Phases, ClientPhases
    <3>2. outcome' \in Outcome
      BY <2>27 DEF TypeOK, CtrlC, Outcome
    <3>3. ctrlc' \in Signal
      BY <2>27 DEF TypeOK, CtrlC, Signal
    <3> QED BY <2>27, <3>1, <3>2, <3>3 DEF TypeOK, CtrlC
  <2>28. CASE Evaluate
    BY <2>28, EvaluateTyped
  <2>29. CASE UNCHANGED vars
    BY <2>29 DEF TypeOK, vars
  <2> QED
    BY <2>1, <2>2, <2>3, <2>4, <2>5, <2>6, <2>7, <2>8, <2>9, <2>10, <2>11, <2>12,
       <2>13, <2>14, <2>15, <2>16, <2>17, <2>18, <2>19, <2>20, <2>21, <2>22, <2>23, <2>24,
       <2>25, <2>26, <2>27, <2>28, <2>29
    DEF Next, Steps, Exited
<1> QED
  BY InitTyped, <1>1, PTL DEF Spec

----------------------------------------------------------------------------
\* SuccessIsEarned.

\* The inductive strengthening of SuccessIsEarned.  Inside an entry, between
\* clear_conformance and the evaluation:
\* an interrupt that was observed is a failure of the lane being cleaned up;
InterruptRecorded ==
  /\ pc \in {"clear", "stop_prior", "start_fixture", "scenarios", "reset", "stack_up",
             "start_service", "provision", "issue_token"} => ~run.interrupted
  /\ pc \in {"stop_fixture", "revoke", "unregister", "stack_down"}
       => (run.interrupted => scope.failed)

\* the entry's artifacts are this command's own;
OwnArtifacts ==
  /\ pc \notin {"docker", "setup", "clear", "finalize", "exit"}
  /\ pc = "evaluate" => ~run.err
  => /\ ~run.err
     /\ \A x \in Item : artifact[entry][x] # "stale"
     /\ ~RunExternalClient => artifact[entry]["client"] = "absent" /\ pc \notin ClientPhases

\* a client part that has not failed has completed its run;
ClientCompleted ==
  /\ pc \in {"client_restore", "client_down"} /\ ~scope.failed
       => artifact[entry]["client"] = "fresh"
  /\ pc \in {"compare", "evaluate"} /\ RunExternalClient /\ ~run.opfail /\ ~run.err
       => artifact[entry]["client"] = "fresh"

\* and what was evaluated so far, unless something failed, is what was required.
RequiredUpTo(n) == UNION {{<<e, x, "fresh">> : x \in Required(e)} : e \in 1..n}

EvaluatedSoFar ==
  /\ pc = "exit" <=> outcome # "running"
  /\ ~verdict.failures /\ ~verdict.reported /\ pc # "exit"
       => verdict.evaluated = RequiredUpTo(IF pc = "finalize" THEN Matrix ELSE entry - 1)
  /\ Succeeded => verdict.evaluated = RequiredUpTo(Matrix)

EarnedSoFar == InterruptRecorded /\ OwnArtifacts /\ ClientCompleted /\ EvaluatedSoFar

LEMMA InitEarned == Init => EarnedSoFar
<1> SUFFICES ASSUME Init PROVE EarnedSoFar
  OBVIOUS
<1>1. RequiredUpTo(0) = {}
  BY DEF RequiredUpTo
<1> QED
  BY <1>1
  DEF Init, EarnedSoFar, InterruptRecorded, OwnArtifacts, ClientCompleted, EvaluatedSoFar,
      Succeeded

\* An interrupt that was observed fails the lane before its cleanup starts.
LEMMA InterruptRecordedStep ==
  TypeOK /\ InterruptRecorded /\ [Next]_vars => InterruptRecorded'
<1> SUFFICES ASSUME TypeOK, InterruptRecorded, [Next]_vars PROVE InterruptRecorded'
  OBVIOUS

<1>1. CASE RequireDocker
  BY <1>1 DEF RequireDocker, TypeOK, RunState, ScopeState, InterruptRecorded
<1>2. CASE PrepareSetupLog
  BY <1>2 DEF PrepareSetupLog, NextEntry, NewRun, TypeOK, RunState, ScopeState, InterruptRecorded
<1>3. CASE ClearArtifacts
  BY <1>3 DEF ClearArtifacts, TypeOK, RunState, ScopeState, InterruptRecorded
<1>4. CASE StopPriorFixture
  BY <1>4 DEF StopPriorFixture, TypeOK, RunState, ScopeState, InterruptRecorded
<1>5. CASE StartFixture
  BY <1>5 DEF StartFixture, TypeOK, RunState, ScopeState, InterruptRecorded
<1>6. CASE StopFixture
  BY <1>6 DEF StopFixture, TypeOK, RunState, ScopeState, InterruptRecorded
<1>7. CASE ResetStacks
  BY <1>7 DEF ResetStacks, TypeOK, RunState, ScopeState, InterruptRecorded
<1>8. CASE StackUp
  BY <1>8 DEF StackUp, TypeOK, RunState, ScopeState, InterruptRecorded
<1>9. CASE StartService
  BY <1>9 DEF StartService, Continue, TypeOK, RunState, ScopeState, InterruptRecorded
<1>10. CASE Provision
  BY <1>10 DEF Provision, Continue, TypeOK, RunState, ScopeState, InterruptRecorded
<1>11. CASE IssueToken
  BY <1>11 DEF IssueToken, Continue, TypeOK, RunState, ScopeState, InterruptRecorded
<1>12. CASE RevokeToken
  BY <1>12 DEF RevokeToken, CleanUp, TypeOK, RunState, ScopeState, InterruptRecorded
<1>13. CASE Unregister
  BY <1>13 DEF Unregister, CleanUp, TypeOK, RunState, ScopeState, InterruptRecorded
<1>14. CASE StackDown
  BY <1>14 DEF StackDown, AfterTopology, TypeOK, RunState, ScopeState, InterruptRecorded
<1>15. CASE ClientUp
  BY <1>15 DEF ClientUp, TypeOK, RunState, ScopeState, InterruptRecorded
<1>16. CASE PausePublisher
  BY <1>16 DEF PausePublisher, TypeOK, RunState, ScopeState, InterruptRecorded
<1>17. CASE RestorePublisher
  BY <1>17 DEF RestorePublisher, CleanUp, TypeOK, RunState, ScopeState, InterruptRecorded
<1>18. CASE ClientDown
  BY <1>18 DEF ClientDown, TypeOK, RunState, ScopeState, InterruptRecorded
<1>19. CASE InterruptScenarios
  BY <1>19 DEF InterruptScenarios, TypeOK, RunState, ScopeState, InterruptRecorded
<1>20. CASE ScenariosCancelled
  BY <1>20 DEF ScenariosCancelled, LaneCleanup, TypeOK, RunState, ScopeState, InterruptRecorded
<1>21. CASE ClientCancelled
  BY <1>21 DEF ClientCancelled, ClientResult, TypeOK, RunState, ScopeState, InterruptRecorded
<1>22. CASE WriteComparison
  BY <1>22 DEF WriteComparison, TypeOK, RunState, ScopeState, InterruptRecorded
<1>23. CASE Evaluate
  BY <1>23 DEF Evaluate, NextEntry, TypeOK, RunState, ScopeState, InterruptRecorded
<1>24. CASE Finalize
  BY <1>24 DEF Finalize, TypeOK, RunState, ScopeState, InterruptRecorded
<1>25. CASE ScenariosEnd
  BY <1>25 DEF ScenariosEnd, LaneCleanup, TypeOK, RunState, ScopeState, InterruptRecorded
<1>26. CASE ClientEnds
  BY <1>26 DEF ClientEnds, ClientResult, TypeOK, RunState, ScopeState, InterruptRecorded
<1>27. CASE InterruptClient
  BY <1>27 DEF InterruptClient, ClientPhases, TypeOK, RunState, ScopeState, InterruptRecorded
<1>28. CASE CtrlC
  BY <1>28 DEF CtrlC, TypeOK, RunState, ScopeState, InterruptRecorded
<1>29. CASE UNCHANGED vars
  BY <1>29 DEF vars, TypeOK, RunState, ScopeState, InterruptRecorded
<1> QED
  BY <1>1, <1>2, <1>3, <1>4, <1>5, <1>6, <1>7, <1>8, <1>9, <1>10, <1>11, <1>12,
     <1>13, <1>14, <1>15, <1>16, <1>17, <1>18, <1>19, <1>20, <1>21, <1>22, <1>23, <1>24,
     <1>25, <1>26, <1>27, <1>28, <1>29
  DEF Next, Steps, Exited


\* Nothing of an earlier command is in the artifacts of the entry being run.
LEMMA OwnArtifactsStep ==
  TypeOK /\ OwnArtifacts /\ [Next]_vars => OwnArtifacts'
<1> SUFFICES ASSUME TypeOK, OwnArtifacts, [Next]_vars PROVE OwnArtifacts'
  OBVIOUS

<1>1. CASE RequireDocker
  BY <1>1 DEF RequireDocker, TypeOK, RunState, OwnArtifacts, RunExternalClient, HasClientRun, ClientPhases
<1>2. CASE PrepareSetupLog
  BY <1>2 DEF PrepareSetupLog, NextEntry, TypeOK, RunState, OwnArtifacts, RunExternalClient, HasClientRun, ClientPhases
<1>3. CASE ClearArtifacts
  <2>1. pc' = "evaluate" => run'.err
    BY <1>3 DEF ClearArtifacts, TypeOK, RunState
  <2>2. pc' = "stop_prior" => ~run'.err
    BY <1>3 DEF ClearArtifacts, TypeOK, RunState
  <2>3. pc' = "stop_prior" => \A x \in Item : artifact'[entry][x] = "absent"
    BY <1>3 DEF ClearArtifacts, ClearedItems, TypeOK, Artifacts
  <2>4. pc' \in {"stop_prior", "evaluate"} /\ entry' = entry
    BY <1>3 DEF ClearArtifacts
  <2> QED
    BY <2>1, <2>2, <2>3, <2>4, LaneIsItem DEF OwnArtifacts, ClientPhases
<1>4. CASE StopPriorFixture
  BY <1>4 DEF StopPriorFixture, TypeOK, RunState, OwnArtifacts, RunExternalClient, HasClientRun, ClientPhases
<1>5. CASE StartFixture
  BY <1>5 DEF StartFixture, TypeOK, RunState, OwnArtifacts, RunExternalClient, HasClientRun, ClientPhases
<1>6. CASE StopFixture
  BY <1>6 DEF StopFixture, TypeOK, RunState, OwnArtifacts, RunExternalClient, HasClientRun, ClientPhases
<1>7. CASE ResetStacks
  BY <1>7 DEF ResetStacks, TypeOK, RunState, OwnArtifacts, RunExternalClient, HasClientRun, ClientPhases
<1>8. CASE StackUp
  BY <1>8 DEF StackUp, TypeOK, RunState, OwnArtifacts, RunExternalClient, HasClientRun, ClientPhases
<1>9. CASE StartService
  BY <1>9 DEF StartService, Continue, TypeOK, RunState, OwnArtifacts, RunExternalClient, HasClientRun, ClientPhases
<1>10. CASE Provision
  BY <1>10 DEF Provision, Continue, TypeOK, RunState, OwnArtifacts, RunExternalClient, HasClientRun, ClientPhases
<1>11. CASE IssueToken
  BY <1>11 DEF IssueToken, Continue, TypeOK, RunState, OwnArtifacts, RunExternalClient, HasClientRun, ClientPhases
<1>12. CASE RevokeToken
  BY <1>12 DEF RevokeToken, CleanUp, TypeOK, RunState, OwnArtifacts, RunExternalClient, HasClientRun, ClientPhases
<1>13. CASE Unregister
  BY <1>13 DEF Unregister, CleanUp, TypeOK, RunState, OwnArtifacts, RunExternalClient, HasClientRun, ClientPhases
<1>14. CASE StackDown
  BY <1>14 DEF StackDown, AfterTopology, TypeOK, RunState, OwnArtifacts, RunExternalClient, HasClientRun, ClientPhases
<1>15. CASE ClientUp
  BY <1>15 DEF ClientUp, TypeOK, RunState, OwnArtifacts, RunExternalClient, HasClientRun, ClientPhases
<1>16. CASE PausePublisher
  BY <1>16 DEF PausePublisher, TypeOK, RunState, OwnArtifacts, RunExternalClient, HasClientRun, ClientPhases
<1>17. CASE RestorePublisher
  BY <1>17 DEF RestorePublisher, CleanUp, TypeOK, RunState, OwnArtifacts, RunExternalClient, HasClientRun, ClientPhases
<1>18. CASE ClientDown
  BY <1>18 DEF ClientDown, TypeOK, RunState, OwnArtifacts, RunExternalClient, HasClientRun, ClientPhases
<1>19. CASE InterruptScenarios
  BY <1>19 DEF InterruptScenarios, TypeOK, RunState, OwnArtifacts, RunExternalClient, HasClientRun, ClientPhases
<1>20. CASE ScenariosCancelled
  <2>1. PICK r \in {"absent", "partial", "fresh"} :
          artifact' = [artifact EXCEPT ![entry][scope.lane] = r]
    BY <1>20 DEF ScenariosCancelled
  <2>2. \A y \in Item : artifact'[entry][y] = IF y = scope.lane THEN r ELSE artifact[entry][y]
    BY <2>1, LaneIsItem DEF TypeOK, Artifacts
  <2>3. scope.lane # "client"
    BY DEF TypeOK, ScopeState, Lane
  <2>4. /\ pc \in {"scenarios", "cancelling"} /\ pc' \in {"stop_fixture", "revoke"}
        /\ UNCHANGED <<request, entry, run>>
    BY <1>20 DEF ScenariosCancelled, LaneCleanup
  <2> QED
    BY <2>1, <2>2, <2>3, <2>4, LaneIsItem
    DEF OwnArtifacts, RunExternalClient, HasClientRun, ClientPhases
<1>21. CASE ClientCancelled
  BY <1>21 DEF ClientCancelled, ClientResult, TypeOK, RunState, OwnArtifacts, RunExternalClient, HasClientRun, ClientPhases
<1>22. CASE WriteComparison
  BY <1>22 DEF WriteComparison, TypeOK, RunState, OwnArtifacts, RunExternalClient, HasClientRun, ClientPhases
<1>23. CASE Evaluate
  BY <1>23 DEF Evaluate, NextEntry, TypeOK, RunState, OwnArtifacts, RunExternalClient, HasClientRun, ClientPhases
<1>24. CASE Finalize
  BY <1>24 DEF Finalize, TypeOK, RunState, OwnArtifacts, RunExternalClient, HasClientRun, ClientPhases
<1>25. CASE ScenariosEnd
  <2>1. PICK r \in {"absent", "partial", "fresh"} :
          artifact' = [artifact EXCEPT ![entry][scope.lane] = r]
    BY <1>25 DEF ScenariosEnd
  <2>2. \A y \in Item : artifact'[entry][y] = IF y = scope.lane THEN r ELSE artifact[entry][y]
    BY <2>1, LaneIsItem DEF TypeOK, Artifacts
  <2>3. scope.lane # "client"
    BY DEF TypeOK, ScopeState, Lane
  <2>4. /\ pc \in {"scenarios", "cancelling"} /\ pc' \in {"stop_fixture", "revoke"}
        /\ UNCHANGED <<request, entry, run>>
    BY <1>25 DEF ScenariosEnd, LaneCleanup
  <2> QED
    BY <2>1, <2>2, <2>3, <2>4, LaneIsItem
    DEF OwnArtifacts, RunExternalClient, HasClientRun, ClientPhases
<1>26. CASE ClientEnds
  BY <1>26 DEF ClientEnds, ClientResult, TypeOK, RunState, OwnArtifacts, RunExternalClient, HasClientRun, ClientPhases
<1>27. CASE InterruptClient
  BY <1>27 DEF InterruptClient, TypeOK, RunState, OwnArtifacts, RunExternalClient, HasClientRun, ClientPhases
<1>28. CASE CtrlC
  BY <1>28 DEF CtrlC, TypeOK, RunState, OwnArtifacts, RunExternalClient, HasClientRun, ClientPhases
<1>29. CASE UNCHANGED vars
  BY <1>29 DEF vars, TypeOK, RunState, OwnArtifacts, RunExternalClient, HasClientRun, ClientPhases
<1> QED
  BY <1>1, <1>2, <1>3, <1>4, <1>5, <1>6, <1>7, <1>8, <1>9, <1>10, <1>11, <1>12,
     <1>13, <1>14, <1>15, <1>16, <1>17, <1>18, <1>19, <1>20, <1>21, <1>22, <1>23, <1>24,
     <1>25, <1>26, <1>27, <1>28, <1>29
  DEF Next, Steps, Exited


LEMMA ClientResultCompletes ==
  ASSUME TypeOK, ClientResult
  PROVE  ClientCompleted'
<1>1. PICK r \in {"absent", "partial", "fresh"}, ok \in BOOLEAN :
        /\ ok => r = "fresh"
        /\ artifact' = [artifact EXCEPT ![entry]["client"] = r]
        /\ scope' = [scope EXCEPT !.failed = ~ok]
  BY DEF ClientResult
<1>2. artifact'[entry]["client"] = r
  BY <1>1, LaneIsItem DEF TypeOK, Artifacts
<1>3. ~scope'.failed => ok
  BY <1>1 DEF TypeOK, ScopeState
<1>4. pc' = "client_restore" /\ entry' = entry
  BY DEF ClientResult
<1> QED
  BY <1>1, <1>2, <1>3, <1>4 DEF ClientCompleted

\* A client part that ends without a failure has written its marker.
LEMMA ClientCompletedStep ==
  TypeOK /\ InterruptRecorded /\ OwnArtifacts /\ ClientCompleted /\ [Next]_vars => ClientCompleted'
<1> SUFFICES ASSUME TypeOK, InterruptRecorded, OwnArtifacts, ClientCompleted, [Next]_vars
             PROVE  ClientCompleted'
  OBVIOUS

<1>1. CASE RequireDocker
  BY <1>1 DEF RequireDocker, TypeOK, RunState, ScopeState, ClientCompleted, RunExternalClient, HasClientRun
<1>2. CASE PrepareSetupLog
  BY <1>2 DEF PrepareSetupLog, NextEntry, TypeOK, RunState, ScopeState, ClientCompleted, RunExternalClient, HasClientRun
<1>3. CASE ClearArtifacts
  BY <1>3 DEF ClearArtifacts, TypeOK, RunState, ScopeState, ClientCompleted, RunExternalClient, HasClientRun
<1>4. CASE StopPriorFixture
  BY <1>4 DEF StopPriorFixture, TypeOK, RunState, ScopeState, ClientCompleted, RunExternalClient, HasClientRun
<1>5. CASE StartFixture
  BY <1>5 DEF StartFixture, TypeOK, RunState, ScopeState, ClientCompleted, RunExternalClient, HasClientRun
<1>6. CASE StopFixture
  BY <1>6 DEF StopFixture, Topologies, Topology, InterruptRecorded, TypeOK, RunState, ScopeState, ClientCompleted, RunExternalClient, HasClientRun
<1>7. CASE ResetStacks
  BY <1>7 DEF ResetStacks, TypeOK, RunState, ScopeState, ClientCompleted, RunExternalClient, HasClientRun
<1>8. CASE StackUp
  BY <1>8 DEF StackUp, TypeOK, RunState, ScopeState, ClientCompleted, RunExternalClient, HasClientRun
<1>9. CASE StartService
  BY <1>9 DEF StartService, Continue, TypeOK, RunState, ScopeState, ClientCompleted, RunExternalClient, HasClientRun
<1>10. CASE Provision
  BY <1>10 DEF Provision, Continue, TypeOK, RunState, ScopeState, ClientCompleted, RunExternalClient, HasClientRun
<1>11. CASE IssueToken
  BY <1>11 DEF IssueToken, Continue, TypeOK, RunState, ScopeState, ClientCompleted, RunExternalClient, HasClientRun
<1>12. CASE RevokeToken
  BY <1>12 DEF RevokeToken, CleanUp, TypeOK, RunState, ScopeState, ClientCompleted, RunExternalClient, HasClientRun
<1>13. CASE Unregister
  BY <1>13 DEF Unregister, CleanUp, TypeOK, RunState, ScopeState, ClientCompleted, RunExternalClient, HasClientRun
<1>14. CASE StackDown
  BY <1>14 DEF StackDown, AfterTopology, InterruptRecorded, Failed, TypeOK, RunState, ScopeState, ClientCompleted, RunExternalClient, HasClientRun
<1>15. CASE ClientUp
  BY <1>15 DEF ClientUp, TypeOK, RunState, ScopeState, ClientCompleted, RunExternalClient, HasClientRun
<1>16. CASE PausePublisher
  BY <1>16 DEF PausePublisher, TypeOK, RunState, ScopeState, ClientCompleted, RunExternalClient, HasClientRun
<1>17. CASE RestorePublisher
  BY <1>17 DEF RestorePublisher, CleanUp, Failed, TypeOK, RunState, ScopeState, ClientCompleted, RunExternalClient, HasClientRun
<1>18. CASE ClientDown
  BY <1>18 DEF ClientDown, TypeOK, RunState, ScopeState, ClientCompleted, RunExternalClient, HasClientRun
<1>19. CASE InterruptScenarios
  BY <1>19 DEF InterruptScenarios, TypeOK, RunState, ScopeState, ClientCompleted, RunExternalClient, HasClientRun
<1>20. CASE ScenariosCancelled
  BY <1>20 DEF ScenariosCancelled, LaneCleanup, TypeOK, RunState, ScopeState, ClientCompleted, RunExternalClient, HasClientRun
<1>21. CASE ClientCancelled
  <2>1. ClientResult
    BY <1>21 DEF ClientCancelled
  <2> QED
    BY <2>1, ClientResultCompletes
<1>22. CASE WriteComparison
  <2>1. ~run.err
    BY <1>22 DEF WriteComparison, OwnArtifacts
  <2>2. ~run'.opfail /\ ~run'.err => ~run.opfail
    BY <1>22 DEF WriteComparison, TypeOK, RunState
  <2> QED
    BY <1>22, <2>1, <2>2 DEF WriteComparison, ClientCompleted, RunExternalClient, HasClientRun
<1>23. CASE Evaluate
  BY <1>23 DEF Evaluate, NextEntry, TypeOK, RunState, ScopeState, ClientCompleted, RunExternalClient, HasClientRun
<1>24. CASE Finalize
  BY <1>24 DEF Finalize, TypeOK, RunState, ScopeState, ClientCompleted, RunExternalClient, HasClientRun
<1>25. CASE ScenariosEnd
  BY <1>25 DEF ScenariosEnd, LaneCleanup, TypeOK, RunState, ScopeState, ClientCompleted, RunExternalClient, HasClientRun
<1>26. CASE ClientEnds
  <2>1. ClientResult
    BY <1>26 DEF ClientEnds
  <2> QED
    BY <2>1, ClientResultCompletes
<1>27. CASE InterruptClient
  BY <1>27 DEF InterruptClient, TypeOK, RunState, ScopeState, ClientCompleted, RunExternalClient, HasClientRun
<1>28. CASE CtrlC
  BY <1>28 DEF CtrlC, TypeOK, RunState, ScopeState, ClientCompleted, RunExternalClient, HasClientRun
<1>29. CASE UNCHANGED vars
  BY <1>29 DEF vars, TypeOK, RunState, ScopeState, ClientCompleted, RunExternalClient, HasClientRun
<1> QED
  BY <1>1, <1>2, <1>3, <1>4, <1>5, <1>6, <1>7, <1>8, <1>9, <1>10, <1>11, <1>12,
     <1>13, <1>14, <1>15, <1>16, <1>17, <1>18, <1>19, <1>20, <1>21, <1>22, <1>23, <1>24,
     <1>25, <1>26, <1>27, <1>28, <1>29
  DEF Next, Steps, Exited

LEMMA RequestIsSelection == TypeOK => request.lanes \subseteq Lane /\ request.lanes # {}
  BY RequestsAssumption DEF TypeOK, Request

\* An evaluation that finds no failure evaluates what the entry had to produce,
\* on this command's artifacts, and nothing else.
LEMMA EvaluateEarned ==
  ASSUME TypeOK, OwnArtifacts, ClientCompleted, Evaluate,
         ~verdict'.failures, ~verdict'.reported
  PROVE  /\ ~verdict.failures /\ ~verdict.reported
         /\ ctrlc # "seen"
         /\ verdict'.evaluated =
              verdict.evaluated \cup {<<entry, x, "fresh">> : x \in Required(entry)}
<1> DEFINE server == Complete(Evidence)
           lacking == Broken(Evidence) \/ ((~run.err /\ ~run.opfail) /\ server # Evidence)
<1>1. PICK serverGate \in Gates, clientGate \in Gates :
        LET s == Gate(server, lacking, serverGate)
            c == Gate(Complete({"client"}), Broken({"client"}), clientGate)
        IN  verdict' =
              [failures  |-> verdict.failures \/ run.err \/ s.failed \/ c.failed,
               reported  |-> verdict.reported \/ run.opfail \/ StopsMatrix,
               evaluated |-> verdict.evaluated \cup s.lanes \cup c.lanes]
  BY DEF Evaluate
<1> DEFINE s == Gate(server, lacking, serverGate)
           c == Gate(Complete({"client"}), Broken({"client"}), clientGate)
<1>2. ~verdict.failures /\ ~run.err /\ ~s.failed /\ ~c.failed
  BY <1>1 DEF TypeOK, Verdicts, RunState
<1>3. ~verdict.reported /\ ~run.opfail /\ ~StopsMatrix
  BY <1>1 DEF TypeOK, Verdicts, RunState
<1>4. verdict'.evaluated = verdict.evaluated \cup s.lanes \cup c.lanes
  BY <1>1
<1>5. pc = "evaluate"
  BY DEF Evaluate
<1>6. \A x \in Item : artifact[entry][x] \in {"absent", "partial", "fresh"}
  BY <1>2, <1>5 DEF OwnArtifacts, TypeOK, Artifacts
<1>7. s.lanes = {<<entry, x, "fresh">> : x \in Evidence}
  <2>1. ~lacking
    BY <1>2 DEF Gate
  <2>2. server = Evidence
    BY <2>1, <1>2, <1>3
  <2>3. Evidence # {} /\ Evidence \subseteq Item
    BY RequestIsSelection DEF Evidence, Item, Lane
  <2>4. serverGate # "error"
    BY <1>2, <2>2, <2>3 DEF Gate
  <2>5. \A x \in Evidence : artifact[entry][x] = "fresh"
    BY <2>2, <2>3, <1>6 DEF Complete
  <2>6. s.lanes = {<<entry, x, artifact[entry][x]>> : x \in Evidence}
    BY <2>1, <2>2, <2>4 DEF Gate
  <2> QED
    BY <2>5, <2>6
<1>8. c.lanes = IF HasClientRun(entry) THEN {<<entry, "client", "fresh">>} ELSE {}
  <2>1. ~Broken({"client"})
    BY <1>2 DEF Gate
  <2>2. CASE HasClientRun(entry)
    <3>1. artifact[entry]["client"] = "fresh"
      BY <2>2, <1>2, <1>3, <1>5 DEF ClientCompleted, RunExternalClient
    <3>2. Complete({"client"}) = {"client"}
      BY <3>1 DEF Complete
    <3>3. clientGate # "error"
      BY <3>2, <1>2 DEF Gate
    <3> QED
      BY <2>1, <2>2, <3>1, <3>2, <3>3 DEF Gate
  <2>3. CASE ~HasClientRun(entry)
    <3>1. artifact[entry]["client"] = "absent"
      BY <2>3, <1>2, <1>5 DEF OwnArtifacts, RunExternalClient
    <3>2. Complete({"client"}) = {}
      BY <3>1 DEF Complete
    <3> QED
      BY <2>3, <3>2 DEF Gate
  <2> QED
    BY <2>2, <2>3
<1>9. {<<entry, x, "fresh">> : x \in Required(entry)} = s.lanes \cup c.lanes
  BY <1>7, <1>8 DEF Required
<1> HIDE DEF s, c
<1> QED
  BY <1>2, <1>3, <1>4, <1>9 DEF StopsMatrix, s, c

\* The requirement grows by one entry at a time.
LEMMA RequiredGrows ==
  ASSUME TypeOK
  PROVE  RequiredUpTo(entry) =
           RequiredUpTo(entry - 1) \cup {<<entry, x, "fresh">> : x \in Required(entry)}
<1>1. entry \in Nat \ {0}
  BY MatrixAssumption DEF TypeOK
<1>2. 1..entry = 1..(entry - 1) \cup {entry}
  BY <1>1
<1> QED
  BY <1>2 DEF RequiredUpTo

\* What was evaluated grows only by complete entries.
LEMMA EvaluatedSoFarStep ==
  TypeOK /\ EarnedSoFar /\ [Next]_vars => EvaluatedSoFar'
<1> SUFFICES ASSUME TypeOK, EarnedSoFar, [Next]_vars PROVE EvaluatedSoFar'
  OBVIOUS
<1> USE DEF EarnedSoFar
<1>1. request' = request
  BY DEF Next, Steps, Exited, vars, RequireDocker, PrepareSetupLog, ClearArtifacts,
         StopPriorFixture, StartFixture, StopFixture, ResetStacks, StackUp,
         StartService, Provision, IssueToken, RevokeToken, Unregister, StackDown,
         ClientUp, PausePublisher, RestorePublisher, ClientDown, InterruptScenarios,
         ScenariosCancelled, ClientCancelled, WriteComparison, Evaluate, Finalize,
         ScenariosEnd, ClientResult, ClientEnds, InterruptClient, CtrlC
<1>2. RequiredUpTo(Matrix)' = RequiredUpTo(Matrix)
  BY <1>1 DEF RequiredUpTo, Required, Evidence, Topologies, HasClientRun
<1>3. RequiredUpTo(entry - 1)' = RequiredUpTo(entry' - 1)
  BY <1>1 DEF RequiredUpTo, Required, Evidence, Topologies, HasClientRun
<1>4. ASSUME pc \notin {"finalize", "exit"}, pc' \notin {"finalize", "exit"},
             UNCHANGED <<outcome, entry, verdict>>
      PROVE  EvaluatedSoFar'
  BY <1>3, <1>4 DEF EvaluatedSoFar, Succeeded
<1>5. CASE RequireDocker
  BY <1>5, <1>2, <1>3 DEF RequireDocker, EvaluatedSoFar, Succeeded
<1>6. CASE PrepareSetupLog
  <2>1. CASE pc' = "clear" /\ UNCHANGED <<entry, verdict>>
    BY <1>6, <2>1, <1>4 DEF PrepareSetupLog
  <2>2. CASE verdict' = [verdict EXCEPT !.failures = TRUE] /\ NextEntry
    <3>1. verdict'.failures
      BY <2>2 DEF TypeOK, Verdicts
    <3>2. outcome' = "running" /\ pc' # "exit"
      BY <1>6, <2>2 DEF PrepareSetupLog, NextEntry, EvaluatedSoFar
    <3> QED
      BY <3>1, <3>2 DEF EvaluatedSoFar, Succeeded
  <2> QED
    BY <1>6, <2>1, <2>2 DEF PrepareSetupLog
<1>7. CASE ClearArtifacts
  BY <1>7, <1>4 DEF ClearArtifacts
<1>8. CASE StopPriorFixture
  BY <1>8, <1>4 DEF StopPriorFixture
<1>9. CASE StartFixture
  BY <1>9, <1>4 DEF StartFixture
<1>10. CASE StopFixture
  BY <1>10, <1>4 DEF StopFixture
<1>11. CASE ResetStacks
  BY <1>11, <1>4 DEF ResetStacks
<1>12. CASE StackUp
  BY <1>12, <1>4 DEF StackUp
<1>13. CASE StartService
  BY <1>13, <1>4 DEF StartService, Continue
<1>14. CASE Provision
  BY <1>14, <1>4 DEF Provision, Continue
<1>15. CASE IssueToken
  BY <1>15, <1>4 DEF IssueToken, Continue
<1>16. CASE RevokeToken
  BY <1>16, <1>4 DEF RevokeToken, CleanUp
<1>17. CASE Unregister
  BY <1>17, <1>4 DEF Unregister, CleanUp
<1>18. CASE StackDown
  BY <1>18, <1>4 DEF StackDown, AfterTopology
<1>19. CASE ClientUp
  BY <1>19, <1>4 DEF ClientUp
<1>20. CASE PausePublisher
  BY <1>20, <1>4 DEF PausePublisher
<1>21. CASE RestorePublisher
  BY <1>21, <1>4 DEF RestorePublisher, CleanUp
<1>22. CASE ClientDown
  BY <1>22, <1>4 DEF ClientDown
<1>23. CASE InterruptScenarios
  BY <1>23, <1>4 DEF InterruptScenarios
<1>24. CASE ScenariosCancelled
  BY <1>24, <1>4 DEF ScenariosCancelled, LaneCleanup
<1>25. CASE ClientCancelled
  BY <1>25, <1>4 DEF ClientCancelled, ClientResult
<1>26. CASE WriteComparison
  BY <1>26, <1>4 DEF WriteComparison
<1>27. CASE Evaluate
  <2>1. outcome' = "running" /\ pc' # "exit"
    BY <1>27 DEF Evaluate, NextEntry, EvaluatedSoFar
  <2>2. ASSUME ~verdict'.failures, ~verdict'.reported
        PROVE  verdict'.evaluated
                 = RequiredUpTo(IF pc' = "finalize" THEN Matrix ELSE entry' - 1)
    <3>1. /\ ~verdict.failures /\ ~verdict.reported /\ ctrlc # "seen"
          /\ verdict'.evaluated =
               verdict.evaluated \cup {<<entry, x, "fresh">> : x \in Required(entry)}
      BY <1>27, <2>2, EvaluateEarned
    <3>2. verdict.evaluated = RequiredUpTo(entry - 1)
      BY <1>27, <3>1 DEF Evaluate, EvaluatedSoFar
    <3>3. verdict'.evaluated = RequiredUpTo(entry)
      BY <3>1, <3>2, RequiredGrows
    <3>4. CASE entry = Matrix
      BY <1>27, <3>1, <3>3, <3>4 DEF Evaluate, StopsMatrix, NextEntry, LastEntry
    <3>5. CASE entry # Matrix
      <4>1. entry' = entry + 1 /\ pc' = "setup"
        BY <1>27, <3>1, <3>5 DEF Evaluate, StopsMatrix, NextEntry, LastEntry
      <4>2. entry' - 1 = entry
        BY <4>1, MatrixAssumption DEF TypeOK
      <4> QED
        BY <3>3, <4>1, <4>2
    <3> QED
      BY <3>4, <3>5
  <2> QED
    BY <2>1, <2>2, <1>2, <1>3 DEF EvaluatedSoFar, Succeeded
<1>28. CASE Finalize
  <2>1. outcome' # "running" /\ pc' = "exit" /\ verdict' = verdict
    BY <1>28 DEF Finalize
  <2>2. outcome' \in {"blessed", "matched"} => ~verdict.failures /\ ~verdict.reported
    BY <1>28 DEF Finalize, MayBless
  <2>3. ~verdict.failures /\ ~verdict.reported => verdict.evaluated = RequiredUpTo(Matrix)
    BY <1>28 DEF Finalize, EvaluatedSoFar
  <2> QED
    BY <2>1, <2>2, <2>3, <1>2 DEF EvaluatedSoFar, Succeeded
<1>29. CASE ScenariosEnd
  BY <1>29, <1>4 DEF ScenariosEnd, LaneCleanup
<1>30. CASE ClientEnds
  BY <1>30, <1>4 DEF ClientEnds, ClientResult
<1>31. CASE InterruptClient
  BY <1>31, <1>4 DEF InterruptClient, ClientPhases
<1>32. CASE CtrlC
  BY <1>32, <1>2, <1>3 DEF CtrlC, EvaluatedSoFar, Succeeded
<1>33. CASE UNCHANGED vars
  BY <1>33, <1>2, <1>3 DEF vars, EvaluatedSoFar, Succeeded
<1> QED
  BY <1>5, <1>6, <1>7, <1>8, <1>9, <1>10, <1>11, <1>12, <1>13, <1>14, <1>15, <1>16,
     <1>17, <1>18, <1>19, <1>20, <1>21, <1>22, <1>23, <1>24, <1>25, <1>26, <1>27, <1>28,
     <1>29, <1>30, <1>31, <1>32, <1>33
  DEF Next, Steps, Exited

\* At every step what was observed, produced and evaluated so far is on record: interrupts as
\* failures, the entry's artifacts as this command's own, the evaluated lanes as the required ones.
LEMMA EarnedAllAlong == Spec => []EarnedSoFar
<1>1. TypeOK /\ EarnedSoFar /\ [Next]_vars => EarnedSoFar'
  BY InterruptRecordedStep, OwnArtifactsStep, ClientCompletedStep, EvaluatedSoFarStep
  DEF EarnedSoFar
<1> QED
  BY InitEarned, TypeCorrect, <1>1, PTL DEF Spec

\* An interrupt observed by the end of the last entry has reached the verdict.
InterruptReported ==
  /\ pc = "exit" <=> outcome # "running"
  /\ pc = "finalize" /\ ctrlc = "seen" => verdict.failures \/ verdict.reported
  /\ Succeeded => ctrlc # "seen"

LEMMA InterruptReportedStep ==
  TypeOK /\ InterruptReported /\ [Next]_vars => InterruptReported'
<1> SUFFICES ASSUME TypeOK, InterruptReported, [Next]_vars PROVE InterruptReported'
  OBVIOUS
<1>1. CASE RequireDocker
  BY <1>1 DEF RequireDocker, InterruptReported, Succeeded
<1>2. CASE PrepareSetupLog
  BY <1>2 DEF PrepareSetupLog, NextEntry, TypeOK, Verdicts, InterruptReported, Succeeded
<1>3. CASE ClearArtifacts
  BY <1>3 DEF ClearArtifacts, InterruptReported, Succeeded
<1>4. CASE StopPriorFixture
  BY <1>4 DEF StopPriorFixture, InterruptReported, Succeeded
<1>5. CASE StartFixture
  BY <1>5 DEF StartFixture, InterruptReported, Succeeded
<1>6. CASE StopFixture
  BY <1>6 DEF StopFixture, InterruptReported, Succeeded
<1>7. CASE ResetStacks
  BY <1>7 DEF ResetStacks, InterruptReported, Succeeded
<1>8. CASE StackUp
  BY <1>8 DEF StackUp, InterruptReported, Succeeded
<1>9. CASE StartService
  BY <1>9 DEF StartService, Continue, InterruptReported, Succeeded
<1>10. CASE Provision
  BY <1>10 DEF Provision, Continue, InterruptReported, Succeeded
<1>11. CASE IssueToken
  BY <1>11 DEF IssueToken, Continue, InterruptReported, Succeeded
<1>12. CASE RevokeToken
  BY <1>12 DEF RevokeToken, CleanUp, InterruptReported, Succeeded
<1>13. CASE Unregister
  BY <1>13 DEF Unregister, CleanUp, InterruptReported, Succeeded
<1>14. CASE StackDown
  BY <1>14 DEF StackDown, AfterTopology, InterruptReported, Succeeded
<1>15. CASE ClientUp
  BY <1>15 DEF ClientUp, InterruptReported, Succeeded
<1>16. CASE PausePublisher
  BY <1>16 DEF PausePublisher, InterruptReported, Succeeded
<1>17. CASE RestorePublisher
  BY <1>17 DEF RestorePublisher, CleanUp, InterruptReported, Succeeded
<1>18. CASE ClientDown
  BY <1>18 DEF ClientDown, InterruptReported, Succeeded
<1>19. CASE InterruptScenarios
  BY <1>19 DEF InterruptScenarios, InterruptReported, Succeeded
<1>20. CASE ScenariosCancelled
  BY <1>20 DEF ScenariosCancelled, LaneCleanup, InterruptReported, Succeeded
<1>21. CASE ClientCancelled
  BY <1>21 DEF ClientCancelled, ClientResult, InterruptReported, Succeeded
<1>22. CASE WriteComparison
  BY <1>22 DEF WriteComparison, InterruptReported, Succeeded
<1>23. CASE Evaluate
  <2>1. StopsMatrix => verdict'.reported
    <3>1. \E f, l : verdict' = [failures |-> f,
                               reported |-> verdict.reported \/ run.opfail \/ StopsMatrix,
                               evaluated |-> l]
      BY <1>23 DEF Evaluate
    <3>2. (verdict.reported \/ run.opfail \/ StopsMatrix) \in BOOLEAN
      BY DEF TypeOK, Verdicts, RunState
    <3>3. verdict'.reported = (verdict.reported \/ run.opfail \/ StopsMatrix)
      BY <3>1
    <3> QED
      BY <3>2, <3>3
  <2>2. outcome' = outcome /\ ctrlc' = ctrlc /\ pc = "evaluate" /\ pc' # "exit"
    BY <1>23 DEF Evaluate, NextEntry
  <2> QED
    BY <2>1, <2>2 DEF StopsMatrix, InterruptReported, Succeeded
<1>24. CASE Finalize
  BY <1>24 DEF Finalize, MayBless, TypeOK, Verdicts, InterruptReported, Succeeded
<1>25. CASE ScenariosEnd
  BY <1>25 DEF ScenariosEnd, LaneCleanup, InterruptReported, Succeeded
<1>26. CASE ClientEnds
  BY <1>26 DEF ClientEnds, ClientResult, InterruptReported, Succeeded
<1>27. CASE InterruptClient
  BY <1>27 DEF InterruptClient, ClientPhases, InterruptReported, Succeeded
<1>28. CASE CtrlC
  BY <1>28 DEF CtrlC, InterruptReported, Succeeded
<1>29. CASE UNCHANGED vars
  BY <1>29 DEF vars, InterruptReported, Succeeded
<1> QED
  BY <1>1, <1>2, <1>3, <1>4, <1>5, <1>6, <1>7, <1>8, <1>9, <1>10, <1>11, <1>12,
     <1>13, <1>14, <1>15, <1>16, <1>17, <1>18, <1>19, <1>20, <1>21, <1>22, <1>23, <1>24,
     <1>25, <1>26, <1>27, <1>28, <1>29
  DEF Next, Steps, Exited

\* A zero exit of a conformance run is earned: every required lane of every entry
\* was gated on this command's own artifacts, whatever failed or was interrupted
\* on the way, and no Ctrl-C was observed.
THEOREM SuccessEarned == Spec => []SuccessIsEarned
<1>1. Init => InterruptReported
  BY DEF Init, InterruptReported, Succeeded
<1>2. Spec => []InterruptReported
  BY TypeCorrect, InterruptReportedStep, <1>1, PTL DEF Spec
<1>3. EarnedSoFar /\ InterruptReported => SuccessIsEarned
  BY DEF EarnedSoFar, EvaluatedSoFar, InterruptReported, SuccessIsEarned, RequiredUpTo
<1> QED
  BY EarnedAllAlong, <1>2, <1>3, PTL

----------------------------------------------------------------------------
\* OneStackAtATime.

\* The resources are distinct things: a stack is none of the others.
LEMMA StacksApart ==
  /\ \A t, u \in Topology : Stack(t) = Stack(u) => t = u
  /\ \A t, u : Stack(t) \notin {Fixture, Service(u), Registration(u), Token(u), Paused}
  /\ \A t \in Topology : Stack(t) \in Resource
  BY DEF Stack, Fixture, Service, Registration, Token, Paused, Resource, Containers

\* A cleanup brings no stack up, nor does a change of anything but a stack.
LEMMA ReleaseKeepsOneStack ==
  ASSUME TypeOK, OneStackAtATime, NEW S, NEW ok, Release(S, ok)
  PROVE  OneStackAtATime'
<1>1. \A r \in Resource : res[r] = "none" => res'[r] = "none"
  BY DEF Release, Without
<1> QED
  BY <1>1, StacksApart DEF OneStackAtATime

LEMMA OtherKeepsOneStack ==
  ASSUME TypeOK, OneStackAtATime, NEW r, \A t \in Topology : r # Stack(t), NEW v,
         res' = [res EXCEPT ![r] = v]
  PROVE  OneStackAtATime'
<1>1. \A t \in Topology : res'[Stack(t)] = res[Stack(t)]
  BY StacksApart DEF TypeOK
<1> QED
  BY <1>1 DEF OneStackAtATime

LEMMA BringUpKeepsOneStack ==
  ASSUME TypeOK, OneStackAtATime, NEW t \in Topology, NEW fresh, NEW ok, BringUp(t, fresh, ok)
  PROVE  OneStackAtATime'
<1> DEFINE S == Containers(t) \cup Volumes(t)
           cleared == IF fresh THEN Without(res, S, {}) ELSE res
<1>1. \A r \in Resource : res[r] = "none" => cleared[r] = "none"
  BY DEF Without
<1>2. cleared \in [Resource -> Status]
  BY WithoutTyped DEF TypeOK
<1>3. CASE UNCHANGED res
  BY <1>3 DEF OneStackAtATime
<1>4. CASE Release(S, FALSE)
  BY <1>4, ReleaseKeepsOneStack
<1>5. CASE OtherStackRunning(t) /\ res' = cleared
  BY <1>1, <1>5, StacksApart DEF OneStackAtATime
<1>6. CASE ~OtherStackRunning(t) /\ res' = [cleared EXCEPT ![Stack(t)] = "up"]
  <2>1. PICK u \in Topology : u # t
    BY DEF Topology
  <2>2. res[Stack(u)] = "none"
    BY <1>6, <2>1 DEF OtherStackRunning
  <2>3. cleared[Stack(u)] = "none" /\ Stack(u) # Stack(t)
    BY <1>1, <2>1, <2>2, StacksApart
  <2>4. res'[Stack(u)] = "none"
    BY <1>2, <1>6, <2>3, StacksApart
  <2> QED
    BY <2>4 DEF OneStackAtATime
<1> HIDE DEF S, cleared
<1> QED
  BY <1>3, <1>4, <1>5, <1>6 DEF BringUp, S, cleared

\* The phase that brings a stack up has the topology of one.
RoutedLane == pc = "stack_up" => scope.lane \in Topology

LEMMA RoutedLaneStep == TypeOK /\ RoutedLane /\ [Next]_vars => RoutedLane'
<1> SUFFICES ASSUME TypeOK, RoutedLane, [Next]_vars PROVE RoutedLane'
  OBVIOUS
<1>1. CASE RequireDocker
  BY <1>1 DEF RequireDocker, RoutedLane
<1>2. CASE PrepareSetupLog
  BY <1>2 DEF PrepareSetupLog, NextEntry, RoutedLane
<1>3. CASE ClearArtifacts
  BY <1>3 DEF ClearArtifacts, RoutedLane
<1>4. CASE StopPriorFixture
  BY <1>4 DEF StopPriorFixture, RoutedLane
<1>5. CASE StartFixture
  BY <1>5 DEF StartFixture, RoutedLane
<1>6. CASE StopFixture
  BY <1>6 DEF StopFixture, RoutedLane
<1>7. CASE ResetStacks
  BY <1>7 DEF ResetStacks, NewScope, FirstTopology, Topology, RoutedLane
<1>8. CASE StackUp
  BY <1>8 DEF StackUp, RoutedLane
<1>9. CASE StartService
  BY <1>9 DEF StartService, Continue, RoutedLane
<1>10. CASE Provision
  BY <1>10 DEF Provision, Continue, RoutedLane
<1>11. CASE IssueToken
  BY <1>11 DEF IssueToken, Continue, RoutedLane
<1>12. CASE RevokeToken
  BY <1>12 DEF RevokeToken, CleanUp, RoutedLane
<1>13. CASE Unregister
  BY <1>13 DEF Unregister, CleanUp, RoutedLane
<1>14. CASE StackDown
  BY <1>14 DEF StackDown, AfterTopology, NewScope, Topology, RoutedLane
<1>15. CASE ClientUp
  BY <1>15 DEF ClientUp, RoutedLane
<1>16. CASE PausePublisher
  BY <1>16 DEF PausePublisher, RoutedLane
<1>17. CASE RestorePublisher
  BY <1>17 DEF RestorePublisher, CleanUp, RoutedLane
<1>18. CASE ClientDown
  BY <1>18 DEF ClientDown, RoutedLane
<1>19. CASE InterruptScenarios
  BY <1>19 DEF InterruptScenarios, RoutedLane
<1>20. CASE ScenariosCancelled
  BY <1>20 DEF ScenariosCancelled, LaneCleanup, RoutedLane
<1>21. CASE ClientCancelled
  BY <1>21 DEF ClientCancelled, ClientResult, RoutedLane
<1>22. CASE WriteComparison
  BY <1>22 DEF WriteComparison, RoutedLane
<1>23. CASE Evaluate
  BY <1>23 DEF Evaluate, NextEntry, RoutedLane
<1>24. CASE Finalize
  BY <1>24 DEF Finalize, RoutedLane
<1>25. CASE ScenariosEnd
  BY <1>25 DEF ScenariosEnd, LaneCleanup, RoutedLane
<1>26. CASE ClientEnds
  BY <1>26 DEF ClientEnds, ClientResult, RoutedLane
<1>27. CASE InterruptClient
  BY <1>27 DEF InterruptClient, ClientPhases, RoutedLane
<1>28. CASE CtrlC
  BY <1>28 DEF CtrlC, RoutedLane
<1>29. CASE UNCHANGED vars
  BY <1>29 DEF vars, RoutedLane
<1> QED
  BY <1>1, <1>2, <1>3, <1>4, <1>5, <1>6, <1>7, <1>8, <1>9, <1>10, <1>11, <1>12,
     <1>13, <1>14, <1>15, <1>16, <1>17, <1>18, <1>19, <1>20, <1>21, <1>22, <1>23, <1>24,
     <1>25, <1>26, <1>27, <1>28, <1>29
  DEF Next, Steps, Exited

LEMMA OneStackStep ==
  TypeOK /\ RoutedLane /\ OneStackAtATime /\ [Next]_vars => OneStackAtATime'
<1> SUFFICES ASSUME TypeOK, RoutedLane, OneStackAtATime, [Next]_vars PROVE OneStackAtATime'
  OBVIOUS
<1>0. ASSUME UNCHANGED res PROVE OneStackAtATime'
  BY <1>0 DEF OneStackAtATime
<1>1. CASE RequireDocker
  BY <1>1, <1>0 DEF RequireDocker
<1>2. CASE PrepareSetupLog
  BY <1>2, <1>0 DEF PrepareSetupLog
<1>3. CASE ClearArtifacts
  BY <1>3, <1>0 DEF ClearArtifacts
<1>4. CASE StopPriorFixture
  BY <1>4, <1>0, ReleaseKeepsOneStack DEF StopPriorFixture
<1>5. CASE StartFixture
  BY <1>5, <1>0, OtherKeepsOneStack, StacksApart DEF StartFixture
<1>6. CASE StopFixture
  BY <1>6, <1>0, ReleaseKeepsOneStack DEF StopFixture
<1>7. CASE ResetStacks
  BY <1>7, <1>0, ReleaseKeepsOneStack DEF ResetStacks
<1>8. CASE StackUp
  BY <1>8, BringUpKeepsOneStack DEF StackUp, RoutedLane
<1>9. CASE StartService
  BY <1>9, <1>0, OtherKeepsOneStack, StacksApart, SMTT(30) DEF StartService
<1>10. CASE Provision
  <2>1. PICK v : res' = [res EXCEPT ![Registration(scope.lane)] = v]
    BY <1>10 DEF Provision
  <2> QED
    BY <2>1, OtherKeepsOneStack, StacksApart
<1>11. CASE IssueToken
  BY <1>11, <1>0, OtherKeepsOneStack, StacksApart DEF IssueToken
<1>12. CASE RevokeToken
  BY <1>12, <1>0, ReleaseKeepsOneStack DEF RevokeToken, CleanUp
<1>13. CASE Unregister
  BY <1>13, <1>0, ReleaseKeepsOneStack DEF Unregister, CleanUp
<1>14. CASE StackDown
  BY <1>14, <1>0, ReleaseKeepsOneStack DEF StackDown
<1>15. CASE ClientUp
  BY <1>15, BringUpKeepsOneStack DEF ClientUp, Topology
<1>16. CASE PausePublisher
  BY <1>16, <1>0, OtherKeepsOneStack, StacksApart DEF PausePublisher
<1>17. CASE RestorePublisher
  BY <1>17, <1>0, ReleaseKeepsOneStack DEF RestorePublisher, CleanUp
<1>18. CASE ClientDown
  BY <1>18, <1>0, ReleaseKeepsOneStack DEF ClientDown
<1>19. CASE InterruptScenarios
  BY <1>19, <1>0 DEF InterruptScenarios
<1>20. CASE ScenariosCancelled
  BY <1>20, <1>0 DEF ScenariosCancelled
<1>21. CASE ClientCancelled
  BY <1>21, <1>0 DEF ClientCancelled, ClientResult
<1>22. CASE WriteComparison
  BY <1>22, <1>0 DEF WriteComparison
<1>23. CASE Evaluate
  BY <1>23, <1>0 DEF Evaluate
<1>24. CASE Finalize
  BY <1>24, <1>0 DEF Finalize
<1>25. CASE ScenariosEnd
  BY <1>25, <1>0 DEF ScenariosEnd
<1>26. CASE ClientEnds
  BY <1>26, <1>0 DEF ClientEnds, ClientResult
<1>27. CASE InterruptClient
  BY <1>27, <1>0 DEF InterruptClient
<1>28. CASE CtrlC
  BY <1>28, <1>0 DEF CtrlC
<1>29. CASE UNCHANGED vars
  BY <1>29, <1>0 DEF vars
<1> QED
  BY <1>1, <1>2, <1>3, <1>4, <1>5, <1>6, <1>7, <1>8, <1>9, <1>10, <1>11, <1>12,
     <1>13, <1>14, <1>15, <1>16, <1>17, <1>18, <1>19, <1>20, <1>21, <1>22, <1>23, <1>24,
     <1>25, <1>26, <1>27, <1>28, <1>29
  DEF Next, Steps, Exited

\* The stacks of the two lanes, which publish the same host ports, never run
\* together, for every selection and whatever cleanup fails.
THEOREM OneStack == Spec => []OneStackAtATime
<1>1. Init => OneStackAtATime
  <2> SUFFICES ASSUME Init PROVE OneStackAtATime
    OBVIOUS
  <2>1. PICK left \in SUBSET {Fixture, Stack("builtin"), Stack("external")} :
          /\ ~({Stack("builtin"), Stack("external")} \subseteq left)
          /\ res = [r \in Resource |-> IF r \in left THEN "prior" ELSE "none"]
    BY DEF Init
  <2> QED
    BY <2>1, StacksApart DEF OneStackAtATime, Topology
<1>2. Init => RoutedLane
  BY DEF Init, RoutedLane
<1> QED
  BY TypeCorrect, RoutedLaneStep, OneStackStep, <1>1, <1>2, PTL DEF Spec

----------------------------------------------------------------------------
\* NothingForgotten, TargetIsReady.

\* Which phase is responsible for a resource that is up, and by which handle.
Held(r) ==
  \/ r = Fixture /\ scope.lane = "direct" /\ pc \in {"scenarios", "cancelling", "stop_fixture"}
  \/ /\ r \in {Stack(scope.lane), Service(scope.lane)}
     /\ pc \in {"start_service", "provision", "issue_token", "scenarios", "cancelling", "revoke",
                "unregister", "stack_down"}
  \/ /\ r = Registration(scope.lane) /\ scope.fixture
     /\ pc \in {"issue_token", "scenarios", "cancelling", "revoke", "unregister"}
  \/ r = Token(scope.lane) /\ scope.token /\ pc \in {"scenarios", "cancelling", "revoke"}
  \/ r \in Containers("external") /\ pc \in ClientPhases
  \/ outcome = "killed"

AllHeld == \A r \in Resource : res[r] = "up" => Held(r)

\* The lane a phase works for, and what must be up before the next phase begins.
Routed ==
  /\ pc \in {"clear", "stop_prior", "start_fixture", "stop_fixture"} => scope.lane = "direct"
  /\ pc \in {"stack_up", "start_service", "provision", "issue_token"} => scope.lane \in Topology

Prepared ==
  /\ pc = "scenarios" /\ scope.lane = "direct" => res[Fixture] = "up"
  /\ scope.lane \in Topology =>
       /\ pc \in {"start_service", "provision", "issue_token", "scenarios"} => res[Stack(scope.lane)] = "up"
       /\ pc \in {"provision", "issue_token", "scenarios"} => res[Service(scope.lane)] = "up"
       /\ ~Standalone =>
            /\ pc \in {"issue_token", "scenarios"} => res[Registration(scope.lane)] = "up"
            /\ pc = "scenarios" => res[Token(scope.lane)] = "up"

\* What a cleanup and a start do to a single resource.
LEMMA ReleaseEach ==
  ASSUME TypeOK, NEW S, NEW ok, Release(S, ok), NEW r \in Resource
  PROVE  /\ r \notin S => res'[r] = res[r]
         /\ r \in S => res'[r] \in {"none", "stuck"} /\ (ok => res'[r] = "none")
         /\ res[r] = "none" => res'[r] = "none"
BY DEF Release, Without

LEMMA BringUpEach ==
  ASSUME TypeOK, NEW t \in Topology, NEW fresh, NEW ok \in BOOLEAN, BringUp(t, fresh, ok), NEW r \in Resource
  PROVE  /\ \/ res'[r] \in {res[r], "none"}
            \/ res'[r] = "stuck" /\ ~ok
            \/ res'[r] = "up" /\ r = Stack(t)
         /\ ok => res'[Stack(t)] = "up" /\ \A u \in Topology \ {t} : res[Stack(u)] = "none"
         /\ res[r] = "none" => res'[r] = "none" \/ r = Stack(t)
<1> DEFINE S == Containers(t) \cup Volumes(t)
           cleared == IF fresh THEN Without(res, S, {}) ELSE res
<1>1. cleared \in [Resource -> Status] /\ cleared[r] \in {res[r], "none"}
  <2>1. cleared \in [Resource -> Status]
    BY WithoutTyped DEF TypeOK
  <2>2. Without(res, S, {})[r] \in {res[r], "none"}
    BY DEF Without
  <2> QED
    BY <2>1, <2>2
<1>2. CASE ~ok /\ UNCHANGED res
  BY <1>2
<1>3. CASE ~ok /\ Release(S, FALSE)
  <2>1. r \notin S => res'[r] = res[r]
    BY <1>3, ReleaseEach
  <2>2. r \in S => res'[r] \in {"none", "stuck"}
    BY <1>3, ReleaseEach
  <2>3. res[r] = "none" => res'[r] = "none"
    BY <1>3, ReleaseEach
  <2> HIDE DEF S
  <2> QED
    BY <1>3, <2>1, <2>2, <2>3
<1>4. CASE ~ok /\ res' = cleared
  BY <1>1, <1>4
<1>5. CASE ~OtherStackRunning(t) /\ res' = [cleared EXCEPT ![Stack(t)] = "up"]
  <2>1. Stack(t) \in Resource /\ res'[Stack(t)] = "up"
    BY <1>1, <1>5, StacksApart
  <2>2. \A u \in Topology \ {t} : res[Stack(u)] = "none"
    BY <1>5 DEF OtherStackRunning
  <2>3. r # Stack(t) => res'[r] = cleared[r]
    BY <1>1, <1>5
  <2> HIDE DEF cleared
  <2> QED
    BY <1>1, <2>1, <2>2, <2>3
<1> HIDE DEF S, cleared
<1> QED
  BY <1>2, <1>3, <1>4, <1>5 DEF BringUp, S, cleared

\* The kinds of resources differ, and so do those of the two lanes.
LEMMA ResourcesApart ==
  /\ \A t, u : /\ Stack(t) \notin {Fixture, Service(u), Registration(u), Token(u), Paused}
               /\ Service(t) \notin {Fixture, Registration(u), Token(u), Paused}
               /\ Registration(t) \notin {Fixture, Token(u), Paused}
               /\ Token(t) \notin {Fixture, Paused}
  /\ Fixture # Paused
  /\ \A t, u : Stack(t) = Stack(u) \/ Service(t) = Service(u) \/ Registration(t) = Registration(u)
                 \/ Token(t) = Token(u) => t = u
  /\ \A t \in Topology : {Stack(t), Service(t), Registration(t), Token(t)} \subseteq Resource
  /\ Fixture \in Resource /\ Paused \in Resource
BY DEF Stack, Service, Registration, Token, Fixture, Paused, Resource, Containers, Volumes, Topology

\* What a registration leaves, whatever of it fails or is interrupted.
LEMMA ProvisionEffect ==
  ASSUME TypeOK, Provision
  PROVE  \E ok, failed \in BOOLEAN, left \in {"none", "stuck"} :
           /\ ~ok => failed
           /\ res' = [res EXCEPT ![Registration(scope.lane)] = IF ok THEN "up" ELSE left]
           /\ scope' = [scope EXCEPT !.failed = failed, !.fixture = ok]
           /\ pc' = Continue(failed, "issue_token")
<1>1. PICK ok, seen, published \in BOOLEAN, left \in {"none", "stuck"} :
        /\ Poll(seen, ok)
        /\ left = "stuck" => ~ok /\ Registration(scope.lane) \in Sticky
        /\ (seen \/ scope.lane = "builtin" \/ ~ok) => published
        /\ res' = [res EXCEPT ![Registration(scope.lane)] = IF ok THEN "up" ELSE left]
        /\ run' = [run EXCEPT !.interrupted = @ \/ seen]
        /\ LET failed == ~ok \/ seen \/ ~published
           IN  /\ scope' = [scope EXCEPT !.failed = failed, !.fixture = ok]
               /\ pc' = Continue(failed, "issue_token")
  BY DEF Provision
<1> DEFINE failed == ~ok \/ seen \/ ~published
<1>2. failed \in BOOLEAN /\ (~ok => failed)
  OBVIOUS
<1>3. /\ scope' = [scope EXCEPT !.failed = failed, !.fixture = ok]
      /\ pc' = Continue(failed, "issue_token")
  BY <1>1
<1> HIDE DEF failed
<1> QED
  BY <1>1, <1>2, <1>3

LEMMA RoutedStep == TypeOK /\ Routed /\ [Next]_vars => Routed'
<1> SUFFICES ASSUME TypeOK, Routed, [Next]_vars PROVE Routed'
  OBVIOUS
<1>1. scope \in ScopeState
  BY DEF TypeOK
<1>2. CASE RequireDocker \/ PrepareSetupLog \/ ClearArtifacts \/ StopPriorFixture
  BY <1>2 DEF RequireDocker, PrepareSetupLog, ClearArtifacts, StopPriorFixture, NextEntry, NewScope, Routed
<1>3. CASE StartFixture \/ StopFixture
  BY <1>1, <1>3 DEF StartFixture, StopFixture, NewScope, ScopeState, Routed
<1>4. CASE ResetStacks
  BY <1>4 DEF ResetStacks, NewScope, FirstTopology, Topology, Routed
<1>5. CASE StackUp \/ StartService \/ Provision \/ IssueToken
  BY <1>1, <1>5 DEF StackUp, StartService, Provision, IssueToken, Continue, ScopeState, Routed
<1>6. CASE RevokeToken \/ Unregister
  BY <1>6 DEF RevokeToken, Unregister, CleanUp, Routed
<1>7. CASE StackDown
  BY <1>7 DEF StackDown, AfterTopology, NewScope, Topology, Routed
<1>8. CASE ClientUp \/ PausePublisher \/ RestorePublisher \/ ClientDown \/ InterruptClient
  BY <1>8 DEF ClientUp, PausePublisher, RestorePublisher, CleanUp, ClientDown, InterruptClient,
              ClientPhases, Routed
<1>9. CASE ScenariosEnd \/ InterruptScenarios \/ ScenariosCancelled
  BY <1>1, <1>9 DEF ScenariosEnd, InterruptScenarios, ScenariosCancelled, LaneCleanup, ScopeState, Routed
<1>10. CASE ClientEnds \/ ClientCancelled
  BY <1>10 DEF ClientEnds, ClientCancelled, ClientResult, Routed
<1>11. CASE WriteComparison \/ Evaluate \/ Finalize
  BY <1>11 DEF WriteComparison, Evaluate, NextEntry, Finalize, Routed
<1>12. CASE CtrlC \/ UNCHANGED vars
  BY <1>12 DEF CtrlC, vars, Routed
<1> QED
  BY <1>2, <1>3, <1>4, <1>5, <1>6, <1>7, <1>8, <1>9, <1>10, <1>11, <1>12 DEF Next, Steps, Exited

\* The cleanups and starts of a routed lane, and its handles.
LEMMA HeldByLane ==
  ASSUME TypeOK, Routed, AllHeld,
         StackUp \/ StartService \/ Provision \/ IssueToken \/ RevokeToken \/ Unregister \/ StackDown
  PROVE  AllHeld'
<1> SUFFICES ASSUME NEW r \in Resource, res'[r] = "up" PROVE Held(r)'
  BY DEF AllHeld
<1>1. res \in [Resource -> Status] /\ scope \in ScopeState
  BY DEF TypeOK
<1>2. res[r] = "up" => Held(r)
  BY DEF AllHeld
<1>3. CASE StackUp
  <2>1. PICK ok \in BOOLEAN : BringUp(scope.lane, TRUE, ok) /\ pc' = IF ok THEN "start_service" ELSE "revoke"
    BY <1>3 DEF StackUp
  <2>2. scope.lane \in Topology /\ scope'.lane = scope.lane /\ outcome' = outcome /\ pc = "stack_up"
    BY <1>1, <1>3 DEF StackUp, Routed, ScopeState
  <2>3. \/ res'[r] \in {res[r], "none"}
        \/ res'[r] = "stuck"
        \/ r = Stack(scope.lane)
    BY <2>1, <2>2, BringUpEach
  <2> QED
    BY <1>2, <2>1, <2>2, <2>3 DEF Held, ClientPhases
<1>4. CASE StartService
  <2>1. res[r] = "up" \/ r = Service(scope.lane)
    BY <1>1, <1>4 DEF StartService
  <2>2. /\ pc = "start_service" /\ pc' \in {"revoke", "issue_token", "provision"}
        /\ scope'.lane = scope.lane /\ outcome' = outcome
    BY <1>1, <1>4 DEF StartService, Continue, ScopeState
  <2> QED
    BY <1>2, <2>1, <2>2 DEF Held, ClientPhases
<1>5. CASE Provision
  <2>0. PICK ok, failed \in BOOLEAN, left \in {"none", "stuck"} :
          /\ ~ok => failed
          /\ res' = [res EXCEPT ![Registration(scope.lane)] = IF ok THEN "up" ELSE left]
          /\ scope' = [scope EXCEPT !.failed = failed, !.fixture = ok]
          /\ pc' = Continue(failed, "issue_token")
    BY <1>5, ProvisionEffect
  <2>1. /\ res' = [res EXCEPT ![Registration(scope.lane)] = IF ok THEN "up" ELSE left]
        /\ scope'.lane = scope.lane /\ scope'.fixture = ok
        /\ pc' \in {"revoke", "issue_token"}
    BY <1>1, <2>0 DEF Continue, ScopeState
  <2>2. res[r] = "up" \/ (r = Registration(scope.lane) /\ ok)
    BY <1>1, <2>1
  <2>3. pc = "provision" /\ outcome' = outcome
    BY <1>5 DEF Provision
  <2> QED
    BY <1>2, <2>1, <2>2, <2>3 DEF Held, ClientPhases
<1>6. CASE IssueToken
  <2>1. PICK ok \in BOOLEAN, stored \in {"none", "lost"} :
          /\ res' = IF Standalone THEN res
                    ELSE [res EXCEPT ![Token(scope.lane)] = IF ok THEN "up" ELSE stored]
          /\ scope' = [scope EXCEPT !.failed = ~ok, !.token = ok /\ ~Standalone]
          /\ pc' = Continue(~ok, "scenarios")
    BY <1>6 DEF IssueToken
  <2>2. res[r] = "up" \/ (r = Token(scope.lane) /\ ok /\ ~Standalone)
    BY <1>1, <2>1
  <2>3. /\ scope'.lane = scope.lane /\ scope'.fixture = scope.fixture /\ scope'.token = (ok /\ ~Standalone)
        /\ pc = "issue_token" /\ pc' \in {"revoke", "scenarios"} /\ outcome' = outcome
    BY <1>1, <1>6, <2>1 DEF IssueToken, Continue, ScopeState
  <2> QED
    BY <1>2, <2>2, <2>3 DEF Held, ClientPhases
<1>7. CASE RevokeToken
  <2>1. PICK ok \in BOOLEAN : Release(IF scope.token THEN {Token(scope.lane)} ELSE {}, ok)
    BY <1>7 DEF RevokeToken, CleanUp
  <2>2. res[r] = "up" /\ ~(scope.token /\ r = Token(scope.lane))
    BY <2>1, ReleaseEach
  <2>3. /\ scope'.lane = scope.lane /\ scope'.fixture = scope.fixture
        /\ pc = "revoke" /\ pc' = "unregister" /\ outcome' = outcome
    BY <1>1, <1>7 DEF RevokeToken, CleanUp, ScopeState
  <2> QED
    BY <1>2, <2>2, <2>3 DEF Held, ClientPhases
<1>8. CASE Unregister
  <2>1. PICK ok \in BOOLEAN : Release((IF scope.fixture THEN {Registration(scope.lane)} ELSE {})
                                      \cup (IF scope.service THEN {Service(scope.lane)} ELSE {}), ok)
    BY <1>8 DEF Unregister, CleanUp
  <2>2. res[r] = "up" /\ ~(scope.fixture /\ r = Registration(scope.lane))
    BY <2>1, ReleaseEach
  <2>3. scope'.lane = scope.lane /\ pc = "unregister" /\ pc' = "stack_down" /\ outcome' = outcome
    BY <1>1, <1>8 DEF Unregister, CleanUp, ScopeState
  <2> QED
    BY <1>2, <2>2, <2>3 DEF Held, ClientPhases
<1>9. CASE StackDown
  <2>1. pc = "stack_down" /\ outcome' = outcome
    BY <1>9 DEF StackDown
  <2>2. CASE CanReuseExternalStack
    <3>1. res' = res /\ pc' = "client_up" /\ scope.lane = "external"
      BY <1>9, <2>2 DEF StackDown, CanReuseExternalStack, AfterTopology
    <3> QED
      BY <1>2, <2>1, <3>1 DEF Held, ClientPhases, Containers
  <2>3. CASE ~CanReuseExternalStack
    <3>1. PICK ok \in BOOLEAN : Release(Containers(scope.lane), ok)
      BY <1>9, <2>3 DEF StackDown
    <3>2. res[r] = "up" /\ r \notin Containers(scope.lane)
      BY <3>1, ReleaseEach
    <3> QED
      BY <1>2, <2>1, <3>2 DEF Held, ClientPhases, Containers
  <2> QED
    BY <2>2, <2>3
<1> QED
  BY <1>3, <1>4, <1>5, <1>6, <1>7, <1>8, <1>9

\* The same of every other step.
LEMMA HeldElsewhere ==
  ASSUME TypeOK, Routed, AllHeld, InterruptReported, [Next]_vars,
         ~(StackUp \/ StartService \/ Provision \/ IssueToken \/ RevokeToken \/ Unregister \/ StackDown)
  PROVE  AllHeld'
<1> SUFFICES ASSUME NEW r \in Resource, res'[r] = "up" PROVE Held(r)'
  BY DEF AllHeld
<1>1. res \in [Resource -> Status] /\ scope \in ScopeState
  BY DEF TypeOK
<1>2. res[r] = "up" => Held(r)
  BY DEF AllHeld
<1>3. CASE RequireDocker \/ PrepareSetupLog \/ ClearArtifacts \/ ResetStacks
  <2>1. CASE ResetStacks
    <3>1. PICK S, ok : Release(S, ok)
      BY <2>1 DEF ResetStacks
    <3>2. res[r] = "up"
      BY <3>1, ReleaseEach
    <3> QED
      BY <1>2, <2>1, <3>2 DEF ResetStacks, Held, ClientPhases
  <2>2. CASE RequireDocker \/ PrepareSetupLog \/ ClearArtifacts
    <3>1. res' = res /\ pc \in {"docker", "setup", "clear"} /\ outcome # "killed"
      BY <2>2 DEF RequireDocker, PrepareSetupLog, ClearArtifacts, InterruptReported
    <3> QED
      BY <1>2, <3>1 DEF Held, ClientPhases
  <2> QED
    BY <1>3, <2>1, <2>2
<1>4. CASE StopPriorFixture \/ StopFixture
  <2>1. PICK ok \in BOOLEAN : Release({Fixture}, ok)
    BY <1>4 DEF StopPriorFixture, StopFixture
  <2>2. res[r] = "up" /\ r # Fixture
    BY <2>1, ReleaseEach
  <2> QED
    BY <1>2, <1>4, <2>2 DEF StopPriorFixture, StopFixture, Held, Routed, ClientPhases
<1>5. CASE StartFixture
  <2>1. res[r] = "up" \/ r = Fixture
    BY <1>1, <1>5 DEF StartFixture
  <2>2. /\ pc = "start_fixture" /\ pc' \in {"scenarios", "stop_fixture"}
        /\ scope.lane = "direct" /\ scope'.lane = scope.lane /\ outcome' = outcome
    BY <1>1, <1>5 DEF StartFixture, ScopeState, Routed
  <2> QED
    BY <1>2, <2>1, <2>2 DEF Held, ClientPhases
<1>6. CASE ScenariosEnd \/ InterruptScenarios \/ ScenariosCancelled
  <2>1. /\ res' = res /\ outcome' = outcome /\ scope'.lane = scope.lane
        /\ scope'.fixture = scope.fixture /\ scope'.token = scope.token
    BY <1>1, <1>6 DEF ScenariosEnd, InterruptScenarios, ScenariosCancelled, ScopeState
  <2>2. /\ pc \in {"scenarios", "cancelling"}
        /\ \/ pc' = "cancelling"
           \/ pc' = IF scope.lane = "direct" THEN "stop_fixture" ELSE "revoke"
    BY <1>6 DEF ScenariosEnd, InterruptScenarios, ScenariosCancelled, LaneCleanup
  <2>3. scope.lane = "direct" => r \notin {Registration(scope.lane), Token(scope.lane)} \/ Held(r)'
    BY <1>1, <2>1, <2>2 DEF Resource, Containers, Volumes, Topology, Fixture, Stack, Service, Registration,
                     Token, Paused
  <2>4. scope.lane = "direct" => r \notin {Stack(scope.lane), Service(scope.lane)}
    BY DEF Resource, Containers, Volumes, Topology, Fixture, Stack, Service, Registration, Token, Paused
  <2> QED
    BY <1>2, <2>1, <2>2, <2>3, <2>4 DEF Held, ClientPhases
<1>7. CASE ClientUp
  <2>1. PICK ok \in BOOLEAN : BringUp("external", ~run.retained, ok)
    BY <1>7 DEF ClientUp
  <2>2. res[r] = "up" \/ r = Stack("external")
    BY <2>1, BringUpEach DEF Topology
  <2>3. pc = "client_up" /\ pc' \in {"client_down", "client_run", "client_pause"} /\ outcome' = outcome
    BY <1>7 DEF ClientUp
  <2> QED
    BY <1>2, <2>2, <2>3 DEF Held, ClientPhases, Containers
<1>8. CASE PausePublisher
  <2>1. res[r] = "up" \/ r = Paused
    BY <1>1, <1>8 DEF PausePublisher
  <2>2. pc = "client_pause" /\ pc' \in {"client_down", "client_run"} /\ outcome' = outcome
    BY <1>8 DEF PausePublisher
  <2> QED
    BY <1>2, <2>1, <2>2 DEF Held, ClientPhases, Containers
<1>9. CASE ClientEnds \/ ClientCancelled \/ InterruptClient
  <2>1. res' = res /\ outcome' = outcome /\ pc \in ClientPhases /\ pc' \in ClientPhases
    BY <1>9 DEF ClientEnds, ClientCancelled, ClientResult, InterruptClient, ClientPhases
  <2> QED
    BY <1>2, <2>1 DEF Held, ClientPhases
<1>10. CASE RestorePublisher
  <2>1. PICK S, ok : Release(S, ok)
    BY <1>10 DEF RestorePublisher, CleanUp
  <2>2. res[r] = "up"
    BY <2>1, ReleaseEach
  <2>3. pc = "client_restore" /\ pc' = "client_down" /\ outcome' = outcome
    BY <1>10 DEF RestorePublisher, CleanUp
  <2> QED
    BY <1>2, <2>2, <2>3 DEF Held, ClientPhases
<1>11. CASE ClientDown
  <2>1. PICK ok : Release(Containers("external"), ok)
    BY <1>11 DEF ClientDown
  <2>2. res[r] = "up" /\ r \notin Containers("external")
    BY <2>1, ReleaseEach
  <2> QED
    BY <1>2, <1>11, <2>2 DEF ClientDown, Held, ClientPhases
<1>12. CASE WriteComparison \/ Evaluate
  BY <1>2, <1>12 DEF WriteComparison, Evaluate, NextEntry, Held, ClientPhases
<1>13. CASE Finalize
  <2>1. res' = res /\ pc = "finalize" /\ outcome # "killed"
    BY <1>13 DEF Finalize, InterruptReported
  <2> QED
    BY <1>2, <2>1 DEF Held, ClientPhases
<1>14. CASE CtrlC
  <2>1. res' = res /\ scope' = scope
    BY <1>14 DEF CtrlC
  <2>2. CASE outcome' = outcome /\ pc' = pc
    BY <1>2, <2>1, <2>2 DEF Held, ClientPhases
  <2>3. CASE outcome' = "killed"
    BY <2>3 DEF Held
  <2> QED
    BY <1>14, <2>2, <2>3 DEF CtrlC
<1>15. CASE UNCHANGED vars
  BY <1>2, <1>15 DEF vars, Held, ClientPhases
<1> QED
  BY <1>3, <1>4, <1>5, <1>6, <1>7, <1>8, <1>9, <1>10, <1>11, <1>12, <1>13, <1>14, <1>15
  DEF Next, Steps, Exited

\* Whatever a run started was at least tried to be cleaned up when it ends by itself.
THEOREM NothingIsForgotten == Spec => []NothingForgotten
<1>1. Init => Routed /\ AllHeld /\ InterruptReported
  <2> SUFFICES ASSUME Init PROVE Routed /\ AllHeld /\ InterruptReported
    OBVIOUS
  <2>1. \A r \in Resource : res[r] # "up"
    BY DEF Init
  <2> QED
    BY <2>1 DEF Init, Routed, AllHeld, InterruptReported, Succeeded
<1>2. TypeOK /\ Routed /\ AllHeld /\ InterruptReported /\ [Next]_vars => AllHeld'
  BY HeldByLane, HeldElsewhere
<1>3. InterruptReported /\ AllHeld => NothingForgotten
  BY DEF InterruptReported, AllHeld, Held, ClientPhases, NothingForgotten
<1> QED
  BY TypeCorrect, RoutedStep, InterruptReportedStep, <1>1, <1>2, <1>3, PTL DEF Spec

\* What is up stays up until the phases that need it are over.
LEMMA PreparedStep == TypeOK /\ Routed /\ Prepared /\ [Next]_vars => Prepared'
<1> SUFFICES ASSUME TypeOK, Routed, Prepared, [Next]_vars PROVE Prepared'
  OBVIOUS
<1> DEFINE Preparing == {"start_service", "provision", "issue_token", "scenarios"}
<1>1. res \in [Resource -> Status] /\ scope \in ScopeState
  BY DEF TypeOK
<1>2. ASSUME pc' \notin Preparing PROVE Prepared'
  BY <1>2 DEF Prepared
<1>3. CASE RequireDocker \/ PrepareSetupLog \/ ClearArtifacts \/ StopPriorFixture
  BY <1>2, <1>3 DEF RequireDocker, PrepareSetupLog, NextEntry, ClearArtifacts, StopPriorFixture
<1>4. CASE StartFixture
  <2>1. /\ scope.lane = "direct" /\ scope'.lane = "direct" /\ pc' \in {"scenarios", "stop_fixture"}
        /\ pc' = "scenarios" => res' = [res EXCEPT ![Fixture] = "up"]
    BY <1>1, <1>4 DEF StartFixture, ScopeState, Routed
  <2> QED
    BY <1>1, <2>1, ResourcesApart DEF Prepared, Topology
<1>5. CASE StopFixture \/ ResetStacks
  BY <1>2, <1>5 DEF StopFixture, ResetStacks
<1>6. CASE StackUp
  <2>1. PICK ok \in BOOLEAN : BringUp(scope.lane, TRUE, ok) /\ pc' = IF ok THEN "start_service" ELSE "revoke"
    BY <1>6 DEF StackUp
  <2>2. scope.lane \in Topology /\ scope'.lane = scope.lane
    BY <1>1, <1>6 DEF StackUp, Routed, ScopeState
  <2>3. ok => res'[Stack(scope.lane)] = "up"
    <3>1. Stack(scope.lane) \in Resource
      BY <2>2, StacksApart
    <3> QED
      BY <2>1, <2>2, <3>1, BringUpEach, ZenonT(30)
  <2> QED
    BY <2>1, <2>2, <2>3 DEF Prepared
<1>7. CASE StartService
  <2>1. /\ pc = "start_service" /\ scope.lane \in Topology /\ scope'.lane = scope.lane
        /\ request' = request
        /\ pc' = "revoke" \/ /\ pc' = (IF Standalone THEN "issue_token" ELSE "provision")
                             /\ res' = [res EXCEPT ![Service(scope.lane)] = "up"]
    BY <1>1, <1>7 DEF StartService, Continue, ScopeState, Routed
  <2>2. Standalone' = Standalone
    BY <2>1 DEF Standalone
  <2>3. CASE pc' # "revoke"
    <3>1. res'[Service(scope.lane)] = "up" /\ res'[Stack(scope.lane)] = res[Stack(scope.lane)]
      BY <1>1, <2>1, <2>3, ResourcesApart
    <3>2. res[Stack(scope.lane)] = "up"
      BY <2>1 DEF Prepared
    <3> QED
      BY <2>1, <2>2, <2>3, <3>1, <3>2 DEF Prepared, Topology
  <2> QED
    BY <1>2, <2>3
<1>8. CASE Provision
  <2>1. /\ pc = "provision" /\ scope.lane \in Topology /\ scope'.lane = scope.lane
        /\ pc' = "revoke" \/ /\ pc' = "issue_token"
                             /\ res' = [res EXCEPT ![Registration(scope.lane)] = "up"]
    <3>1. PICK ok, failed \in BOOLEAN, left \in {"none", "stuck"} :
            /\ ~ok => failed
            /\ res' = [res EXCEPT ![Registration(scope.lane)] = IF ok THEN "up" ELSE left]
            /\ scope' = [scope EXCEPT !.failed = failed, !.fixture = ok]
            /\ pc' = Continue(failed, "issue_token")
      BY <1>8, ProvisionEffect
    <3> QED
      BY <1>1, <1>8, <3>1 DEF Provision, Continue, ScopeState, Routed
  <2>2. CASE pc' # "revoke"
    <3>1. /\ res'[Registration(scope.lane)] = "up" /\ res'[Stack(scope.lane)] = res[Stack(scope.lane)]
          /\ res'[Service(scope.lane)] = res[Service(scope.lane)]
      BY <1>1, <2>1, <2>2, ResourcesApart
    <3>2. res[Stack(scope.lane)] = "up" /\ res[Service(scope.lane)] = "up"
      BY <2>1 DEF Prepared
    <3> QED
      BY <2>1, <2>2, <3>1, <3>2 DEF Prepared, Topology
  <2> QED
    BY <1>2, <2>2
<1>9. CASE IssueToken
  <2>1. /\ pc = "issue_token" /\ scope.lane \in Topology /\ scope'.lane = scope.lane
        /\ request' = request
        /\ pc' = "revoke" \/ /\ pc' = "scenarios"
                             /\ res' = IF Standalone THEN res ELSE [res EXCEPT ![Token(scope.lane)] = "up"]
    <3>1. PICK ok \in BOOLEAN, stored \in {"none", "lost"} :
            /\ res' = IF Standalone THEN res
                      ELSE [res EXCEPT ![Token(scope.lane)] = IF ok THEN "up" ELSE stored]
            /\ scope' = [scope EXCEPT !.failed = ~ok, !.token = ok /\ ~Standalone]
            /\ pc' = Continue(~ok, "scenarios")
      BY <1>9 DEF IssueToken
    <3> QED
      BY <1>1, <1>9, <3>1 DEF IssueToken, Continue, ScopeState, Routed
  <2>2. Standalone' = Standalone
    BY <2>1 DEF Standalone
  <2>3. CASE pc' # "revoke"
    <3>1. /\ ~Standalone => res'[Token(scope.lane)] = "up"
          /\ \A r \in Resource : r # Token(scope.lane) => res'[r] = res[r]
      BY <1>1, <2>1, <2>3, ResourcesApart
    <3>2. /\ res[Stack(scope.lane)] = "up" /\ res[Service(scope.lane)] = "up"
          /\ ~Standalone => res[Registration(scope.lane)] = "up"
      BY <2>1 DEF Prepared
    <3>3. /\ res'[Stack(scope.lane)] = "up" /\ res'[Service(scope.lane)] = "up"
          /\ ~Standalone => res'[Registration(scope.lane)] = "up"
      BY <2>1, <3>1, <3>2, ResourcesApart
    <3> QED
      BY <2>1, <2>2, <2>3, <3>1, <3>3 DEF Prepared, Topology
  <2> QED
    BY <1>2, <2>3
<1>10. CASE RevokeToken \/ Unregister \/ StackDown
  BY <1>2, <1>10 DEF RevokeToken, Unregister, CleanUp, StackDown, AfterTopology
<1>11. CASE ClientUp \/ PausePublisher \/ RestorePublisher \/ ClientDown \/ InterruptClient
  BY <1>2, <1>11 DEF ClientUp, PausePublisher, RestorePublisher, CleanUp, ClientDown, InterruptClient,
                     ClientPhases
<1>12. CASE ScenariosEnd \/ InterruptScenarios \/ ScenariosCancelled
  BY <1>2, <1>12 DEF ScenariosEnd, InterruptScenarios, ScenariosCancelled, LaneCleanup
<1>13. CASE ClientEnds \/ ClientCancelled
  BY <1>2, <1>13 DEF ClientEnds, ClientCancelled, ClientResult
<1>14. CASE WriteComparison \/ Evaluate \/ Finalize
  BY <1>2, <1>14 DEF WriteComparison, Evaluate, NextEntry, Finalize
<1>15. CASE CtrlC
  <2>1. pc' = "exit" \/ pc' = pc
    BY <1>15 DEF CtrlC
  <2>2. scope' = scope /\ res' = res /\ request' = request
    BY <1>15 DEF CtrlC
  <2> QED
    BY <1>2, <2>1, <2>2 DEF Prepared, Standalone
<1>16. CASE UNCHANGED vars
  BY <1>16 DEF vars, Prepared, Standalone
<1> QED
  BY <1>3, <1>4, <1>5, <1>6, <1>7, <1>8, <1>9, <1>10, <1>11, <1>12, <1>13, <1>14, <1>15, <1>16
  DEF Next, Steps, Exited

\* Scenarios run only against a target that is completely set up.
THEOREM TargetsAreReady == Spec => []TargetIsReady
<1>1. Init => Routed /\ Prepared
  BY DEF Init, Routed, Prepared
<1>2. TypeOK /\ Prepared => TargetIsReady
  <2> SUFFICES ASSUME TypeOK, Prepared, pc = "scenarios",
                      NEW r \in IF scope.lane = "direct" THEN {Fixture}
                                ELSE {Stack(scope.lane), Service(scope.lane)}
                                       \cup (IF Standalone THEN {} ELSE Volumes(scope.lane))
               PROVE  res[r] = "up"
    BY DEF TargetIsReady
  <2>1. scope.lane \in Topology \/ scope.lane = "direct"
    BY DEF TypeOK, ScopeState, Lane, Topology
  <2> QED
    BY <2>1 DEF Prepared, Volumes, Topology
<1> QED
  BY TypeCorrect, RoutedStep, PreparedStep, <1>1, <1>2, PTL DEF Spec

----------------------------------------------------------------------------
\* NothingStartsAfterInterrupt.

\* Once the interrupt is observed, only cleanup, the client's own part and the report are left.
Closing == {"cancelling", "stop_fixture", "revoke", "unregister", "stack_down", "compare", "evaluate",
            "finalize", "exit"}

SeenStops ==
  ctrlc = "seen" =>
    /\ pc \in Closing \cup ClientPhases
    /\ pc \in {"cancelling", "stop_fixture", "revoke", "unregister", "stack_down"} => run.interrupted

LEMMA SeenStopsStep == TypeOK /\ SeenStops /\ [Next]_vars => SeenStops'
<1> SUFFICES ASSUME TypeOK, SeenStops, [Next]_vars, ctrlc' = "seen"
             PROVE  SeenStops'
  BY DEF SeenStops
<1>1. run \in RunState
  BY DEF TypeOK
<1>2. CASE RequireDocker \/ PrepareSetupLog \/ ClearArtifacts \/ ResetStacks \/ StackUp \/ IssueToken
  BY <1>2 DEF RequireDocker, PrepareSetupLog, ClearArtifacts, ResetStacks, StackUp, IssueToken, SeenStops,
              Closing, ClientPhases
<1>3. CASE StopPriorFixture
  BY <1>3 DEF StopPriorFixture, Armed, SeenStops, Closing, ClientPhases
<1>4. CASE StartFixture \/ StartService \/ Provision
  <2>1. PICK ok, seen \in BOOLEAN :
          /\ Poll(seen, ok)
          /\ run' = [run EXCEPT !.interrupted = @ \/ seen]
          /\ seen => pc' \in {"stop_fixture", "revoke"}
    <3>1. CASE StartFixture
      BY <3>1 DEF StartFixture
    <3>2. CASE StartService
      BY <3>2 DEF StartService, Continue
    <3>3. CASE Provision
      BY <3>3 DEF Provision, Continue
    <3> QED
      BY <1>4, <3>1, <3>2, <3>3
  <2>2. pc \in {"start_fixture", "start_service", "provision"}
    BY <1>4 DEF StartFixture, StartService, Provision
  <2>3. ctrlc # "seen"
    BY <2>2 DEF SeenStops, Closing, ClientPhases
  <2>4. seen = TRUE
    BY <2>1, <2>3 DEF Poll, Unseen
  <2>5. run'.interrupted = TRUE
    BY <1>1, <2>1, <2>4 DEF RunState
  <2> QED
    BY <2>1, <2>4, <2>5 DEF SeenStops, Closing
<1>5. CASE StopFixture
  <2>1. ctrlc = "seen" /\ pc = "stop_fixture"
    BY <1>5 DEF StopFixture
  <2>2. pc' = "compare"
    BY <1>5, <2>1 DEF StopFixture, SeenStops
  <2> QED
    BY <2>2 DEF SeenStops, Closing
<1>6. CASE RevokeToken \/ Unregister
  BY <1>6 DEF RevokeToken, Unregister, CleanUp, SeenStops, Closing, ClientPhases
<1>7. CASE StackDown
  <2>1. ctrlc = "seen" /\ pc = "stack_down"
    BY <1>7 DEF StackDown
  <2>2. pc' = "compare"
    BY <1>7, <2>1 DEF StackDown, AfterTopology, SeenStops
  <2> QED
    BY <2>2 DEF SeenStops, Closing
<1>8. CASE ClientUp \/ PausePublisher \/ RestorePublisher \/ ClientEnds \/ ClientCancelled \/ InterruptClient
  <2>1. pc' \in ClientPhases
    BY <1>8 DEF ClientUp, PausePublisher, RestorePublisher, CleanUp, ClientEnds, ClientCancelled,
                ClientResult, InterruptClient, ClientPhases
  <2> QED
    BY <2>1 DEF SeenStops, ClientPhases
<1>9. CASE ClientDown \/ WriteComparison \/ Finalize
  BY <1>9 DEF ClientDown, WriteComparison, Finalize, SeenStops, Closing
<1>10. CASE InterruptScenarios
  BY <1>1, <1>10 DEF InterruptScenarios, RunState, SeenStops, Closing
<1>11. CASE ScenariosCancelled
  <2>1. ctrlc = "seen" /\ pc = "cancelling" /\ run' = run /\ pc' \in {"stop_fixture", "revoke"}
    BY <1>11 DEF ScenariosCancelled, LaneCleanup
  <2> QED
    BY <2>1 DEF SeenStops, Closing
<1>12. CASE ScenariosEnd
  <2>1. pc = "scenarios" /\ ctrlc = "seen"
    BY <1>12 DEF ScenariosEnd, Poll, Unseen
  <2> QED
    BY <2>1 DEF SeenStops, Closing, ClientPhases
<1>13. CASE Evaluate
  BY <1>13 DEF Evaluate, StopsMatrix, SeenStops, Closing
<1>14. CASE CtrlC
  <2>1. ctrlc = "seen" \/ pc' = "exit"
    BY <1>14 DEF CtrlC
  <2>2. CASE pc' = "exit"
    BY <2>2 DEF SeenStops, Closing
  <2>3. ctrlc # "seen" \/ pc' = "exit"
    BY <1>14 DEF CtrlC
  <2> QED
    BY <2>1, <2>2, <2>3
<1>15. CASE UNCHANGED vars
  BY <1>15 DEF vars, SeenStops
<1> QED
  BY <1>2, <1>3, <1>4, <1>5, <1>6, <1>7, <1>8, <1>9, <1>10, <1>11, <1>12, <1>13, <1>14, <1>15
  DEF Next, Steps, Exited

\* Once Ctrl-C is observed nothing is started for another lane or entry, the client's own part
\* excepted: the program only cleans up and reports.
THEOREM InterruptStartsNothing == Spec => NothingStartsAfterInterrupt
<1> DEFINE Shrinks == ctrlc = "seen" /\ pc \notin ClientPhases
                        => entry' = entry /\ \A r \in Resource : res'[r] \in {res[r], "none", "stuck"}
<1>1. Init => SeenStops
  BY DEF Init, SeenStops
<1>2. TypeOK /\ SeenStops /\ [Next]_vars => Shrinks
  <2> SUFFICES ASSUME TypeOK, SeenStops, [Next]_vars, ctrlc = "seen", pc \notin ClientPhases
               PROVE  entry' = entry /\ \A r \in Resource : res'[r] \in {res[r], "none", "stuck"}
    OBVIOUS
  <2>1. pc \in Closing
    BY DEF SeenStops
  <2>2. ASSUME UNCHANGED <<entry, res>> PROVE Shrinks
    BY <2>2
  <2> HIDE DEF Shrinks
  <2>3. CASE StopFixture \/ RevokeToken \/ Unregister \/ StackDown
    <3>1. entry' = entry
      BY <2>3 DEF StopFixture, RevokeToken, Unregister, StackDown
    <3>2. CASE UNCHANGED res
      BY <2>2, <3>1, <3>2
    <3>3. CASE ~UNCHANGED res
      <4>1. PICK S, ok : Release(S, ok)
        <5>1. CASE StopFixture
          BY <5>1 DEF StopFixture
        <5>2. CASE RevokeToken
          BY <5>2 DEF RevokeToken, CleanUp
        <5>3. CASE Unregister
          BY <5>3 DEF Unregister, CleanUp
        <5>4. CASE StackDown
          BY <3>3, <5>4 DEF StackDown
        <5> QED
          BY <2>3, <5>1, <5>2, <5>3, <5>4
      <4>2. \A r \in Resource : res'[r] \in {res[r], "none", "stuck"}
        BY <4>1, ReleaseEach
      <4> QED
        BY <3>1, <4>2 DEF Shrinks
    <3> QED
      BY <3>2, <3>3
  <2>4. CASE Evaluate
    BY <2>2, <2>4 DEF Evaluate, StopsMatrix, Shrinks
  <2>5. CASE ScenariosCancelled \/ WriteComparison \/ Finalize \/ CtrlC \/ UNCHANGED vars
    BY <2>2, <2>5 DEF ScenariosCancelled, WriteComparison, Finalize, CtrlC, vars, Shrinks
  <2>6. ~(\/ RequireDocker \/ PrepareSetupLog \/ ClearArtifacts \/ StopPriorFixture \/ StartFixture
          \/ ResetStacks \/ StackUp \/ StartService \/ Provision \/ IssueToken \/ ScenariosEnd
          \/ InterruptScenarios)
    BY <2>1 DEF Closing, RequireDocker, PrepareSetupLog, ClearArtifacts, StopPriorFixture, StartFixture,
             ResetStacks, StackUp, StartService, Provision, IssueToken, ScenariosEnd, InterruptScenarios
  <2>7. ~(\/ ClientUp \/ PausePublisher \/ RestorePublisher \/ ClientDown \/ ClientEnds \/ ClientCancelled
          \/ InterruptClient)
    BY DEF ClientPhases, ClientUp, PausePublisher, RestorePublisher, ClientDown, ClientEnds, ClientCancelled,
           InterruptClient
  <2> QED
    BY <2>3, <2>4, <2>5, <2>6, <2>7 DEF Next, Steps, Exited, Shrinks
<1>3. [](TypeOK /\ SeenStops) /\ [][Next]_vars => [][Shrinks]_vars
  BY <1>2, PTL
<1>4. [][Shrinks]_vars <=> NothingStartsAfterInterrupt
  BY DEF NothingStartsAfterInterrupt
<1> HIDE DEF Shrinks
<1> QED
  BY TypeCorrect, SeenStopsStep, <1>1, <1>3, <1>4, PTL DEF Spec

----------------------------------------------------------------------------
\* SuccessLeavesNothing.

\* A failure so far: of an earlier entry, of the run of this one, or of the lane at work.
AtWork == pc \notin {"docker", "setup", "finalize", "exit"}
Recorded ==
  \/ verdict.failures \/ verdict.reported
  \/ AtWork /\ (run.err \/ run.opfail \/ scope.failed)

\* Where nothing can have failed yet, or what failed has been passed on.
NotYetFailed ==
  /\ pc \notin {"stop_fixture", "revoke", "unregister", "stack_down", "client_restore", "client_down", "exit"}
       => ~scope.failed
  /\ pc \in {"clear", "stop_prior"} => ~run.opfail
  /\ AtWork /\ pc # "evaluate" => ~run.err

\* What a cleanup or a lost answer left is on record, and so is what an earlier command left
\* once its time has come.
LeftRecorded ==
  outcome # "killed" => \A r \in Resource : res[r] \in {"stuck", "lost"} => Recorded

PriorRecorded ==
  \A r \in Resource : outcome # "killed" /\ res[r] = "prior" =>
    /\ r \in {Fixture, Stack("builtin"), Stack("external")}
    /\ \/ Recorded \/ outcome = "failed"
       \/ pc \in {"docker", "setup", "clear", "stop_prior"}
       \/ r # Fixture /\ Topologies = {}
       \/ r # Fixture /\ pc \in {"start_fixture", "scenarios", "cancelling", "stop_fixture", "reset", "stack_up"}
            /\ (pc \in {"scenarios", "cancelling"} => scope.lane = "direct")

Concluded == outcome \in {"blessed", "matched"} => ~verdict.failures /\ ~verdict.reported

-----------------------------------------------------------------------

\* What failed is passed on before the locals it was noted in are reset.
LEMMA NotYetFailedStep == TypeOK /\ NotYetFailed /\ [Next]_vars => NotYetFailed'
<1> SUFFICES ASSUME TypeOK, NotYetFailed, [Next]_vars PROVE NotYetFailed'
  OBVIOUS
<1>0. run \in RunState /\ scope \in ScopeState
  BY DEF TypeOK
<1>1. CASE RequireDocker
  BY <1>0, <1>1 DEF RequireDocker, RunState, ScopeState, NotYetFailed, AtWork
<1>2. CASE PrepareSetupLog
  BY <1>0, <1>2 DEF PrepareSetupLog, NextEntry, NewRun, NewScope, RunState, ScopeState, NotYetFailed, AtWork
<1>3. CASE ClearArtifacts
  BY <1>0, <1>3 DEF ClearArtifacts, RunState, ScopeState, NotYetFailed, AtWork
<1>4. CASE StopPriorFixture
  BY <1>0, <1>4 DEF StopPriorFixture, RunState, ScopeState, NotYetFailed, AtWork
<1>5. CASE StartFixture
  BY <1>0, <1>5 DEF StartFixture, RunState, ScopeState, NotYetFailed, AtWork
<1>6. CASE StopFixture
  BY <1>0, <1>6 DEF StopFixture, NewScope, RunState, ScopeState, NotYetFailed, AtWork
<1>7. CASE ResetStacks
  BY <1>0, <1>7 DEF ResetStacks, NewScope, RunState, ScopeState, NotYetFailed, AtWork
<1>8. CASE StackUp
  BY <1>0, <1>8 DEF StackUp, RunState, ScopeState, NotYetFailed, AtWork
<1>9. CASE StartService
  BY <1>0, <1>9 DEF StartService, Continue, RunState, ScopeState, NotYetFailed, AtWork
<1>10. CASE Provision
  BY <1>0, <1>10 DEF Provision, Continue, RunState, ScopeState, NotYetFailed, AtWork
<1>11. CASE IssueToken
  BY <1>0, <1>11 DEF IssueToken, Continue, RunState, ScopeState, NotYetFailed, AtWork
<1>12. CASE RevokeToken
  BY <1>0, <1>12 DEF RevokeToken, CleanUp, Failed, RunState, ScopeState, NotYetFailed, AtWork
<1>13. CASE Unregister
  BY <1>0, <1>13 DEF Unregister, CleanUp, Failed, RunState, ScopeState, NotYetFailed, AtWork
<1>14. CASE StackDown
  BY <1>0, <1>14 DEF StackDown, AfterTopology, NewScope, RunState, ScopeState, NotYetFailed, AtWork
<1>15. CASE ClientUp
  BY <1>0, <1>15 DEF ClientUp, RunState, ScopeState, NotYetFailed, AtWork
<1>16. CASE PausePublisher
  BY <1>0, <1>16 DEF PausePublisher, RunState, ScopeState, NotYetFailed, AtWork
<1>17. CASE RestorePublisher
  BY <1>0, <1>17 DEF RestorePublisher, CleanUp, Failed, RunState, ScopeState, NotYetFailed, AtWork
<1>18. CASE ClientDown
  BY <1>0, <1>18 DEF ClientDown, NewScope, RunState, ScopeState, NotYetFailed, AtWork
<1>19. CASE InterruptScenarios
  BY <1>0, <1>19 DEF InterruptScenarios, RunState, ScopeState, NotYetFailed, AtWork
<1>20. CASE ScenariosCancelled
  BY <1>0, <1>20 DEF ScenariosCancelled, LaneCleanup, RunState, ScopeState, NotYetFailed, AtWork
<1>21. CASE ClientCancelled
  BY <1>0, <1>21 DEF ClientCancelled, ClientResult, RunState, ScopeState, NotYetFailed, AtWork
<1>22. CASE WriteComparison
  BY <1>0, <1>22 DEF WriteComparison, RunState, ScopeState, NotYetFailed, AtWork
<1>23. CASE Evaluate
  BY <1>0, <1>23 DEF Evaluate, NextEntry, RunState, ScopeState, NotYetFailed, AtWork
<1>24. CASE Finalize
  BY <1>0, <1>24 DEF Finalize, RunState, ScopeState, NotYetFailed, AtWork
<1>25. CASE ScenariosEnd
  BY <1>0, <1>25 DEF ScenariosEnd, LaneCleanup, RunState, ScopeState, NotYetFailed, AtWork
<1>26. CASE ClientEnds
  BY <1>0, <1>26 DEF ClientEnds, ClientResult, RunState, ScopeState, NotYetFailed, AtWork
<1>27. CASE InterruptClient
  BY <1>0, <1>27 DEF InterruptClient, ClientPhases, RunState, ScopeState, NotYetFailed, AtWork
<1>28. CASE CtrlC
  BY <1>0, <1>28 DEF CtrlC, RunState, ScopeState, NotYetFailed, AtWork
<1>29. CASE UNCHANGED vars
  BY <1>0, <1>29 DEF vars, RunState, ScopeState, NotYetFailed, AtWork
<1> QED
  BY <1>1, <1>2, <1>3, <1>4, <1>5, <1>6, <1>7, <1>8, <1>9, <1>10, <1>11, <1>12,
     <1>13, <1>14, <1>15, <1>16, <1>17, <1>18, <1>19, <1>20, <1>21, <1>22, <1>23, <1>24,
     <1>25, <1>26, <1>27, <1>28, <1>29
  DEF Next, Steps, Exited

\* A failure on record stays there until the command ends.
LEMMA RecordedStep ==
  TypeOK /\ NotYetFailed /\ Recorded /\ [Next]_vars => Recorded' \/ outcome' = "killed"
<1> SUFFICES ASSUME TypeOK, NotYetFailed, Recorded, [Next]_vars, outcome' # "killed" PROVE Recorded'
  OBVIOUS
<1>0. run \in RunState /\ scope \in ScopeState /\ verdict \in Verdicts
  BY DEF TypeOK
<1>1. CASE RequireDocker
  BY <1>0, <1>1 DEF RequireDocker, RunState, ScopeState, Verdicts, NotYetFailed, Recorded, AtWork
<1>2. CASE PrepareSetupLog
  BY <1>0, <1>2 DEF PrepareSetupLog, NextEntry, NewRun, NewScope, RunState, ScopeState, Verdicts, NotYetFailed, Recorded, AtWork
<1>3. CASE ClearArtifacts
  BY <1>0, <1>3 DEF ClearArtifacts, RunState, ScopeState, Verdicts, NotYetFailed, Recorded, AtWork
<1>4. CASE StopPriorFixture
  BY <1>0, <1>4 DEF StopPriorFixture, RunState, ScopeState, Verdicts, NotYetFailed, Recorded, AtWork
<1>5. CASE StartFixture
  BY <1>0, <1>5 DEF StartFixture, RunState, ScopeState, Verdicts, NotYetFailed, Recorded, AtWork
<1>6. CASE StopFixture
  BY <1>0, <1>6 DEF StopFixture, NewScope, RunState, ScopeState, Verdicts, NotYetFailed, Recorded, AtWork
<1>7. CASE ResetStacks
  BY <1>0, <1>7 DEF ResetStacks, NewScope, RunState, ScopeState, Verdicts, NotYetFailed, Recorded, AtWork
<1>8. CASE StackUp
  BY <1>0, <1>8 DEF StackUp, RunState, ScopeState, Verdicts, NotYetFailed, Recorded, AtWork
<1>9. CASE StartService
  BY <1>0, <1>9 DEF StartService, Continue, RunState, ScopeState, Verdicts, NotYetFailed, Recorded, AtWork
<1>10. CASE Provision
  BY <1>0, <1>10 DEF Provision, Continue, RunState, ScopeState, Verdicts, NotYetFailed, Recorded, AtWork
<1>11. CASE IssueToken
  BY <1>0, <1>11 DEF IssueToken, Continue, RunState, ScopeState, Verdicts, NotYetFailed, Recorded, AtWork
<1>12. CASE RevokeToken
  BY <1>0, <1>12 DEF RevokeToken, CleanUp, Failed, RunState, ScopeState, Verdicts, NotYetFailed, Recorded, AtWork
<1>13. CASE Unregister
  BY <1>0, <1>13 DEF Unregister, CleanUp, Failed, RunState, ScopeState, Verdicts, NotYetFailed, Recorded, AtWork
<1>14. CASE StackDown
  BY <1>0, <1>14 DEF StackDown, AfterTopology, NewScope, RunState, ScopeState, Verdicts, NotYetFailed, Recorded, AtWork
<1>15. CASE ClientUp
  BY <1>0, <1>15 DEF ClientUp, RunState, ScopeState, Verdicts, NotYetFailed, Recorded, AtWork
<1>16. CASE PausePublisher
  BY <1>0, <1>16 DEF PausePublisher, RunState, ScopeState, Verdicts, NotYetFailed, Recorded, AtWork
<1>17. CASE RestorePublisher
  BY <1>0, <1>17 DEF RestorePublisher, CleanUp, Failed, RunState, ScopeState, Verdicts, NotYetFailed, Recorded, AtWork
<1>18. CASE ClientDown
  BY <1>0, <1>18 DEF ClientDown, NewScope, RunState, ScopeState, Verdicts, NotYetFailed, Recorded, AtWork
<1>19. CASE InterruptScenarios
  BY <1>0, <1>19 DEF InterruptScenarios, RunState, ScopeState, Verdicts, NotYetFailed, Recorded, AtWork
<1>20. CASE ScenariosCancelled
  BY <1>0, <1>20 DEF ScenariosCancelled, LaneCleanup, RunState, ScopeState, Verdicts, NotYetFailed, Recorded, AtWork
<1>21. CASE ClientCancelled
  BY <1>0, <1>21 DEF ClientCancelled, ClientResult, RunState, ScopeState, Verdicts, NotYetFailed, Recorded, AtWork
<1>22. CASE WriteComparison
  BY <1>0, <1>22 DEF WriteComparison, RunState, ScopeState, Verdicts, NotYetFailed, Recorded, AtWork
<1>23. CASE Evaluate
  BY <1>0, <1>23 DEF Evaluate, NextEntry, RunState, ScopeState, Verdicts, NotYetFailed, Recorded, AtWork
<1>24. CASE Finalize
  BY <1>0, <1>24 DEF Finalize, RunState, ScopeState, Verdicts, NotYetFailed, Recorded, AtWork
<1>25. CASE ScenariosEnd
  BY <1>0, <1>25 DEF ScenariosEnd, LaneCleanup, RunState, ScopeState, Verdicts, NotYetFailed, Recorded, AtWork
<1>26. CASE ClientEnds
  BY <1>0, <1>26 DEF ClientEnds, ClientResult, RunState, ScopeState, Verdicts, NotYetFailed, Recorded, AtWork
<1>27. CASE InterruptClient
  BY <1>0, <1>27 DEF InterruptClient, ClientPhases, RunState, ScopeState, Verdicts, NotYetFailed, Recorded, AtWork
<1>28. CASE CtrlC
  BY <1>0, <1>28 DEF CtrlC, RunState, ScopeState, Verdicts, NotYetFailed, Recorded, AtWork
<1>29. CASE UNCHANGED vars
  BY <1>0, <1>29 DEF vars, RunState, ScopeState, Verdicts, NotYetFailed, Recorded, AtWork
<1> QED
  BY <1>1, <1>2, <1>3, <1>4, <1>5, <1>6, <1>7, <1>8, <1>9, <1>10, <1>11, <1>12,
     <1>13, <1>14, <1>15, <1>16, <1>17, <1>18, <1>19, <1>20, <1>21, <1>22, <1>23, <1>24,
     <1>25, <1>26, <1>27, <1>28, <1>29
  DEF Next, Steps, Exited

\* A cleanup that fails, and a request whose answer is lost, are noted as they happen.
LEMMA LeftIsRecorded ==
  ASSUME TypeOK, Routed, [Next]_vars, NEW r \in Resource,
         res[r] \notin {"stuck", "lost"}, res'[r] \in {"stuck", "lost"}
  PROVE  Recorded'
<1>0. run \in RunState /\ scope \in ScopeState /\ res \in [Resource -> Status]
  BY DEF TypeOK
<1>1. CASE StopPriorFixture
  <2>1. PICK ok \in BOOLEAN : Release({Fixture}, ok) /\ run' = [run EXCEPT !.opfail = ~ok]
    BY <1>1 DEF StopPriorFixture
  <2>2. ok => res'[r] \in {res[r], "none"}
    BY <2>1, ReleaseEach
  <2>3. run'.opfail = TRUE /\ pc' = "start_fixture"
    BY <1>0, <1>1, <2>1, <2>2 DEF StopPriorFixture, RunState
  <2> QED
    BY <2>3 DEF Recorded, AtWork
<1>2. CASE StopFixture
  <2>1. PICK ok \in BOOLEAN : Release({Fixture}, ok) /\ run' = [run EXCEPT !.opfail = @ \/ scope.failed \/ ~ok]
    BY <1>2 DEF StopFixture
  <2>2. ok => res'[r] \in {res[r], "none"}
    BY <2>1, ReleaseEach
  <2>3. run'.opfail = TRUE /\ pc' \in {"compare", "reset"}
    BY <1>0, <1>2, <2>1, <2>2 DEF StopFixture, RunState
  <2> QED
    BY <2>3 DEF Recorded, AtWork
<1>3. CASE ResetStacks
  <2> DEFINE S == UNION {Containers(t) \cup Volumes(t) :
                           t \in IF request.standalone THEN {"external"} ELSE Topology}
  <2>1. PICK ok \in BOOLEAN : Release(S, ok) /\ run' = [run EXCEPT !.opfail = @ \/ ~ok]
    BY <1>3 DEF ResetStacks
  <2> HIDE DEF S
  <2>2. ok => res'[r] \in {res[r], "none"}
    BY <2>1, ReleaseEach
  <2>3. run'.opfail = TRUE /\ pc' = "stack_up"
    BY <1>0, <1>3, <2>1, <2>2 DEF ResetStacks, RunState
  <2> QED
    BY <2>3 DEF Recorded, AtWork
<1>4. CASE StackUp \/ ClientUp
  <2>1. PICK t \in Topology, fresh, ok \in BOOLEAN : BringUp(t, fresh, ok) /\ scope'.failed = ~ok
    <3>1. CASE StackUp
      <4>1. scope.lane \in Topology /\ TRUE \in BOOLEAN
        BY <3>1 DEF StackUp, Routed
      <4>2. PICK ok \in BOOLEAN : /\ BringUp(scope.lane, TRUE, ok)
                                  /\ scope' = [scope EXCEPT !.failed = ~ok, !.started = ok]
        BY <3>1 DEF StackUp
      <4>3. scope'.failed = ~ok
        BY <1>0, <4>2 DEF ScopeState
      <4> QED
        BY <4>1, <4>2, <4>3
    <3>2. CASE ClientUp
      BY <1>0, <3>2 DEF ClientUp, Topology, ScopeState
    <3> QED
      BY <1>4, <3>1, <3>2
  <2>2. ok => res'[r] \in {res[r], "none", "up"}
    BY <2>1, BringUpEach
  <2>3. scope'.failed = TRUE
    BY <2>1, <2>2
  <2>4. pc' \in {"start_service", "revoke", "client_down", "client_run", "client_pause"}
    BY <1>4 DEF StackUp, ClientUp
  <2> QED
    BY <2>3, <2>4 DEF Recorded, AtWork
<1>5. CASE Provision
  <2>1. PICK ok, failed \in BOOLEAN, left \in {"none", "stuck"} :
          /\ ~ok => failed
          /\ res' = [res EXCEPT ![Registration(scope.lane)] = IF ok THEN "up" ELSE left]
          /\ scope' = [scope EXCEPT !.failed = failed, !.fixture = ok]
          /\ pc' = Continue(failed, "issue_token")
    BY <1>5, ProvisionEffect
  <2>2. ~ok
    BY <1>0, <2>1
  <2> QED
    BY <1>0, <2>1, <2>2 DEF Continue, ScopeState, Recorded, AtWork
<1>6. CASE IssueToken
  <2>1. PICK ok \in BOOLEAN, stored \in {"none", "lost"} :
          /\ res' = IF Standalone THEN res
                    ELSE [res EXCEPT ![Token(scope.lane)] = IF ok THEN "up" ELSE stored]
          /\ scope' = [scope EXCEPT !.failed = ~ok, !.token = ok /\ ~Standalone]
          /\ pc' = Continue(~ok, "scenarios")
    BY <1>6 DEF IssueToken
  <2>2. ~ok
    BY <1>0, <2>1
  <2> QED
    BY <1>0, <2>1, <2>2 DEF Continue, ScopeState, Recorded, AtWork
<1>7. CASE RevokeToken \/ Unregister \/ RestorePublisher
  <2>0. \E S : \E ok \in BOOLEAN : Release(S, ok) /\ scope' = [scope EXCEPT !.failed = @ \/ Failed(ok)]
    <3>1. CASE RevokeToken
      BY <3>1 DEF RevokeToken, CleanUp
    <3>2. CASE Unregister
      BY <3>2 DEF Unregister, CleanUp
    <3>3. CASE RestorePublisher
      BY <3>3 DEF RestorePublisher, CleanUp
    <3> QED
      BY <1>7, <3>1, <3>2, <3>3
  <2>1. PICK S, ok : /\ ok \in BOOLEAN
                     /\ Release(S, ok)
                     /\ scope' = [scope EXCEPT !.failed = @ \/ Failed(ok)]
    BY <2>0
  <2>2. ok => res'[r] \in {res[r], "none"}
    BY <2>1, ReleaseEach
  <2>3. scope'.failed = TRUE
    BY <1>0, <2>1, <2>2 DEF ScopeState, Failed
  <2>4. pc' \in {"unregister", "stack_down", "client_down"}
    BY <1>7 DEF RevokeToken, Unregister, RestorePublisher, CleanUp
  <2> QED
    BY <2>3, <2>4 DEF Recorded, AtWork
<1>8. CASE StackDown
  <2>1. ~CanReuseExternalStack
    BY <1>8 DEF StackDown
  <2>2. PICK ok \in BOOLEAN :
          /\ Release(Containers(scope.lane), ok)
          /\ run'.opfail = (run.opfail \/ scope.failed \/ Failed(ok))
    BY <1>0, <1>8, <2>1 DEF StackDown, RunState
  <2>3. ok => res'[r] \in {res[r], "none"}
    BY <2>2, ReleaseEach
  <2>4. run'.opfail = TRUE
    BY <1>0, <2>2, <2>3 DEF RunState, ScopeState, Failed
  <2>5. pc' \in {"compare", "stack_up", "client_up"}
    BY <1>8 DEF StackDown, AfterTopology
  <2> QED
    BY <2>4, <2>5 DEF Recorded, AtWork
<1>9. CASE ClientDown
  <2>1. PICK ok \in BOOLEAN :
          /\ Release(Containers("external"), ok)
          /\ run'.opfail = (run.opfail \/ scope.failed \/ ~ok)
    BY <1>0, <1>9 DEF ClientDown, RunState
  <2>2. ok => res'[r] \in {res[r], "none"}
    BY <2>1, ReleaseEach
  <2>3. run'.opfail = TRUE /\ pc' = "compare"
    BY <1>0, <1>9, <2>1, <2>2 DEF ClientDown, RunState, ScopeState
  <2> QED
    BY <2>3 DEF Recorded, AtWork
<1>10. CASE StartFixture \/ StartService \/ PausePublisher
  <2>1. res'[r] \in {res[r], "up"}
    BY <1>0, <1>10 DEF StartFixture, StartService, PausePublisher
  <2> QED
    BY <2>1
<1>11. CASE RequireDocker \/ PrepareSetupLog \/ ClearArtifacts \/ InterruptScenarios \/ ScenariosCancelled
            \/ ClientCancelled
  BY <1>11 DEF RequireDocker, PrepareSetupLog, ClearArtifacts, InterruptScenarios, ScenariosCancelled,
               ClientCancelled, ClientResult
<1>12. CASE WriteComparison \/ Evaluate \/ Finalize \/ ScenariosEnd \/ ClientEnds \/ InterruptClient \/ CtrlC
  BY <1>12 DEF WriteComparison, Evaluate, Finalize, ScenariosEnd, ClientEnds, ClientResult, InterruptClient, CtrlC
<1>13. CASE UNCHANGED vars
  BY <1>13 DEF vars
<1> QED
  BY <1>1, <1>2, <1>3, <1>4, <1>5, <1>6, <1>7, <1>8, <1>9, <1>10, <1>11, <1>12, <1>13
  DEF Next, Steps, Exited

\* A command that has ended takes no further step.
LEMMA OnlyExits ==
  ASSUME pc = "exit", outcome # "running", [Next]_vars
  PROVE  outcome' = outcome /\ pc' = pc /\ verdict' = verdict
<1>1. CASE StartFixture \/ StartService \/ Provision \/ StopFixture \/ StopPriorFixture \/ ResetStacks
           \/ StackUp \/ IssueToken \/ RevokeToken \/ Unregister \/ StackDown
  BY <1>1 DEF StartFixture, StartService, Provision, StopFixture, StopPriorFixture, ResetStacks, StackUp,
              IssueToken, RevokeToken, Unregister, StackDown
<1>2. CASE ClientUp \/ PausePublisher \/ RestorePublisher \/ ClientDown \/ ClientEnds \/ ClientCancelled
           \/ InterruptClient
  BY <1>2 DEF ClientUp, PausePublisher, RestorePublisher, ClientDown, ClientEnds, ClientCancelled,
              InterruptClient, ClientPhases
<1>3. CASE RequireDocker \/ PrepareSetupLog \/ ClearArtifacts \/ InterruptScenarios \/ ScenariosCancelled
           \/ ScenariosEnd \/ WriteComparison \/ Evaluate \/ Finalize \/ CtrlC
  BY <1>3 DEF RequireDocker, PrepareSetupLog, ClearArtifacts, InterruptScenarios, ScenariosCancelled,
              ScenariosEnd, WriteComparison, Evaluate, Finalize, CtrlC
<1>4. CASE UNCHANGED vars
  BY <1>4 DEF vars
<1> QED
  BY <1>1, <1>2, <1>3, <1>4 DEF Next, Steps, Exited

LEMMA LeftRecordedStep ==
  TypeOK /\ Routed /\ NotYetFailed /\ InterruptReported /\ LeftRecorded /\ [Next]_vars => LeftRecorded'
<1> SUFFICES ASSUME TypeOK, Routed, NotYetFailed, InterruptReported, LeftRecorded, [Next]_vars,
                    outcome' # "killed", NEW r \in Resource, res'[r] \in {"stuck", "lost"}
             PROVE  Recorded'
  BY DEF LeftRecorded
<1>1. outcome # "killed"
  <2> SUFFICES ASSUME outcome = "killed" PROVE FALSE
    OBVIOUS
  <2>1. pc = "exit"
    BY DEF InterruptReported
  <2> QED
    BY <2>1, OnlyExits
<1>2. CASE res[r] \in {"stuck", "lost"}
  BY <1>1, <1>2, RecordedStep DEF LeftRecorded
<1>3. CASE res[r] \notin {"stuck", "lost"}
  BY <1>3, LeftIsRecorded
<1> QED
  BY <1>2, <1>3

\* No step makes anything look like an earlier command's, or changes the request.
LEMMA PriorIsOld ==
  ASSUME TypeOK, Routed, [Next]_vars
  PROVE  request' = request /\ \A r \in Resource : res'[r] = "prior" => res[r] = "prior"
<1>1. request' = request
  <2>1. CASE StartFixture \/ StartService \/ Provision \/ StopFixture \/ StopPriorFixture \/ ResetStacks
             \/ StackUp \/ IssueToken \/ RevokeToken \/ Unregister \/ StackDown
    BY <2>1 DEF StartFixture, StartService, Provision, StopFixture, StopPriorFixture, ResetStacks, StackUp,
                IssueToken, RevokeToken, Unregister, StackDown
  <2>2. CASE ClientUp \/ PausePublisher \/ RestorePublisher \/ ClientDown \/ ClientEnds \/ ClientCancelled
             \/ InterruptClient
    BY <2>2 DEF ClientUp, PausePublisher, RestorePublisher, ClientDown, ClientEnds, ClientCancelled,
                ClientResult, InterruptClient
  <2>3. CASE RequireDocker \/ PrepareSetupLog \/ ClearArtifacts \/ InterruptScenarios \/ ScenariosCancelled
             \/ ScenariosEnd \/ WriteComparison \/ Evaluate \/ Finalize \/ CtrlC
    BY <2>3 DEF RequireDocker, PrepareSetupLog, ClearArtifacts, InterruptScenarios, ScenariosCancelled,
                ScenariosEnd, WriteComparison, Evaluate, Finalize, CtrlC
  <2>4. CASE UNCHANGED vars
    BY <2>4 DEF vars
  <2> QED
    BY <2>1, <2>2, <2>3, <2>4 DEF Next, Steps, Exited
<1>2. ASSUME NEW r \in Resource, res'[r] = "prior" PROVE res[r] = "prior"
  <2>1. res \in [Resource -> Status]
    BY DEF TypeOK
  <2>2. ASSUME NEW S, NEW ok, Release(S, ok) PROVE res[r] = "prior"
    BY <1>2, <2>2, ReleaseEach
  <2>3. CASE StopPriorFixture \/ StopFixture \/ ResetStacks \/ RevokeToken \/ Unregister \/ RestorePublisher
             \/ ClientDown
    <3>1. PICK S, ok : Release(S, ok)
      <4>1. CASE StopPriorFixture \/ StopFixture
        BY <4>1 DEF StopPriorFixture, StopFixture
      <4>2. CASE ResetStacks
        BY <4>2 DEF ResetStacks
      <4>3. CASE RevokeToken
        BY <4>3 DEF RevokeToken, CleanUp
      <4>4. CASE Unregister
        BY <4>4 DEF Unregister, CleanUp
      <4>5. CASE RestorePublisher
        BY <4>5 DEF RestorePublisher, CleanUp
      <4>6. CASE ClientDown
        BY <4>6 DEF ClientDown
      <4> QED
        BY <2>3, <4>1, <4>2, <4>3, <4>4, <4>5, <4>6
    <3> QED
      BY <2>2, <3>1
  <2>4. CASE StackDown
    <3>1. CASE res' = res
      BY <1>2, <3>1
    <3>2. CASE res' # res
      <4>1. PICK ok : Release(Containers(scope.lane), ok)
        BY <2>4, <3>2 DEF StackDown
      <4> QED
        BY <2>2, <4>1
    <3> QED
      BY <3>1, <3>2
  <2>5. CASE StackUp \/ ClientUp
    <3>1. PICK t \in Topology, fresh, ok \in BOOLEAN : BringUp(t, fresh, ok)
      BY <2>5 DEF StackUp, ClientUp, Routed, Topology
    <3> QED
      BY <1>2, <3>1, BringUpEach
  <2>6. CASE StartFixture \/ StartService \/ PausePublisher
    BY <1>2, <2>1, <2>6 DEF StartFixture, StartService, PausePublisher
  <2>7. CASE Provision
    BY <1>2, <2>1, <2>7 DEF Provision
  <2>8. CASE IssueToken
    BY <1>2, <2>1, <2>8 DEF IssueToken
  <2>9. CASE ClientEnds \/ ClientCancelled \/ InterruptClient \/ UNCHANGED vars
    BY <1>2, <2>9 DEF ClientEnds, ClientCancelled, ClientResult, InterruptClient, vars
  <2>10. CASE RequireDocker \/ PrepareSetupLog \/ ClearArtifacts \/ InterruptScenarios \/ ScenariosCancelled
              \/ ScenariosEnd \/ WriteComparison \/ Evaluate \/ Finalize \/ CtrlC
    BY <1>2, <2>10 DEF RequireDocker, PrepareSetupLog, ClearArtifacts, InterruptScenarios, ScenariosCancelled,
                ScenariosEnd, WriteComparison, Evaluate, Finalize, CtrlC
  <2> QED
    BY <2>3, <2>4, <2>5, <2>6, <2>7, <2>8, <2>9, <2>10 DEF Next, Steps, Exited
<1> QED
  BY <1>1, <1>2

\* A start replaces its lane's stack, and succeeds only beside no other.
LEMMA BringUpLeavesNoPrior ==
  ASSUME TypeOK, NEW t \in Topology, NEW fresh, BringUp(t, fresh, TRUE),
         NEW u \in Topology
  PROVE  res'[Stack(u)] # "prior"
<1>1. Stack(u) \in Resource
  BY StacksApart
<1>2. CASE u = t
  BY <1>1, <1>2, BringUpEach
<1>3. CASE u # t
  <2>1. res[Stack(u)] = "none"
    BY <1>1, <1>3, BringUpEach
  <2>2. res'[Stack(u)] = "none" \/ Stack(u) = Stack(t)
    BY <1>1, <2>1, BringUpEach
  <2> QED
    BY <1>3, <2>2, StacksApart
<1> QED
  BY <1>2, <1>3

LEMMA PriorRecordedStep ==
  /\ TypeOK /\ Routed /\ NotYetFailed /\ InterruptReported /\ InterruptRecorded /\ PriorRecorded
  /\ [Next]_vars
  => PriorRecorded'
<1> DEFINE Early == {"docker", "setup", "clear", "stop_prior"}
           Direct == {"start_fixture", "scenarios", "cancelling", "stop_fixture", "reset", "stack_up"}
<1> SUFFICES ASSUME TypeOK, Routed, NotYetFailed, InterruptReported, InterruptRecorded, PriorRecorded,
                    [Next]_vars, NEW r \in Resource, outcome' # "killed", res'[r] = "prior"
             PROVE  /\ r \in {Fixture, Stack("builtin"), Stack("external")}
                    /\ \/ Recorded' \/ outcome' = "failed"
                       \/ pc' \in Early
                       \/ r # Fixture /\ Topologies' = {}
                       \/ /\ r # Fixture /\ pc' \in Direct
                          /\ pc' \in {"scenarios", "cancelling"} => scope'.lane = "direct"
  BY DEF PriorRecorded
<1>1. res[r] = "prior" /\ request' = request /\ Topologies' = Topologies
  BY PriorIsOld DEF Topologies
<1>2. outcome # "killed"
  BY OnlyExits DEF InterruptReported
<1>3. /\ r \in {Fixture, Stack("builtin"), Stack("external")}
      /\ \/ Recorded \/ outcome = "failed"
         \/ pc \in Early
         \/ r # Fixture /\ Topologies = {}
         \/ r # Fixture /\ pc \in Direct /\ (pc \in {"scenarios", "cancelling"} => scope.lane = "direct")
  BY <1>1, <1>2 DEF PriorRecorded
<1>4. Recorded => Recorded'
  BY RecordedStep
<1>5. outcome = "failed" => outcome' = "failed"
  BY OnlyExits DEF InterruptReported
<1>6. scope \in ScopeState /\ run \in RunState
  BY DEF TypeOK
<1>7. CASE pc \in Early
  <2>1. CASE RequireDocker \/ PrepareSetupLog
    BY <1>3, <2>1 DEF RequireDocker, PrepareSetupLog, NextEntry, TypeOK, Verdicts, Recorded, AtWork
  <2>2. CASE ClearArtifacts
    BY <1>3, <1>6, <2>2 DEF ClearArtifacts, RunState, Recorded, AtWork
  <2>3. CASE StopPriorFixture
    <3>1. PICK ok \in BOOLEAN : Release({Fixture}, ok)
      BY <2>3 DEF StopPriorFixture
    <3>2. r # Fixture
      BY <3>1, ReleaseEach
    <3>3. pc' = "start_fixture"
      BY <2>3 DEF StopPriorFixture
    <3> QED
      BY <1>3, <3>2, <3>3
  <2>4. CASE CtrlC \/ UNCHANGED vars
    BY <1>3, <1>7, <2>4 DEF CtrlC, vars
  <2>5. ~(\/ StartFixture \/ StartService \/ Provision \/ StopFixture \/ ResetStacks
          \/ StackUp \/ IssueToken \/ RevokeToken \/ Unregister \/ StackDown)
    BY <1>7 DEF StartFixture, StartService, Provision, StopFixture, ResetStacks, StackUp,
                IssueToken, RevokeToken, Unregister, StackDown
  <2>6. ~(\/ ClientUp \/ PausePublisher \/ RestorePublisher \/ ClientDown \/ ClientEnds \/ ClientCancelled
          \/ InterruptClient)
    BY <1>7 DEF ClientUp, PausePublisher, RestorePublisher, ClientDown, ClientEnds, ClientCancelled,
                InterruptClient, ClientPhases
  <2>7. ~(\/ InterruptScenarios \/ ScenariosCancelled \/ ScenariosEnd \/ WriteComparison \/ Evaluate
          \/ Finalize)
    BY <1>7 DEF InterruptScenarios, ScenariosCancelled, ScenariosEnd, WriteComparison, Evaluate, Finalize
  <2> QED
    BY <2>1, <2>2, <2>3, <2>4, <2>5, <2>6, <2>7 DEF Next, Steps, Exited
<1>8. ASSUME r # Fixture, pc \in Direct, pc \in {"scenarios", "cancelling"} => scope.lane = "direct",
             Topologies # {}
      PROVE  \/ Recorded'
             \/ pc' \in Direct /\ (pc' \in {"scenarios", "cancelling"} => scope'.lane = "direct")
  <2>1. CASE StartFixture
    <3>1. scope.lane = "direct" /\ scope'.lane = scope.lane
      BY <1>6, <2>1 DEF StartFixture, Routed, ScopeState
    <3> QED
      BY <2>1, <3>1 DEF StartFixture
  <2>2. CASE ScenariosEnd \/ InterruptScenarios \/ ScenariosCancelled
    BY <1>6, <1>8, <2>2 DEF ScenariosEnd, InterruptScenarios, ScenariosCancelled, LaneCleanup, ScopeState
  <2>3. CASE StopFixture
    <3>1. CASE run.interrupted
      <4>1. scope.failed
        BY <2>3, <3>1 DEF StopFixture, InterruptRecorded
      <4>2. run'.opfail = TRUE /\ pc' \in {"compare", "reset"}
        BY <1>6, <2>3, <4>1 DEF StopFixture, RunState, ScopeState
      <4> QED
        BY <4>2 DEF Recorded, AtWork
    <3>2. CASE ~run.interrupted
      BY <1>8, <2>3, <3>2 DEF StopFixture
    <3> QED
      BY <3>1, <3>2
  <2>4. CASE ResetStacks
    BY <2>4 DEF ResetStacks
  <2>5. CASE StackUp
    <3>1. PICK ok \in BOOLEAN :
            /\ BringUp(scope.lane, TRUE, ok)
            /\ scope' = [scope EXCEPT !.failed = ~ok, !.started = ok]
            /\ pc' = IF ok THEN "start_service" ELSE "revoke"
      BY <2>5 DEF StackUp
    <3>2. scope.lane \in Topology
      BY <2>5 DEF StackUp, Routed
    <3>3. PICK u \in Topology : r = Stack(u)
      BY <1>3, <1>8 DEF Topology
    <3>4. ~ok
      BY <3>1, <3>2, <3>3, BringUpLeavesNoPrior
    <3>5. scope'.failed = TRUE /\ pc' = "revoke"
      BY <1>6, <3>1, <3>4 DEF ScopeState
    <3> QED
      BY <3>5 DEF Recorded, AtWork
  <2>6. CASE CtrlC \/ UNCHANGED vars
    BY <1>8, <2>6 DEF CtrlC, vars
  <2>7. ~(\/ RequireDocker \/ PrepareSetupLog \/ ClearArtifacts \/ StopPriorFixture
          \/ StartService \/ Provision \/ IssueToken \/ RevokeToken \/ Unregister \/ StackDown)
    BY <1>8 DEF RequireDocker, PrepareSetupLog, ClearArtifacts, StopPriorFixture, StartService, Provision,
                IssueToken, RevokeToken, Unregister, StackDown
  <2>8. ~(\/ ClientUp \/ PausePublisher \/ RestorePublisher \/ ClientDown \/ ClientEnds \/ ClientCancelled
          \/ InterruptClient \/ WriteComparison \/ Evaluate \/ Finalize)
    BY <1>8 DEF ClientUp, PausePublisher, RestorePublisher, ClientDown, ClientEnds, ClientCancelled,
                InterruptClient, ClientPhases, WriteComparison, Evaluate, Finalize
  <2> QED
    BY <2>1, <2>2, <2>3, <2>4, <2>5, <2>6, <2>7, <2>8 DEF Next, Steps, Exited
<1> HIDE DEF Early, Direct
<1> QED
  BY <1>1, <1>3, <1>4, <1>5, <1>7, <1>8

\* Success is declared only over a clean record.
LEMMA ConcludedStep == TypeOK /\ InterruptReported /\ Concluded /\ [Next]_vars => Concluded'
<1> SUFFICES ASSUME TypeOK, InterruptReported, Concluded, [Next]_vars, Succeeded'
             PROVE  ~verdict'.failures /\ ~verdict'.reported
  BY DEF Concluded, Succeeded
<1>1. CASE Finalize
  BY <1>1 DEF Finalize, MayBless, Succeeded
<1>2. CASE ~Finalize
  <2>1. UNCHANGED outcome \/ outcome' \in {"killed", "failed"}
    <3>1. CASE StartFixture \/ StartService \/ Provision \/ StopFixture \/ StopPriorFixture \/ ResetStacks
               \/ StackUp \/ IssueToken \/ RevokeToken \/ Unregister \/ StackDown
      BY <3>1 DEF StartFixture, StartService, Provision, StopFixture, StopPriorFixture, ResetStacks, StackUp,
                  IssueToken, RevokeToken, Unregister, StackDown
    <3>2. CASE ClientUp \/ PausePublisher \/ RestorePublisher \/ ClientDown \/ ClientEnds
               \/ ClientCancelled \/ InterruptClient
      BY <3>2 DEF ClientUp, PausePublisher, RestorePublisher, ClientDown, ClientEnds, ClientCancelled,
                  ClientResult, InterruptClient
    <3>3. CASE RequireDocker \/ PrepareSetupLog \/ ClearArtifacts \/ InterruptScenarios
               \/ ScenariosCancelled \/ ScenariosEnd \/ WriteComparison \/ Evaluate \/ CtrlC
      BY <3>3 DEF RequireDocker, PrepareSetupLog, ClearArtifacts, InterruptScenarios, ScenariosCancelled,
                  ScenariosEnd, WriteComparison, Evaluate, CtrlC
    <3>4. CASE UNCHANGED vars
      BY <3>4 DEF vars
    <3> QED
      BY <1>2, <3>1, <3>2, <3>3, <3>4 DEF Next, Steps, Exited
  <2>2. Succeeded
    BY <2>1 DEF Succeeded
  <2>3. pc = "exit" /\ outcome # "running"
    BY <2>2 DEF Succeeded, InterruptReported
  <2>4. verdict' = verdict
    BY <2>3, OnlyExits
  <2> QED
    BY <2>2, <2>4 DEF Concluded, Succeeded
<1> QED
  BY <1>1, <1>2

\* A zero exit leaves nothing behind of what the run, or an earlier command, had started, but a stack
\* of an earlier command when no routed lane was selected.
THEOREM SuccessCleansUp == Spec => []SuccessLeavesNothing
<1> DEFINE Inv == /\ Routed /\ AllHeld /\ InterruptReported /\ NotYetFailed
                  /\ LeftRecorded /\ PriorRecorded /\ Concluded
<1>1. Init => Inv
  <2> SUFFICES ASSUME Init PROVE Inv
    OBVIOUS
  <2>1. PICK left \in SUBSET {Fixture, Stack("builtin"), Stack("external")} :
          res = [r \in Resource |-> IF r \in left THEN "prior" ELSE "none"]
    BY DEF Init
  <2>2. \A r \in Resource : res[r] \in {"none", "prior"} /\ (res[r] = "prior" => r \in left)
    BY <2>1
  <2>3. Routed /\ InterruptReported /\ NotYetFailed /\ Concluded
    BY DEF Init, Routed, InterruptReported, Succeeded, NotYetFailed, AtWork, NewRun, NewScope, Concluded
  <2>4. AllHeld /\ LeftRecorded /\ PriorRecorded
    BY <2>2 DEF Init, AllHeld, LeftRecorded, PriorRecorded
  <2> QED
    BY <2>3, <2>4
<1>2. TypeOK /\ EarnedSoFar /\ Inv /\ [Next]_vars => Inv'
  BY RoutedStep, HeldByLane, HeldElsewhere, InterruptReportedStep, NotYetFailedStep, LeftRecordedStep,
     PriorRecordedStep, ConcludedStep DEF EarnedSoFar
<1>3. TypeOK /\ Inv => SuccessLeavesNothing
  <2> SUFFICES ASSUME TypeOK, Inv, Succeeded, NEW r \in Resource
               PROVE  res[r] = "none" \/ (res[r] = "prior" /\ Topologies = {})
    BY DEF SuccessLeavesNothing
  <2>1. pc = "exit" /\ outcome \in {"blessed", "matched"}
    BY DEF InterruptReported, Succeeded
  <2>2. ~Recorded
    BY <2>1 DEF Concluded, Recorded, AtWork
  <2>3. res[r] # "up"
    BY <2>1 DEF AllHeld, Held, ClientPhases
  <2>4. res[r] \notin {"stuck", "lost"}
    BY <2>1, <2>2 DEF LeftRecorded
  <2>5. res[r] = "prior" => Topologies = {}
    BY <2>1, <2>2 DEF PriorRecorded
  <2>6. res[r] \in Status
    BY DEF TypeOK
  <2> QED
    BY <2>3, <2>4, <2>5, <2>6 DEF Status
<1> HIDE DEF Inv
<1> QED
  BY TypeCorrect, EarnedAllAlong, <1>1, <1>2, <1>3, PTL DEF Spec
=============================================================================
