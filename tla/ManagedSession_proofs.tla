----------------------- MODULE ManagedSession_proofs -----------------------
(***************************************************************************)
(* Safety of the managed commands for any requests, configurations, sources *)
(* and bounds: commits in checkouts and secrets in use are never replaced, *)
(* every variable keeps its type, a session says what it could not give     *)
(* back, and a command that reports no failure tells the truth.             *)
(***************************************************************************)
EXTENDS ManagedSession, TLAPS

\* The steps that load the configuration, and those that work on a checkout.
Loading == {"assets", "unpack", "activate", "read secrets", "create secrets", "write secrets",
            "reread secrets", "read password", "create password", "write password",
            "reread password"}
Working == {"origin", "stage", "away", "install", "drop", "fetch", "switch"}

\* What every other part does to the program counter: it moves between steps of its own, or on to
\* the next checkout.
Failure == {"config", "primary", "revoke", "cleanup", "remove"}
Apart == at \notin Loading \cup Working \cup {"clone", "ended", "killed"}
Quiet == /\ UNCHANGED <<setting, command>>
         /\ \/ UNCHANGED <<at, failures>>
            \/ /\ Apart /\ at' \notin Loading \cup Working \cup {"killed"}
               /\ failures' \subseteq failures \cup Failure

LEMMA StackQuiet == StackNext => Quiet
<1> SUFFICES ASSUME StackNext PROVE Quiet
  OBVIOUS
<1> USE DEF Quiet, Apart, Failure, Loading, Working
<1>1. CASE ValidateContract
  BY <1>1 DEF ValidateContract, Goto, StackFails, Fail, GotoWith, IsSession
<1>2. CASE DecideBuild
  BY <1>2 DEF DecideBuild, Goto, StackFails, Fail, GotoWith, IsSession
<1>3. CASE DecideStandaloneBuild
  BY <1>3 DEF DecideStandaloneBuild, Goto, StackFails, Fail, GotoWith, IsSession
<1>4. CASE PullControlplane
  BY <1>4 DEF PullControlplane, PullIfChanged, Proceed, Goto, StackFails, Fail, GotoWith,
     IsSession
<1>5. CASE PullDataplane
  BY <1>5 DEF PullDataplane, PullIfChanged, Proceed, Goto, StackFails, Fail, GotoWith, IsSession
<1>6. CASE Decide
  BY <1>6 DEF Decide, Proceed, Goto, StackFails, Fail, GotoWith, IsSession
<1>7. CASE CheckOther
  BY <1>7 DEF CheckOther, EnsureOtherStopped, Proceed, Goto, StackFails, Fail, GotoWith, IsSession
<1>8. CASE StartTelemetry
  BY <1>8 DEF StartTelemetry, Goto, StackFails, Fail, GotoWith, IsSession
<1>9. CASE Up
  BY <1>9 DEF Up, Goto, Fail, GotoWith, IsSession
<1>10. CASE WaitForEndpoint
  BY <1>10 DEF WaitForEndpoint, Proceed, Goto, AfterUp, StackFails, Fail, GotoWith, IsSession
<1>11. CASE StartFixture
  BY <1>11 DEF StartFixture, Goto, AfterFixture, Fail, GotoWith, IsSession
<1>12. CASE StartFastTime
  BY <1>12 DEF StartFastTime, Goto, AfterFixture, Fail, GotoWith, IsSession
<1>13. CASE ComposeDown
  BY <1>13 DEF ComposeDown, Goto, GotoWith
<1>14. CASE StandaloneDown
  BY <1>14 DEF StandaloneDown, Goto, GotoWith, AfterSweep
<1>15. CASE RemoveByLabel
  BY <1>15 DEF RemoveByLabel, Goto, AfterSweep, GotoWith
<1> QED
  BY <1>1, <1>2, <1>3, <1>4, <1>5, <1>6, <1>7, <1>8, <1>9, <1>10, <1>11, <1>12, <1>13, <1>14,
        <1>15 DEF StackNext

LEMMA ProbeQuiet == ProbeNext \/ BecomesReady => Quiet
<1> SUFFICES ASSUME ProbeNext \/ BecomesReady PROVE Quiet
  OBVIOUS
<1> USE DEF Quiet, Apart, Failure, Loading, Working
<1>1. CASE Anonymous
  BY <1>1 DEF Anonymous, ProbeGoto, Proceed, Goto, ProbeFails, StackFails, Fail, GotoWith,
     IsSession
<1>2. CASE Initialize
  BY <1>2 DEF Initialize, ProbeGoto, Proceed, Goto, ProbeFails, StackFails, Fail, GotoWith,
     IsSession
<1>3. CASE Initialized
  BY <1>3 DEF Initialized, ProbeGoto, Proceed, Goto, ProbeFails, StackFails, Fail, GotoWith,
     IsSession
<1>4. CASE ListTools
  BY <1>4 DEF ListTools, ProbeGoto, Proceed, Goto, AfterList, ProbeFails, StackFails, Fail,
     GotoWith, IsSession
<1>5. CASE CallTool
  BY <1>5 DEF CallTool, ProbeGoto, Proceed, Goto, ProbeFails, StackFails, Fail, GotoWith,
     IsSession
<1>6. CASE AnonymousStateless
  BY <1>6 DEF AnonymousStateless, ProbeGoto, Proceed, Goto, ProbeFails, StackFails, Fail,
     GotoWith, IsSession
<1>7. CASE Discover
  BY <1>7 DEF Discover, ProbeGoto, Proceed, Goto, ProbeFails, StackFails, Fail, GotoWith,
     IsSession
<1>8. CASE ListStateless
  BY <1>8 DEF ListStateless, ProbeGoto, Proceed, Goto, AfterList, ProbeFails, StackFails, Fail,
     GotoWith, IsSession
<1>9. CASE CallStateless
  BY <1>9 DEF CallStateless, ProbeGoto, Proceed, Goto, ProbeFails, StackFails, Fail, GotoWith,
     IsSession
<1>10. CASE MockedCatalog
  BY <1>10 DEF MockedCatalog, ProbeGoto, Proceed, Goto, AfterList
<1>11. CASE BecomesReady
  BY <1>11 DEF BecomesReady, commandVars
<1> QED
  BY <1>1, <1>2, <1>3, <1>4, <1>5, <1>6, <1>7, <1>8, <1>9, <1>10, <1>11 DEF ProbeNext

LEMMA ToolQuiet == ToolNext => Quiet
<1> SUFFICES ASSUME ToolNext PROVE Quiet
  OBVIOUS
<1> USE DEF Quiet, Apart, Failure, Loading, Working
<1>1. CASE PrepareTool
  BY <1>1 DEF PrepareTool, Goto, Fail, GotoWith, IsSession
<1>2. CASE ToolStarts
  BY <1>2 DEF ToolStarts, commandVars
<1>3. CASE ToolClientReturns
  BY <1>3 DEF ToolClientReturns, Goto, GotoWith
<1>4. CASE ToolClientKilled
  BY <1>4 DEF ToolClientKilled, GotoWith
<1>5. CASE RemoveTool
  BY <1>5 DEF RemoveTool, Goto, GotoWith
<1>6. CASE LateCreate
  BY <1>6 DEF LateCreate, commandVars
<1> QED
  BY <1>1, <1>2, <1>3, <1>4, <1>5, <1>6 DEF ToolNext

LEMMA WorkloadQuiet == WorkloadNext => Quiet
<1> SUFFICES ASSUME WorkloadNext PROVE Quiet
  OBVIOUS
<1> USE DEF Quiet, Apart, Failure, Loading, Working
<1>1. CASE SettleLoad
  BY <1>1 DEF SettleLoad, Goto, SourceStep, SourcesReady, LoadFails, GotoWith
<1>2. CASE PrepareLocust
  BY <1>2 DEF PrepareLocust, Goto, Fail, GotoWith, IsSession
<1>3. CASE RunLocust
  BY <1>3 DEF RunLocust, Goto, Fail, GotoWith, IsSession
<1>4. CASE CollectReports
  BY <1>4 DEF CollectReports, Goto
<1>5. CASE AuditReports
  BY <1>5 DEF AuditReports, Fail, GotoWith, IsSession, WorkloadGoto, Goto
<1>6. CASE RunGroup
  BY <1>6 DEF RunGroup, commandVars
<1>7. CASE CombineResults
  BY <1>7 DEF CombineResults, Fail, GotoWith, IsSession, Goto
<1>8. CASE RunReference
  BY <1>8 DEF RunReference, Fail, GotoWith, IsSession, Goto
<1> QED
  BY <1>1, <1>2, <1>3, <1>4, <1>5, <1>6, <1>7, <1>8 DEF WorkloadNext

LEMMA SessionQuiet == SessionNext => Quiet
<1> SUFFICES ASSUME SessionNext PROVE Quiet
  OBVIOUS
<1> USE DEF Quiet, Apart, Failure, Loading, Working
<1>1. CASE Prepare
  BY <1>1 DEF Prepare, Operate, Goto, OperationStep, Fail, GotoWith, IsSession
<1>2. CASE AdminLogin
  BY <1>2 DEF AdminLogin, Goto, Operate, OperationStep, Fail, GotoWith, IsSession
<1>3. CASE IssueToken
  BY <1>3 DEF IssueToken, Operate, Goto, OperationStep, Fail, GotoWith, IsSession
<1>4. CASE StandaloneToken
  BY <1>4 DEF StandaloneToken, Goto, Fail, GotoWith, IsSession
<1>5. CASE PublishFixture
  BY <1>5 DEF PublishFixture, IsSession, Operate, Goto, OperationStep, Fail, GotoWith
<1>6. CASE PublishFastTime
  BY <1>6 DEF PublishFastTime, Operate, Goto, OperationStep, Fail, GotoWith, IsSession
<1>7. CASE Revoke
  BY <1>7 DEF Revoke, Goto, GotoWith
<1> QED
  BY <1>1, <1>2, <1>3, <1>4, <1>5, <1>6, <1>7 DEF SessionNext

----------------------------------------------------------------------------
\* Checkouts.

Tree == {Absent} \cup [origin : {"none", "configured", "other"}, fetched : Nat, head : Nat]

CheckoutTyped == /\ upstream \in [Source -> Nat \ {0}] /\ tree \in [Source -> Tree]
                 /\ beside \in [Source -> [fresh : BOOLEAN, old : Tree]]

\* What is known of the checkout that is worked on.
Known == src \in Source =>
  /\ at \in {"origin", "stage", "away"} => tree[src].origin # "absent"
  /\ at = "install" => tree[src] = Absent
  /\ at = "drop" => Whole(tree[src])
  /\ at \in {"fetch", "switch"} => tree[src].origin = "configured"
  /\ at = "switch" => tree[src].fetched > 0

\* Only a generated checkout is replaced.
Generated == at \in {"stage", "away", "install", "drop"} => setting.generated

CheckoutInv == CheckoutTyped /\ Known /\ Generated

\* The property, of one step.
Kept == \A s \in Source :
  /\ tree[s].head > 0 /\ tree'[s].head = 0 => beside'[s].old = tree[s]
  /\ beside[s].old.head > 0 /\ beside'[s].old = Absent =>
       Whole(tree'[s]) \/ tree'[s] = beside[s].old
  /\ ~setting.generated /\ tree[s].origin = "other" => tree'[s] = tree[s]

LEMMA FirstStepLeads == FirstStep \notin Loading \cup Working \cup {"ended", "killed"}
  BY DEF FirstStep, SourceStep, SourcesReady, Loading, Working

\* What a step that is none of Checkout's does to the checkouts.
CheckoutsAlone ==
  \/ CheckoutKilled /\ at' = "killed" /\ UNCHANGED setting
  \/ (\E s \in Source : Push(s)) /\ UNCHANGED <<setting, at>>
  \/ /\ UNCHANGED <<setting, upstream, tree, beside>>
     /\ UNCHANGED <<at, queue>> \/ at' \notin Working

LEMMA FileSteps ==
  ASSUME NEW f \in SecretFile
  PROVE  IF f = "secrets"
           THEN /\ FileStep[f].read = "read secrets" /\ FileStep[f].create = "create secrets"
                /\ FileStep[f].write = "write secrets" /\ FileStep[f].reread = "reread secrets"
                /\ FileStep[f].done = "read password"
           ELSE /\ f = "password"
                /\ FileStep[f].read = "read password" /\ FileStep[f].create = "create password"
                /\ FileStep[f].write = "write password" /\ FileStep[f].reread = "reread password"
                /\ FileStep[f].done = FirstStep
<1>1. CASE f = "secrets"
  BY <1>1 DEF FileStep
<1>2. CASE f = "password"
  BY <1>2 DEF FileStep
<1> QED
  BY <1>1, <1>2 DEF SecretFile

LEMMA WorkspaceLeads == WorkspaceNext => /\ UNCHANGED <<setting, command>>
                                         /\ failures' \subseteq failures \cup Failure
                                         /\ at \in Loading
                                         /\ at' \in Loading \cup {FirstStep, "ended"}
<1> SUFFICES ASSUME WorkspaceNext
             PROVE  /\ UNCHANGED <<setting, command>> /\ at \in Loading
                    /\ failures' \subseteq failures \cup Failure
                    /\ at' \in Loading \cup {FirstStep, "ended"}
  OBVIOUS
<1> USE DEF Loading, Goto, LoadFails, GotoWith, Failure
<1>1. CASE FindAssets
  BY <1>1 DEF FindAssets, AfterAssets
<1>2. CASE Unpack
  BY <1>2 DEF Unpack, AfterAssets
<1>3. CASE Activate
  BY <1>3 DEF Activate, AfterAssets
<1>4. ASSUME NEW f \in SecretFile, ReadFile(f) \/ CreateFile(f) \/ WriteFile(f) \/ RereadFile(f)
      PROVE  /\ UNCHANGED <<setting, command>> /\ at \in Loading
             /\ failures' \subseteq failures \cup Failure
             /\ at' \in Loading \cup {FirstStep, "ended"}
  <2>1. /\ {FileStep[f].read, FileStep[f].create, FileStep[f].write, FileStep[f].reread} \subseteq Loading
        /\ FileStep[f].done \in Loading \cup {FirstStep}
    BY FileSteps DEF Loading
  <2>2. CASE ReadFile(f)
    BY <2>1, <2>2 DEF ReadFile, TakeFile
  <2>3. CASE CreateFile(f)
    BY <2>1, <2>3 DEF CreateFile
  <2>4. CASE WriteFile(f)
    BY <2>1, <2>4 DEF WriteFile
  <2>5. CASE RereadFile(f)
    BY <2>1, <2>5 DEF RereadFile, TakeFile
  <2> QED
    BY <1>4, <2>2, <2>3, <2>4, <2>5
<1> QED
  BY <1>1, <1>2, <1>3, <1>4 DEF WorkspaceNext

LEMMA CheckoutFrame ==
  ASSUME [Next]_vars
  PROVE  CheckoutNext \/ CheckoutsAlone
<1> USE DEF CheckoutsAlone
<1>1. CASE \E r \in Request : Begin(r)
  BY <1>1 DEF Begin, Working
<1>2. CASE WorkspaceNext /\ UNCHANGED <<checkoutVars, partVars, sessionVars, bounds>>
  BY <1>2, WorkspaceLeads, FirstStepLeads DEF checkoutVars, Loading, Working
<1>3. CASE Quiet /\ UNCHANGED checkoutVars
  BY <1>3 DEF Quiet, checkoutVars
<1>4. CASE Surprise
  <2>1. CASE Kill
    BY <2>1 DEF Kill
  <2>2. CASE Pushed
    BY <2>2 DEF Pushed, commandVars, checkoutVars
  <2>3. CASE OtherTerminal
    BY <2>3 DEF OtherTerminal, commandVars, checkoutVars
  <2>4. CASE Interrupt /\ UNCHANGED <<workspaceVars, checkoutVars, outcome, sessionVars>>
    BY <2>4 DEF Interrupt, commandVars, checkoutVars
  <2>5. CASE OtherPrepares /\ UNCHANGED <<commandVars, checkoutVars, partVars, sessionVars>>
    BY <2>5 DEF OtherPrepares, commandVars, checkoutVars
  <2> QED
    BY <1>4, <2>1, <2>2, <2>3, <2>4, <2>5 DEF Surprise
<1>5. CASE UNCHANGED vars
  BY <1>5 DEF vars, commandVars, checkoutVars
<1> QED
  BY <1>1, <1>2, <1>3, <1>4, <1>5, StackQuiet, ProbeQuiet, ToolQuiet, WorkloadQuiet, SessionQuiet
  DEF Next

LEMMA CheckoutInvInit == Init => CheckoutInv
<1> SUFFICES ASSUME Init PROVE CheckoutInv
  OBVIOUS
<1>1. Known /\ Generated
  BY DEF Init, CommandInit, Known, Generated
<1>2. upstream \in [Source -> Nat \ {0}]
  BY RevisionAssumption DEF Init, CheckoutInit
<1>3. beside \in [Source -> [fresh : BOOLEAN, old : Tree]]
  BY DEF Init, CheckoutInit, Alone, Tree
<1>4. tree \in [Source -> Tree]
  BY DEF Init, CheckoutInit, Tree
<1> QED
  BY <1>1, <1>2, <1>3, <1>4 DEF CheckoutInv, CheckoutTyped

LEMMA CheckoutInvStep ==
  ASSUME CheckoutInv, [Next]_vars
  PROVE  CheckoutInv' /\ Kept
<1> USE DEF CheckoutInv, CheckoutTyped
<1>a. queue' = queue => src' = src
  BY DEF src
<1>1. CASE CheckoutsAlone
  <2>1. CASE CheckoutKilled /\ at' = "killed" /\ UNCHANGED setting
    <3>1. /\ beside' \in [Source -> [fresh : BOOLEAN, old : Tree]] /\ UNCHANGED upstream
          /\ \A s \in Source : beside'[s].old = beside[s].old
      BY <2>1 DEF CheckoutKilled
    <3>2. CASE UNCHANGED tree
      BY <2>1, <3>1, <3>2 DEF Known, Generated, Kept, Absent
    <3>3. CASE tree[src].origin = "absent" /\ \E t \in Killed : tree' = [tree EXCEPT ![src] = t]
      <4>1. PICK t \in Killed : tree' = [tree EXCEPT ![src] = t]
        BY <3>3
      <4>2. t \in Tree
        BY DEF Killed, Tree
      <4>3. tree' \in [Source -> Tree]
        BY <4>1, <4>2
      <4>4. \A s \in Source : tree'[s] = IF s = src THEN t ELSE tree[s]
        BY <4>1
      <4>5. src \in Source => tree[src] = Absent
        BY <3>3 DEF Tree
      <4>6. Kept
        BY <3>1, <4>4, <4>5 DEF Kept, Absent
      <4> QED
        BY <2>1, <3>1, <4>3, <4>6 DEF Known, Generated
    <3> QED
      BY <2>1, <3>2, <3>3 DEF CheckoutKilled
  <2>2. CASE (\E s \in Source : Push(s)) /\ UNCHANGED <<setting, at>>
    BY <2>2 DEF Push, Known, Generated, Kept, src, Absent
  <2>3. CASE /\ UNCHANGED <<setting, upstream, tree, beside>>
             /\ UNCHANGED <<at, queue>> \/ at' \notin Working
    BY <2>3 DEF Known, Generated, Kept, Working, src, Absent
  <2> QED
    BY <1>1, <2>1, <2>2, <2>3 DEF CheckoutsAlone
<1>2. CASE Clone
  BY <1>2, <1>a DEF Clone, Goto, Cloned, CheckoutFails, Fail, GotoWith, IsSession, Known,
     Generated,
     Kept, Tree, Absent, Whole
<1>3. CASE CheckOrigin
  BY <1>3, <1>a DEF CheckOrigin, Goto, CheckoutFails, Fail, GotoWith, IsSession, Known, Generated,
     Kept, Tree, Absent, Whole
<1>4. CASE Stage
  <2>1. UNCHANGED <<setting, upstream, tree>>
    BY <1>4 DEF Stage, Goto, CheckoutFails, Fail, GotoWith, IsSession
  <2>2. beside' \in {beside, [beside EXCEPT ![src].fresh = TRUE]}
    BY <1>4 DEF Stage
  <2>3. at = "stage" /\ ((at' = "away" /\ queue' = queue) \/ at' \in {"revoke", "ended"})
    BY <1>4 DEF Stage, Goto, CheckoutFails, Fail, GotoWith, IsSession
  <2>4. beside' \in [Source -> [fresh : BOOLEAN, old : Tree]] /\ \A s \in Source : beside'[s].old = beside[s].old
    <3>1. CASE beside' = beside
      BY <3>1
    <3>2. CASE beside' = [beside EXCEPT ![src].fresh = TRUE]
      BY <3>2
    <3> QED
      BY <2>2, <3>1, <3>2
  <2> QED
    BY <2>1, <2>3, <2>4, <1>a DEF Known, Generated, Kept, Absent
<1>5. CASE MoveAway
  <2>1. UNCHANGED <<setting, upstream>> /\ at = "away"
    BY <1>5 DEF MoveAway, Goto, CheckoutFails, Fail, GotoWith, IsSession
  <2>2. CASE /\ at' = "install" /\ UNCHANGED queue
             /\ tree' = [tree EXCEPT ![src] = Absent]
             /\ beside' = [beside EXCEPT ![src].old = tree[src]]
    <3>1. tree' \in [Source -> Tree]
      BY <2>2 DEF Tree
    <3>2. beside' \in [Source -> [fresh : BOOLEAN, old : Tree]]
      BY <2>2
    <3>3. \A s \in Source : IF s = src THEN tree'[s] = Absent /\ beside'[s].old = tree[src]
                                      ELSE tree'[s] = tree[s] /\ beside'[s].old = beside[s].old
      BY <2>2
    <3>4. Kept
      BY <2>1, <3>3 DEF Kept, Known, Generated, Absent
    <3> QED
      BY <2>1, <2>2, <3>1, <3>2, <3>3, <3>4, <1>a DEF Known, Generated
  <2>3. CASE /\ at' \in {"revoke", "ended"} /\ UNCHANGED tree
             /\ beside' = [beside EXCEPT ![src].fresh = FALSE]
    <3>1. /\ beside' \in [Source -> [fresh : BOOLEAN, old : Tree]]
          /\ \A s \in Source : beside'[s].old = beside[s].old
      BY <2>3
    <3> QED
      BY <2>1, <2>3, <3>1 DEF Known, Generated, Kept, Absent
  <2> QED
    BY <1>5, <2>2, <2>3 DEF MoveAway, Goto, CheckoutFails, Fail, GotoWith, IsSession
<1>6. CASE Install
  <2>1. UNCHANGED <<setting, upstream>> /\ at = "install"
    BY <1>6 DEF Install, Goto, CheckoutFails, Fail, GotoWith, IsSession
  <2>2. CASE /\ at' = "drop" /\ UNCHANGED queue
             /\ tree' = [tree EXCEPT ![src] = Cloned(src)]
             /\ beside' = [beside EXCEPT ![src].fresh = FALSE]
    <3>1. src \in Source => Cloned(src) \in Tree /\ Whole(Cloned(src))
      BY DEF Cloned, Tree, Whole
    <3>2. tree' \in [Source -> Tree]
      BY <2>2, <3>1
    <3>3. beside' \in [Source -> [fresh : BOOLEAN, old : Tree]]
      BY <2>2
    <3>4. \A s \in Source : /\ tree'[s] = IF s = src THEN Cloned(src) ELSE tree[s]
                            /\ beside'[s].old = beside[s].old
      BY <2>2
    <3>5. Kept
      BY <2>1, <3>1, <3>4 DEF Kept, Known, Generated, Absent
    <3> QED
      BY <2>1, <2>2, <3>1, <3>2, <3>3, <3>4, <3>5, <1>a DEF Known, Generated
  <2>3. CASE /\ at' \in {"revoke", "ended"}
             /\ tree' = [tree EXCEPT ![src] = beside[src].old]
             /\ beside' = [beside EXCEPT ![src] = Alone]
    <3>1. tree' \in [Source -> Tree]
      BY <2>3
    <3>2. beside' \in [Source -> [fresh : BOOLEAN, old : Tree]]
      BY <2>3 DEF Alone, Tree
    <3>3. \A s \in Source : IF s = src THEN tree'[s] = beside[s].old
                                      ELSE tree'[s] = tree[s] /\ beside'[s] = beside[s]
      BY <2>3
    <3>4. Kept
      BY <2>1, <3>3 DEF Kept, Known, Generated, Absent
    <3> QED
      BY <2>1, <2>3, <3>1, <3>2, <3>4 DEF Known, Generated
  <2>4. CASE at' \in {"revoke", "ended"} /\ UNCHANGED <<tree, beside>>
    BY <2>1, <2>4 DEF Known, Generated, Kept, Absent
  <2> QED
    BY <1>6, <2>2, <2>3, <2>4 DEF Install, Goto, CheckoutFails, Fail, GotoWith, IsSession
<1>7. CASE DropOld
  <2>1. UNCHANGED <<setting, upstream, tree>> /\ at = "drop"
    BY <1>7 DEF DropOld, Goto, CheckoutFails, Fail, GotoWith, IsSession
  <2>2. beside' = [beside EXCEPT ![src].old = Absent]
    BY <1>7 DEF DropOld
  <2>3. (at' = "fetch" /\ queue' = queue) \/ at' \in {"revoke", "ended"}
    BY <1>7 DEF DropOld, Goto, CheckoutFails, Fail, GotoWith, IsSession
  <2>4. /\ beside' \in [Source -> [fresh : BOOLEAN, old : Tree]]
        /\ \A s \in Source \ {src} : beside'[s].old = beside[s].old
    BY <2>2 DEF Tree
  <2>5. Kept
    BY <2>1, <2>4 DEF Kept, Known, Absent
  <2> QED
    BY <2>1, <2>3, <2>4, <2>5, <1>a DEF Known, Generated, Whole
<1>8. CASE Fetch
  <2>1. UNCHANGED <<setting, upstream, beside>> /\ at = "fetch"
    BY <1>8 DEF Fetch, Goto, CheckoutFails, Fail, GotoWith, IsSession
  <2>2. CASE /\ at' = "switch" /\ UNCHANGED queue
             /\ tree' = [tree EXCEPT ![src].fetched = upstream[src]]
    <3>1. src \in Source => /\ tree[src] \in [origin : {"configured"}, fetched : Nat, head : Nat]
                            /\ upstream[src] \in Nat \ {0}
      BY <2>1 DEF Known, Tree, Absent
    <3>2. tree' \in [Source -> Tree]
      BY <2>2, <3>1 DEF Tree
    <3>3. \A s \in Source :
            IF s = src THEN /\ tree'[s].origin = tree[s].origin /\ tree'[s].head = tree[s].head
                            /\ tree'[s].fetched = upstream[s]
                       ELSE tree'[s] = tree[s]
      BY <2>2, <3>1
    <3>4. Kept
      BY <2>1, <3>1, <3>3 DEF Kept, Absent
    <3> QED
      BY <2>1, <2>2, <3>1, <3>2, <3>3, <3>4, <1>a DEF Known, Generated
  <2>3. CASE at' \in {"revoke", "ended"} /\ UNCHANGED tree
    BY <2>1, <2>3 DEF Known, Generated, Kept, Absent
  <2> QED
    BY <1>8, <2>2, <2>3 DEF Fetch, Goto, CheckoutFails, Fail, GotoWith, IsSession
<1>9. CASE Switch
  <2>1. UNCHANGED <<setting, upstream, beside>> /\ at = "switch" /\ at' \notin Working
    BY <1>9 DEF Switch, NextSource, SourcesReady, Goto, CheckoutFails, Fail, GotoWith, IsSession,
       Working
  <2>2. CASE tree' = [tree EXCEPT ![src].head =
                        IF setting.generated \/ @ = 0 THEN tree[src].fetched ELSE @]
    <3>1. src \in Source => /\ tree[src] \in [origin : {"configured"}, fetched : Nat, head : Nat]
                            /\ tree[src].fetched > 0
      BY <2>1 DEF Known, Tree, Absent
    <3>2. tree' \in [Source -> Tree]
      BY <2>2, <3>1 DEF Tree
    <3>3. \A s \in Source \ {src} : tree'[s] = tree[s]
      BY <2>2
    <3>4. src \in Source => tree'[src].head = IF setting.generated \/ tree[src].head = 0
                                                THEN tree[src].fetched ELSE tree[src].head
      BY <2>2, <3>1
    <3>5. Kept
      BY <2>1, <3>1, <3>3, <3>4 DEF Kept, Absent
    <3> QED
      BY <2>1, <3>2, <3>5 DEF Known, Generated, Working
  <2>3. CASE UNCHANGED tree
    BY <2>1, <2>3 DEF Known, Generated, Kept, Absent, Working
  <2> QED
    BY <1>9, <2>2, <2>3 DEF Switch, CheckoutFails
<1> QED
  BY <1>1, <1>2, <1>3, <1>4, <1>5, <1>6, <1>7, <1>8, <1>9, CheckoutFrame DEF CheckoutNext

\* A checkout that has a commit is never lost, for any sources, requests, configurations and bounds
\* (CheckoutManager::ensure, replace_generated_checkout).
THEOREM CheckoutsNeverLost == Spec => CheckoutsKept
<1>1. Init => CheckoutInv
  BY CheckoutInvInit
<1>2. CheckoutInv /\ [Next]_vars => CheckoutInv' /\ Kept
  BY CheckoutInvStep
<1> QED
  BY <1>1, <1>2, PTL DEF Spec, CheckoutsKept, Kept

----------------------------------------------------------------------------
\* Secrets and assets.

Unset     == {"assets", "unpack", "activate"}
Unsecured == Unset \cup {"read secrets", "create secrets", "write secrets", "reread secrets"}

SecretTyped == /\ file \in [SecretFile -> Content]
               /\ mine \in [SecretFile -> {"none", "empty", "ours", "theirs"}]

\* What this command holds is in the file; only the file this command has made is it about to write.
Shared == /\ \A f \in SecretFile : Written(mine[f]) => mine[f] = file[f]
          /\ at = "write secrets" => file["secrets"] = "empty"
          /\ at = "write password" => file["password"] = "empty"

\* What a command has once it is past the steps that prepare it.
Furnished ==
  /\ Running /\ at \notin Unset /\ ~setting.repository => assets = "complete"
  /\ Running /\ at \notin Unsecured /\ Routed /\ ~setting.given => Written(mine["secrets"])

SecretInv == SecretTyped /\ Shared /\ Furnished

\* The property, but for what the invariant says already.
Lasting == /\ \A f \in SecretFile : Written(file[f]) => file'[f] = file[f]
           /\ Running => UNCHANGED <<setting, command>>

\* What a step that is none of Workspace's does to the secrets.
SecretsAlone ==
  \/ /\ ~Running /\ at' = "assets" /\ UNCHANGED <<setting, assets, file>>
     /\ mine' = [f \in SecretFile |-> "none"]
  \/ /\ UNCHANGED <<setting, command, assets, file, mine>>
     /\ UNCHANGED at \/ at' = "killed" \/ (at \notin Loading /\ Running /\ at' \notin Loading)
  \/ OtherPrepares /\ UNCHANGED <<setting, command, at>>

LEMMA CheckoutQuiet ==
  CheckoutNext => /\ UNCHANGED <<setting, command>> /\ failures' \subseteq failures \cup Failure
                  /\ at \notin Loading /\ Running /\ at' \notin Loading
<1> SUFFICES ASSUME CheckoutNext
             PROVE  /\ UNCHANGED <<setting, command>> /\ failures' \subseteq failures \cup Failure
                    /\ at \notin Loading /\ Running /\ at' \notin Loading
  OBVIOUS
<1> USE DEF Failure, Loading, Running, Goto, CheckoutFails, Fail, GotoWith, IsSession
<1>1. CASE Clone
  BY <1>1 DEF Clone
<1>2. CASE CheckOrigin
  BY <1>2 DEF CheckOrigin
<1>3. CASE Stage
  BY <1>3 DEF Stage
<1>4. CASE MoveAway
  BY <1>4 DEF MoveAway
<1>5. CASE Install
  BY <1>5 DEF Install
<1>6. CASE DropOld
  BY <1>6 DEF DropOld
<1>7. CASE Fetch
  BY <1>7 DEF Fetch
<1>8. CASE Switch
  BY <1>8 DEF Switch, NextSource, SourcesReady
<1> QED
  BY <1>1, <1>2, <1>3, <1>4, <1>5, <1>6, <1>7, <1>8 DEF CheckoutNext

LEMMA SecretsFrame ==
  ASSUME [Next]_vars
  PROVE  WorkspaceNext \/ SecretsAlone
<1> USE DEF SecretsAlone
<1>1. CASE \E r \in Request : Begin(r)
  BY <1>1 DEF Begin
<1>2. CASE CheckoutNext /\ UNCHANGED workspaceVars
  BY <1>2, CheckoutQuiet DEF workspaceVars
<1>3. CASE Quiet /\ UNCHANGED workspaceVars
  BY <1>3 DEF Quiet, Apart, Running, workspaceVars
<1>4. CASE Surprise
  <2>1. CASE Kill
    BY <2>1 DEF Kill, WorkspaceKilled
  <2>2. CASE Pushed
    BY <2>2 DEF Pushed, commandVars, workspaceVars
  <2>3. CASE OtherTerminal
    BY <2>3 DEF OtherTerminal, commandVars, workspaceVars
  <2>4. CASE Interrupt /\ UNCHANGED <<workspaceVars, checkoutVars, outcome, sessionVars>>
    BY <2>4 DEF Interrupt, commandVars, workspaceVars
  <2>5. CASE OtherPrepares /\ UNCHANGED <<commandVars, checkoutVars, partVars, sessionVars>>
    BY <2>5 DEF commandVars
  <2> QED
    BY <1>4, <2>1, <2>2, <2>3, <2>4, <2>5 DEF Surprise
<1>5. CASE UNCHANGED vars
  BY <1>5 DEF vars, commandVars, workspaceVars
<1> QED
  BY <1>1, <1>2, <1>3, <1>4, <1>5, StackQuiet, ProbeQuiet, ToolQuiet, WorkloadQuiet, SessionQuiet
  DEF Next

LEMMA SecretInvInit == Init => SecretInv
  BY DEF Init, CommandInit, WorkspaceInit, SecretInv, SecretTyped, Shared, Furnished, Content,
     Written, Running

\* Taking a file over from another process, or from an earlier command.
LEMMA TakenIsShared ==
  ASSUME SecretTyped, Shared, NEW f \in SecretFile, TakeFile(f), UNCHANGED file
  PROVE  /\ mine' \in [SecretFile -> {"none", "empty", "ours", "theirs"}]
         /\ \A g \in SecretFile : Written(mine'[g]) => mine'[g] = file'[g]
         /\ UNCHANGED <<setting, command>>
         /\ \/ at' = FileStep[f].done /\ (f = "secrets" => Written(mine'[f]))
               /\ \A g \in SecretFile \ {f} : mine'[g] = mine[g]
            \/ at' = "ended"
<1> USE DEF SecretTyped, Shared, Written
<1>1. CASE ~Parsed(f) /\ LoadFails /\ UNCHANGED mine
  BY <1>1 DEF LoadFails, GotoWith
<1>2. CASE /\ Parsed(f)
           /\ mine' = [mine EXCEPT ![f] = IF Written(file[f]) THEN file[f] ELSE "empty"]
           /\ Goto(FileStep[f].done)
  <2>1. file[f] \in Content
    OBVIOUS
  <2>2. mine' \in [SecretFile -> {"none", "empty", "ours", "theirs"}]
    BY <1>2, <2>1
  <2>3. mine'[f] = IF Written(file[f]) THEN file[f] ELSE "empty"
    BY <1>2
  <2>4. \A g \in SecretFile \ {f} : mine'[g] = mine[g]
    BY <1>2
  <2>5. \A g \in SecretFile : Written(mine'[g]) => mine'[g] = file'[g]
    BY <2>3, <2>4
  <2>6. UNCHANGED <<setting, command>> /\ at' = FileStep[f].done
    BY <1>2 DEF Goto, GotoWith
  <2>7. f = "secrets" => Written(mine'[f])
    BY <1>2, <2>3 DEF Parsed
  <2> QED
    BY <2>2, <2>4, <2>5, <2>6, <2>7
<1> QED
  BY <1>1, <1>2 DEF TakeFile

LEMMA SecretInvStep ==
  ASSUME SecretInv, [Next]_vars
  PROVE  SecretInv' /\ Lasting
<1> USE DEF SecretInv, SecretTyped, Shared, Furnished, Lasting, Written, Running, Unset, Unsecured
<1>1. CASE SecretsAlone
  <2>1. CASE /\ ~Running /\ at' = "assets" /\ UNCHANGED <<setting, assets, file>>
             /\ mine' = [f \in SecretFile |-> "none"]
    BY <2>1
  <2>2. CASE /\ UNCHANGED <<setting, command, assets, file, mine>>
             /\ UNCHANGED at \/ at' = "killed" \/ (at \notin Loading /\ Running /\ at' \notin Loading)
    BY <2>2 DEF Loading, Routed
  <2>3. CASE OtherPrepares /\ UNCHANGED <<setting, command, at>>
    <3>1. UNCHANGED mine /\ (assets = "complete" => assets' = "complete")
      BY <2>3 DEF OtherPrepares
    <3>2. /\ file' \in [SecretFile -> Content]
          /\ \A f \in SecretFile : file[f] \in {"empty", "ours", "theirs"} => file'[f] = file[f]
      <4>1. CASE UNCHANGED file
        BY <4>1
      <4>2. ASSUME NEW f \in SecretFile, NEW c \in {"opened", "theirs"},
                   file[f] \in {"absent", "opened"}, file' = [file EXCEPT ![f] = c]
            PROVE  <3>2!:
        BY <4>2 DEF Content
      <4> QED
        BY <2>3, <4>1, <4>2 DEF OtherPrepares
    <3> QED
      BY <2>3, <3>1, <3>2 DEF Routed, SecretFile
  <2> QED
    BY <1>1, <2>1, <2>2, <2>3 DEF SecretsAlone
<1>2. CASE WorkspaceNext
  <2> USE DEF Goto, LoadFails, GotoWith
  <2>a. FirstStep \notin Loading
    BY FirstStepLeads
  <2>1. CASE FindAssets
    BY <2>1, <2>a DEF FindAssets, ValidAssets, AfterAssets, workspaceVars, Loading, Routed
  <2>2. CASE Unpack
    BY <2>2 DEF Unpack, Routed
  <2>3. CASE Activate
    BY <2>3, <2>a DEF Activate, ValidAssets, AfterAssets, Loading, Routed
  <2>4. ASSUME NEW f \in SecretFile, ReadFile(f) \/ CreateFile(f) \/ WriteFile(f) \/ RereadFile(f)
        PROVE  SecretInv' /\ Lasting
    <3>1. CASE f = "secrets"
      <4>0. /\ FileStep[f].read = "read secrets" /\ FileStep[f].create = "create secrets"
            /\ FileStep[f].write = "write secrets" /\ FileStep[f].reread = "reread secrets"
            /\ FileStep[f].done = "read password"
        BY <3>1, FileSteps
      <4>1. CASE ReadFile(f)
        <5>1. UNCHANGED <<assets, file>> /\ at = "read secrets"
          BY <4>0, <4>1 DEF ReadFile
        <5>2. CASE TakeFile(f)
          BY <3>1, <4>0, <5>1, <5>2, TakenIsShared DEF Routed, SecretFile
        <5>3. CASE at' \in {"create secrets", "ended"} /\ UNCHANGED <<setting, command, mine>>
          BY <5>1, <5>3 DEF Routed
        <5> QED
          BY <4>0, <4>1, <5>2, <5>3 DEF ReadFile, LoadFails
      <4>2. CASE CreateFile(f)
        <5>1. UNCHANGED <<setting, command, assets, mine>> /\ at = FileStep[f].create
          BY <4>2 DEF CreateFile
        <5>2. CASE /\ file[f] = "absent" /\ file' = [file EXCEPT ![f] = "empty"]
                   /\ at' = FileStep[f].write
          <6>1. file' \in [SecretFile -> Content] /\ file'[f] = "empty"
            BY <5>2 DEF Content
          <6>2. \A g \in SecretFile \ {f} : file'[g] = file[g]
            BY <5>2
          <6> QED
            BY <3>1, <4>0, <5>1, <5>2, <6>1, <6>2 DEF Routed, SecretFile
        <5>3. CASE at' \in {FileStep[f].reread, "ended"} /\ UNCHANGED file
          BY <3>1, <4>0, <5>1, <5>3 DEF Routed
        <5> QED
          BY <4>2, <5>2, <5>3 DEF CreateFile
      <4>3. CASE WriteFile(f)
        <5>1. UNCHANGED <<setting, command, assets>> /\ at = FileStep[f].write
          BY <4>3 DEF WriteFile
        <5>2. CASE /\ file' = [file EXCEPT ![f] = "ours"] /\ mine' = [mine EXCEPT ![f] = "ours"]
                   /\ at' = FileStep[f].done
          <6>1. /\ file' \in [SecretFile -> Content]
                /\ mine' \in [SecretFile -> {"none", "empty", "ours", "theirs"}]
            BY <5>2 DEF Content
          <6>2. \A g \in SecretFile : IF g = f THEN file'[g] = "ours" /\ mine'[g] = "ours"
                                              ELSE file'[g] = file[g] /\ mine'[g] = mine[g]
            BY <5>2
          <6> QED
            BY <3>1, <4>0, <5>1, <5>2, <6>1, <6>2 DEF Routed, SecretFile
        <5>3. CASE at' = "ended" /\ UNCHANGED <<file, mine>>
          BY <5>1, <5>3 DEF Routed
        <5> QED
          BY <4>3, <5>2, <5>3 DEF WriteFile
      <4>4. CASE RereadFile(f)
        <5>1. UNCHANGED <<assets, file>> /\ at = "reread secrets"
          BY <4>0, <4>4 DEF RereadFile
        <5>2. CASE TakeFile(f)
          BY <3>1, <4>0, <5>1, <5>2, TakenIsShared DEF Routed, SecretFile
        <5>3. CASE at' = "ended" /\ UNCHANGED <<setting, command, mine>>
          BY <5>1, <5>3 DEF Routed
        <5> QED
          BY <4>4, <5>2, <5>3 DEF RereadFile, LoadFails
      <4> QED
        BY <2>4, <4>1, <4>2, <4>3, <4>4
    <3>2. CASE f = "password"
      <4>0. /\ FileStep[f].read = "read password" /\ FileStep[f].create = "create password"
            /\ FileStep[f].write = "write password" /\ FileStep[f].reread = "reread password"
            /\ FileStep[f].done = FirstStep
        BY <3>2, FileSteps
      <4>1. CASE ReadFile(f)
        <5>1. UNCHANGED <<assets, file>> /\ at = "read password"
          BY <4>0, <4>1 DEF ReadFile
        <5>2. CASE TakeFile(f)
          BY <2>a, <3>2, <4>0, <5>1, <5>2, TakenIsShared DEF Routed, SecretFile, Loading
        <5>3. CASE at' \in {"create password", "ended"} /\ UNCHANGED <<setting, command, mine>>
          BY <5>1, <5>3 DEF Routed
        <5> QED
          BY <4>0, <4>1, <5>2, <5>3 DEF ReadFile, LoadFails
      <4>2. CASE CreateFile(f)
        <5>1. UNCHANGED <<setting, command, assets, mine>> /\ at = FileStep[f].create
          BY <4>2 DEF CreateFile
        <5>2. CASE /\ file[f] = "absent" /\ file' = [file EXCEPT ![f] = "empty"]
                   /\ at' = FileStep[f].write
          <6>1. file' \in [SecretFile -> Content] /\ file'[f] = "empty"
            BY <5>2 DEF Content
          <6>2. \A g \in SecretFile \ {f} : file'[g] = file[g]
            BY <5>2
          <6> QED
            BY <3>2, <4>0, <5>1, <5>2, <6>1, <6>2 DEF Routed, SecretFile
        <5>3. CASE at' \in {FileStep[f].reread, "ended"} /\ UNCHANGED file
          BY <3>2, <4>0, <5>1, <5>3 DEF Routed
        <5> QED
          BY <4>2, <5>2, <5>3 DEF CreateFile
      <4>3. CASE WriteFile(f)
        <5>1. UNCHANGED <<setting, command, assets>> /\ at = FileStep[f].write
          BY <4>3 DEF WriteFile
        <5>2. CASE /\ file' = [file EXCEPT ![f] = "ours"] /\ mine' = [mine EXCEPT ![f] = "ours"]
                   /\ at' = FileStep[f].done
          <6>1. /\ file' \in [SecretFile -> Content]
                /\ mine' \in [SecretFile -> {"none", "empty", "ours", "theirs"}]
            BY <5>2 DEF Content
          <6>2. \A g \in SecretFile : IF g = f THEN file'[g] = "ours" /\ mine'[g] = "ours"
                                              ELSE file'[g] = file[g] /\ mine'[g] = mine[g]
            BY <5>2
          <6> QED
            BY <2>a, <3>2, <4>0, <5>1, <5>2, <6>1, <6>2 DEF Routed, SecretFile, Loading
        <5>3. CASE at' = "ended" /\ UNCHANGED <<file, mine>>
          BY <5>1, <5>3 DEF Routed
        <5> QED
          BY <4>3, <5>2, <5>3 DEF WriteFile
      <4>4. CASE RereadFile(f)
        <5>1. UNCHANGED <<assets, file>> /\ at = "reread password"
          BY <4>0, <4>4 DEF RereadFile
        <5>2. CASE TakeFile(f)
          BY <2>a, <3>2, <4>0, <5>1, <5>2, TakenIsShared DEF Routed, SecretFile, Loading
        <5>3. CASE at' = "ended" /\ UNCHANGED <<setting, command, mine>>
          BY <5>1, <5>3 DEF Routed
        <5> QED
          BY <4>4, <5>2, <5>3 DEF RereadFile, LoadFails
      <4> QED
        BY <2>4, <4>1, <4>2, <4>3, <4>4
    <3> QED
      BY <3>1, <3>2 DEF SecretFile
  <2> QED
    BY <1>2, <2>1, <2>2, <2>3, <2>4 DEF WorkspaceNext
<1> QED
  BY <1>1, <1>2, SecretsFrame

\* A secret once written is never replaced, and a command goes on only with what it holds, for any
\* requests and configurations (create_private_file, parse_local_secrets,
\* materialize_runtime_assets).
THEOREM SecretsNeverReplaced == Spec => SecretsKept
<1> DEFINE Step == /\ \A f \in SecretFile : /\ Written(file[f]) => file'[f] = file[f]
                                            /\ Written(mine'[f]) => mine'[f] = file'[f]
                   /\ Running /\ at' = FirstStep /\ at' # at =>
                        /\ Routed /\ ~setting.given => Written(mine'["secrets"])
                        /\ ~setting.repository => assets' = "complete"
<1>1. Init => SecretInv
  BY SecretInvInit
<1>2. SecretInv /\ [Next]_vars => SecretInv'
  BY SecretInvStep
<1>3. SecretInv /\ [Next]_vars => Step
  <2> SUFFICES ASSUME SecretInv, [Next]_vars PROVE Step
    OBVIOUS
  <2>1. SecretInv' /\ Lasting
    BY SecretInvStep
  <2>2. FirstStep \notin Loading \cup {"ended", "killed"}
    BY FirstStepLeads
  <2> QED
    BY <2>1, <2>2
    DEF SecretInv, Shared, Furnished, Lasting, Running, Unset, Unsecured, Loading, Routed
<1> QED
  BY <1>1, <1>2, <1>3, PTL DEF Spec, SecretsKept

----------------------------------------------------------------------------
\* The way of a command.

Rising  == {"contract", "build", "pull cp", "pull dp", "decide", "other", "telemetry", "up", "wait",
            "fixture", "token", "publish"}
Probing == {"anonymous", "initialize", "initialized", "list", "call", "discover", "list stateless",
            "call stateless"}
Leaving == {"compose down", "label", "ended"}

Of(op) == CASE op = "probe"   -> {"login", "issue"} \cup Probing
            [] op = "inspect" -> {"login", "issue", "tool image", "tool client", "tool remove"}
            [] op = "load"    -> {"settings", "login", "issue", "operate", "locust", "collect", "audit"}
            [] op = "live"    -> {"operate"}
            [] OTHER          -> {}

\* The steps a command of each kind may be at.
Track(op) ==
  CASE op = "none"      -> {"ended"}
    [] op = "down"      -> Loading \cup Leaving \cup {"killed"}
    [] op = "reference" -> Loading \cup Working \cup {"clone", "reference", "ended", "killed"}
    [] op = "up"        -> Loading \cup Working \cup Rising \cup Leaving \cup {"clone", "killed"}
    [] OTHER            -> Loading \cup Working \cup Rising \cup Leaving \cup Of(op)
                             \cup {"clone", "prepare", "revoke", "killed"}

OnTrack == /\ at \in Track(command.op)
           /\ at = "fixture" => command.op = "up" \/ ~Routed
           /\ at = "pull cp" => Routed

\* What is asked.
Asked == /\ command.op \in {"none", "up", "down", "probe", "inspect", "load", "live", "reference"}
         /\ IsSession => command.lane \in LaneName /\ ~command.fresh

LEMMA CommandAsked == command \in Request \cup {Nothing} => Asked
  BY RequestAssumption DEF Asked, Askable, AskableOfStack, AskableOfLane, AskableOfLive,
     AskableOfInspect, Nothing, IsSession, LaneName

\* A step keeps to the way and forgets no error.
Flow == OnTrack' /\ failures \subseteq failures'

\* Of a session's steps only those of the stack lead on once it has been revoked; any other ends it
\* with an error before it began.
Steady == IsSession /\ at' \in Leaving => UNCHANGED at \/ (at' = "ended" /\ "config" \in failures')
Leaves == IsSession /\ at' \in Leaving => at \in {"compose down", "label"}

\* A command that ends its work without having done it has failed.
Closing  == {"revoke", "compose down", "label", "ended"}
Clean    == failures \cap {"primary", "config"} = {}
Reported == command.op \in {"probe", "load", "live", "reference"} /\ at' \in Closing /\ Clean' =>
              at \in Closing

\* Only a session that begins its operation, and the probe itself, lead into the probe.
Unprobed == at' \in Probing => UNCHANGED at

\* While a stack is brought up, and while it serves.
Raising == \/ at \in {"contract", "build", "pull cp", "pull dp", "decide", "other", "telemetry", "up"}
           \/ command.op = "up" /\ at \in {"compose down", "label"}
Serving == \/ at \in {"wait", "fixture", "token", "publish", "prepare", "login", "issue", "anonymous",
                     "tool image", "operate"}
           \/ at = "ended" /\ command.op = "up" /\ failures = {}

\* Only the checkouts, or a command without any, lead to a stack; only the stack's steps lead to one
\* that serves.
Unserved == Serving' => Serving
Unraised == /\ Raising' => Raising
            /\ at' \in {"settings", "clone"} => UNCHANGED at

\* The steps at which the image of a routed command is known, and a step that does not lead there.
Resolving == \/ at \in {"pull cp", "pull dp", "decide", "other", "telemetry", "up"}
             \/ command.op = "up" /\ at \in {"compose down", "label"}
Aside     == UNCHANGED at \/ ~Resolving'

LEMMA WorkspaceFlow ==
  ASSUME OnTrack, Asked, WorkspaceNext
  PROVE  Flow /\ Steady /\ Reported /\ Aside /\ Unprobed /\ Unserved
<1> USE DEF OnTrack, Asked, Track, Of, Loading, Working, Rising, Probing, Leaving, Flow, Steady,
          Leaves, Closing, Clean, Reported, Aside, Unprobed, Resolving, Unserved, Unraised,
          Serving, Raising, IsSession, Routed
<1>1. CASE FindAssets
  BY <1>1, ZenonT(30) DEF FindAssets, Goto, AfterAssets, FirstStep, SourceStep, SourcesReady, LoadFails,
     GotoWith
<1>2. CASE Unpack
  BY <1>2 DEF Unpack, Goto, LoadFails, GotoWith
<1>3. CASE Activate
  BY <1>3, ZenonT(30) DEF Activate, Goto, AfterAssets, FirstStep, SourceStep, SourcesReady, LoadFails,
     GotoWith
<1>4. ASSUME NEW f \in SecretFile, ReadFile(f) \/ CreateFile(f) \/ WriteFile(f) \/ RereadFile(f)
      PROVE  Flow /\ Steady /\ Reported /\ Aside /\ Unprobed /\ Unserved
  <2>1. /\ UNCHANGED <<setting, command>>
        /\ \/ at' \in Loading \cup {FirstStep} /\ failures' = failures
           \/ at' = "ended" /\ failures' = failures \cup {"config"}
    <3> USE FileSteps DEF LoadFails, GotoWith, Goto
    <3>1. CASE ReadFile(f)
      BY <3>1 DEF ReadFile, TakeFile
    <3>2. CASE CreateFile(f)
      BY <3>2 DEF CreateFile
    <3>3. CASE WriteFile(f)
      BY <3>3 DEF WriteFile
    <3>4. CASE RereadFile(f)
      BY <3>4 DEF RereadFile, TakeFile
    <3> QED
      BY <1>4, <3>1, <3>2, <3>3, <3>4
  <2>2. FirstStep \in Track(command.op)
    BY WorkspaceLeads DEF FirstStep, SourceStep, SourcesReady
  <2>3. at \in Loading
    BY <1>4, WorkspaceLeads DEF WorkspaceNext
  <2>4. CASE at' \in Loading /\ failures' = failures
    <3>1. UNCHANGED <<setting, command, failures>> /\ at # "ended" /\ at' # "ended"
      BY <2>1, <2>3, <2>4
    <3>2. ~Serving' /\ ~Resolving'
      BY <2>4, <3>1
    <3>3. Flow
      BY <2>3, <2>4, <3>1
    <3>4. Steady /\ Reported
      BY <2>3, <2>4, <3>1
    <3> QED
      BY <2>3, <2>4, <3>1, <3>2, <3>3, <3>4
  <2>5. CASE at' = FirstStep /\ failures' = failures
    BY <2>1, <2>2, <2>3, <2>5 DEF FirstStep, SourceStep, SourcesReady
  <2>6. CASE at' = "ended" /\ failures' = failures \cup {"config"}
    BY <2>1, <2>3, <2>6
  <2> QED
    BY <2>1, <2>4, <2>5, <2>6
<1> QED
  BY <1>1, <1>2, <1>3, <1>4 DEF WorkspaceNext

LEMMA CheckoutFlow ==
  ASSUME OnTrack, Asked, CheckoutNext
  PROVE  Flow /\ Steady /\ Reported /\ Aside /\ Unprobed /\ Unserved
<1> USE DEF OnTrack, Asked, Track, Of, Loading, Working, Rising, Probing, Leaving, Flow, Steady,
          Leaves, Closing, Clean, Reported, Aside, Unprobed, Resolving, Unserved, Unraised,
          Serving, Raising, IsSession, Routed
<1>1. CASE Clone
  BY <1>1 DEF Clone, Goto, CheckoutFails, Fail, GotoWith
<1>2. CASE CheckOrigin
  BY <1>2 DEF CheckOrigin, Goto, CheckoutFails, Fail, GotoWith
<1>3. CASE Stage
  BY <1>3 DEF Stage, Goto, CheckoutFails, Fail, GotoWith
<1>4. CASE MoveAway
  BY <1>4 DEF MoveAway, Goto, CheckoutFails, Fail, GotoWith
<1>5. CASE Install
  BY <1>5 DEF Install, Goto, CheckoutFails, Fail, GotoWith
<1>6. CASE DropOld
  BY <1>6 DEF DropOld, Goto, CheckoutFails, Fail, GotoWith
<1>7. CASE Fetch
  BY <1>7 DEF Fetch, Goto, CheckoutFails, Fail, GotoWith
<1>8. CASE Switch
  BY <1>8, ZenonT(30) DEF Switch, NextSource, Goto, SourcesReady, CheckoutFails, Fail, GotoWith
<1> QED
  BY <1>1, <1>2, <1>3, <1>4, <1>5, <1>6, <1>7, <1>8 DEF CheckoutNext

LEMMA StackFlow ==
  ASSUME OnTrack, Asked, StackNext
  PROVE  /\ Flow /\ Leaves /\ Reported /\ Unprobed /\ Unraised
         /\ Serving' => Serving \/ Raising
<1> USE DEF OnTrack, Asked, Track, Of, Loading, Working, Rising, Probing, Leaving, Flow, Steady,
          Leaves, Closing, Clean, Reported, Aside, Unprobed, Resolving, Unserved, Unraised,
          Serving, Raising, IsSession, Routed
<1>1. CASE ValidateContract
  BY <1>1 DEF ValidateContract, Goto, StackFails, Fail, GotoWith
<1>2. CASE DecideBuild
  BY <1>2 DEF DecideBuild, Goto, StackFails, Fail, GotoWith
<1>3. CASE DecideStandaloneBuild
  BY <1>3 DEF DecideStandaloneBuild, Goto, StackFails, Fail, GotoWith
<1>4. CASE PullControlplane
  BY <1>4 DEF PullControlplane, PullIfChanged, Proceed, Goto, StackFails, Fail, GotoWith
<1>5. CASE PullDataplane
  BY <1>5 DEF PullDataplane, PullIfChanged, Proceed, Goto, StackFails, Fail, GotoWith
<1>6. CASE Decide
  BY <1>6 DEF Decide, Proceed, Goto, StackFails, Fail, GotoWith
<1>7. CASE CheckOther
  BY <1>7 DEF CheckOther, EnsureOtherStopped, Proceed, Goto, StackFails, Fail, GotoWith
<1>8. CASE StartTelemetry
  BY <1>8 DEF StartTelemetry, Goto, StackFails, Fail, GotoWith
<1>9. CASE Up
  BY <1>9 DEF Up, Goto, Fail, GotoWith
<1>10. CASE WaitForEndpoint
  BY <1>10 DEF WaitForEndpoint, Proceed, Goto, AfterUp, StackFails, Fail, GotoWith
<1>11. CASE StartFixture
  BY <1>11 DEF StartFixture, Goto, AfterFixture, Fail, GotoWith
<1>12. CASE StartFastTime
  BY <1>12 DEF StartFastTime, Goto, AfterFixture, Fail, GotoWith
<1>13. CASE ComposeDown
  BY <1>13 DEF ComposeDown, Goto, GotoWith
<1>14. CASE StandaloneDown
  <2>1. at = "compose down" /\ UNCHANGED <<setting, command>>
    BY <1>14 DEF StandaloneDown, Goto, GotoWith
  <2>2. CASE at' = "label" /\ failures \subseteq failures'
    BY <2>1, <2>2
  <2>3. CASE at' = AfterSweep(TRUE) /\ failures' = failures \cup {"cleanup"}
    BY <2>1, <2>3 DEF AfterSweep
  <2> QED
    BY <1>14, <2>2, <2>3 DEF StandaloneDown, Goto, GotoWith
<1>15. CASE RemoveByLabel
  <2>1. at = "label" /\ UNCHANGED <<setting, command>>
    BY <1>15 DEF RemoveByLabel, Goto, GotoWith
  <2>2. CASE at' = AfterSweep(FALSE) /\ failures' = failures
    BY <2>1, <2>2 DEF AfterSweep
  <2>3. CASE at' = AfterSweep(TRUE) /\ failures' = failures \cup {"cleanup"}
    BY <2>1, <2>3 DEF AfterSweep
  <2> QED
    BY <1>15, <2>2, <2>3 DEF RemoveByLabel, Goto, GotoWith
<1> QED
  BY <1>1, <1>2, <1>3, <1>4, <1>5, <1>6, <1>7, <1>8, <1>9, <1>10, <1>11, <1>12, <1>13, <1>14,
        <1>15 DEF StackNext

LEMMA ProbeFlow ==
  ASSUME OnTrack, Asked, ProbeNext
  PROVE  Flow /\ Steady /\ Aside /\ Unserved /\ Unraised /\ command.op = "probe"
<1> USE DEF OnTrack, Asked, Track, Of, Loading, Working, Rising, Probing, Leaving, Flow, Steady,
          Leaves, Closing, Clean, Reported, Aside, Unprobed, Resolving, Unserved, Unraised,
          Serving, Raising, IsSession, Routed
<1>1. CASE Anonymous
  BY <1>1 DEF Anonymous, ProbeGoto, Proceed, Goto, ProbeFails, StackFails, Fail, GotoWith
<1>2. CASE Initialize
  BY <1>2 DEF Initialize, ProbeGoto, Proceed, Goto, ProbeFails, StackFails, Fail, GotoWith
<1>3. CASE Initialized
  BY <1>3 DEF Initialized, ProbeGoto, Proceed, Goto, ProbeFails, StackFails, Fail, GotoWith
<1>4. CASE ListTools
  BY <1>4 DEF ListTools, ProbeGoto, Proceed, Goto, AfterList, ProbeFails, StackFails, Fail,
     GotoWith
<1>5. CASE CallTool
  BY <1>5 DEF CallTool, ProbeGoto, Proceed, Goto, ProbeFails, StackFails, Fail, GotoWith
<1>6. CASE AnonymousStateless
  BY <1>6 DEF AnonymousStateless, ProbeGoto, Proceed, Goto, ProbeFails, StackFails, Fail, GotoWith
<1>7. CASE Discover
  BY <1>7 DEF Discover, ProbeGoto, Proceed, Goto, ProbeFails, StackFails, Fail, GotoWith
<1>8. CASE ListStateless
  BY <1>8 DEF ListStateless, ProbeGoto, Proceed, Goto, AfterList, ProbeFails, StackFails, Fail,
     GotoWith
<1>9. CASE CallStateless
  BY <1>9 DEF CallStateless, ProbeGoto, Proceed, Goto, ProbeFails, StackFails, Fail, GotoWith
<1>10. CASE MockedCatalog
  BY <1>10 DEF MockedCatalog, ProbeGoto, Proceed, Goto, AfterList
<1> QED
  BY <1>1, <1>2, <1>3, <1>4, <1>5, <1>6, <1>7, <1>8, <1>9, <1>10 DEF ProbeNext

LEMMA ToolFlow ==
  ASSUME OnTrack, Asked, ToolNext
  PROVE  Flow /\ Steady /\ Reported /\ Aside /\ Unprobed /\ Unserved /\ Unraised
<1> USE DEF OnTrack, Asked, Track, Of, Loading, Working, Rising, Probing, Leaving, Flow, Steady,
          Leaves, Closing, Clean, Reported, Aside, Unprobed, Resolving, Unserved, Unraised,
          Serving, Raising, IsSession, Routed
<1>1. CASE PrepareTool
  BY <1>1 DEF PrepareTool, Goto, Fail, GotoWith
<1>2. CASE ToolStarts
  BY <1>2 DEF ToolStarts, commandVars
<1>3. CASE ToolClientReturns
  BY <1>3 DEF ToolClientReturns, Goto, GotoWith
<1>4. CASE ToolClientKilled
  BY <1>4 DEF ToolClientKilled, GotoWith
<1>5. CASE RemoveTool
  BY <1>5 DEF RemoveTool, Goto, GotoWith
<1>6. CASE LateCreate
  BY <1>6 DEF LateCreate, commandVars
<1> QED
  BY <1>1, <1>2, <1>3, <1>4, <1>5, <1>6 DEF ToolNext

LEMMA WorkloadFlow ==
  ASSUME OnTrack, Asked, WorkloadNext
  PROVE  /\ Flow /\ Steady /\ Aside /\ Unserved /\ (Unraised \/ SettleLoad)
         /\ command.op \in {"load", "live", "reference"}
<1> USE DEF OnTrack, Asked, Track, Of, Loading, Working, Rising, Probing, Leaving, Flow, Steady,
          Leaves, Closing, Clean, Reported, Aside, Unprobed, Resolving, Unserved, Unraised,
          Serving, Raising, IsSession, Routed
<1>1. CASE SettleLoad
  BY <1>1 DEF SettleLoad, Goto, SourceStep, SourcesReady, LoadFails, GotoWith
<1>2. CASE PrepareLocust
  BY <1>2 DEF PrepareLocust, Goto, Fail, GotoWith
<1>3. CASE RunLocust
  BY <1>3 DEF RunLocust, Goto, Fail, GotoWith
<1>4. CASE CollectReports
  BY <1>4 DEF CollectReports, Goto
<1>5. CASE AuditReports
  BY <1>5 DEF AuditReports, Fail, GotoWith, WorkloadGoto, Goto
<1>6. CASE RunGroup
  BY <1>6 DEF RunGroup, commandVars
<1>7. CASE CombineResults
  BY <1>7 DEF CombineResults, Fail, GotoWith, Goto
<1>8. CASE RunReference
  BY <1>8 DEF RunReference, Fail, GotoWith, Goto
<1> QED
  BY <1>1, <1>2, <1>3, <1>4, <1>5, <1>6, <1>7, <1>8 DEF WorkloadNext

LEMMA SessionFlow ==
  ASSUME OnTrack, Asked, SessionNext /\ ~Revoke
  PROVE  Flow /\ Steady /\ Reported /\ Aside /\ Unserved /\ Unraised
<1> USE DEF OnTrack, Asked, Track, Of, Loading, Working, Rising, Probing, Leaving, Flow, Steady,
          Leaves, Closing, Clean, Reported, Aside, Unprobed, Resolving, Unserved, Unraised,
          Serving, Raising, IsSession, Routed
<1>1. CASE Prepare
  BY <1>1 DEF Prepare, Operate, Goto, OperationStep, Fail, GotoWith
<1>2. CASE AdminLogin
  <2>1. CASE at' = "issue" /\ UNCHANGED <<setting, command, failures>>
    BY <1>2, <2>1 DEF AdminLogin
  <2>2. CASE Operate
    BY <1>2, <2>2 DEF AdminLogin, Operate, Goto, OperationStep
  <2>3. CASE Fail
    BY <1>2, <2>3 DEF AdminLogin, Fail, GotoWith
  <2> QED
    BY <1>2, <2>1, <2>2, <2>3 DEF AdminLogin, Goto
<1>3. CASE IssueToken
  <2>1. CASE Operate
    BY <1>3, <2>1 DEF IssueToken, Operate, Goto, OperationStep
  <2>2. CASE Fail
    BY <1>3, <2>2 DEF IssueToken, Fail, GotoWith
  <2> QED
    BY <1>3, <2>1, <2>2 DEF IssueToken
<1>4. CASE StandaloneToken
  BY <1>4 DEF StandaloneToken, Goto, Fail, GotoWith
<1>5. CASE PublishFixture
  <2>1. CASE IsSession /\ Operate
    BY <1>5, <2>1 DEF PublishFixture, Operate, Goto, OperationStep
  <2>2. CASE ~IsSession /\ Goto("ended")
    BY <1>5, <2>2 DEF PublishFixture, Goto
  <2>3. CASE Fail
    BY <1>5, <2>3 DEF PublishFixture, Fail, GotoWith
  <2> QED
    BY <1>5, <2>1, <2>2, <2>3 DEF PublishFixture
<1>6. CASE PublishFastTime
  <2>1. CASE Operate
    BY <1>6, <2>1 DEF PublishFastTime, Operate, Goto, OperationStep
  <2>2. CASE Fail
    BY <1>6, <2>2 DEF PublishFastTime, Fail, GotoWith
  <2> QED
    BY <1>6, <2>1, <2>2 DEF PublishFastTime
<1> QED
  BY <1>1, <1>2, <1>3, <1>4, <1>5, <1>6 DEF SessionNext


----------------------------------------------------------------------------
\* Types.

Revision   == 0..MaxRevision
Containers == [up : {"none", "some", "full"}, files : SUBSET ComposeFile, cp : Revision, dp : Revision,
               tool : {"none", "created", "running"}]
Directory  == [origin : {"absent", "none", "configured", "other"}, fetched : Revision, head : Revision]
Neighbours == [fresh : BOOLEAN, old : Directory]
Images     == [cp : SUBSET (1..MaxRevision), dp : Revision]
Outcome    == [left : 0..3, failed : BOOLEAN, worker : BOOLEAN, tainted : BOOLEAN, unread : BOOLEAN]

CommandTypes == /\ setting \in Setting /\ command \in Request \cup {Nothing} /\ failures \subseteq Failure
                /\ commands \in 0..MaxCommands /\ surprises \in 0..MaxSurprises
WorkspaceTypes == /\ assets \in {"absent", "complete", "other"} /\ unpacked \in BOOLEAN
                  /\ file \in [SecretFile -> Content]
                  /\ mine \in [SecretFile -> {"none", "empty", "ours", "theirs"}]
CheckoutTypes == /\ upstream \in [Source -> 1..MaxRevision] /\ tree \in [Source -> Directory]
                 /\ beside \in [Source -> Neighbours]
StackTypes == /\ published \in 1..MaxRevision /\ wanted \in Revision
              /\ local \in Images
              /\ build \in BOOLEAN /\ telemetry \in BOOLEAN
              /\ stack \in [LaneName -> Containers]
              /\ data \in [LaneName -> {"none", "old", "new"}]
WorkTypes == /\ target \in Target /\ outcome \in Outcome
             /\ cancelled \in BOOLEAN /\ late \in BOOLEAN
SessionTypes == /\ token \in {"none", "live", "revoked"} /\ held \in BOOLEAN /\ disturbed \in BOOLEAN

\* A routed command has its image from the moment it builds until the stack is up.
Resolved == Resolving /\ Routed => wanted # 0

TypeInv == /\ CommandTypes /\ WorkspaceTypes /\ CheckoutTypes
           /\ StackTypes /\ WorkTypes /\ SessionTypes
           /\ OnTrack /\ Resolved

LEMMA TypeInvTypes == TypeInv => TypeOK
  BY DEF TypeInv, TypeOK, CommandTypes, WorkspaceTypes, CheckoutTypes, StackTypes, WorkTypes,
     SessionTypes, Revision, Containers, Directory, Neighbours, Images, Outcome, Failure

LEMMA TypeInvInit == Init => TypeInv
<1> SUFFICES ASSUME Init PROVE TypeInv
  OBVIOUS
<1> USE RevisionAssumption, BoundsAssumption
<1>1. CommandTypes
  BY DEF Init, CommandInit, CommandTypes
<1>2. WorkspaceTypes
  BY DEF Init, WorkspaceInit, WorkspaceTypes, Content
<1>3. CheckoutTypes
  BY DEF Init, CheckoutInit, CheckoutTypes, Directory, Neighbours, Absent, Alone, Revision
<1>4. StackTypes
  <2>1. Down \in Containers /\ [cp |-> {}, dp |-> 0] \in Images
    BY DEF Down, Containers, Images, Revision
  <2>2. 1 \in 1..MaxRevision /\ 0 \in Revision
    BY DEF Revision
  <2> QED
    BY <2>1, <2>2 DEF Init, StackInit, StackTypes
<1>5. WorkTypes
  <2>1. Innocent \in Target /\ NoOutcome \in Outcome
    BY DEF Innocent, Target, NoOutcome, Outcome
  <2> QED
    BY <2>1 DEF Init, ProbeInit, ToolInit, WorkloadInit, WorkTypes
<1>6. SessionTypes
  BY DEF Init, SessionTypes
<1>7. OnTrack /\ Resolved
  BY DEF Init, CommandInit, Nothing, OnTrack, Track, Resolved, Resolving
<1> QED
  BY <1>1, <1>2, <1>3, <1>4, <1>5, <1>6, <1>7 DEF TypeInv

LEMMA WorkspaceTypesStep == WorkspaceTypes /\ WorkspaceNext => WorkspaceTypes'
<1> SUFFICES ASSUME WorkspaceTypes, WorkspaceNext PROVE WorkspaceTypes'
  OBVIOUS
<1> USE DEF WorkspaceTypes
<1>1. CASE FindAssets
  BY <1>1 DEF FindAssets, Goto, LoadFails, GotoWith, workspaceVars
<1>2. CASE Unpack
  BY <1>2 DEF Unpack, Goto, LoadFails, GotoWith
<1>3. CASE Activate
  BY <1>3 DEF Activate, Goto, LoadFails, GotoWith
<1>4. ASSUME NEW f \in SecretFile, ReadFile(f) \/ CreateFile(f) \/ WriteFile(f) \/ RereadFile(f)
      PROVE  WorkspaceTypes'
  BY <1>4 DEF ReadFile, CreateFile, WriteFile, RereadFile, TakeFile, Written, Content
<1> QED
  BY <1>1, <1>2, <1>3, <1>4 DEF WorkspaceNext

LEMMA CheckoutTypesStep == CheckoutTypes /\ CheckoutNext => CheckoutTypes'
<1> SUFFICES ASSUME CheckoutTypes, CheckoutNext PROVE CheckoutTypes'
  OBVIOUS
<1> USE RevisionAssumption DEF CheckoutTypes
<1>a. Absent \in Directory /\ Alone \in Neighbours
  BY DEF Neighbours, Absent, Alone, Directory, Revision
<1>b. src \in Source => Cloned(src) \in Directory /\ tree[src] \in Directory
                        /\ upstream[src] \in Revision /\ beside[src].old \in Directory
                        /\ tree[src].fetched \in Revision /\ tree[src].head \in Revision
  BY DEF Cloned, Directory, Neighbours, Revision
<1>1. CASE Clone
  BY <1>1, <1>b DEF Clone, CheckoutFails, Fail, GotoWith
<1>2. CASE CheckOrigin
  BY <1>2, <1>a, <1>b DEF CheckOrigin, Goto, CheckoutFails, Fail, GotoWith
<1>3. CASE Stage
  <2>1. UNCHANGED <<upstream, tree>> /\ beside' \in {beside, [beside EXCEPT ![src].fresh = TRUE]}
    BY <1>3 DEF Stage
  <2>2. beside' \in [Source -> Neighbours]
    <3>1. CASE UNCHANGED beside
      BY <3>1
    <3>2. CASE beside' = [beside EXCEPT ![src].fresh = TRUE]
      BY <3>2 DEF Neighbours
    <3> QED
      BY <2>1, <3>1, <3>2
  <2> QED
    BY <2>1, <2>2
<1>4. CASE MoveAway
  <2>1. UNCHANGED upstream
    BY <1>4 DEF MoveAway
  <2>2. tree' \in {tree, [tree EXCEPT ![src] = Absent]}
    BY <1>4 DEF MoveAway
  <2>3. beside' \in {[beside EXCEPT ![src].old = tree[src]], [beside EXCEPT ![src].fresh = FALSE]}
    BY <1>4 DEF MoveAway
  <2>4. tree' \in [Source -> Directory]
    <3>1. CASE UNCHANGED tree
      BY <3>1, <1>a
    <3>2. CASE tree' = [tree EXCEPT ![src] = Absent]
      BY <3>2, <1>a
    <3> QED
      BY <2>2, <3>1, <3>2
  <2>5. beside' \in [Source -> Neighbours]
    <3>1. CASE beside' = [beside EXCEPT ![src].old = tree[src]]
      BY <3>1, <1>b DEF Neighbours
    <3>2. CASE beside' = [beside EXCEPT ![src].fresh = FALSE]
      BY <3>2, <1>b DEF Neighbours
    <3> QED
      BY <2>3, <3>1, <3>2
  <2> QED
    BY <2>1, <2>4, <2>5
<1>5. CASE Install
  <2>1. UNCHANGED upstream
    BY <1>5 DEF Install
  <2>2. tree' \in {tree, [tree EXCEPT ![src] = Cloned(src)], [tree EXCEPT ![src] = beside[src].old]}
    BY <1>5 DEF Install
  <2>3. beside' \in {beside, [beside EXCEPT ![src].fresh = FALSE], [beside EXCEPT ![src] = Alone]}
    BY <1>5 DEF Install
  <2>4. tree' \in [Source -> Directory]
    <3>1. CASE UNCHANGED tree
      BY <3>1, <1>b
    <3>2. CASE tree' = [tree EXCEPT ![src] = Cloned(src)]
      BY <3>2, <1>b
    <3>3. CASE tree' = [tree EXCEPT ![src] = beside[src].old]
      BY <3>3, <1>b
    <3> QED
      BY <2>2, <3>1, <3>2, <3>3
  <2>5. beside' \in [Source -> Neighbours]
    <3>1. CASE UNCHANGED beside
      BY <3>1, <1>a
    <3>2. CASE beside' = [beside EXCEPT ![src].fresh = FALSE]
      BY <3>2, <1>a DEF Neighbours
    <3>3. CASE beside' = [beside EXCEPT ![src] = Alone]
      BY <3>3, <1>a DEF Neighbours
    <3> QED
      BY <2>3, <3>1, <3>2, <3>3
  <2> QED
    BY <2>1, <2>4, <2>5
<1>6. CASE DropOld
  BY <1>6, <1>a DEF DropOld, Neighbours
<1>7. CASE Fetch
  <2>1. tree' \in {tree, [tree EXCEPT ![src].fetched = upstream[src]]} /\ UNCHANGED <<upstream, beside>>
    BY <1>7 DEF Fetch
  <2>2. tree' \in [Source -> Directory]
    <3>1. CASE UNCHANGED tree
      BY <3>1, <1>b
    <3>2. CASE tree' = [tree EXCEPT ![src].fetched = upstream[src]]
      BY <3>2, <1>b DEF Directory
    <3> QED
      BY <2>1, <3>1, <3>2
  <2> QED
    BY <2>1, <2>2
<1>8. CASE Switch
  <2> DEFINE new == IF setting.generated \/ tree[src].head = 0 THEN tree[src].fetched ELSE tree[src].head
  <2>1. tree' \in {tree, [tree EXCEPT ![src].head = new]} /\ UNCHANGED <<upstream, beside>>
    BY <1>8 DEF Switch
  <2>2. tree' \in [Source -> Directory]
    <3>1. CASE UNCHANGED tree
      BY <3>1, <1>b
    <3>2. CASE tree' = [tree EXCEPT ![src].head = new]
      BY <3>2, <1>b DEF Directory
    <3> QED
      BY <2>1, <3>1, <3>2
  <2> QED
    BY <2>1, <2>2
<1> QED
  BY <1>1, <1>2, <1>3, <1>4, <1>5, <1>6, <1>7, <1>8 DEF CheckoutNext

LEMMA ResolvedStep ==
  ASSUME Resolved, OnTrack, CheckoutTypes, StackNext
  PROVE  Resolved'
<1>a. Routed /\ ComposeEnvironment => wanted' # 0
  <2>1. tree["controlplane"].fetched \in Nat
    BY RevisionAssumption, SourceAssumption DEF CheckoutTypes, Directory, Revision
  <2>2. \A r \in Resolvable : r # 0
    BY <2>1 DEF Resolvable
  <2> QED
    BY <2>2 DEF ComposeEnvironment
<1> USE DEF Resolved, Resolving, OnTrack, Routed
<1>1. CASE ValidateContract
  BY <1>1, <1>a DEF ValidateContract, Goto, StackFails, Fail, GotoWith, IsSession, stackVars
<1>2. CASE DecideBuild
  BY <1>2, <1>a DEF DecideBuild, Goto, StackFails, Fail, GotoWith, IsSession, stackVars
<1>3. CASE DecideStandaloneBuild
  BY <1>3, <1>a DEF DecideStandaloneBuild, Goto, StackFails, Fail, GotoWith, IsSession, stackVars
<1>4. CASE PullControlplane
  BY <1>4, <1>a DEF PullControlplane, PullIfChanged, Proceed, Goto, stackVars, StackFails, Fail,
     GotoWith, IsSession
<1>5. CASE PullDataplane
  BY <1>5, <1>a DEF PullDataplane, PullIfChanged, Proceed, Goto, stackVars, StackFails, Fail,
     GotoWith, IsSession
<1>6. CASE Decide
  BY <1>6, <1>a DEF Decide, Proceed, Goto, stackVars, StackFails, Fail, GotoWith, IsSession
<1>7. CASE CheckOther
  BY <1>7, <1>a DEF CheckOther, EnsureOtherStopped, Proceed, Goto, stackVars, StackFails, Fail,
     GotoWith, IsSession
<1>8. CASE StartTelemetry
  BY <1>8, <1>a DEF StartTelemetry, Goto, StackFails, Fail, GotoWith, IsSession, stackVars
<1>9. CASE Up
  BY <1>9, <1>a DEF Up, Goto, Fail, GotoWith, IsSession
<1>10. CASE WaitForEndpoint
  BY <1>10, <1>a DEF WaitForEndpoint, Proceed, Goto, stackVars, AfterUp, StackFails, Fail,
     GotoWith, IsSession
<1>11. CASE StartFixture
  BY <1>11, <1>a DEF StartFixture, Goto, AfterFixture, Fail, GotoWith, IsSession
<1>12. CASE StartFastTime
  BY <1>12, <1>a DEF StartFastTime, Goto, AfterFixture, Fail, GotoWith, IsSession
<1>13. CASE ComposeDown
  BY <1>13, <1>a DEF ComposeDown, Goto, GotoWith
<1>14. CASE StandaloneDown
  BY <1>14, <1>a DEF StandaloneDown, Goto, GotoWith, AfterSweep
<1>15. CASE RemoveByLabel
  BY <1>15, <1>a DEF RemoveByLabel, Goto, AfterSweep, GotoWith
<1> QED
  BY <1>1, <1>2, <1>3, <1>4, <1>5, <1>6, <1>7, <1>8, <1>9, <1>10, <1>11, <1>12, <1>13, <1>14,
        <1>15 DEF StackNext

\* Marking a lane as partly up leaves a lane of containers.
LEMMA PartlyUp ==
  ASSUME stack \in [LaneName -> Containers], NEW l
  PROVE  [stack EXCEPT ![l].up = "some"] \in [LaneName -> Containers]
<1>1. ASSUME NEW c \in Containers
      PROVE  [c EXCEPT !.up = "some"] \in Containers
  BY <1>1 DEF Containers
<1> DEFINE part == [stack[l] EXCEPT !.up = "some"]
<1>2. l \in LaneName => part \in Containers
  BY <1>1
<1>3. [stack EXCEPT ![l].up = "some"] = [stack EXCEPT ![l] = part]
  OBVIOUS
<1> HIDE DEF part
<1> QED
  BY <1>2, <1>3

LEMMA StackTypesStep ==
  ASSUME CommandTypes, StackTypes, CheckoutTypes, OnTrack, Resolved, StackNext
  PROVE  StackTypes'
<1> USE RevisionAssumption, SourceAssumption DEF StackTypes
<1>a. ComposeEnvironment => wanted' \in Revision
  BY DEF ComposeEnvironment, Resolvable, CheckoutTypes, Directory, Revision
<1>b. upstream["dataplane"] \in Revision /\ SourceRevision \in Revision
  BY DEF CheckoutTypes, Directory, SourceRevision, Revision
<1>c. Down \in Containers
  BY DEF Down, Containers, Revision
<1>d. ASSUME NEW l, Swept(l)
      PROVE  stack' \in [LaneName -> Containers] /\ data' \in [LaneName -> {"none", "old", "new"}]
  BY <1>c, <1>d DEF Swept
<1>e. ASSUME NEW l, Partly(l) PROVE stack' \in [LaneName -> Containers]
  <2>1. stack' \in {stack, [stack EXCEPT ![l].up = "some"]}
    BY <1>e DEF Partly
  <2>2. stack' \in [LaneName -> Containers]
    <3>1. CASE UNCHANGED stack
      BY <3>1
    <3>2. CASE stack' = [stack EXCEPT ![l].up = "some"]
      BY <3>2, PartlyUp
    <3> QED
      BY <2>1, <3>1, <3>2
  <2> QED
    BY <2>2
<1>f. Started => stack' \in [LaneName -> Containers]
  <2> SUFFICES ASSUME Started PROVE stack' \in [LaneName -> Containers]
    OBVIOUS
  <2>1. Lane \in LaneName => stack[Lane].up \in {"none", "some", "full"}
    BY DEF Containers
  <2>2. CASE Lane \in LaneName
    BY <2>1, <2>2 DEF Started, Containers
  <2>3. CASE Lane \notin LaneName
    BY <2>3 DEF Started
  <2> QED
    BY <2>2, <2>3
<1>1. CASE ValidateContract
  BY <1>1, <1>a, <1>b, <1>c DEF ValidateContract, ComposeEnvironment, Resolvable, Goto,
     KeepsStack, StackFails, Fail, GotoWith, stackVars
<1>2. CASE DecideBuild
  BY <1>2, <1>a, <1>b, <1>c DEF DecideBuild, ComposeEnvironment, Resolvable, ResolveBuild,
     SourceRevision, Goto, KeepsStack, StackFails, Fail, GotoWith, stackVars
<1>3. CASE DecideStandaloneBuild
  BY <1>3, <1>a, <1>b, <1>c DEF DecideStandaloneBuild, ResolveBuild, SourceRevision, Goto,
     KeepsStack, StackFails, Fail, GotoWith, stackVars
<1>4. CASE PullControlplane
  <2>1. UNCHANGED <<published, wanted, build, stack, data, telemetry>>
    BY <1>4 DEF PullControlplane, PullIfChanged, Proceed, StackFails, stackVars
  <2>2. local' \in {local, [local EXCEPT !.cp = @ \cup {wanted}]}
    BY <1>4 DEF PullControlplane, PullIfChanged, Proceed, StackFails, stackVars
  <2>3. wanted \in 1..MaxRevision
    <3>1. wanted # 0
      BY <1>4 DEF PullControlplane, Resolved, Resolving, OnTrack
    <3> QED
      BY <3>1 DEF Revision
  <2>4. local' \in Images
    <3>1. CASE UNCHANGED local
      BY <3>1, <2>3
    <3>2. CASE local' = [local EXCEPT !.cp = @ \cup {wanted}]
      BY <3>2, <2>3 DEF Images
    <3> QED
      BY <2>2, <3>1, <3>2
  <2> QED
    BY <2>1, <2>4
<1>5. CASE PullDataplane
  <2>1. UNCHANGED <<published, wanted, build, stack, data, telemetry>>
    BY <1>5 DEF PullDataplane, PullIfChanged, Proceed, StackFails, stackVars
  <2>2. local' \in {local, [local EXCEPT !.dp = upstream["dataplane"]]}
    BY <1>5 DEF PullDataplane, PullIfChanged, Proceed, StackFails, stackVars
  <2>3. local' \in Images
    BY <1>b, <2>2 DEF Images
  <2> QED
    BY <2>1, <2>3
<1>6. CASE Decide
  BY <1>6, <1>a, <1>b, <1>c DEF Decide, SourceRevision, Proceed, Goto, stackVars, StackFails,
     Fail, GotoWith
<1>7. CASE CheckOther
  BY <1>7, <1>a, <1>b, <1>c DEF CheckOther, EnsureOtherStopped, Proceed, Goto, stackVars,
     StackFails, Fail, GotoWith
<1>8. CASE StartTelemetry
  BY <1>8, <1>a, <1>b, <1>c DEF StartTelemetry, Goto, StackFails, Fail, GotoWith, stackVars
<1>9. CASE Up
  <2>1. UNCHANGED <<published, wanted, build, telemetry>>
    BY <1>9 DEF Up
  <2>2. Prepared \in Images
    <3>1. Routed => wanted \in 1..MaxRevision
      BY <1>9 DEF Up, Resolved, Resolving, Revision
    <3>2. local.dp \in Revision /\ local.cp \in SUBSET (1..MaxRevision)
      BY DEF Images
    <3>3. Prepared.cp \in SUBSET (1..MaxRevision)
      BY <3>1, <3>2 DEF Prepared
    <3>4. Prepared.dp \in Revision
      <4>1. setting.source \in BOOLEAN /\ setting.pull \in {"always", "never"}
        BY SettingAssumption DEF CommandTypes, Configured
      <4> QED
        BY <1>b, <3>2, <4>1 DEF Prepared
    <3> QED
      BY <3>3, <3>4 DEF Prepared, Images
  <2>3. local' \in {local, Prepared}
    BY <1>9 DEF Up
  <2>4. data' \in [LaneName -> {"none", "old", "new"}]
    BY <1>9 DEF Up, NewData
  <2>5. stack' \in [LaneName -> Containers]
    <3>1. ASSUME Lane \in LaneName
          PROVE  [stack[Lane] EXCEPT !.up = "full", !.files = ProjectFiles, !.cp = wanted,
                                     !.dp = IF External THEN Prepared.dp ELSE 0] \in Containers
      <4>1. ProjectFiles \subseteq ComposeFile
        BY DEF ProjectFiles, RuntimeProject, PerformanceProject, StandaloneProject, Observed,
           RoutedProject,
           DataplaneFiles, SourceFiles, ControlplaneFiles, StandaloneFiles, ComposeFile
      <4>2. Prepared.dp \in Revision /\ 0 \in Revision
        BY <2>2 DEF Images, Revision
      <4> QED
        BY <3>1, <4>1, <4>2 DEF Containers
    <3> DEFINE whole == [stack[Lane] EXCEPT !.up = "full", !.files = ProjectFiles, !.cp = wanted,
                                            !.dp = IF External THEN Prepared.dp ELSE 0]
    <3>2. stack' \in {stack, [stack EXCEPT ![Lane].up = "some"], [stack EXCEPT ![Lane] = whole]}
      BY <1>9 DEF Up
    <3>3. Lane \in LaneName => whole \in Containers
      BY <3>1
    <3> HIDE DEF whole
    <3>4. CASE UNCHANGED stack
      BY <3>4
    <3>5. CASE stack' = [stack EXCEPT ![Lane].up = "some"]
      BY <3>5, PartlyUp
    <3>6. CASE stack' = [stack EXCEPT ![Lane] = whole]
      BY <3>3, <3>6
    <3> QED
      BY <3>2, <3>4, <3>5, <3>6
  <2> QED
    BY <2>1, <2>2, <2>3, <2>4, <2>5
<1>10. CASE WaitForEndpoint
  BY <1>10, <1>a, <1>b, <1>c DEF WaitForEndpoint, Proceed, Goto, stackVars, StackFails, Fail,
     GotoWith
<1>11. CASE StartFixture
  BY <1>11, <1>f DEF StartFixture
<1>12. CASE StartFastTime
  BY <1>12, <1>f DEF StartFastTime
<1>13. CASE ComposeDown
  BY <1>13, <1>a, <1>d, <1>e DEF ComposeDown
<1>14. CASE StandaloneDown
  BY <1>14, <1>d, <1>e DEF StandaloneDown
<1>15. CASE RemoveByLabel
  BY <1>15, <1>d, <1>e DEF RemoveByLabel
<1> QED
  BY <1>1, <1>2, <1>3, <1>4, <1>5, <1>6, <1>7, <1>8, <1>9, <1>10, <1>11, <1>12, <1>13, <1>14,
        <1>15 DEF StackNext

LEMMA ToolTypesStep ==
  StackTypes /\ WorkTypes /\ ToolNext => /\ StackTypes' /\ UNCHANGED <<target, wanted>>
         /\ cancelled' \in BOOLEAN /\ late' \in BOOLEAN
<1> SUFFICES ASSUME StackTypes, WorkTypes, ToolNext
             PROVE  /\ StackTypes' /\ UNCHANGED <<target, wanted>>
         /\ cancelled' \in BOOLEAN /\ late' \in BOOLEAN
  OBVIOUS
<1> USE DEF StackTypes, WorkTypes
<1>a. ASSUME NEW v \in {"none", "created", "running"}, ToolIs(v)
      PROVE  stack' \in [LaneName -> Containers]
  BY <1>a, ZenonT(30) DEF ToolIs, Containers
<1>1. CASE PrepareTool
  BY <1>1, <1>a DEF PrepareTool, Goto, Fail, GotoWith, toolVars, KeepsTool, Elsewhere
<1>2. CASE ToolStarts
  BY <1>2, <1>a DEF ToolStarts, Tool, commandVars, toolVars, Elsewhere
<1>3. CASE ToolClientReturns
  BY <1>3, <1>a DEF ToolClientReturns, Tool, Goto, GotoWith, KeepsTool, toolVars,
     Elsewhere
<1>4. CASE ToolClientKilled
  BY <1>4, <1>a DEF ToolClientKilled, GotoWith, Tool, KeepsTool, Elsewhere
<1>5. CASE RemoveTool
  BY <1>5, <1>a DEF RemoveTool, Goto, GotoWith, KeepsTool, toolVars, Elsewhere
<1>6. CASE LateCreate
  BY <1>6, <1>a DEF LateCreate, Tool, commandVars, Elsewhere
<1> QED
  BY <1>1, <1>2, <1>3, <1>4, <1>5, <1>6 DEF ToolNext

LEMMA ProbeTypesStep == target \in Target /\ (ProbeNext \/ BecomesReady) => target' \in Target /\ UNCHANGED stackVars
<1> SUFFICES ASSUME target \in Target, ProbeNext \/ BecomesReady PROVE target' \in Target /\ UNCHANGED stackVars
  OBVIOUS
<1>1. CASE Anonymous
  BY <1>1 DEF Anonymous, ProbeGoto, Proceed, Goto, ProbeFails, StackFails, Fail,
     GotoWith
<1>2. CASE Initialize
  BY <1>2 DEF Initialize, ProbeGoto, Proceed, Goto, ProbeFails, StackFails, Fail,
     GotoWith
<1>3. CASE Initialized
  BY <1>3 DEF Initialized, ProbeGoto, Proceed, Goto, ProbeFails, StackFails, Fail,
     GotoWith
<1>4. CASE ListTools
  BY <1>4 DEF ListTools, ProbeGoto, Proceed, Goto, ProbeFails, StackFails, Fail,
     GotoWith
<1>5. CASE CallTool
  BY <1>5 DEF CallTool, ProbeGoto, Proceed, Goto, ProbeFails, StackFails, Fail,
     GotoWith
<1>6. CASE AnonymousStateless
  BY <1>6 DEF AnonymousStateless, ProbeGoto, Proceed, Goto, ProbeFails, StackFails,
     Fail, GotoWith
<1>7. CASE Discover
  BY <1>7 DEF Discover, ProbeGoto, Proceed, Goto, ProbeFails, StackFails, Fail,
     GotoWith
<1>8. CASE ListStateless
  BY <1>8 DEF ListStateless, ProbeGoto, Proceed, Goto, ProbeFails, StackFails, Fail,
     GotoWith
<1>9. CASE CallStateless
  BY <1>9 DEF CallStateless, ProbeGoto, Proceed, Goto, ProbeFails, StackFails, Fail,
     GotoWith
<1>10. CASE MockedCatalog
  BY <1>10 DEF MockedCatalog, ProbeGoto, Proceed, Goto
<1>11. CASE BecomesReady
  BY <1>11 DEF BecomesReady, Target
<1> QED
  BY <1>1, <1>2, <1>3, <1>4, <1>5, <1>6, <1>7, <1>8, <1>9, <1>10, <1>11 DEF ProbeNext

LEMMA WorkloadTypesStep == outcome \in Outcome /\ WorkloadNext => outcome' \in Outcome
<1> SUFFICES ASSUME outcome \in Outcome, WorkloadNext PROVE outcome' \in Outcome
  OBVIOUS
<1> USE DEF Outcome
<1>1. CASE SettleLoad
  BY <1>1 DEF SettleLoad, Goto, LoadFails, GotoWith
<1>2. CASE PrepareLocust
  BY <1>2 DEF PrepareLocust, Goto, Fail, GotoWith
<1>3. CASE RunLocust
  <2>1. NoOutcome \in Outcome
    BY DEF NoOutcome
  <2>2. CASE UNCHANGED outcome
    BY <2>2
  <2>3. ASSUME NEW f \in BOOLEAN, NEW w \in BOOLEAN, NEW t \in BOOLEAN,
               outcome' = [NoOutcome EXCEPT !.failed = f, !.worker = w, !.tainted = t]
        PROVE  outcome' \in Outcome
    BY <2>1, <2>3
  <2> QED
    BY <1>3, <2>2, <2>3 DEF RunLocust
<1>4. CASE CollectReports
  BY <1>4 DEF CollectReports, Goto
<1>5. CASE AuditReports
  BY <1>5 DEF AuditReports, Fail, GotoWith, WorkloadGoto, Goto
<1>6. CASE RunGroup
  <2>1. PICK bad \in BOOLEAN : outcome' = [outcome EXCEPT !.left = @ - 1, !.failed = @ \/ bad]
    BY <1>6 DEF RunGroup
  <2>2. outcome.left - 1 \in 0..3
    BY <1>6 DEF RunGroup
  <2>3. (outcome.failed \/ bad) \in BOOLEAN
    OBVIOUS
  <2>4. outcome' = [outcome EXCEPT !.left = outcome.left - 1, !.failed = outcome.failed \/ bad]
    BY <2>1
  <2> HIDE DEF Outcome
  <2>5. ASSUME NEW f \in BOOLEAN, NEW n \in 0..3
        PROVE  [outcome EXCEPT !.left = n, !.failed = f] \in Outcome
    BY DEF Outcome
  <2> QED
    BY <2>2, <2>3, <2>4, <2>5
<1>7. CASE CombineResults
  BY <1>7 DEF CombineResults, Fail, GotoWith, Goto
<1>8. CASE RunReference
  BY <1>8 DEF RunReference, Fail, GotoWith, Goto
<1> QED
  BY <1>1, <1>2, <1>3, <1>4, <1>5, <1>6, <1>7, <1>8 DEF WorkloadNext

LEMMA SessionTypesStep ==
  TypeInv /\ SessionNext => StackTypes' /\ WorkTypes' /\ SessionTypes' /\ UNCHANGED wanted
<1> SUFFICES ASSUME StackTypes, WorkTypes, SessionTypes, SessionNext
             PROVE  StackTypes' /\ WorkTypes' /\ SessionTypes' /\ UNCHANGED wanted
  BY DEF TypeInv
<1> USE DEF SessionTypes
<1>a. UNCHANGED stackVars => StackTypes' /\ UNCHANGED wanted
  BY DEF stackVars, StackTypes
<1>b. Operate => target' \in Target /\ outcome' \in Outcome
  <2> SUFFICES ASSUME Operate PROVE target' \in Target /\ outcome' \in Outcome
    OBVIOUS
  <2>1. target' \in Target
    BY DEF Operate, WorkTypes
  <2>2. CASE UNCHANGED outcome
    BY <2>1, <2>2 DEF WorkTypes
  <2>3. ASSUME NEW n \in Groups, outcome' = [NoOutcome EXCEPT !.left = n]
        PROVE  outcome' \in Outcome
    <3>1. NoOutcome \in Outcome /\ n \in 0..3
      BY DEF Groups, NoOutcome, Outcome
    <3>2. ASSUME NEW o \in Outcome, NEW m \in 0..3 PROVE [o EXCEPT !.left = m] \in Outcome
      BY DEF Outcome
    <3> QED
      BY <2>3, <3>1, <3>2
  <2> QED
    BY <2>1, <2>2, <2>3 DEF Operate
<1>c. target' \in Target /\ outcome' \in Outcome /\ UNCHANGED toolVars => WorkTypes'
  BY DEF WorkTypes, toolVars
<1>d. NotYet => target' \in Target /\ outcome' \in Outcome
  BY DEF NotYet, WorkTypes
<1>1. CASE Prepare
  <2>1. UNCHANGED <<stackVars, toolVars>> /\ SessionTypes'
    BY <1>1 DEF Prepare, StackStays, sessionVars
  <2>2. Operate \/ NotYet
    BY <1>1 DEF Prepare
  <2> QED
    BY <2>1, <2>2, <1>a, <1>b, <1>c, <1>d
<1>2. CASE AdminLogin
  <2>1. UNCHANGED <<stackVars, toolVars>> /\ SessionTypes'
    BY <1>2 DEF AdminLogin, StackStays, sessionVars
  <2>2. Operate \/ NotYet
    BY <1>2 DEF AdminLogin
  <2> QED
    BY <2>1, <2>2, <1>a, <1>b, <1>c, <1>d
<1>3. CASE IssueToken
  <2>1. UNCHANGED <<stackVars, toolVars>> /\ SessionTypes'
    BY <1>3 DEF IssueToken, StackStays, sessionVars
  <2>2. Operate \/ NotYet
    BY <1>3 DEF IssueToken
  <2> QED
    BY <2>1, <2>2, <1>a, <1>b, <1>c, <1>d
<1>4. CASE StandaloneToken
  <2>1. UNCHANGED <<stackVars, toolVars>> /\ SessionTypes'
    BY <1>4 DEF StandaloneToken, StackStays, sessionVars
  <2>2. Operate \/ NotYet
    BY <1>4 DEF StandaloneToken
  <2> QED
    BY <2>1, <2>2, <1>a, <1>b, <1>c, <1>d
<1>5. CASE PublishFixture
  <2>1. UNCHANGED <<stackVars, toolVars>> /\ SessionTypes'
    BY <1>5 DEF PublishFixture, StackStays, sessionVars
  <2>2. Operate \/ NotYet
    BY <1>5 DEF PublishFixture
  <2> QED
    BY <2>1, <2>2, <1>a, <1>b, <1>c, <1>d
<1>6. CASE PublishFastTime
  <2>1. UNCHANGED <<stackVars, toolVars>> /\ SessionTypes'
    BY <1>6 DEF PublishFastTime, StackStays, sessionVars
  <2>2. Operate \/ NotYet
    BY <1>6 DEF PublishFastTime
  <2> QED
    BY <2>1, <2>2, <1>a, <1>b, <1>c, <1>d
<1>7. CASE Revoke
  BY <1>7, <1>c, <1>d DEF Revoke, StackTypes, RevokeObeyed
<1> QED
  BY <1>1, <1>2, <1>3, <1>4, <1>5, <1>6, <1>7 DEF SessionNext

LEMMA BeginTypes == ASSUME TypeInv, NEW r \in Request, Begin(r) PROVE TypeInv'
<1> USE DEF TypeInv
<1>1. CommandTypes'
  <2>1. command' = r /\ failures' = {} /\ UNCHANGED <<setting, surprises>>
    BY DEF Begin
  <2>2. commands < MaxCommands /\ commands' = commands + 1
    BY DEF Begin
  <2> QED
    BY <2>1, <2>2, BoundsAssumption DEF CommandTypes
<1>2. WorkspaceTypes' /\ CheckoutTypes'
  BY DEF Begin, WorkspaceTypes, CheckoutTypes
<1>3. StackTypes'
  <2>1. stack' \in [LaneName -> Containers]
    <3>1. ASSUME NEW l \in LaneName, NEW u \in {"none", "some", "full"}
          PROVE  [stack[l] EXCEPT !.up = u, !.tool = "none"] \in Containers
      BY DEF StackTypes, Containers
    <3>2. \A l \in LaneName : stack[l].up \in {"none", "some", "full"}
      BY DEF StackTypes, Containers
    <3> QED
      BY <3>1, <3>2 DEF Begin
  <2>2. data' \in [LaneName -> {"none", "old", "new"}]
    BY DEF Begin, StackTypes
  <2> QED
    <3>1. wanted' = 0 /\ build' = FALSE /\ UNCHANGED <<published, local, telemetry>>
      BY DEF Begin
    <3>2. 0 \in Revision
      BY RevisionAssumption DEF Revision
    <3>3. StackTypes
      OBVIOUS
    <3> QED
      BY <2>1, <2>2, <3>1, <3>2, <3>3 DEF StackTypes
<1>4. WorkTypes' /\ SessionTypes'
  <2>1. Innocent \in Target /\ NoOutcome \in Outcome
    BY DEF Innocent, Target, NoOutcome, Outcome
  <2> QED
    BY <2>1 DEF Begin, WorkTypes, SessionTypes
<1>5. OnTrack' /\ Resolved'
  BY RequestAssumption
  DEF Begin, OnTrack, Track, Loading, Resolved, Resolving, Askable, AskableOfStack, AskableOfLane,
     AskableOfLive,
      AskableOfInspect
<1> QED
  BY <1>1, <1>2, <1>3, <1>4, <1>5

LEMMA SurpriseTypes == TypeInv /\ Surprise => TypeInv'
<1> SUFFICES ASSUME TypeInv, Surprise PROVE TypeInv'
  OBVIOUS
<1> USE DEF TypeInv
<1>0. surprises' \in 0..MaxSurprises /\ UNCHANGED commands
  BY BoundsAssumption DEF Surprise, CommandTypes
<1>t. UNCHANGED <<setting, command, at, wanted>> => OnTrack' /\ Resolved'
  BY DEF OnTrack, Resolved, Resolving, Routed
<1>1. CASE Kill
  <2>2. OnTrack' /\ Resolved'
    BY <1>1, CommandAsked DEF Kill, OnTrack, Track, Running, Resolved, Resolving, Asked,
       CommandTypes
  <2>1. CheckoutTypes'
    <3>1. Killed \subseteq Directory
      BY RevisionAssumption DEF Killed, Directory, Revision
    <3>2. tree' \in [Source -> Directory]
      BY <1>1, <3>1 DEF Kill, CheckoutKilled, CheckoutTypes
    <3>3. beside' \in [Source -> Neighbours]
      BY <1>1 DEF Kill, CheckoutKilled, CheckoutTypes, Neighbours
    <3> QED
      BY <1>1, <3>2, <3>3 DEF Kill, CheckoutKilled, CheckoutTypes
  <2> QED
    BY <1>0, <1>1, <2>1, <2>2, ZenonT(30) DEF Kill, WorkspaceKilled, CommandTypes, WorkspaceTypes, StackTypes,
       WorkTypes,
       SessionTypes, toolVars, sessionVars
<1>2. CASE Pushed
  <2>1. CheckoutTypes' /\ published' \in 1..MaxRevision
    BY <1>2, RevisionAssumption, SourceAssumption
    DEF Pushed, Push, CheckoutTypes, StackTypes, checkoutVars
  <2> QED
    BY <1>0, <1>t, <1>2, <2>1 DEF Pushed, commandVars, workspaceVars, CommandTypes,
       WorkspaceTypes, StackTypes,
       WorkTypes, SessionTypes, toolVars, sessionVars
<1>3. CASE OtherTerminal
  <2>1. stack' \in [LaneName -> Containers]
    <3>1. ASSUME NEW l \in LaneName, stack' = [stack EXCEPT ![l] = Down] PROVE stack' \in [LaneName -> Containers]
      BY <3>1, RevisionAssumption DEF StackTypes, Down, Containers, Revision
    <3>2. ASSUME NEW l \in LaneName,
                 stack' = [stack EXCEPT ![l] = [@ EXCEPT !.up = "full", !.files = RuntimeProject(l), !.cp = published,
                                                 !.dp = IF l = "external" THEN local.dp ELSE 0]]
          PROVE  stack' \in [LaneName -> Containers]
      <4>1. RuntimeProject(l) \subseteq ComposeFile
        BY DEF RuntimeProject, Observed, RoutedProject, DataplaneFiles, SourceFiles,
           ControlplaneFiles, ComposeFile
      <4>2. 0 \in Revision /\ local.dp \in Revision /\ published \in Revision
        BY RevisionAssumption DEF StackTypes, Images, Revision
      <4>3. [stack[l] EXCEPT !.up = "full", !.files = RuntimeProject(l), !.cp = published,
                             !.dp = IF l = "external" THEN local.dp ELSE 0] \in Containers
        BY <4>1, <4>2 DEF StackTypes, Containers
      <4> QED
        BY <3>2, <4>3 DEF StackTypes
    <3> QED
      BY <1>3, <3>1, <3>2 DEF OtherTerminal
  <2>2. local' \in Images
    BY <1>3 DEF OtherTerminal, StackTypes, Images
  <2>3. data' \in [LaneName -> {"none", "old", "new"}]
    BY <1>3 DEF OtherTerminal, StackTypes
  <2> QED
    BY <1>0, <1>t, <1>3, <2>1, <2>2, <2>3 DEF OtherTerminal, commandVars, workspaceVars,
       checkoutVars, CommandTypes,
       WorkspaceTypes, CheckoutTypes, StackTypes, WorkTypes, SessionTypes, toolVars
<1>4. CASE Interrupt /\ UNCHANGED <<workspaceVars, checkoutVars, outcome, sessionVars>>
  <2>1. UNCHANGED <<setting, command, at, failures, wanted>>
    BY <1>4 DEF Interrupt, commandVars, stackVars
  <2>2. CommandTypes' /\ OnTrack' /\ Resolved'
    BY <1>0, <1>t, <2>1 DEF CommandTypes
  <2>3. WorkspaceTypes' /\ CheckoutTypes'
    BY <1>4 DEF workspaceVars, checkoutVars, WorkspaceTypes, CheckoutTypes
  <2>4. StackTypes'
    BY <1>4 DEF Interrupt, stackVars, StackTypes
  <2>5. WorkTypes' /\ SessionTypes'
    BY <1>4 DEF Interrupt, sessionVars, WorkTypes, SessionTypes
  <2> QED
    BY <2>2, <2>3, <2>4, <2>5
<1>5. CASE OtherPrepares /\ UNCHANGED <<commandVars, checkoutVars, partVars, sessionVars>>
  <2>1. WorkspaceTypes'
    BY <1>5 DEF OtherPrepares, WorkspaceTypes, Content
  <2> QED
    BY <1>0, <1>t, <1>5, <2>1 DEF commandVars, checkoutVars, partVars, stackVars, toolVars,
       sessionVars,
       CommandTypes, CheckoutTypes, StackTypes, WorkTypes, SessionTypes
<1> QED
  BY <1>1, <1>2, <1>3, <1>4, <1>5 DEF Surprise

LEMMA TypeInvStep == TypeInv /\ [Next]_vars => TypeInv'
<1> SUFFICES ASSUME TypeInv, [Next]_vars PROVE TypeInv'
  OBVIOUS
<1> USE DEF TypeInv
<1>a. Quiet /\ UNCHANGED bounds => CommandTypes'
  BY DEF Quiet, bounds, CommandTypes
<1>b. UNCHANGED workspaceVars => WorkspaceTypes'
  BY DEF workspaceVars, WorkspaceTypes
<1>c. UNCHANGED checkoutVars => CheckoutTypes'
  BY DEF checkoutVars, CheckoutTypes
<1>d. UNCHANGED stackVars => StackTypes'
  BY DEF stackVars, StackTypes
<1>e. UNCHANGED <<target, toolVars, outcome>> => WorkTypes'
  BY DEF toolVars, WorkTypes
<1>f. UNCHANGED sessionVars => SessionTypes'
  BY DEF sessionVars, SessionTypes
<1>g. Asked
  BY CommandAsked DEF CommandTypes
<1>h. Aside /\ UNCHANGED <<setting, command, wanted>> => Resolved'
  BY DEF Aside, Resolved, Resolving, Routed
<1>i. UNCHANGED commandVars => OnTrack'
  BY DEF commandVars, OnTrack, Routed
<1>1. CASE \E r \in Request : Begin(r)
  BY <1>1, BeginTypes
<1>2. CASE WorkspaceNext /\ UNCHANGED <<checkoutVars, partVars, sessionVars, bounds>>
  BY <1>2, <1>c, <1>d, <1>e, <1>f, <1>g, <1>h, WorkspaceTypesStep, WorkspaceLeads, WorkspaceFlow
  DEF CommandTypes, partVars, stackVars, bounds, Flow
<1>3. CASE CheckoutNext /\ UNCHANGED <<workspaceVars, partVars, sessionVars, bounds>>
  BY <1>3, <1>b, <1>d, <1>e, <1>f, <1>g, <1>h, CheckoutTypesStep, CheckoutQuiet, CheckoutFlow
  DEF CommandTypes, partVars, stackVars, bounds, Flow
<1>4. CASE StackNext /\ UNCHANGED <<workspaceVars, checkoutVars, target, toolVars, outcome, sessionVars, bounds>>
  BY <1>4, <1>a, <1>b, <1>c, <1>e, <1>f, <1>g, StackTypesStep, ResolvedStep, StackQuiet, StackFlow
  DEF Flow
<1>5. CASE (ProbeNext \/ BecomesReady) /\ UNCHANGED <<workspaceVars, checkoutVars, toolVars, outcome, sessionVars, bounds>>
  <2>1. CommandTypes' /\ WorkspaceTypes' /\ CheckoutTypes' /\ StackTypes' /\ WorkTypes' /\ SessionTypes'
    BY <1>5, <1>a, <1>b, <1>c, <1>d, <1>f, ProbeTypesStep, ProbeQuiet DEF WorkTypes, toolVars
  <2>2. CASE ProbeNext
    BY <1>5, <2>1, <2>2, <1>g, <1>h, ProbeTypesStep, ProbeQuiet, ProbeFlow DEF Flow, Quiet,
       stackVars, WorkTypes
  <2>3. CASE BecomesReady
    BY <2>1, <2>3, <1>h, <1>i DEF BecomesReady, Aside, commandVars, stackVars
  <2> QED
    BY <1>5, <2>2, <2>3
<1>6. CASE ToolNext /\ UNCHANGED <<workspaceVars, checkoutVars, outcome, sessionVars, bounds>>
  BY <1>6, <1>a, <1>b, <1>c, <1>f, <1>g, <1>h, ToolTypesStep, ToolQuiet, ToolFlow
  DEF WorkTypes, Flow, Quiet
<1>7. CASE WorkloadNext /\ UNCHANGED <<workspaceVars, checkoutVars, stackVars, target, toolVars, sessionVars, bounds>>
  BY <1>7, <1>a, <1>b, <1>c, <1>d, <1>f, <1>g, <1>h, WorkloadTypesStep, WorkloadQuiet,
     WorkloadFlow
  DEF WorkTypes, toolVars, stackVars, Flow, Quiet
<1>8. CASE SessionNext /\ UNCHANGED <<workspaceVars, checkoutVars, bounds>>
  <2>1. CommandTypes' /\ WorkspaceTypes' /\ CheckoutTypes' /\ StackTypes' /\ WorkTypes' /\ SessionTypes'
    BY <1>8, <1>a, <1>b, <1>c, SessionTypesStep, SessionQuiet
  <2>2. UNCHANGED <<setting, command, wanted>>
    BY <1>8, SessionQuiet, SessionTypesStep DEF Quiet
  <2>3. CASE Revoke
    BY <2>1, <2>2, <2>3, <1>g DEF Revoke, Goto, GotoWith, OnTrack, Track, Leaving, Resolved,
       Resolving, Asked,
       Loading, Working, Rising
  <2>4. CASE ~Revoke
    BY <1>8, <1>g, <1>h, <2>1, <2>2, <2>4, SessionFlow DEF Flow
  <2> QED
    BY <2>3, <2>4
<1>9. CASE Surprise
  BY <1>9, SurpriseTypes
<1>10. CASE UNCHANGED vars
  BY <1>10, <1>b, <1>c, <1>d, <1>e, <1>f, <1>h, <1>i DEF Aside, stackVars, vars, partVars,
     CommandTypes, commandVars, bounds
<1> QED
  BY <1>1, <1>2, <1>3, <1>4, <1>5, <1>6, <1>7, <1>8, <1>9, <1>10 DEF Next

\* Every variable keeps its type, for any requests, configurations, sources and bounds.
THEOREM SessionsTyped == Spec => []TypeOK
<1>1. Init => TypeInv
  BY TypeInvInit
<1>2. TypeInv /\ [Next]_vars => TypeInv'
  BY TypeInvStep
<1>3. TypeInv => TypeOK
  BY TypeInvTypes
<1> QED
  BY <1>1, <1>2, <1>3, PTL DEF Spec

----------------------------------------------------------------------------
\* What a session leaves.

\* The token is known to the scope, or the session has failed; past the revocation, what is known and
\* still live has been reported.
TokenKnown == /\ token = "live" => held \/ "primary" \in failures
              /\ IsSession /\ at \in Leaving /\ token = "live" /\ held =>
                   failures \cap {"revoke", "config"} # {}

\* The cleanup sweeps the session's own lane, and leaves nothing of it that it does not report.
LaneSwept == IsSession =>
  /\ at \in {"compose down", "label"} => sweeping = <<Lane>>
  /\ at = "ended" /\ HasRunning(Lane) => failures \cap {"cleanup", "config"} # {} \/ disturbed

\* Outside its run a tool that runs has been reported.
ToolKnown == IsSession /\ Tool = "running" /\ at \notin {"tool client", "tool remove", "killed"} =>
               "remove" \in failures

LEMMA LeftFollows == TypeInv /\ TokenKnown /\ LaneSwept /\ ToolKnown => LeftIsReported
  BY DEF TypeInv, CommandTypes, Failure, TokenKnown, LaneSwept, ToolKnown, LeftIsReported, Leaving

LEMMA TokenKnownStep ==
  ASSUME TypeInv, TokenKnown, [Next]_vars
  PROVE  TokenKnown'
<1> USE DEF TokenKnown
<1>a. OnTrack /\ Asked
  BY CommandAsked DEF TypeInv, CommandTypes
<1>b. ASSUME UNCHANGED <<command, token, held>>, failures \subseteq failures', Steady \/ Leaves
      PROVE  TokenKnown'
  BY <1>b DEF Steady, Leaves, Leaving, IsSession
<1>c. UNCHANGED <<command, token, held, failures, at>> => TokenKnown'
  BY DEF IsSession
<1>1. CASE \E r \in Request : Begin(r)
  BY <1>1 DEF Begin
<1>2. CASE WorkspaceNext /\ UNCHANGED sessionVars
  BY <1>2, <1>a, <1>b, WorkspaceLeads, WorkspaceFlow DEF Flow, sessionVars
<1>3. CASE CheckoutNext /\ UNCHANGED sessionVars
  BY <1>3, <1>a, <1>b, CheckoutQuiet, CheckoutFlow DEF Flow, sessionVars
<1>4. CASE StackNext /\ UNCHANGED sessionVars
  BY <1>4, <1>a, <1>b, StackQuiet, StackFlow DEF Flow, Quiet, sessionVars
<1>5. CASE (ProbeNext \/ BecomesReady) /\ UNCHANGED sessionVars
  <2>1. CASE ProbeNext
    BY <1>5, <2>1, <1>a, <1>b, ProbeQuiet, ProbeFlow DEF Flow, Quiet, sessionVars
  <2>2. CASE BecomesReady
    BY <1>5, <2>2, <1>c DEF BecomesReady, commandVars, sessionVars
  <2> QED
    BY <1>5, <2>1, <2>2
<1>6. CASE ToolNext /\ UNCHANGED sessionVars
  BY <1>6, <1>a, <1>b, ToolQuiet, ToolFlow DEF Flow, Quiet, sessionVars
<1>7. CASE WorkloadNext /\ UNCHANGED sessionVars
  BY <1>7, <1>a, <1>b, WorkloadQuiet, WorkloadFlow DEF Flow, Quiet, sessionVars
<1>8. CASE SessionNext
  <2>1. CASE Revoke
    BY <2>1 DEF Revoke, RevokeObeyed, Goto, GotoWith, IsSession, Leaving
  <2>2. CASE IssueToken
    <3>1. Flow /\ Steady /\ UNCHANGED command /\ at = "issue"
      BY <1>8, <1>a, <2>2, SessionFlow, SessionQuiet DEF Quiet, IssueToken, Revoke
    <3>2. \/ held' = TRUE \/ "primary" \in failures' \/ UNCHANGED <<token, held>>
      BY <2>2 DEF IssueToken, Fail, GotoWith
    <3> QED
      BY <3>1, <3>2 DEF Flow, Steady, IsSession, Leaving
  <2>3. CASE ~Revoke /\ ~IssueToken
    <3>1. UNCHANGED <<token, held>>
      BY <1>8, <2>3 DEF SessionNext, Prepare, AdminLogin, StandaloneToken, PublishFixture,
         PublishFastTime,
         sessionVars
    <3> QED
      BY <1>8, <1>a, <1>b, <2>3, <3>1, SessionQuiet, SessionFlow DEF Flow, Quiet
  <2> QED
    BY <2>1, <2>2, <2>3
<1>9. CASE Surprise
  <2>1. CASE Kill
    BY <2>1 DEF Kill, sessionVars, IsSession, Leaving
  <2>2. CASE ~Kill
    BY <1>9, <2>2, <1>c DEF Surprise, Pushed, OtherTerminal, Interrupt, commandVars, sessionVars
  <2> QED
    BY <2>1, <2>2
<1>10. CASE UNCHANGED vars
  BY <1>10, <1>c DEF vars, commandVars, sessionVars
<1> QED
  BY <1>1, <1>2, <1>3, <1>4, <1>5, <1>6, <1>7, <1>8, <1>9, <1>10 DEF Next

\* What the stack's own steps do to the containers of the lane.
LEMMA StackSweeps ==
  ASSUME TypeInv, StackNext, IsSession, LaneSwept
  PROVE  /\ Tool' = "running" => Tool = "running"
         /\ at \notin {"tool client", "tool remove", "killed"}
         /\ LaneSwept'
<1> USE DEF Lane
<1>a. OnTrack /\ Asked /\ stack \in [LaneName -> Containers] /\ Lane \in LaneName /\ ~command.fresh
      /\ command.op # "up"
  BY CommandAsked DEF TypeInv, CommandTypes, StackTypes, Asked, IsSession
<1>b. UNCHANGED command
  BY StackQuiet DEF Quiet
<1>c. stack[Lane].tool \in {"none", "created", "running"} /\ stack[Lane].up \in {"none", "some", "full"}
  BY <1>a DEF Containers
<1>d. ASSUME UNCHANGED stack PROVE Tool' = "running" => Tool = "running"
  BY <1>b, <1>d DEF Tool
<1>e. Started => (Tool' = "running" => Tool = "running")
  BY <1>a, <1>b DEF Started, Tool, Containers
<1>f. ASSUME Swept(Lane) PROVE ~HasRunning(Lane)' /\ Tool' = "none"
  BY <1>a, <1>b, <1>f DEF Swept, HasRunning, Tool, Down
<1>g. ASSUME NEW l, Partly(l) PROVE Tool' = "running" => Tool = "running"
  BY <1>a, <1>b, <1>g DEF Partly, Tool, Containers
<1>h. ASSUME at' \notin Leaving PROVE LaneSwept'
  BY <1>h DEF LaneSwept, Leaving
<1>i. ASSUME sweeping = <<Lane>> PROVE Head(sweeping) = Lane /\ Tail(sweeping) = <<>>
  BY <1>i
<1> USE DEF Leaving
<1>1. CASE ValidateContract
  <2>1. UNCHANGED stack /\ at' \notin Leaving
    BY <1>1, <1>a DEF ValidateContract, IsSession, OnTrack, Goto, KeepsStack, StackFails, Fail,
       GotoWith, stackVars
  <2> QED
    BY <1>1, <2>1, <1>d, <1>h DEF ValidateContract
<1>2. CASE DecideBuild
  <2>1. UNCHANGED stack /\ at' \notin Leaving
    BY <1>2, <1>a DEF DecideBuild, IsSession, OnTrack, Goto, KeepsStack, StackFails, Fail,
       GotoWith, stackVars
  <2> QED
    BY <1>2, <2>1, <1>d, <1>h DEF DecideBuild
<1>3. CASE DecideStandaloneBuild
  <2>1. UNCHANGED stack /\ at' \notin Leaving
    BY <1>3, <1>a DEF DecideStandaloneBuild, IsSession, OnTrack, Goto, KeepsStack, StackFails,
       Fail, GotoWith, stackVars
  <2> QED
    BY <1>3, <2>1, <1>d, <1>h DEF DecideStandaloneBuild
<1>4. CASE PullControlplane
  <2>1. UNCHANGED stack /\ at' \notin Leaving
    BY <1>4, <1>a DEF PullControlplane, IsSession, OnTrack, PullIfChanged, Proceed, Goto,
       stackVars, StackFails, Fail, GotoWith
  <2> QED
    BY <1>4, <2>1, <1>d, <1>h DEF PullControlplane
<1>5. CASE PullDataplane
  <2>1. UNCHANGED stack /\ at' \notin Leaving
    BY <1>5, <1>a DEF PullDataplane, IsSession, OnTrack, PullIfChanged, Proceed, Goto, stackVars,
       StackFails, Fail, GotoWith
  <2> QED
    BY <1>5, <2>1, <1>d, <1>h DEF PullDataplane
<1>6. CASE CheckOther
  <2>1. UNCHANGED stack /\ at' \notin Leaving
    BY <1>6, <1>a DEF CheckOther, IsSession, OnTrack, EnsureOtherStopped, Proceed, Goto,
       stackVars, StackFails, Fail, GotoWith
  <2> QED
    BY <1>6, <2>1, <1>d, <1>h DEF CheckOther
<1>7. CASE StartTelemetry
  <2>1. UNCHANGED stack /\ at' \notin Leaving
    BY <1>7, <1>a DEF StartTelemetry, IsSession, OnTrack, Goto, StackFails, Fail, GotoWith,
       stackVars
  <2> QED
    BY <1>7, <2>1, <1>d, <1>h DEF StartTelemetry
<1>8. CASE WaitForEndpoint
  <2>1. UNCHANGED stack /\ at' \notin Leaving
    BY <1>8, <1>a DEF WaitForEndpoint, IsSession, OnTrack, Proceed, Goto, stackVars, AfterUp,
       StackFails, Fail, GotoWith
  <2> QED
    BY <1>8, <2>1, <1>d, <1>h DEF WaitForEndpoint
<1>9. CASE Decide
  <2>1. UNCHANGED stack /\ at' \notin Leaving
    BY <1>9, <1>a DEF Decide, Proceed, StackFails, stackVars, Goto, Fail, GotoWith, IsSession
  <2> QED
    BY <1>9, <2>1, <1>d, <1>h DEF Decide
<1>10. CASE Up
  <2>1. at = "up" /\ at' \notin Leaving
    BY <1>10, <1>a DEF Up, Goto, Fail, GotoWith, IsSession
  <2> DEFINE whole == [stack[Lane] EXCEPT !.up = "full", !.files = ProjectFiles, !.cp = wanted,
                                          !.dp = IF External THEN Prepared.dp ELSE 0]
  <2>2. stack' \in {stack, [stack EXCEPT ![Lane].up = "some"], [stack EXCEPT ![Lane] = whole]}
    BY <1>10 DEF Up
  <2>3. whole.tool = stack[Lane].tool
    BY <1>a DEF Containers
  <2> HIDE DEF whole
  <2>4. CASE UNCHANGED stack
    BY <2>4, <1>d, <1>h, <2>1
  <2>5. CASE stack' = [stack EXCEPT ![Lane].up = "some"]
    BY <2>1, <2>5, <1>a, <1>b, <1>h DEF Containers, Tool
  <2>6. CASE stack' = [stack EXCEPT ![Lane] = whole]
    BY <2>1, <2>3, <2>6, <1>a, <1>b, <1>h DEF Tool
  <2> QED
    BY <2>2, <2>4, <2>5, <2>6
<1>11. CASE StartFixture
  BY <1>11, <1>a, <1>d, <1>e, <1>h DEF StartFixture, Goto, AfterFixture, Fail, GotoWith,
     IsSession, OnTrack
<1>12. CASE StartFastTime
  BY <1>12, <1>a, <1>d, <1>e, <1>h DEF StartFastTime, Goto, AfterFixture, Fail, GotoWith,
     IsSession, OnTrack
<1>13. CASE ComposeDown
  <2>0. at = "compose down" /\ at' = "label" /\ UNCHANGED sweeping /\ sweeping = <<Lane>>
    BY <1>13 DEF ComposeDown, Goto, GotoWith, LaneSwept
  <2>1. at = "compose down" /\ at' = "label" /\ Head(sweeping) = Lane /\ UNCHANGED sweeping
        /\ sweeping = <<Lane>>
    BY <2>0, <1>i
  <2>2. LaneSwept'
    BY <1>b, <2>1 DEF LaneSwept
  <2>3. UNCHANGED stack \/ Swept(Lane) \/ Partly(Lane)
    BY <1>13, <2>1 DEF ComposeDown
  <2> QED
    BY <2>1, <2>2, <2>3, <1>d, <1>f, <1>g
<1>14. CASE StandaloneDown
  <2>0. at = "compose down" /\ sweeping = <<Lane>>
    BY <1>14 DEF StandaloneDown, LaneSwept
  <2>1. at = "compose down" /\ sweeping = <<Lane>> /\ Head(sweeping) = Lane /\ Tail(sweeping) = <<>>
    BY <2>0, <1>i
  <2>2. \/ at' = "label" /\ UNCHANGED sweeping
        \/ at' = "ended" /\ "cleanup" \in failures'
    BY <1>14, <1>a, <2>1 DEF StandaloneDown, Goto, GotoWith, AfterSweep
  <2>3. LaneSwept'
    BY <1>b, <2>1, <2>2 DEF LaneSwept
  <2>4. UNCHANGED stack \/ Swept(Lane) \/ Partly(Lane)
    BY <1>14, <2>1 DEF StandaloneDown
  <2> QED
    BY <2>1, <2>3, <2>4, <1>d, <1>f, <1>g
<1>15. CASE RemoveByLabel
  <2>0. at = "label" /\ sweeping = <<Lane>>
    BY <1>15 DEF RemoveByLabel, LaneSwept
  <2>1. at = "label" /\ sweeping = <<Lane>> /\ Head(sweeping) = Lane /\ Tail(sweeping) = <<>>
    BY <2>0, <1>i
  <2>2. at' = "ended" /\ (Swept(Lane) \/ ("cleanup" \in failures' /\ Partly(Lane)))
    BY <1>15, <1>a, <2>1 DEF RemoveByLabel, Goto, GotoWith, AfterSweep
  <2>3. LaneSwept'
    BY <1>b, <2>2, <1>f DEF LaneSwept
  <2> QED
    BY <2>1, <2>2, <2>3, <1>f, <1>g
<1> QED
  BY <1>1, <1>2, <1>3, <1>4, <1>5, <1>6, <1>7, <1>8, <1>9, <1>10, <1>11, <1>12, <1>13, <1>14,
     <1>15
  DEF StackNext

LEMMA LeftStep ==
  ASSUME TypeInv, LaneSwept, ToolKnown, [Next]_vars
  PROVE  LaneSwept' /\ ToolKnown'
<1> USE DEF Lane
<1>a. OnTrack /\ Asked /\ stack \in [LaneName -> Containers]
      /\ (IsSession => command.lane \in LaneName)
  BY CommandAsked DEF TypeInv, CommandTypes, StackTypes, Asked
<1>b. ASSUME UNCHANGED <<command, sweeping, stack, disturbed>>, failures \subseteq failures', Steady,
             at \notin {"tool client", "tool remove", "killed"}
      PROVE  LaneSwept' /\ ToolKnown'
  BY <1>b DEF Steady, Leaving, IsSession, HasRunning, Tool, LaneSwept, ToolKnown
<1>c. UNCHANGED <<command, sweeping, stack, disturbed, failures, at>> => LaneSwept' /\ ToolKnown'
  <2> SUFFICES ASSUME UNCHANGED <<command, sweeping, stack, disturbed, failures, at>>
               PROVE  LaneSwept' /\ ToolKnown'
    OBVIOUS
  <2>1. LaneSwept'
    BY DEF IsSession, HasRunning, LaneSwept
  <2>2. ToolKnown'
    BY DEF IsSession, Tool, ToolKnown
  <2> QED
    BY <2>1, <2>2
<1>1. CASE \E r \in Request : Begin(r)
  <2>1. TypeInv'
    BY <1>1, BeginTypes
  <2>2. IsSession' => command'.lane \in LaneName
    <3>1. Asked'
      BY <2>1, CommandAsked, PTL DEF TypeInv, CommandTypes
    <3> QED
      BY <3>1 DEF Asked
  <2>3. at' = "assets" /\ \A l \in LaneName : stack'[l].tool = "none"
    <3>1. at' = "assets"
      BY <1>1 DEF Begin
    <3>2. ASSUME NEW l \in LaneName PROVE stack'[l].tool = "none"
      <4>1. PICK up : stack'[l] = [stack[l] EXCEPT !.up = up, !.tool = "none"]
        BY <1>1 DEF Begin
      <4> QED
        BY <1>a, <4>1 DEF Containers
    <3> QED
      BY <3>1, <3>2
  <2> QED
    BY <2>2, <2>3 DEF Tool, LaneSwept, ToolKnown
<1>2. CASE WorkspaceNext /\ UNCHANGED <<partVars, sessionVars>>
  BY <1>2, <1>a, <1>b, WorkspaceLeads, WorkspaceFlow DEF Flow, Loading, partVars, stackVars,
     sessionVars
<1>3. CASE CheckoutNext /\ UNCHANGED <<partVars, sessionVars>>
  <2>1. at \notin {"tool client", "tool remove", "killed"}
    BY <1>3 DEF CheckoutNext, Clone, CheckOrigin, Stage, MoveAway, Install, DropOld, Fetch, Switch
  <2> QED
    BY <1>3, <1>a, <1>b, <2>1, CheckoutQuiet, CheckoutFlow DEF Flow, partVars, stackVars,
       sessionVars
<1>4. CASE StackNext /\ UNCHANGED sessionVars
  <2>1. UNCHANGED command /\ failures \subseteq failures'
    BY <1>4, <1>a, StackQuiet, StackFlow DEF Flow, Quiet
  <2>2. CASE IsSession
    BY <1>4, <2>1, <2>2, StackSweeps DEF ToolKnown, IsSession
  <2>3. CASE ~IsSession
    BY <2>1, <2>3 DEF LaneSwept, ToolKnown, IsSession
  <2> QED
    BY <2>2, <2>3
<1>5. CASE (ProbeNext \/ BecomesReady) /\ UNCHANGED sessionVars
  <2>1. CASE ProbeNext
    <3>1. at \in Probing /\ UNCHANGED stackVars
      BY <2>1 DEF ProbeNext, Anonymous, Initialize, Initialized, ListTools, CallTool,
         AnonymousStateless,
         Discover, ListStateless, CallStateless, MockedCatalog, ProbeGoto, ProbeFails, StackFails, Proceed, Probing
    <3> QED
      BY <1>5, <2>1, <3>1, <1>a, <1>b, ProbeQuiet, ProbeFlow DEF Flow, Quiet, Probing, stackVars,
         sessionVars
  <2>2. CASE BecomesReady
    BY <1>5, <2>2, <1>c DEF BecomesReady, commandVars, stackVars, sessionVars
  <2> QED
    BY <1>5, <2>1, <2>2
<1>6. CASE ToolNext /\ UNCHANGED sessionVars
  <2>0. UNCHANGED <<command, sweeping, disturbed>>
    BY <1>6, ToolQuiet DEF Quiet, ToolNext, PrepareTool, ToolStarts, ToolClientReturns,
       ToolClientKilled,
       RemoveTool, LateCreate, Elsewhere, sessionVars
  <2>1. CASE PrepareTool
    BY <1>6, <2>0, <2>1, <1>a, <1>b, ToolFlow DEF Flow, PrepareTool, KeepsTool
  <2>2. CASE ToolStarts \/ ToolClientReturns \/ ToolClientKilled
    BY <2>0, <2>2 DEF ToolStarts, ToolClientReturns, ToolClientKilled, Goto, GotoWith,
       commandVars, LaneSwept,
       ToolKnown
  <2>3. CASE RemoveTool
    <3>1. at' = "revoke" /\ failures \subseteq failures' /\ at = "tool remove"
      BY <2>3 DEF RemoveTool, Goto, GotoWith
    <3>2. IsSession => Tool' = "none" \/ "remove" \in failures'
      <4>1. ASSUME IsSession, ToolIs("none") PROVE Tool' = "none"
        BY <1>a, <2>0, <4>1 DEF ToolIs, Tool, Containers
      <4>2. ToolIs("none") \/ "remove" \in failures'
        BY <2>3 DEF RemoveTool, GotoWith
      <4> QED
        BY <4>1, <4>2
    <3> QED
      BY <2>0, <3>1, <3>2 DEF LaneSwept, ToolKnown, IsSession
  <2>4. CASE LateCreate
    <3>1. UNCHANGED <<at, failures>> /\ Tool = "none"
      BY <2>4 DEF LateCreate, commandVars
    <3>2. IsSession => Tool' = "created" /\ stack'[Lane].up = stack[Lane].up
      BY <1>a, <2>0, <2>4 DEF LateCreate, ToolIs, Tool, Containers
    <3> QED
      BY <2>0, <3>1, <3>2 DEF LaneSwept, ToolKnown, IsSession, HasRunning, Tool
  <2> QED
    BY <1>6, <2>1, <2>2, <2>3, <2>4 DEF ToolNext
<1>7. CASE WorkloadNext /\ UNCHANGED <<stackVars, sessionVars>>
  <2>1. at \notin {"tool client", "tool remove", "killed"}
    BY <1>7 DEF WorkloadNext, SettleLoad, PrepareLocust, RunLocust, CollectReports, AuditReports,
       RunGroup,
       CombineResults, RunReference
  <2> QED
    BY <1>7, <2>1, <1>a, <1>b, WorkloadQuiet, WorkloadFlow DEF Flow, Quiet, stackVars, sessionVars
<1>8. CASE SessionNext
  <2>1. at \notin {"tool client", "tool remove", "killed"} /\ UNCHANGED <<stack, disturbed>>
    BY <1>8 DEF SessionNext, Prepare, AdminLogin, IssueToken, StandaloneToken, PublishFixture,
       PublishFastTime,
       Revoke, StackStays, stackVars, sessionVars
  <2>2. CASE Revoke
    BY <1>8, <2>1, <2>2 DEF Revoke, Goto, GotoWith, LaneSwept, ToolKnown, IsSession, Tool
  <2>3. CASE ~Revoke
    <3>1. UNCHANGED sweeping
      BY <1>8, <2>3 DEF SessionNext, Prepare, AdminLogin, IssueToken, StandaloneToken,
         PublishFixture,
         PublishFastTime, StackStays, stackVars
    <3> QED
      BY <1>8, <2>1, <2>3, <3>1, <1>a, <1>b, SessionQuiet, SessionFlow DEF Flow, Quiet
  <2> QED
    BY <2>2, <2>3
<1>9. CASE Surprise
  <2>1. CASE Kill
    BY <2>1 DEF Kill, LaneSwept, ToolKnown
  <2>2. CASE OtherTerminal
    <3>1. UNCHANGED <<command, at, failures, sweeping>> /\ disturbed' = TRUE
      BY <2>2 DEF OtherTerminal, commandVars
    <3>2. IsSession /\ Tool' = "running" => Tool = "running"
      <4>1. ASSUME NEW l \in LaneName, stack' = [stack EXCEPT ![l] = Down]
            PROVE  IsSession /\ Tool' = "running" => Tool = "running"
        BY <1>a, <3>1, <4>1 DEF Tool, Down
      <4>2. ASSUME NEW l \in LaneName,
                   stack' = [stack EXCEPT ![l] = [@ EXCEPT !.up = "full", !.files = RuntimeProject(l), !.cp = published,
                                                   !.dp = IF l = "external" THEN local.dp ELSE 0]]
            PROVE  IsSession /\ Tool' = "running" => Tool = "running"
        <5> DEFINE whole == [stack[l] EXCEPT !.up = "full", !.files = RuntimeProject(l), !.cp = published,
                                             !.dp = IF l = "external" THEN local.dp ELSE 0]
        <5>1. whole.tool = stack[l].tool /\ stack' = [stack EXCEPT ![l] = whole]
          BY <1>a, <4>2 DEF Containers
        <5> HIDE DEF whole
        <5> QED
          BY <1>a, <3>1, <5>1 DEF Tool
      <4> QED
        BY <2>2, <4>1, <4>2 DEF OtherTerminal
    <3> QED
      BY <3>1, <3>2 DEF LaneSwept, ToolKnown, IsSession
  <2>3. CASE ~Kill /\ ~OtherTerminal
    BY <1>9, <2>3, <1>c DEF Surprise, Pushed, Interrupt, commandVars, partVars, stackVars,
       sessionVars
  <2> QED
    BY <2>1, <2>2, <2>3
<1>10. CASE UNCHANGED vars
  BY <1>10, <1>c DEF vars, commandVars, partVars, stackVars, sessionVars
<1> QED
  BY <1>1, <1>2, <1>3, <1>4, <1>5, <1>6, <1>7, <1>8, <1>9, <1>10 DEF Next

\* What a session leaves behind it has said: a live token, containers of its lane, a tool that runs
\* on; for any requests, configurations and bounds (ManagedSessionScope::finish, run_tool).
THEOREM SessionsSayWhatTheyLeave == Spec => []LeftIsReported
<1> DEFINE Inv == TypeInv /\ TokenKnown /\ LaneSwept /\ ToolKnown
<1>1. Init => Inv
  <2> SUFFICES ASSUME Init PROVE Inv
    OBVIOUS
  <2>1. TypeInv
    BY TypeInvInit
  <2>2. token = "none" /\ ~IsSession
    BY DEF Init, CommandInit, Nothing, IsSession
  <2> QED
    BY <2>1, <2>2 DEF TokenKnown, LaneSwept, ToolKnown
<1>2. Inv /\ [Next]_vars => Inv'
  BY TypeInvStep, TokenKnownStep, LeftStep
<1>3. Inv => LeftIsReported
  BY LeftFollows
<1> QED
  BY <1>1, <1>2, <1>3, PTL DEF Spec

----------------------------------------------------------------------------
\* What a command that reports no failure has seen.

\* As far as the probe has come without an error, so much of its target is known.
ProbeKnown == command.op = "probe" =>
  /\ at \in Probing /\ ~Routed => target.tool # "none"
  /\ Clean /\ at \in (Probing \ {"anonymous"}) \cup Closing =>
       target.guarded # "200" /\ (External => target.backend = "dataplane")
  /\ Clean /\ at \in {"initialized", "list", "call", "list stateless", "call stateless"} \cup Closing =>
       target.ready /\ target.says # "little"
  /\ Clean /\ at \in Closing => target.tool \notin {"errors", "none"}

\* What a workload of each kind never leaves, and that one that comes to its end clean leaves nothing.
WorkKnown ==
  /\ command.op \in {"load", "reference"} => outcome.left = 0
  /\ command.op \in {"live", "reference"} => ~outcome.worker /\ ~outcome.tainted /\ ~outcome.unread
  /\ command.op \in {"load", "live", "reference"} /\ Clean /\ at \in Closing => outcome = NoOutcome

LEMMA TruthFollows == ProbeKnown /\ WorkKnown => ReportTellsTruth
  BY DEF ProbeKnown, WorkKnown, ReportTellsTruth, Clean, Closing

LEMMA NothingWrong ==
  ASSUME NEW o \in Outcome, o.left = 0, ~o.failed, ~o.worker, ~o.tainted, ~o.unread
  PROVE  o = NoOutcome
  BY DEF Outcome, NoOutcome

LEMMA ProbeSteps ==
  ASSUME OnTrack, Asked, target \in Target, ProbeKnown, ProbeNext \/ BecomesReady
  PROVE  ProbeKnown'
<1> USE DEF ProbeKnown, Probing, Closing, Clean, Target, Routed, External, Lane
<1>1. CASE Anonymous
  BY <1>1 DEF Anonymous, Answered, Identified, Status, Authorized, ProbeGoto, Proceed, Goto,
     ProbeFails, StackFails, Fail, GotoWith, IsSession
<1>2. CASE Initialize
  BY <1>2 DEF Initialize, Introduced, Result, Answered, Identified, Status, Authorized, ProbeGoto, Proceed,
     Goto, ProbeFails, StackFails, Fail, GotoWith, IsSession
<1>3. CASE Initialized
  BY <1>3 DEF Initialized, Answered, Identified, ProbeGoto, Proceed, Goto, ProbeFails,
     StackFails, Fail, GotoWith, IsSession
<1>4. CASE ListTools
  BY <1>4 DEF ListTools, Listed, Result, Answered, Identified, Status, Authorized, ProbeGoto,
     Proceed, Goto, AfterList, Callable, ProbeFails, StackFails, Fail, GotoWith, IsSession
<1>5. CASE CallTool
  BY <1>5 DEF CallTool, Result, Answered, Identified, Status, Authorized, ProbeGoto, Proceed,
     Goto, ProbeFails, StackFails, Fail, GotoWith, IsSession
<1>6. CASE AnonymousStateless
  BY <1>6 DEF AnonymousStateless, Answered, Identified, Status, Authorized, ProbeGoto, Proceed,
     Goto, ProbeFails, StackFails, Fail, GotoWith, IsSession
<1>7. CASE Discover
  BY <1>7 DEF Discover, Introduced, Result, Answered, Identified, Status, Authorized, ProbeGoto, Proceed,
     Goto, ProbeFails, StackFails, Fail, GotoWith, IsSession
<1>8. CASE ListStateless
  BY <1>8 DEF ListStateless, Listed, Result, Answered, Identified, Status, Authorized, ProbeGoto,
     Proceed, Goto, AfterList, Callable, ProbeFails, StackFails, Fail, GotoWith, IsSession
<1>9. CASE CallStateless
  BY <1>9 DEF CallStateless, Result, Answered, Identified, Status, Authorized, ProbeGoto,
     Proceed, Goto, ProbeFails, StackFails, Fail, GotoWith, IsSession
<1>10. CASE MockedCatalog
  BY <1>10 DEF MockedCatalog, ProbeGoto, Proceed, Goto, AfterList, Callable
<1>11. CASE BecomesReady
  BY <1>11 DEF BecomesReady, commandVars
<1> QED
  BY <1>1, <1>2, <1>3, <1>4, <1>5, <1>6, <1>7, <1>8, <1>9, <1>10, <1>11 DEF ProbeNext

LEMMA WorkSteps ==
  ASSUME OnTrack, Asked, outcome \in Outcome, WorkKnown, WorkloadNext
  PROVE  WorkKnown'
<1>a. outcome' \in Outcome
  BY WorkloadTypesStep
<1>b. ASSUME UNCHANGED <<command, outcome>>, failures \subseteq failures', "primary" \in failures' \/ at' \notin Closing
             \/ "config" \in failures'
      PROVE  WorkKnown'
  BY <1>b DEF WorkKnown, Clean
<1> USE DEF Closing
<1>1. CASE SettleLoad
  BY <1>1, <1>b DEF SettleLoad, SourceStep, SourcesReady, Goto, LoadFails, GotoWith
<1>2. CASE PrepareLocust
  BY <1>2, <1>b DEF PrepareLocust, Goto, Fail, GotoWith
<1>3. CASE RunLocust
  <2>1. CASE Fail /\ UNCHANGED outcome
    BY <2>1, <1>b DEF Fail, GotoWith
  <2>2. CASE ~(Fail /\ UNCHANGED outcome)
    <3>1. PICK f \in BOOLEAN, w \in BOOLEAN, t \in BOOLEAN :
            outcome' = [NoOutcome EXCEPT !.failed = f, !.worker = w, !.tainted = t]
      BY <1>3, <2>2 DEF RunLocust
    <3>2. outcome'.left = 0
      BY <3>1 DEF NoOutcome
    <3>3. at' = "collect" /\ UNCHANGED command /\ command.op = "load"
      BY <1>3, <2>2, WorkloadFlow DEF RunLocust, Goto, OnTrack, Asked, Track, Of, Loading,
         Working, Rising, Leaving, Probing
    <3> QED
      BY <3>2, <3>3 DEF WorkKnown
  <2> QED
    BY <2>1, <2>2
<1>4. CASE CollectReports
  <2>1. at = "collect" /\ at' = "audit" /\ UNCHANGED command /\ outcome'.left = outcome.left
    BY <1>4 DEF CollectReports, Goto, Outcome
  <2>2. command.op = "load"
    BY <2>1 DEF OnTrack, Asked, Track, Of, Loading, Working, Rising, Leaving, Probing
  <2> QED
    BY <2>1, <2>2 DEF WorkKnown
<1>5. CASE AuditReports
  <2>1. at = "audit" /\ UNCHANGED command /\ outcome'.left = outcome.left
    BY <1>5 DEF AuditReports, Goto, WorkloadGoto, Fail, GotoWith, Outcome
  <2>2. command.op = "load"
    BY <2>1 DEF OnTrack, Asked, Track, Of, Loading, Working, Rising, Leaving, Probing
  <2>3. CASE Fail
    BY <2>1, <2>2, <2>3 DEF WorkKnown, Clean, Fail, GotoWith
  <2>4. CASE ~Fail
    <3>1. UNCHANGED outcome /\ ~outcome.tainted /\ FineRun
      BY <1>5, <2>4 DEF AuditReports, WorkloadGoto
    <3>2. outcome = NoOutcome
      BY <2>2, <3>1, NothingWrong DEF FineRun, WorkKnown
    <3> QED
      BY <2>1, <2>2, <3>1, <3>2 DEF WorkKnown
  <2> QED
    BY <2>3, <2>4
<1>6. CASE RunGroup
  <2>1. /\ command.op = "live" /\ at = "operate" /\ UNCHANGED <<command, at>>
        /\ outcome'.worker = outcome.worker /\ outcome'.tainted = outcome.tainted
        /\ outcome'.unread = outcome.unread
    BY <1>6 DEF RunGroup, commandVars, Outcome
  <2> QED
    BY <2>1 DEF WorkKnown
<1>7. CASE CombineResults
  <2>1. command.op = "live" /\ outcome.left = 0 /\ UNCHANGED <<command, outcome>>
    BY <1>7 DEF CombineResults, Fail, GotoWith, Goto
  <2>2. CASE outcome.failed
    BY <1>7, <2>1, <2>2, <1>b DEF CombineResults, Fail, GotoWith
  <2>3. CASE ~outcome.failed
    <3>1. outcome = NoOutcome
      BY <2>1, <2>3, NothingWrong DEF WorkKnown
    <3> QED
      BY <2>1, <3>1 DEF WorkKnown
  <2> QED
    BY <2>2, <2>3
<1>8. CASE RunReference
  <2>1. at = "reference" /\ UNCHANGED command
    BY <1>8 DEF RunReference, Fail, GotoWith, Goto
  <2>2. command.op = "reference"
    BY <2>1 DEF OnTrack, Asked, Track, Of, Loading, Working, Rising, Leaving, Probing
  <2>3. PICK bad \in BOOLEAN : /\ outcome' = [outcome EXCEPT !.failed = bad]
                               /\ IF bad THEN Fail ELSE Goto("ended")
    BY <1>8 DEF RunReference
  <2>4. /\ outcome'.left = 0 /\ ~outcome'.worker /\ ~outcome'.tainted /\ ~outcome'.unread
        /\ outcome'.failed = bad
    BY <2>2, <2>3 DEF WorkKnown, Outcome
  <2>5. CASE bad
    BY <2>1, <2>2, <2>3, <2>4, <2>5 DEF WorkKnown, Clean, Fail, GotoWith
  <2>6. CASE ~bad
    <3>1. outcome' = NoOutcome
      BY <1>a, <2>4, <2>6, NothingWrong
    <3> QED
      BY <2>1, <2>2, <2>4, <3>1 DEF WorkKnown
  <2> QED
    BY <2>5, <2>6
<1> QED
  BY <1>1, <1>2, <1>3, <1>4, <1>5, <1>6, <1>7, <1>8 DEF WorkloadNext

LEMMA TruthStep ==
  ASSUME TypeInv, ProbeKnown, WorkKnown, [Next]_vars
  PROVE  ProbeKnown' /\ WorkKnown'
<1>a. OnTrack /\ Asked /\ target \in Target /\ outcome \in Outcome
  BY CommandAsked DEF TypeInv, CommandTypes, WorkTypes
<1>b. ASSUME UNCHANGED <<command, target>>, failures \subseteq failures', Reported, Unprobed PROVE ProbeKnown'
  BY <1>b DEF Reported, Unprobed, Clean, ProbeKnown, Closing, Probing, Routed, External, Lane
<1>c. ASSUME UNCHANGED <<command, outcome>>, failures \subseteq failures', Reported PROVE WorkKnown'
  BY <1>b, <1>c DEF Reported, Clean, WorkKnown
<1>d. UNCHANGED <<command, at, failures, target>> => ProbeKnown'
  BY DEF Clean, ProbeKnown, Routed, External, Lane
<1>e. UNCHANGED <<command, at, failures, outcome>> => WorkKnown'
  BY DEF Clean, WorkKnown
<1>1. CASE \E r \in Request : Begin(r)
  <2>1. at' = "assets" /\ outcome' = NoOutcome
    BY <1>1 DEF Begin
  <2> QED
    BY <2>1 DEF ProbeKnown, WorkKnown, Probing, Closing, NoOutcome
<1>2. CASE WorkspaceNext /\ UNCHANGED partVars
  BY <1>2, <1>a, <1>b, <1>c, WorkspaceLeads, WorkspaceFlow DEF Flow, partVars
<1>3. CASE CheckoutNext /\ UNCHANGED partVars
  BY <1>3, <1>a, <1>b, <1>c, CheckoutQuiet, CheckoutFlow DEF Flow, partVars
<1>4. CASE StackNext /\ UNCHANGED <<target, outcome>>
  BY <1>4, <1>a, <1>b, <1>c, StackQuiet, StackFlow DEF Flow, Quiet
<1>5. CASE (ProbeNext \/ BecomesReady) /\ UNCHANGED outcome
  <2>1. ProbeKnown'
    BY <1>5, <1>a, ProbeSteps
  <2>2. CASE ProbeNext
    <3>1. UNCHANGED command /\ command.op = "probe"
      BY <1>a, <2>2, ProbeQuiet, ProbeFlow DEF Quiet
    <3> QED
      BY <2>1, <3>1 DEF WorkKnown
  <2>3. CASE BecomesReady
    BY <1>5, <2>1, <2>3, <1>e DEF BecomesReady, commandVars
  <2> QED
    BY <1>5, <2>2, <2>3
<1>6. CASE ToolNext /\ UNCHANGED outcome
  BY <1>6, <1>a, <1>b, <1>c, ToolQuiet, ToolFlow, ToolTypesStep DEF Flow, Quiet, TypeInv
<1>7. CASE WorkloadNext /\ UNCHANGED target
  <2>1. UNCHANGED command /\ command.op # "probe"
    BY <1>7, <1>a, WorkloadQuiet, WorkloadFlow DEF Quiet
  <2> QED
    BY <1>7, <1>a, <2>1, WorkSteps DEF ProbeKnown
<1>8. CASE SessionNext
  <2>0. UNCHANGED command /\ failures \subseteq failures'
    BY <1>8, <1>a, SessionQuiet, SessionFlow DEF Quiet, Flow, Revoke, Goto, GotoWith
  <2>1. CASE Revoke
    BY <2>0, <2>1, <1>b, <1>c DEF Revoke, NotYet, Goto, GotoWith, Reported, Closing, Unprobed,
       Probing
  <2>2. CASE ~Revoke /\ NotYet /\ at' \notin Probing
    BY <1>8, <1>a, <2>0, <2>2, <1>b, <1>c, SessionFlow DEF NotYet, Unprobed
  <2>3. CASE ~Revoke /\ Operate
    <3>1. at' \in {"anonymous", "tool image", "operate"}
      BY <2>3 DEF Operate, OperationStep, Goto
    <3>2. command.op = "probe" => at' = "anonymous" /\ (Routed \/ target'.tool # "none")
      BY <2>3 DEF Operate, OperationStep, Goto
    <3>3. CASE command.op = "live"
      <4>1. PICK n \in Groups : outcome' = [NoOutcome EXCEPT !.left = n]
        BY <2>3, <3>3 DEF Operate
      <4> QED
        BY <2>0, <3>1, <3>3, <4>1 DEF ProbeKnown, WorkKnown, NoOutcome, Closing
    <3>4. CASE command.op # "live"
      <4>1. UNCHANGED outcome
        BY <2>3, <3>4 DEF Operate
      <4>2. UNCHANGED setting /\ Routed' = Routed
        BY <1>8, <2>0, SessionQuiet DEF Quiet, Routed
      <4> QED
        BY <2>0, <3>1, <3>2, <3>4, <4>1, <4>2 DEF ProbeKnown, WorkKnown, Closing, Probing
    <3> QED
      BY <3>3, <3>4
  <2>4. Revoke \/ Operate \/ (NotYet /\ at' \notin Probing)
    BY <1>8 DEF SessionNext, Prepare, AdminLogin, IssueToken, StandaloneToken, PublishFixture,
       PublishFastTime,
       Goto, Fail, GotoWith, IsSession, Probing
  <2> QED
    BY <2>1, <2>2, <2>3, <2>4
<1>9. CASE Surprise
  <2>1. CASE Kill
    BY <2>1 DEF Kill, ProbeKnown, WorkKnown, Closing, Probing
  <2>2. CASE ~Kill
    BY <1>9, <2>2, <1>d, <1>e DEF Surprise, Pushed, OtherTerminal, Interrupt, commandVars,
       partVars
  <2> QED
    BY <2>1, <2>2
<1>10. CASE UNCHANGED vars
  BY <1>10, <1>d, <1>e DEF vars, commandVars, partVars
<1> QED
  BY <1>1, <1>2, <1>3, <1>4, <1>5, <1>6, <1>7, <1>8, <1>9, <1>10 DEF Next, partVars

\* A command that reports no failure tells the truth, whatever it meets behind the route and whatever
\* its workload leaves, for any requests, configurations and bounds (run_probe, audit_reports,
\* finalize_locust_run, combine_live_results).
THEOREM CleanReportsAreTrue == Spec => []ReportTellsTruth
<1> DEFINE Inv == TypeInv /\ ProbeKnown /\ WorkKnown
<1>1. Init => Inv
  <2> SUFFICES ASSUME Init PROVE Inv
    OBVIOUS
  <2>1. TypeInv
    BY TypeInvInit
  <2>2. command.op = "none"
    BY DEF Init, CommandInit, Nothing
  <2> QED
    BY <2>1, <2>2 DEF ProbeKnown, WorkKnown
<1>2. Inv /\ [Next]_vars => Inv'
  BY TypeInvStep, TruthStep
<1>3. Inv => ReportTellsTruth
  BY TruthFollows
<1> QED
  BY <1>1, <1>2, <1>3, PTL DEF Spec

=============================================================================
