--------------------------- MODULE FyreRun_proofs ---------------------------
(* Safety of FyreRun for any machines, matrix and helper sizes: what a kill, a  *)
(* failure or the time bound leaves behind can be destroyed, what is reported   *)
(* was measured with one allocation, and no measurement is lost.                *)
EXTENDS FyreRun, TLAPS

\* The conjuncts of TypeOK, by what changes them together.
MachinesTyped ==
  /\ cloud \subseteq Machine /\ tracked \subseteq cloud
  /\ terraform \in [op: {"none", "apply", "destroy"}, by: Process \cup {"nobody"},
                    fresh: SUBSET Machine]
ControlTyped ==
  /\ pc \in [Process -> RunPhases \cup CommandPhases]
  /\ pc["run"] \in RunPhases /\ pc["destroy"] \in CommandPhases
  /\ attempt \in [Process -> 0..2]
  /\ exit \in {"none", "ok", "error", "killed"} /\ primary \in {"ok", "error"}
  /\ interrupted \in BOOLEAN /\ destroys \in 0..MaxDestroys
  /\ root \in BOOLEAN /\ variables \in BOOLEAN
  /\ disk \in {"none", "required", "done"} /\ seen \in {"none", "required", "done"}
CampaignTyped ==
  /\ index \in 1..(Scenarios + 1) /\ completed \in Seq(Scenario)
  /\ size \in [Role -> 0..Sizes] /\ alloc \in Alloc
  /\ request \in Role \cup {"none", "error"}
  /\ results \in [Scenario -> [state: {"none", "partial", "done"}, alloc: Alloc]]
  /\ measured \subseteq (Scenario \X Alloc)

LEMMA TypeParts == TypeOK <=> MachinesTyped /\ ControlTyped /\ CampaignTyped
  BY DEF TypeOK, MachinesTyped, ControlTyped, CampaignTyped

----------------------------------------------------------------------------
\* Which actions touch the machines, and which the campaign.

LEMMA MachineActions ==
  ASSUME [Next]_vars
  PROVE  \/ UNCHANGED machines
         \/ StartApply \/ ApplyEnds \/ Timeout \/ KillRun \/ KillCommand \/ Terraform
         \/ \E p \in Process : StartDestroy(p) \/ DestroyEnds(p)
  BY DEF Next, Run, Command, Finished, Process, machines, CampaignFails, CampaignSucceeds,
     CheckQuota, Collect, Collecting, Destroying, Finish, GrowHelper, NextScenario, Prepare,
        Report, ResetResults, StartCommand, StartRun, WriteDestroyed, WriteDestroying,
           WriteFirstState, WriteManifest, WriteQuotaState, vars

LEMMA CampaignActions ==
  ASSUME [Next]_vars
  PROVE  \/ UNCHANGED campaign
         \/ ApplyEnds \/ ResetResults \/ CampaignSucceeds \/ CampaignFails
         \/ GrowHelper \/ Timeout
  BY DEF Next, Run, Command, Finished, campaign, CheckQuota, Collect, Collecting, DestroyEnds,
     Destroying, Finish, KillCommand, KillRun, NextScenario, Prepare, Report, StartApply,
        StartCommand, StartDestroy, StartRun, Terraform, WriteDestroyed, WriteDestroying,
           WriteFirstState, WriteManifest, WriteQuotaState, vars

\* What is not yet recorded exists, and only an apply makes machines.
FreshExist ==
  /\ terraform.fresh \subseteq cloud
  /\ terraform.op # "apply" => terraform.fresh = {}

LEMMA MachinesTypedStep ==
  ASSUME TypeOK, FreshExist, [Next]_vars
  PROVE  MachinesTyped' /\ FreshExist'
<1> USE DEF MachinesTyped, FreshExist
<1>a. MachinesTyped /\ FreshExist
  BY TypeParts
<1>1. CASE UNCHANGED machines
  BY <1>1, <1>a DEF machines
<1>2. CASE StartApply
  <2>1. cloud' = cloud /\ tracked' = tracked
    BY <1>2 DEF StartApply
  <2>2. terraform' = terraform \/ terraform' = [op |-> "apply", by |-> "run", fresh |-> {}]
    BY <1>2 DEF StartApply, Running
  <2> QED
    BY <2>1, <2>2, <1>a DEF Process
<1>3. CASE ApplyEnds
  BY <1>3, <1>a DEF ApplyEnds, Ends, Killed, NoProcess
<1>4. CASE Timeout
  BY <1>4, <1>a DEF Timeout, Killed, NoProcess, machines
<1>5. CASE KillRun
  BY <1>5, <1>a DEF KillRun, Orphaned
<1>6. CASE KillCommand
  BY <1>6, <1>a DEF KillCommand, Orphaned
<1>7. CASE Terraform
  <2>1. ASSUME NEW m \in Machine, MakeMachine(m) PROVE MachinesTyped' /\ FreshExist'
    BY <2>1, <1>a DEF MakeMachine
  <2>2. ASSUME NEW m \in Machine, RecordMachine(m) PROVE MachinesTyped' /\ FreshExist'
    BY <2>2, <1>a DEF RecordMachine
  <2>3. ASSUME NEW m \in Machine, DeleteMachine(m) PROVE MachinesTyped' /\ FreshExist'
    BY <2>3, <1>a DEF DeleteMachine
  <2>4. CASE Ends("nobody", FALSE)
    BY <2>4, <1>a DEF Ends, NoProcess
  <2> QED
    BY <1>7, <2>1, <2>2, <2>3, <2>4 DEF Terraform
<1>8. ASSUME NEW p \in Process, StartDestroy(p) PROVE MachinesTyped' /\ FreshExist'
  BY <1>8, <1>a DEF StartDestroy, Running
<1>9. ASSUME NEW p \in Process, DestroyEnds(p) PROVE MachinesTyped' /\ FreshExist'
  BY <1>9, <1>a DEF DestroyEnds, Ends, Killed, NoProcess
<1> QED
  BY <1>1, <1>2, <1>3, <1>4, <1>5, <1>6, <1>7, <1>8, <1>9, MachineActions

----------------------------------------------------------------------------
\* Where the processes are.

PcTyped ==
  /\ pc \in [Process -> RunPhases \cup CommandPhases]
  /\ pc["run"] \in RunPhases /\ pc["destroy"] \in CommandPhases

LEMMA GotoTyped ==
  ASSUME PcTyped, NEW p \in Process,
         NEW l \in IF p = "run" THEN RunPhases ELSE CommandPhases, Goto(p, l)
  PROVE  /\ PcTyped'
         /\ pc'[p] = l /\ \A q \in Process : q # p => pc'[q] = pc[q]
  BY DEF PcTyped, Goto, Process

LEMMA AttemptTyped ==
  ASSUME PcTyped, attempt \in [Process -> 0..2], NEW p \in Process, AttemptFails(p)
  PROVE  attempt' \in [Process -> 0..2] /\ PcTyped'
<1>1. \A n \in 0..2 : (IF MoreAttempts(n) THEN n + 1 ELSE 0) \in 0..2
  BY DEF MoreAttempts
<1>2. attempt' \in [Process -> 0..2]
  BY <1>1 DEF AttemptFails
<1>3. Goto(p, "destroy") \/ Goto(p, "unclean")
  BY DEF AttemptFails
<1> QED
  BY <1>2, <1>3, GotoTyped DEF RunPhases, CommandPhases

LEMMA PcStep ==
  ASSUME TypeOK, [Next]_vars
  PROVE  PcTyped' /\ attempt' \in [Process -> 0..2]
<1>a. PcTyped /\ attempt \in [Process -> 0..2]
  BY DEF TypeOK, PcTyped
<1>b. "run" \in Process /\ "destroy" \in Process
  BY DEF Process
<1>c. ASSUME NEW l \in RunPhases, Goto("run", l), UNCHANGED attempt
      PROVE  PcTyped' /\ attempt' \in [Process -> 0..2]
  BY <1>a, <1>b, <1>c, GotoTyped
<1>d. ASSUME NEW l \in CommandPhases, Goto("destroy", l), UNCHANGED attempt
      PROVE  PcTyped' /\ attempt' \in [Process -> 0..2]
  BY <1>a, <1>b, <1>d, GotoTyped
<1>e. ASSUME NEW p \in Process, AttemptFails(p)
      PROVE  PcTyped' /\ attempt' \in [Process -> 0..2]
  BY <1>a, <1>e, AttemptTyped
<1>1. CASE StartRun
  BY <1>1, <1>c DEF StartRun, RunPhases
<1>2. CASE WriteFirstState
  BY <1>2, <1>c DEF WriteFirstState, RunPhases
<1>3. CASE Prepare
  BY <1>3, <1>c DEF Prepare, Fail, RunPhases
<1>4. CASE WriteQuotaState
  BY <1>4, <1>c DEF WriteQuotaState, Fail, StateWritten, RunPhases
<1>5. CASE CheckQuota
  BY <1>5, <1>c DEF CheckQuota, Fail, RunPhases
<1>6. CASE NextScenario
  BY <1>6, <1>c DEF NextScenario, Fail, StateWritten, RunPhases
<1>7. CASE StartApply
  BY <1>7, <1>c DEF StartApply, Fail, RunPhases
<1>8. CASE ApplyEnds
  BY <1>8, <1>c DEF ApplyEnds, Fail, RunPhases
<1>9. CASE ResetResults
  BY <1>9, <1>c DEF ResetResults, Fail, StateWritten, RunPhases
<1>10. CASE CampaignSucceeds
  BY <1>10, <1>c DEF CampaignSucceeds, Fail, StateWritten, RunPhases
<1>11. CASE CampaignFails
  BY <1>11, <1>c DEF CampaignFails, RunPhases
<1>12. CASE Collect
  BY <1>12, <1>c DEF Collect, Fail, RunPhases
<1>13. CASE GrowHelper
  BY <1>13, <1>c DEF GrowHelper, Fail, RunPhases
<1>14. CASE WriteManifest
  BY <1>14, <1>c DEF WriteManifest, Fail, RunPhases
<1>15. CASE Collecting
  BY <1>15, <1>c DEF Collecting, RunPhases
<1>16. CASE Report
  BY <1>16, <1>c DEF Report, RunPhases
<1>17. CASE Destroying
  BY <1>17, <1>c DEF Destroying, RunPhases
<1>18. CASE Finish
  BY <1>18, <1>c DEF Finish, RunPhases
<1>19. CASE StartDestroy("run")
  BY <1>19, <1>b, <1>c, <1>e DEF StartDestroy, RunPhases
<1>20. CASE DestroyEnds("run")
  <2>1. CASE Goto("run", "clean") /\ attempt' = [attempt EXCEPT !["run"] = 0]
    BY <2>1, <1>a, <1>b, GotoTyped DEF RunPhases
  <2>2. CASE AttemptFails("run")
    BY <2>2, <1>b, <1>e
  <2> QED
    BY <1>20, <2>1, <2>2 DEF DestroyEnds
<1>21. CASE Timeout
  BY <1>21, <1>c DEF Timeout, RunPhases
<1>22. CASE KillRun
  BY <1>22, <1>c DEF KillRun, RunPhases
<1>23. CASE StartCommand
  BY <1>23, <1>d DEF StartCommand, CommandPhases
<1>24. CASE WriteDestroying
  BY <1>24, <1>d DEF WriteDestroying, CommandPhases
<1>25. CASE WriteDestroyed
  BY <1>25, <1>d DEF WriteDestroyed, CommandPhases
<1>26. CASE KillCommand
  BY <1>26, <1>a, <1>b, GotoTyped DEF KillCommand, RunPhases, CommandPhases
<1>27. CASE StartDestroy("destroy")
  BY <1>27, <1>b, <1>d, <1>e DEF StartDestroy, CommandPhases
<1>28. CASE DestroyEnds("destroy")
  <2>1. CASE Goto("destroy", "clean") /\ attempt' = [attempt EXCEPT !["destroy"] = 0]
    BY <2>1, <1>a, <1>b, GotoTyped DEF CommandPhases
  <2>2. CASE AttemptFails("destroy")
    BY <2>2, <1>b, <1>e
  <2> QED
    BY <1>28, <2>1, <2>2 DEF DestroyEnds
<1>29. CASE Terraform
  BY <1>29, <1>a DEF Terraform, PcTyped
<1>30. CASE UNCHANGED vars
  BY <1>30, <1>a DEF vars, PcTyped
<1> QED
  BY <1>1, <1>2, <1>3, <1>4, <1>5, <1>6, <1>7, <1>8, <1>9, <1>10, <1>11, <1>12, <1>13, <1>14,
     <1>15, <1>16, <1>17, <1>18, <1>19, <1>20, <1>21, <1>22, <1>23, <1>24, <1>25, <1>26, <1>27,
        <1>28,
     <1>29, <1>30
  DEF Next, Run, Command, Finished

LEMMA ControlTypedStep ==
  ASSUME TypeOK, [Next]_vars
  PROVE  ControlTyped'
<1>a. ControlTyped
  BY TypeParts
<1>b. PcTyped' /\ attempt' \in [Process -> 0..2]
  BY PcStep
<1> SUFFICES
      /\ exit' \in {"none", "ok", "error", "killed"} /\ primary' \in {"ok", "error"}
      /\ interrupted' \in BOOLEAN /\ destroys' \in 0..MaxDestroys
      /\ root' \in BOOLEAN /\ variables' \in BOOLEAN
      /\ disk' \in {"none", "required", "done"} /\ seen' \in {"none", "required", "done"}
  BY <1>b DEF ControlTyped, PcTyped
<1> USE DEF ControlTyped, files, outcome, command
<1>1. CASE StartRun
  BY <1>1, <1>a DEF StartRun
<1>2. CASE WriteFirstState
  BY <1>2, <1>a DEF WriteFirstState, Unwritten
<1>3. CASE Prepare
  BY <1>3, <1>a DEF Prepare, Fail, MayBeCtrlC
<1>4. CASE WriteQuotaState
  BY <1>4, <1>a DEF WriteQuotaState, Fail, StateWritten, Unwritten
<1>5. CASE CheckQuota
  BY <1>5, <1>a DEF CheckQuota, Fail, MayBeCtrlC
<1>6. CASE NextScenario
  BY <1>6, <1>a DEF NextScenario, Fail, StateWritten, Unwritten
<1>7. CASE StartApply
  BY <1>7, <1>a DEF StartApply, Fail
<1>8. CASE ApplyEnds
  BY <1>8, <1>a DEF ApplyEnds, Fail
<1>9. CASE ResetResults
  BY <1>9, <1>a DEF ResetResults, Fail, StateWritten, Unwritten
<1>10. CASE CampaignSucceeds
  BY <1>10, <1>a DEF CampaignSucceeds, Fail, StateWritten, Unwritten
<1>11. CASE CampaignFails
  BY <1>11, <1>a DEF CampaignFails, MayBeCtrlC
<1>12. CASE Collect
  BY <1>12, <1>a DEF Collect, Fail, MayBeCtrlC
<1>13. CASE GrowHelper
  BY <1>13, <1>a DEF GrowHelper, Fail
<1>14. CASE WriteManifest
  BY <1>14, <1>a DEF WriteManifest, Fail
<1>15. CASE Collecting
  BY <1>15, <1>a DEF Collecting, Unwritten
<1>16. CASE Report
  BY <1>16, <1>a DEF Report, MayBeCtrlC
<1>17. CASE Destroying
  BY <1>17, <1>a DEF Destroying, Unwritten
<1>18. CASE Finish
  BY <1>18, <1>a DEF Finish, Unwritten
<1>19. CASE StartDestroy("run")
  BY <1>19, <1>a DEF StartDestroy
<1>20. CASE DestroyEnds("run")
  BY <1>20, <1>a DEF DestroyEnds
<1>21. CASE Timeout
  BY <1>21, <1>a DEF Timeout
<1>22. CASE KillRun
  BY <1>22, <1>a DEF KillRun
<1>23. CASE StartCommand
  BY <1>23, <1>a, FyreAssumption DEF StartCommand
<1>24. CASE WriteDestroying
  BY <1>24, <1>a DEF WriteDestroying, Unwritten
<1>25. CASE WriteDestroyed
  BY <1>25, <1>a DEF WriteDestroyed, Unwritten
<1>26. CASE KillCommand
  BY <1>26, <1>a DEF KillCommand
<1>27. CASE StartDestroy("destroy")
  BY <1>27, <1>a DEF StartDestroy
<1>28. CASE DestroyEnds("destroy")
  BY <1>28, <1>a DEF DestroyEnds
<1>29. CASE Terraform
  BY <1>29, <1>a DEF Terraform
<1>30. CASE UNCHANGED vars
  BY <1>30, <1>a DEF vars
<1> QED
  BY <1>1, <1>2, <1>3, <1>4, <1>5, <1>6, <1>7, <1>8, <1>9, <1>10, <1>11, <1>12, <1>13, <1>14,
     <1>15, <1>16, <1>17, <1>18, <1>19, <1>20, <1>21, <1>22, <1>23, <1>24, <1>25, <1>26, <1>27,
        <1>28,
     <1>29, <1>30
  DEF Next, Run, Command, Finished


----------------------------------------------------------------------------
\* The campaign's variables.

LEMMA ResultTyped ==
  ASSUME NEW state \in {"none", "partial", "done"}, NEW a \in Alloc
  PROVE  /\ Result(state, a) \in [state: {"none", "partial", "done"}, alloc: Alloc]
         /\ Result(state, a).state = state /\ Result(state, a).alloc = a
  BY DEF Result

LEMMA NoResultTyped ==
  /\ NoResult \in [state: {"none", "partial", "done"}, alloc: Alloc]
  /\ NoResult.state = "none"
<1>1. [r \in Role |-> 0] \in Alloc
  BY FyreAssumption DEF Alloc, Size
<1> QED
  BY <1>1, ResultTyped DEF NoResult

\* The helper sizes that are used exist, the index is that of a scenario, and a helper
\* that is to grow is known.
InUse ==
  /\ pc["run"] \in {"idle", "write_state", "prepare", "quota_state", "quota", "next",
                    "apply", "applying", "reset", "campaign", "collect", "grow"} =>
       size \in Alloc
  /\ pc["run"] \in {"apply", "applying", "reset", "campaign"} => index \in Scenario
  /\ pc["run"] = "grow" => request \in Role

LEMMA GrownTyped ==
  ASSUME size \in Alloc, NEW r \in Role
  PROVE  /\ Grown(size[r]) \in 0..Sizes
         /\ [size EXCEPT ![r] = Grown(@)] \in [Role -> 0..Sizes]
         /\ Grown(size[r]) < Sizes => [size EXCEPT ![r] = Grown(@)] \in Alloc
<1>1. size[r] \in 0..(Sizes - 1)
  BY DEF Alloc, Size
<1>2. Grown(size[r]) \in 0..Sizes
  BY <1>1, FyreAssumption DEF Grown
<1>3. size \in [Role -> 0..Sizes]
  BY FyreAssumption DEF Alloc, Size
<1>4. [size EXCEPT ![r] = Grown(@)] = [size EXCEPT ![r] = Grown(size[r])]
  BY DEF Alloc
<1>5. Grown(size[r]) < Sizes => Grown(size[r]) \in Size
  BY <1>2, FyreAssumption DEF Size
<1> QED
  BY <1>2, <1>3, <1>4, <1>5 DEF Alloc

LEMMA CampaignTypedStep ==
  ASSUME TypeOK, InUse, [Next]_vars
  PROVE  CampaignTyped'
<1>a. CampaignTyped
  BY TypeParts
<1> USE DEF CampaignTyped
<1>1. CASE UNCHANGED campaign
  BY <1>1, <1>a DEF campaign
<1>2. CASE ApplyEnds
  BY <1>2, <1>a DEF ApplyEnds, InUse
<1>3. CASE ResetResults
  <2>1. results' \in [Scenario -> [state: {"none", "partial", "done"}, alloc: Alloc]]
    <3>1. /\ Result("partial", alloc) \in [state: {"none", "partial", "done"}, alloc: Alloc]
          /\ NoResult \in [state: {"none", "partial", "done"}, alloc: Alloc]
      BY <1>a, ResultTyped, NoResultTyped
    <3>2. PICK v \in {Result("partial", alloc), NoResult} :
            results' = results \/ results' = [results EXCEPT ![index] = v]
      BY <1>3 DEF ResetResults
    <3> QED
      BY <3>1, <3>2, <1>a
  <2> QED
    BY <1>3, <2>1, <1>a DEF ResetResults
<1>4. CASE CampaignSucceeds
  <2>1. index \in Scenario
    BY <1>4 DEF CampaignSucceeds, InUse
  <2>2. results' \in [Scenario -> [state: {"none", "partial", "done"}, alloc: Alloc]]
    BY <1>4, <1>a, ResultTyped DEF CampaignSucceeds
  <2>3. index' \in 1..(Scenarios + 1) /\ completed' \in Seq(Scenario)
    BY <1>4, <2>1, <1>a, FyreAssumption DEF CampaignSucceeds, Scenario
  <2>4. measured' \subseteq (Scenario \X Alloc)
    BY <1>4, <2>1, <1>a DEF CampaignSucceeds
  <2> QED
    BY <1>4, <1>a, <2>2, <2>3, <2>4 DEF CampaignSucceeds
<1>5. CASE CampaignFails
  BY <1>5, <1>a DEF CampaignFails
<1>6. CASE GrowHelper
  <2>1. size' \in [Role -> 0..Sizes]
    BY <1>6, GrownTyped DEF GrowHelper, InUse
  <2>2. results' \in [Scenario -> [state: {"none", "partial", "done"}, alloc: Alloc]]
    BY <1>6, <1>a, NoResultTyped DEF GrowHelper, Archive
  <2>3. index' \in 1..(Scenarios + 1)
    BY <1>6, <1>a, FyreAssumption DEF GrowHelper, Restart
  <2>4. completed' \in Seq(Scenario)
    <3>1. completed' = << >> \/ completed' = completed
      BY <1>6 DEF GrowHelper
    <3>2. << >> \in Seq(Scenario)
      OBVIOUS
    <3> QED
      BY <3>1, <3>2, <1>a
  <2> QED
    BY <1>6, <1>a, <2>1, <2>2, <2>3, <2>4 DEF GrowHelper
<1>7. CASE Timeout
  BY <1>7, <1>a DEF Timeout
<1> QED
  BY <1>1, <1>2, <1>3, <1>4, <1>5, <1>6, <1>7, CampaignActions

LEMMA InUseStep ==
  ASSUME TypeOK, InUse, [Next]_vars
  PROVE  InUse'
<1>a. pc \in [Process -> RunPhases \cup CommandPhases] /\ "run" \in Process
  BY DEF TypeOK, Process
<1>b. CampaignTyped'
  BY CampaignTypedStep
<1> USE DEF InUse
<1>1. CASE StartRun
  BY <1>1, <1>a, <1>b DEF StartRun, Goto, campaign
<1>2. CASE WriteFirstState
  BY <1>2, <1>a, <1>b DEF WriteFirstState, Goto, campaign
<1>3. CASE Prepare
  BY <1>3, <1>a, <1>b DEF Prepare, Goto, Fail, campaign
<1>4. CASE WriteQuotaState
  BY <1>4, <1>a, <1>b DEF WriteQuotaState, Goto, Fail, StateWritten, campaign
<1>5. CASE CheckQuota
  BY <1>5, <1>a, <1>b DEF CheckQuota, Goto, Fail, campaign
<1>6. CASE NextScenario
  BY <1>6, <1>a, <1>b DEF NextScenario, Goto, Fail, StateWritten, campaign
<1>7. CASE StartApply
  BY <1>7, <1>a, <1>b DEF StartApply, Goto, Fail, campaign
<1>8. CASE ApplyEnds
  BY <1>8, <1>a, <1>b DEF ApplyEnds, Goto, Fail
<1>9. CASE ResetResults
  BY <1>9, <1>a, <1>b DEF ResetResults, Goto, Fail, StateWritten, campaign
<1>10. CASE CampaignSucceeds
  BY <1>10, <1>a, <1>b DEF CampaignSucceeds, Goto, Fail, StateWritten, campaign
<1>11. CASE CampaignFails
  BY <1>11, <1>a, <1>b DEF CampaignFails, Goto, campaign
<1>12. CASE Collect
  BY <1>12, <1>a, <1>b DEF Collect, Goto, Fail, campaign
<1>13. CASE GrowHelper
  <2>1. PcTyped /\ request \in Role /\ size \in Alloc
    BY <1>13, <1>a DEF GrowHelper, TypeOK, PcTyped
  <2>2. CASE Goto("run", "next")
    <3>1. pc'["run"] = "next"
      BY <2>2, <1>a DEF Goto
    <3>2. ~Fail
      BY <2>2, <1>a DEF Fail, Goto
    <3>3. size' \in Alloc
      BY <1>13, <2>1, <3>2, GrownTyped DEF GrowHelper
    <3> QED
      BY <3>1, <3>3
  <2>3. CASE Fail
    BY <2>3, <1>a DEF Fail, Goto
  <2> QED
    BY <1>13, <2>2, <2>3 DEF GrowHelper
<1>14. CASE WriteManifest
  BY <1>14, <1>a, <1>b DEF WriteManifest, Goto, Fail, campaign
<1>15. CASE Collecting
  BY <1>15, <1>a, <1>b DEF Collecting, Goto, campaign
<1>16. CASE Report
  BY <1>16, <1>a, <1>b DEF Report, Goto, campaign
<1>17. CASE Destroying
  BY <1>17, <1>a, <1>b DEF Destroying, Goto, campaign
<1>18. CASE Finish
  BY <1>18, <1>a, <1>b DEF Finish, Goto, campaign
<1>19. CASE StartDestroy("run")
  BY <1>19, <1>a, <1>b DEF StartDestroy, Goto, campaign, AttemptFails
<1>20. CASE DestroyEnds("run")
  BY <1>20, <1>a, <1>b DEF DestroyEnds, Goto, campaign, AttemptFails
<1>21. CASE Timeout
  BY <1>21, <1>a, <1>b DEF Timeout, Goto, campaign
<1>22. CASE KillRun
  BY <1>22, <1>a, <1>b DEF KillRun, Goto, campaign
<1>23. CASE StartCommand
  BY <1>23, <1>a, <1>b DEF StartCommand, Goto, campaign
<1>24. CASE WriteDestroying
  BY <1>24, <1>a, <1>b DEF WriteDestroying, Goto, campaign
<1>25. CASE WriteDestroyed
  BY <1>25, <1>a, <1>b DEF WriteDestroyed, Goto, campaign
<1>26. CASE KillCommand
  BY <1>26, <1>a, <1>b DEF KillCommand, Goto, campaign
<1>27. CASE StartDestroy("destroy")
  BY <1>27, <1>a, <1>b DEF StartDestroy, Goto, campaign, AttemptFails
<1>28. CASE DestroyEnds("destroy")
  BY <1>28, <1>a, <1>b DEF DestroyEnds, Goto, campaign, AttemptFails
<1>29. CASE Terraform
  BY <1>29, <1>a, <1>b DEF Terraform, campaign
<1>30. CASE UNCHANGED vars
  BY <1>30, <1>a, <1>b DEF vars, campaign
<1> QED
  BY <1>1, <1>2, <1>3, <1>4, <1>5, <1>6, <1>7, <1>8, <1>9, <1>10, <1>11, <1>12, <1>13, <1>14,
     <1>15, <1>16, <1>17, <1>18, <1>19, <1>20, <1>21, <1>22, <1>23, <1>24, <1>25, <1>26, <1>27,
        <1>28,
     <1>29, <1>30
  DEF Next, Run, Command, Finished


TypeInv == TypeOK /\ FreshExist /\ InUse

LEMMA InitTyped == Init => TypeInv
<1> SUFFICES ASSUME Init PROVE TypeInv
  OBVIOUS
<1>1. size \in [Role -> 0..Sizes] /\ size \in Alloc /\ alloc \in Alloc
  BY FyreAssumption DEF Init, Alloc, Size
<1>2. MachinesTyped /\ FreshExist
  BY DEF Init, MachinesTyped, FreshExist, NoProcess
<1>3. ControlTyped
  <2>1. pc \in [Process -> RunPhases \cup CommandPhases] /\ pc["run"] = "idle"
          /\ pc["destroy"] = "idle"
    BY DEF Init, Process, RunPhases
  <2>2. "idle" \in RunPhases /\ "idle" \in CommandPhases
    BY DEF RunPhases, CommandPhases
  <2>3. destroys \in 0..MaxDestroys /\ attempt \in [Process -> 0..2]
    BY FyreAssumption DEF Init
  <2> QED
    BY <2>1, <2>2, <2>3 DEF Init, ControlTyped
<1>4. completed \in Seq(Scenario)
  BY DEF Init
<1>5. results \in [Scenario -> [state: {"none", "partial", "done"}, alloc: Alloc]]
  BY NoResultTyped DEF Init
<1>6. CampaignTyped
  BY <1>1, <1>4, <1>5, FyreAssumption DEF Init, CampaignTyped
<1>7. InUse
  BY <1>1 DEF Init, InUse, Process
<1> QED
  BY <1>2, <1>3, <1>6, <1>7, TypeParts DEF TypeInv

LEMMA TypeStep ==
  ASSUME TypeInv, [Next]_vars
  PROVE  TypeInv'
<1>1. MachinesTyped' /\ FreshExist' /\ ControlTyped' /\ CampaignTyped' /\ InUse'
  BY MachinesTypedStep, ControlTypedStep, CampaignTypedStep, InUseStep DEF TypeInv
<1>2. TypeOK'
  BY <1>1 DEF TypeOK, MachinesTyped, ControlTyped, CampaignTyped
<1> QED
  BY <1>1, <1>2 DEF TypeInv

\* Every variable of the run keeps its type, whatever fails, is killed or runs late.
THEOREM TypeCorrect == Spec => []TypeOK
<1>1. Spec => []TypeInv
  BY InitTyped, TypeStep, PTL DEF Spec
<1>2. TypeInv => TypeOK
  BY DEF TypeInv
<1> QED
  BY <1>1, <1>2, PTL

----------------------------------------------------------------------------
\* The state is written before the variables, the variables before an apply; and no later
\* write, failed or not, takes them back.

WrittenInOrder ==
  /\ cloud # {} \/ terraform.op # "none" => variables
  /\ variables => disk # "none"
  /\ disk # "none" \/ pc["run"] = "write_state" => root
  /\ pc["run"] \notin {"idle", "write_state", "ended"} => disk # "none"
  /\ pc["destroy"] # "idle" => disk # "none"
  /\ pc["destroy"] = "write" => seen # "none"

LEMMA WrittenInOrderStep ==
  ASSUME TypeInv, WrittenInOrder, [Next]_vars
  PROVE  WrittenInOrder'
<1>a. pc \in [Process -> RunPhases \cup CommandPhases] /\ "run" \in Process /\ "destroy" \in Process
  BY DEF TypeInv, TypeOK, Process
<1>b. terraform \in [op: {"none", "apply", "destroy"}, by: Process \cup {"nobody"},
                     fresh: SUBSET Machine] /\ tracked \subseteq cloud
  BY DEF TypeInv, TypeOK
<1> USE DEF WrittenInOrder
<1>1. CASE StartRun
  BY <1>1, <1>a, <1>b DEF StartRun, Goto, machines, command
<1>2. CASE WriteFirstState
  BY <1>2, <1>a, <1>b DEF WriteFirstState, Goto, Unwritten, machines, command
<1>3. CASE Prepare
  BY <1>3, <1>a, <1>b DEF Prepare, Goto, Fail, machines, files, command
<1>4. CASE WriteQuotaState
  BY <1>4, <1>a, <1>b DEF WriteQuotaState, Goto, Fail, StateWritten, Unwritten, machines, command
<1>5. CASE CheckQuota
  BY <1>5, <1>a, <1>b DEF CheckQuota, Goto, Fail, machines, command
<1>6. CASE NextScenario
  BY <1>6, <1>a, <1>b DEF NextScenario, Goto, Fail, StateWritten, Unwritten, machines, command
<1>7. CASE StartApply
  BY <1>7, <1>a, <1>b DEF StartApply, Goto, Fail, command, Running
<1>8. CASE ApplyEnds
  BY <1>8, <1>a, <1>b DEF ApplyEnds, Goto, Fail, files, command, Ends, Killed, NoProcess
<1>9. CASE ResetResults
  BY <1>9, <1>a, <1>b DEF ResetResults, Goto, Fail, StateWritten, Unwritten, machines, command
<1>10. CASE CampaignSucceeds
  BY <1>10, <1>a, <1>b DEF CampaignSucceeds, Goto, Fail, StateWritten, Unwritten, machines, command
<1>11. CASE CampaignFails
  BY <1>11, <1>a, <1>b DEF CampaignFails, Goto, machines, files, command
<1>12. CASE Collect
  BY <1>12, <1>a, <1>b DEF Collect, Goto, Fail, machines, files, command
<1>13. CASE GrowHelper
  BY <1>13, <1>a, <1>b DEF GrowHelper, Goto, Fail, machines, files, command
<1>14. CASE WriteManifest
  BY <1>14, <1>a, <1>b DEF WriteManifest, Goto, Fail, machines, files, command
<1>15. CASE Collecting
  BY <1>15, <1>a, <1>b DEF Collecting, Goto, Unwritten, machines, command
<1>16. CASE Report
  BY <1>16, <1>a, <1>b DEF Report, Goto, machines, files, command
<1>17. CASE Destroying
  BY <1>17, <1>a, <1>b DEF Destroying, Goto, Unwritten, machines, command
<1>18. CASE Finish
  BY <1>18, <1>a, <1>b DEF Finish, Goto, Unwritten, machines, command
<1>19. CASE StartDestroy("run")
  BY <1>19, <1>a, <1>b DEF StartDestroy, Goto, files, command, AttemptFails, Running
<1>20. CASE DestroyEnds("run")
  BY <1>20, <1>a, <1>b DEF DestroyEnds, Goto, files, command, AttemptFails, Ends, Killed, NoProcess
<1>21. CASE Timeout
  BY <1>21, <1>a, <1>b DEF Timeout, Goto, machines, files, command, Killed, NoProcess
<1>22. CASE KillRun
  BY <1>22, <1>a, <1>b DEF KillRun, Goto, files, command, Orphaned
<1>23. CASE StartCommand
  BY <1>23, <1>a, <1>b DEF StartCommand, Goto, machines, files
<1>24. CASE WriteDestroying
  BY <1>24, <1>a, <1>b DEF WriteDestroying, Goto, Unwritten, machines, command
<1>25. CASE WriteDestroyed
  BY <1>25, <1>a, <1>b DEF WriteDestroyed, Goto, Unwritten, machines, command
<1>26. CASE KillCommand
  BY <1>26, <1>a, <1>b DEF KillCommand, Goto, files, command, Orphaned
<1>27. CASE StartDestroy("destroy")
  BY <1>27, <1>a, <1>b DEF StartDestroy, Goto, files, command, AttemptFails, Running
<1>28. CASE DestroyEnds("destroy")
  BY <1>28, <1>a, <1>b DEF DestroyEnds, Goto, files, command, AttemptFails, Ends, Killed, NoProcess
<1>29. CASE Terraform
  BY <1>29, <1>a, <1>b DEF Terraform, files, command, Ends, NoProcess, MakeMachine,
     RecordMachine, DeleteMachine
<1>30. CASE UNCHANGED vars
  BY <1>30, <1>a, <1>b DEF vars, machines, files, command
<1> QED
  BY <1>1, <1>2, <1>3, <1>4, <1>5, <1>6, <1>7, <1>8, <1>9, <1>10, <1>11, <1>12, <1>13, <1>14,
     <1>15, <1>16, <1>17, <1>18, <1>19, <1>20, <1>21, <1>22, <1>23, <1>24, <1>25, <1>26, <1>27,
        <1>28,
     <1>29, <1>30
  DEF Next, Run, Command, Finished

\* Whenever a machine exists the destroy command accepts the run and has its variables.
THEOREM CanBeDestroyed == Spec => []Destroyable
<1>1. Init => WrittenInOrder
  BY DEF Init, WrittenInOrder, NoProcess, Process
<1>2. WrittenInOrder => Destroyable
  BY DEF WrittenInOrder, Destroyable
<1> QED
  BY <1>1, <1>2, InitTyped, TypeStep, WrittenInOrderStep, PTL DEF Spec

----------------------------------------------------------------------------
\* The measurements that are reported.

InMatrix == {"idle", "write_state", "prepare", "quota_state", "quota", "next", "apply",
             "applying", "reset", "campaign"}
AtTheEnd == {"collecting", "report", "destroying", "destroy", "waiting", "clean", "unclean"}

\* The scenarios before the n-th are measured, in order, with the sizes in use.
MeasuredUpTo(n) ==
  /\ completed = [s \in 1..(n - 1) |-> s]
  /\ \A s \in Scenario : s < n => results[s] = Result("done", size)

MeasuredAlike ==
  /\ pc["run"] \in InMatrix => MeasuredUpTo(index)
  /\ \/ pc["run"] = "manifest"
     \/ pc["run"] \in AtTheEnd /\ primary = "ok"
     \/ exit = "ok"
     => MeasuredUpTo(Scenarios + 1)
  /\ pc["run"] \in {"reset", "campaign"} => alloc = size
  /\ exit = "ok" => pc["run"] = "ended"
  /\ pc["run"] = "report" => primary = "ok"

LEMMA NothingMeasured == << >> = [s \in 1..(1 - 1) |-> s]
  OBVIOUS

LEMMA OneMore ==
  ASSUME NEW n \in Nat \ {0}
  PROVE  Append([s \in 1..(n - 1) |-> s], n) = [s \in 1..((n + 1) - 1) |-> s]
  OBVIOUS

LEMMA MeasuredAlikeStep ==
  ASSUME TypeInv, MeasuredAlike, [Next]_vars
  PROVE  MeasuredAlike'
<1>a. pc \in [Process -> RunPhases \cup CommandPhases] /\ "run" \in Process /\ "destroy" \in Process
  BY DEF TypeInv, TypeOK, Process
<1>b. index \in 1..(Scenarios + 1) /\ Scenarios \in Nat \ {0}
  BY FyreAssumption DEF TypeInv, TypeOK
<1>c. ASSUME UNCHANGED <<completed, results, size, index>>
      PROVE  /\ MeasuredUpTo(index)' <=> MeasuredUpTo(index)
             /\ MeasuredUpTo(Scenarios + 1)' <=> MeasuredUpTo(Scenarios + 1)
  BY <1>c DEF MeasuredUpTo
<1> USE DEF MeasuredAlike, InMatrix, AtTheEnd
<1>1. CASE StartRun
  BY <1>1, <1>a, <1>b, <1>c DEF StartRun, Goto, campaign
<1>2. CASE WriteFirstState
  BY <1>2, <1>a, <1>b, <1>c DEF WriteFirstState, Goto, campaign
<1>3. CASE Prepare
  BY <1>3, <1>a, <1>b, <1>c DEF Prepare, Goto, Fail, campaign
<1>4. CASE WriteQuotaState
  BY <1>4, <1>a, <1>b, <1>c DEF WriteQuotaState, Goto, Fail, StateWritten, campaign
<1>5. CASE CheckQuota
  BY <1>5, <1>a, <1>b, <1>c DEF CheckQuota, Goto, Fail, campaign
<1>6. CASE NextScenario
  <2>1. UNCHANGED <<completed, results, size, index, alloc, exit>> /\ MeasuredUpTo(index)
    BY <1>6 DEF NextScenario, campaign
  <2>2. CASE index \in Scenario /\ StateWritten("apply")
    BY <2>1, <2>2, <1>6, <1>a, <1>c DEF NextScenario, StateWritten, Fail, Goto
  <2>3. CASE index \notin Scenario /\ Goto("run", "manifest")
    <3>1. index = Scenarios + 1
      BY <2>3, <1>b DEF Scenario
    <3> QED
      BY <2>1, <2>3, <3>1, <1>6, <1>a, <1>c DEF NextScenario, Goto
  <2> QED
    BY <1>6, <2>2, <2>3 DEF NextScenario
<1>7. CASE StartApply
  BY <1>7, <1>a, <1>b, <1>c DEF StartApply, Goto, Fail, campaign
<1>8. CASE ApplyEnds
  BY <1>8, <1>a, <1>b, <1>c DEF ApplyEnds, Goto, Fail
<1>9. CASE ResetResults
  <2>1. PICK v : results' = [results EXCEPT ![index] = v] \/ results' = results
    BY <1>9 DEF ResetResults
  <2>2. results \in [Scenario -> [state: {"none", "partial", "done"}, alloc: Alloc]]
    BY DEF TypeInv, TypeOK
  <2>3. \A s \in Scenario : s < index => results'[s] = results[s]
    BY <2>1, <2>2, <1>b DEF Scenario
  <2>4. UNCHANGED <<completed, size, index, alloc, exit>> /\ pc["run"] = "reset"
    BY <1>9 DEF ResetResults
  <2>5. MeasuredUpTo(index)'
    BY <2>3, <2>4 DEF MeasuredUpTo
  <2>6. Fail \/ Goto("run", "campaign")
    BY <1>9 DEF ResetResults, StateWritten
  <2> QED
    BY <2>4, <2>5, <2>6, <1>a DEF Goto, Fail
<1>10. CASE CampaignSucceeds
  <2>1. CASE Goto("run", "next")
    <3>1. pc'["run"] = "next" /\ index' = index + 1 /\ UNCHANGED <<size, exit>>
            /\ index \in Scenario /\ alloc = size /\ MeasuredUpTo(index)
            /\ exit # "ok"
      BY <1>10, <2>1, <1>a DEF CampaignSucceeds, Goto, TypeInv, InUse
    <3>2. completed' = [s \in 1..(index' - 1) |-> s]
      BY <1>10, <3>1, <1>b, OneMore DEF CampaignSucceeds, MeasuredUpTo
    <3>3. results \in [Scenario -> [state: {"none", "partial", "done"}, alloc: Alloc]]
      BY DEF TypeInv, TypeOK
    <3>4. \A s \in Scenario : s < index' => results'[s] = Result("done", size')
      BY <1>10, <3>1, <3>3, <1>b DEF CampaignSucceeds, MeasuredUpTo, Scenario
    <3>5. MeasuredUpTo(index)'
      BY <3>2, <3>4 DEF MeasuredUpTo
    <3> QED
      BY <3>1, <3>5
  <2>2. CASE Fail
    BY <1>10, <2>2, <1>a DEF CampaignSucceeds, Fail, Goto
  <2> QED
    BY <1>10, <2>1, <2>2 DEF CampaignSucceeds, StateWritten
<1>11. CASE CampaignFails
  BY <1>11, <1>a, <1>b, <1>c DEF CampaignFails, Goto, campaign
<1>12. CASE Collect
  BY <1>12, <1>a, <1>b, <1>c DEF Collect, Goto, Fail, campaign
<1>13. CASE GrowHelper
  <2>1. CASE Fail
    BY <1>13, <2>1, <1>a DEF GrowHelper, Fail, Goto
  <2>2. CASE ~Fail
    <3>1. pc'["run"] = "next" /\ index' = 1 /\ completed' = << >> /\ exit' = exit
            /\ exit # "ok"
      BY <1>13, <2>2, <1>a DEF GrowHelper, Goto, Restart
    <3>2. MeasuredUpTo(index)'
      BY <3>1, NothingMeasured DEF MeasuredUpTo, Scenario
    <3> QED
      BY <3>1, <3>2
  <2> QED
    BY <2>1, <2>2
<1>14. CASE WriteManifest
  BY <1>14, <1>a, <1>b, <1>c DEF WriteManifest, Goto, Fail, campaign
<1>15. CASE Collecting
  BY <1>15, <1>a, <1>b, <1>c DEF Collecting, Goto, campaign, outcome
<1>16. CASE Report
  BY <1>16, <1>a, <1>b, <1>c DEF Report, Goto, campaign
<1>17. CASE Destroying
  BY <1>17, <1>a, <1>b, <1>c DEF Destroying, Goto, campaign, outcome
<1>18. CASE Finish
  BY <1>18, <1>a, <1>b, <1>c DEF Finish, Goto, campaign
<1>19. CASE StartDestroy("run")
  BY <1>19, <1>a, <1>b, <1>c DEF StartDestroy, Goto, campaign, outcome, AttemptFails
<1>20. CASE DestroyEnds("run")
  BY <1>20, <1>a, <1>b, <1>c DEF DestroyEnds, Goto, campaign, outcome, AttemptFails
<1>21. CASE Timeout
  BY <1>21, <1>a, <1>b, <1>c DEF Timeout, Goto, campaign, outcome
<1>22. CASE KillRun
  BY <1>22, <1>a, <1>b, <1>c DEF KillRun, Goto, campaign
<1>23. CASE StartCommand
  BY <1>23, <1>a, <1>b, <1>c DEF StartCommand, Goto, campaign, outcome
<1>24. CASE WriteDestroying
  BY <1>24, <1>a, <1>b, <1>c DEF WriteDestroying, Goto, campaign, outcome
<1>25. CASE WriteDestroyed
  BY <1>25, <1>a, <1>b, <1>c DEF WriteDestroyed, Goto, campaign, outcome
<1>26. CASE KillCommand
  BY <1>26, <1>a, <1>b, <1>c DEF KillCommand, Goto, campaign, outcome
<1>27. CASE StartDestroy("destroy")
  BY <1>27, <1>a, <1>b, <1>c DEF StartDestroy, Goto, campaign, outcome, AttemptFails
<1>28. CASE DestroyEnds("destroy")
  BY <1>28, <1>a, <1>b, <1>c DEF DestroyEnds, Goto, campaign, outcome, AttemptFails
<1>29. CASE Terraform
  BY <1>29, <1>a, <1>b, <1>c DEF Terraform, campaign, outcome
<1>30. CASE UNCHANGED vars
  BY <1>30, <1>a, <1>b, <1>c DEF vars, campaign, outcome
<1> QED
  BY <1>1, <1>2, <1>3, <1>4, <1>5, <1>6, <1>7, <1>8, <1>9, <1>10, <1>11, <1>12, <1>13, <1>14,
     <1>15, <1>16, <1>17, <1>18, <1>19, <1>20, <1>21, <1>22, <1>23, <1>24, <1>25, <1>26, <1>27,
        <1>28,
     <1>29, <1>30
  DEF Next, Run, Command, Finished


\* What a run reports is one row for every scenario, in order, all measured with the helper
\* sizes it ended with, however often helpers grew.
THEOREM ReportsOneAllocation == Spec => []OneAllocation
<1>1. Init => MeasuredAlike
  <2>1. Init => MeasuredUpTo(index)
    BY NothingMeasured DEF Init, MeasuredUpTo, Scenario
  <2> QED
    BY <2>1 DEF Init, MeasuredAlike, AtTheEnd, Process
<1>2. TypeInv /\ MeasuredAlike => OneAllocation
  <2> SUFFICES ASSUME TypeInv, MeasuredAlike, pc["run"] = "report" \/ exit = "ok"
               PROVE  MeasuredUpTo(Scenarios + 1) => OneAllocation
    BY DEF MeasuredAlike, OneAllocation, AtTheEnd
  <2> QED
    BY FyreAssumption DEF MeasuredUpTo, OneAllocation, Scenario
<1> QED
  BY <1>1, <1>2, InitTyped, TypeStep, MeasuredAlikeStep, PTL DEF Spec

----------------------------------------------------------------------------
\* No measurement is lost.

\* A scenario not yet reached has no results, so a reset removes none; what is put aside
\* bears a size no later one can bear.
NothingOverwritten ==
  /\ pc["run"] \in InMatrix =>
       \A s \in Scenario : s > index \/ (s = index /\ pc["run"] # "campaign") =>
                             results[s] = NoResult
  /\ pc["run"] = "campaign" => results[index] = Result("partial", alloc)
  /\ \A a \in archived : a.role \in Role /\ a.size \in Nat /\ a.size <= size[a.role]

LEMMA NothingOverwrittenStep ==
  ASSUME TypeInv, NothingOverwritten, [Next]_vars
  PROVE  NothingOverwritten'
<1>a. pc \in [Process -> RunPhases \cup CommandPhases] /\ "run" \in Process /\ "destroy" \in Process
  BY DEF TypeInv, TypeOK, Process
<1>b. index \in 1..(Scenarios + 1) /\ Scenarios \in Nat \ {0}
  BY FyreAssumption DEF TypeInv, TypeOK
<1> USE DEF NothingOverwritten, InMatrix
<1>1. CASE StartRun
  BY <1>1, <1>a, <1>b DEF StartRun, Goto, campaign
<1>2. CASE WriteFirstState
  BY <1>2, <1>a, <1>b DEF WriteFirstState, Goto, campaign
<1>3. CASE Prepare
  BY <1>3, <1>a, <1>b DEF Prepare, Goto, Fail, campaign
<1>4. CASE WriteQuotaState
  BY <1>4, <1>a, <1>b DEF WriteQuotaState, Goto, Fail, StateWritten, campaign
<1>5. CASE CheckQuota
  BY <1>5, <1>a, <1>b DEF CheckQuota, Goto, Fail, campaign
<1>6. CASE NextScenario
  BY <1>6, <1>a, <1>b DEF NextScenario, Goto, Fail, StateWritten, campaign
<1>7. CASE StartApply
  BY <1>7, <1>a, <1>b DEF StartApply, Goto, Fail, campaign
<1>8. CASE ApplyEnds
  BY <1>8, <1>a, <1>b DEF ApplyEnds, Goto, Fail
<1>9. CASE ResetResults
  <2>1. PICK v : results' = [results EXCEPT ![index] = v] \/ results' = results
    BY <1>9 DEF ResetResults
  <2>2. results \in [Scenario -> [state: {"none", "partial", "done"}, alloc: Alloc]]
    BY DEF TypeInv, TypeOK
  <2>3. \A s \in Scenario : s > index => results'[s] = NoResult
    BY <1>9, <2>1, <2>2, <1>b DEF ResetResults, Scenario
  <2>4. UNCHANGED <<size, index, alloc, archived>>
    BY <1>9 DEF ResetResults
  <2>5. CASE Fail
    BY <2>4, <2>5, <1>a DEF Goto, Fail
  <2>6. CASE Goto("run", "campaign")
    <3>1. pc'["run"] = "campaign" /\ index \in Scenario
      BY <1>9, <2>6, <1>a DEF Goto, ResetResults, TypeInv, InUse
    <3>2. results'[index] = Result("partial", alloc)
      BY <1>9, <2>2, <2>6, <3>1, <1>a DEF ResetResults, Goto, Fail
    <3> QED
      BY <2>3, <2>4, <3>1, <3>2
  <2> QED
    BY <1>9, <2>5, <2>6 DEF ResetResults, StateWritten
<1>10. CASE CampaignSucceeds
  <2>1. CASE Goto("run", "next")
    <3>1. pc'["run"] = "next" /\ index' = index + 1 /\ UNCHANGED <<size, archived>>
      BY <1>10, <2>1, <1>a DEF CampaignSucceeds, Goto
    <3>2. results \in [Scenario -> [state: {"none", "partial", "done"}, alloc: Alloc]]
      BY DEF TypeInv, TypeOK
    <3>3. \A s \in Scenario : s >= index + 1 => results'[s] = NoResult
      BY <1>10, <3>2, <1>b DEF CampaignSucceeds, Scenario
    <3> QED
      BY <3>1, <3>3, <1>b DEF Scenario
  <2>2. CASE Fail
    BY <1>10, <2>2, <1>a DEF CampaignSucceeds, Fail, Goto
  <2> QED
    BY <1>10, <2>1, <2>2 DEF CampaignSucceeds, StateWritten
<1>11. CASE CampaignFails
  BY <1>11, <1>a, <1>b DEF CampaignFails, Goto, campaign
<1>12. CASE Collect
  BY <1>12, <1>a, <1>b DEF Collect, Goto, Fail, campaign
<1>13. CASE GrowHelper
  <2>1. size \in Alloc /\ request \in Role /\ size' = [size EXCEPT ![request] = Grown(@)]
    BY <1>13 DEF GrowHelper, TypeInv, InUse
  <2>2. /\ \A r \in Role : size[r] \in Nat /\ size'[r] \in Nat /\ size[r] <= size'[r]
        /\ size'[request] = Grown(size[request])
    BY <2>1, FyreAssumption DEF Grown, Alloc, Size
  <2>3. \A a \in archived' \ archived : a.role = request /\ a.size = Grown(size[request])
    BY <1>13 DEF GrowHelper, Archive
  <2>4. \A a \in archived' : a.role \in Role /\ a.size \in Nat /\ a.size <= size'[a.role]
    BY <2>1, <2>2, <2>3
  <2>5. CASE Fail
    BY <2>4, <2>5, <1>a DEF Fail, Goto
  <2>6. CASE ~Fail
    <3>1. Archive(Scenario, request) /\ pc'["run"] = "next"
      BY <1>13, <2>6, <1>a DEF GrowHelper, ToArchive, Goto
    <3>2. \A s \in Scenario : results'[s] = NoResult
      BY <3>1 DEF Archive
    <3> QED
      BY <2>4, <3>1, <3>2
  <2> QED
    BY <2>5, <2>6
<1>14. CASE WriteManifest
  BY <1>14, <1>a, <1>b DEF WriteManifest, Goto, Fail, campaign
<1>15. CASE Collecting
  BY <1>15, <1>a, <1>b DEF Collecting, Goto, campaign
<1>16. CASE Report
  BY <1>16, <1>a, <1>b DEF Report, Goto, campaign
<1>17. CASE Destroying
  BY <1>17, <1>a, <1>b DEF Destroying, Goto, campaign
<1>18. CASE Finish
  BY <1>18, <1>a, <1>b DEF Finish, Goto, campaign
<1>19. CASE StartDestroy("run")
  BY <1>19, <1>a, <1>b DEF StartDestroy, Goto, campaign, AttemptFails
<1>20. CASE DestroyEnds("run")
  BY <1>20, <1>a, <1>b DEF DestroyEnds, Goto, campaign, AttemptFails
<1>21. CASE Timeout
  BY <1>21, <1>a, <1>b DEF Timeout, Goto, campaign
<1>22. CASE KillRun
  BY <1>22, <1>a, <1>b DEF KillRun, Goto, campaign
<1>23. CASE StartCommand
  BY <1>23, <1>a, <1>b DEF StartCommand, Goto, campaign
<1>24. CASE WriteDestroying
  BY <1>24, <1>a, <1>b DEF WriteDestroying, Goto, campaign
<1>25. CASE WriteDestroyed
  BY <1>25, <1>a, <1>b DEF WriteDestroyed, Goto, campaign
<1>26. CASE KillCommand
  BY <1>26, <1>a, <1>b DEF KillCommand, Goto, campaign
<1>27. CASE StartDestroy("destroy")
  BY <1>27, <1>a, <1>b DEF StartDestroy, Goto, campaign, AttemptFails
<1>28. CASE DestroyEnds("destroy")
  BY <1>28, <1>a, <1>b DEF DestroyEnds, Goto, campaign, AttemptFails
<1>29. CASE Terraform
  BY <1>29, <1>a, <1>b DEF Terraform, campaign
<1>30. CASE UNCHANGED vars
  BY <1>30, <1>a, <1>b DEF vars, campaign
<1> QED
  BY <1>1, <1>2, <1>3, <1>4, <1>5, <1>6, <1>7, <1>8, <1>9, <1>10, <1>11, <1>12, <1>13, <1>14,
     <1>15, <1>16, <1>17, <1>18, <1>19, <1>20, <1>21, <1>22, <1>23, <1>24, <1>25, <1>26, <1>27,
        <1>28,
     <1>29, <1>30
  DEF Next, Run, Command, Finished

LEMMA MeasurementsKeptStep ==
  ASSUME TypeInv, NothingOverwritten, MeasurementsKept, [Next]_vars
  PROVE  MeasurementsKept'
<1>b. index \in 1..(Scenarios + 1) /\ Scenarios \in Nat \ {0}
  BY FyreAssumption DEF TypeInv, TypeOK
<1>c. results \in [Scenario -> [state: {"none", "partial", "done"}, alloc: Alloc]]
        /\ measured \subseteq (Scenario \X Alloc)
  BY DEF TypeInv, TypeOK
<1>d. \A a \in Alloc : Result("done", a) # NoResult
  BY DEF Result, NoResult
<1> USE DEF MeasurementsKept
<1>1. CASE UNCHANGED <<results, archived, measured>>
  BY <1>1
<1>2. CASE ResetResults
  <2>1. results[index] = NoResult /\ UNCHANGED <<archived, measured>>
    BY <1>2, <1>b DEF ResetResults, NothingOverwritten, InMatrix, TypeInv, InUse
  <2>2. \A s \in Scenario : s # index => results'[s] = results[s]
    BY <1>2, <1>c DEF ResetResults
  <2>3. ASSUME NEW m \in measured, results[m[1]] = Result("done", m[2])
        PROVE  results'[m[1]] = results[m[1]]
    <3>1. m[1] \in Scenario /\ m[2] \in Alloc
      BY <1>c
    <3>2. m[1] # index
      BY <2>1, <2>3, <3>1, <1>d
    <3> QED
      BY <2>2, <3>1, <3>2
  <2> QED
    BY <2>1, <2>3
<1>3. CASE CampaignSucceeds
  <2>1. index \in Scenario /\ alloc \in Alloc /\ UNCHANGED archived
    BY <1>3 DEF CampaignSucceeds, TypeInv, TypeOK, InUse
  <2>2. /\ results'[index] = Result("done", alloc)
        /\ \A s \in Scenario : s # index => results'[s] = results[s]
    BY <1>3, <1>c, <2>1 DEF CampaignSucceeds
  <2>3. measured' = measured \cup {<<index, alloc>>}
    BY <1>3 DEF CampaignSucceeds
  <2>4. \A a \in Alloc : results[index] # Result("done", a)
    BY <1>3 DEF CampaignSucceeds, NothingOverwritten, Result
  <2>5. ASSUME NEW m \in measured, results[m[1]] = Result("done", m[2])
        PROVE  results'[m[1]] = Result("done", m[2])
    <3>1. m[1] \in Scenario /\ m[2] \in Alloc
      BY <1>c
    <3> QED
      BY <2>2, <2>4, <2>5, <3>1
  <2> QED
    BY <2>1, <2>2, <2>3, <2>5
<1>4. CASE GrowHelper
  <2>1. CASE UNCHANGED <<results, archived>>
    BY <1>4, <2>1 DEF GrowHelper
  <2>2. ASSUME NEW S \in SUBSET Scenario, Archive(S, request)
        PROVE  MeasurementsKept'
    <3> DEFINE Entry(s) == [role |-> request, size |-> Grown(size[request]), at |-> index,
                            scenario |-> s, result |-> results[s]]
    <3>1. archived' = archived \cup {Entry(s) : s \in {t \in S : results[t].state # "none"}}
            /\ \A s \in Scenario : s \notin S => results'[s] = results[s]
      BY <2>2 DEF Archive
    <3>2. ASSUME NEW m \in measured
          PROVE  \/ results'[m[1]] = Result("done", m[2])
                 \/ \E a \in archived' : a.scenario = m[1] /\ a.result = Result("done", m[2])
      <4>1. m[1] \in Scenario
        BY <1>c
      <4>2. CASE results[m[1]] = Result("done", m[2]) /\ m[1] \in S
        <5>1. results[m[1]].state # "none"
          BY <4>2 DEF Result
        <5>2. Entry(m[1]) \in archived'
          BY <3>1, <4>2, <5>1
        <5> QED
          BY <4>2, <5>2
      <4> QED
        BY <3>1, <4>1, <4>2
    <3>3. request \in Role /\ size[request] \in Nat
      BY <1>4 DEF GrowHelper, TypeInv, InUse, Alloc, Size
    <3>4. ASSUME NEW a \in archived
          PROVE  a.role = request => a.size # Grown(size[request])
      BY <3>3 DEF NothingOverwritten, Grown
    <3>5. ASSUME NEW a \in archived', NEW b \in archived', a # b
          PROVE  <<a.role, a.size, a.at, a.scenario>> # <<b.role, b.size, b.at, b.scenario>>
      <4>1. CASE a \in archived /\ b \in archived
        BY <4>1, <3>5
      <4>2. CASE a \in archived /\ b \notin archived
        BY <4>2, <3>1, <3>4
      <4>3. CASE a \notin archived /\ b \in archived
        BY <4>3, <3>1, <3>4
      <4>4. CASE a \notin archived /\ b \notin archived
        BY <4>4, <3>1, <3>5
      <4> QED
        BY <4>1, <4>2, <4>3, <4>4
    <3>6. measured' = measured
      BY <1>4 DEF GrowHelper
    <3> QED
      BY <3>2, <3>5, <3>6
  <2> QED
    BY <1>4, <2>1, <2>2 DEF GrowHelper, ToArchive
<1> QED
  BY <1>1, <1>2, <1>3, <1>4, CampaignActions
     DEF campaign, ApplyEnds, CampaignFails, Timeout

\* Every completed measurement stays among the results, or is put aside under a name no
\* other is put aside under.
THEOREM NoMeasurementLost == Spec => []MeasurementsKept
<1>1. Init => NothingOverwritten /\ MeasurementsKept
  BY DEF Init, NothingOverwritten, MeasurementsKept, Process
<1>2. TypeInv /\ NothingOverwritten /\ MeasurementsKept /\ [Next]_vars =>
        NothingOverwritten' /\ MeasurementsKept'
  BY NothingOverwrittenStep, MeasurementsKeptStep
<1> QED
  BY <1>1, <1>2, InitTyped, TypeStep, PTL DEF Spec

----------------------------------------------------------------------------
\* A run that is released has no machine, when destroy commands wait for its end.

\* No machine that Terraform knows of, and none coming.
Gone == tracked = {} /\ terraform.op # "apply" /\ terraform.fresh = {}

ReleasedAlone ==
  /\ pc["destroy"] # "idle" => pc["run"] = "ended"
  /\ disk # "none" => pc["run"] # "idle"
  /\ pc["run"] \notin {"applying", "ended"} => terraform.op # "apply"
  /\ disk = "done" \/ exit = "ok" => pc["run"] = "ended" /\ Gone
  /\ pc["destroy"] = "write" /\ seen = "done" => Gone
  /\ \A p \in Process : pc[p] = "clean" => Gone
  /\ tracked # {} => variables
  /\ terraform.op = "apply" => terraform.by # "destroy"

LEMMA ReleasedAloneStep ==
  ASSUME ~Concurrent, TypeInv, WrittenInOrder, ReleasedAlone, [Next]_vars
  PROVE  ReleasedAlone'
<1>a. pc \in [Process -> RunPhases \cup CommandPhases] /\ "run" \in Process /\ "destroy" \in Process
        /\ \A p \in Process : p = "run" \/ p = "destroy"
  BY DEF TypeInv, TypeOK, Process
<1>b. tracked \subseteq cloud /\ (terraform.op # "apply" => terraform.fresh = {})
        /\ terraform \in [op: {"none", "apply", "destroy"}, by: Process \cup {"nobody"},
                          fresh: SUBSET Machine]
  BY DEF TypeInv, TypeOK, FreshExist
<1> USE DEF ReleasedAlone, Gone
<1>1. CASE StartRun
  BY <1>1, <1>a, <1>b DEF StartRun, Goto, machines, command
<1>2. CASE WriteFirstState
  BY <1>2, <1>a, <1>b DEF WriteFirstState, Goto, Unwritten, machines, command
<1>3. CASE Prepare
  BY <1>3, <1>a, <1>b DEF Prepare, Goto, Fail, machines, files, command
<1>4. CASE WriteQuotaState
  BY <1>4, <1>a, <1>b DEF WriteQuotaState, Goto, Fail, StateWritten, Unwritten, machines, command
<1>5. CASE CheckQuota
  BY <1>5, <1>a, <1>b DEF CheckQuota, Goto, Fail, machines, command
<1>6. CASE NextScenario
  BY <1>6, <1>a, <1>b DEF NextScenario, Goto, Fail, StateWritten, Unwritten, machines, command
<1>7. CASE StartApply
  <2>1. pc["run"] = "apply" /\ UNCHANGED <<tracked, disk, exit, seen>>
    BY <1>7 DEF StartApply, command
  <2>2. pc["destroy"] = "idle" /\ disk # "done" /\ exit # "ok"
    BY <2>1
  <2>3. CASE variables' = TRUE /\ terraform' = Running("apply", "run") /\ Goto("run", "applying")
    <3>1. pc'["run"] = "applying" /\ pc'["destroy"] = "idle"
      BY <2>2, <2>3, <1>a DEF Goto
    <3> QED
      BY <2>1, <2>2, <2>3, <3>1, <1>a DEF Running
  <2>4. CASE variables' \in {variables, TRUE} /\ Fail /\ UNCHANGED terraform
    BY <2>1, <2>2, <2>4, <1>a DEF Goto, Fail
  <2> QED
    BY <1>7, <2>3, <2>4 DEF StartApply
<1>8. CASE ApplyEnds
  BY <1>8, <1>a, <1>b DEF ApplyEnds, Goto, Fail, files, command, Ends, CanSucceed, Killed, NoProcess
<1>9. CASE ResetResults
  BY <1>9, <1>a, <1>b DEF ResetResults, Goto, Fail, StateWritten, Unwritten, machines, command
<1>10. CASE CampaignSucceeds
  BY <1>10, <1>a, <1>b DEF CampaignSucceeds, Goto, Fail, StateWritten, Unwritten, machines, command
<1>11. CASE CampaignFails
  BY <1>11, <1>a, <1>b DEF CampaignFails, Goto, machines, files, command
<1>12. CASE Collect
  BY <1>12, <1>a, <1>b DEF Collect, Goto, Fail, machines, files, command
<1>13. CASE GrowHelper
  BY <1>13, <1>a, <1>b DEF GrowHelper, Goto, Fail, machines, files, command
<1>14. CASE WriteManifest
  BY <1>14, <1>a, <1>b DEF WriteManifest, Goto, Fail, machines, files, command
<1>15. CASE Collecting
  BY <1>15, <1>a, <1>b DEF Collecting, Goto, Unwritten, machines, outcome, command
<1>16. CASE Report
  BY <1>16, <1>a, <1>b DEF Report, Goto, machines, files, command
<1>17. CASE Destroying
  BY <1>17, <1>a, <1>b DEF Destroying, Goto, Unwritten, machines, outcome, command
<1>18. CASE Finish
  BY <1>18, <1>a, <1>b DEF Finish, Goto, Unwritten, machines, command
<1>19. CASE StartDestroy("run")
  BY <1>19, <1>a, <1>b DEF StartDestroy, Goto, files, outcome, command, AttemptFails, Running
<1>20. CASE DestroyEnds("run")
  BY <1>20, <1>a, <1>b DEF DestroyEnds, Goto, files, outcome, command, AttemptFails, Ends,
     CanSucceed, Cleaned, Killed, NoProcess
<1>21. CASE Timeout
  BY <1>21, <1>a, <1>b DEF Timeout, Goto, machines, files, outcome, command, Killed, NoProcess
<1>22. CASE KillRun
  BY <1>22, <1>a, <1>b DEF KillRun, Goto, files, command, Orphaned
<1>23. CASE StartCommand
  BY <1>23, <1>a, <1>b DEF StartCommand, Goto, machines, files, outcome
<1>24. CASE WriteDestroying
  BY <1>24, <1>a, <1>b DEF WriteDestroying, Goto, Unwritten, machines, outcome, command
<1>25. CASE WriteDestroyed
  BY <1>25, <1>a, <1>b DEF WriteDestroyed, Goto, Unwritten, machines, outcome, command
<1>26. CASE KillCommand
  BY <1>26, <1>a, <1>b DEF KillCommand, Goto, files, outcome, command, Orphaned
<1>27. CASE StartDestroy("destroy")
  BY <1>27, <1>a, <1>b DEF StartDestroy, Goto, files, outcome, command, AttemptFails, Running,
     WrittenInOrder
<1>28. CASE DestroyEnds("destroy")
  BY <1>28, <1>a, <1>b DEF DestroyEnds, Goto, files, outcome, command, AttemptFails, Ends,
     CanSucceed, Cleaned, Killed, NoProcess
<1>29. CASE Terraform
  <2>a. UNCHANGED <<disk, variables, exit, seen, pc>>
    BY <1>29 DEF Terraform, files, outcome, command
  <2>1. ASSUME NEW m \in Machine, MakeMachine(m) PROVE ReleasedAlone'
    BY <2>1, <2>a, <1>b DEF MakeMachine
  <2>2. ASSUME NEW m \in Machine, RecordMachine(m) PROVE ReleasedAlone'
    BY <2>2, <2>a, <1>b DEF RecordMachine, WrittenInOrder
  <2>3. ASSUME NEW m \in Machine, DeleteMachine(m) PROVE ReleasedAlone'
    BY <2>3, <2>a, <1>b DEF DeleteMachine
  <2>4. CASE Ends("nobody", FALSE)
    BY <2>4, <2>a, <1>b DEF Ends, NoProcess
  <2> QED
    BY <1>29, <2>1, <2>2, <2>3, <2>4 DEF Terraform
<1>30. CASE UNCHANGED vars
  BY <1>30, <1>a, <1>b DEF vars, machines, files, outcome, command
<1> QED
  BY <1>1, <1>2, <1>3, <1>4, <1>5, <1>6, <1>7, <1>8, <1>9, <1>10, <1>11, <1>12, <1>13, <1>14,
     <1>15, <1>16, <1>17, <1>18, <1>19, <1>20, <1>21, <1>22, <1>23, <1>24, <1>25, <1>26, <1>27,
        <1>28,
     <1>29, <1>30
  DEF Next, Run, Command, Finished

\* When destroy commands wait for the run's end, a run that ended well and one whose state
\* requires no cleanup have no machine that Terraform knows of.
THEOREM ReleasedIsGone == ~Concurrent => (Spec => []ReleasedMeansGone)
<1> SUFFICES ASSUME ~Concurrent PROVE Spec => []ReleasedMeansGone
  OBVIOUS
<1>1. Init => WrittenInOrder /\ ReleasedAlone
  BY DEF Init, WrittenInOrder, ReleasedAlone, Gone, NoProcess, Process
<1>2. TypeInv /\ WrittenInOrder /\ ReleasedAlone /\ [Next]_vars => ReleasedAlone'
  BY ReleasedAloneStep
<1>3. ReleasedAlone => ReleasedMeansGone
  BY DEF ReleasedAlone, Gone, ReleasedMeansGone
<1> QED
  BY <1>1, <1>2, <1>3, InitTyped, TypeStep, WrittenInOrderStep, PTL DEF Spec
=============================================================================
