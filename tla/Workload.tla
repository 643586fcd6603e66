------------------------------ MODULE Workload ------------------------------
(***************************************************************************)
(* The load test and the live suites: what one run of Locust or of a make   *)
(* target leaves behind, and what of it the command reports.                *)
(***************************************************************************)
EXTENDS ToolRun

VARIABLE outcome   \* of the workload: groups left to run, and what has gone wrong in it

NoOutcome == [left |-> 0, failed |-> FALSE, worker |-> FALSE, tainted |-> FALSE, unread |-> FALSE]
WorkloadInit == outcome = NoOutcome

WorkloadGoto(step) == Goto(step) /\ UNCHANGED outcome

\* One live group, or all of them.
Groups == {1, 3}

----------------------------------------------------------------------------
\* The load settings are resolved before anything is managed; a bad number is the end of the command.
SettleLoad ==
  /\ at = "settings"
  /\ Goto(SourceStep) \/ LoadFails
  /\ UNCHANGED outcome

\* The report directory is there before Locust is.
PrepareLocust ==
  /\ at = "operate" /\ command.op = "load"
  /\ Goto("locust") \/ Fail
  /\ UNCHANGED outcome

\* Locust ends with a status, a worker of it may have failed unnoticed, and its reports may hold
\* the token.  Without a log file it is not started.
RunLocust ==
  /\ at = "locust"
  /\ \/ /\ \E f, w, t \in BOOLEAN :
             outcome' = [NoOutcome EXCEPT !.failed = f, !.worker = w, !.tainted = t]
        /\ Goto("collect")
     \/ Fail /\ UNCHANGED outcome

\* The audit goes on past a report it cannot read, and remembers that there was one.
CollectReports ==
  /\ at = "collect" /\ Goto("audit")
  /\ \E unread \in BOOLEAN : outcome' = [outcome EXCEPT !.unread = unread]

\* finalize_locust_run: what is left to go wrong once no report is tainted.
FineRun == ~outcome.unread /\ ~outcome.worker /\ ~outcome.failed

\* The mistake of auditing only after a failure.
BugAuditReports ==
  /\ at = "audit"
  /\ \/ ~outcome.failed /\ WorkloadGoto("revoke")
     \/ outcome.failed /\ Fail /\ outcome' = [outcome EXCEPT !.tainted = FALSE]

\* Each tainted report among those read is removed, if that can be done, whether Locust failed or
\* not; only then its own failure counts.
AuditReports ==
  /\ at = "audit"
  /\ \/ /\ outcome.tainted /\ Fail
        /\ \E removed \in BOOLEAN :
             outcome' = [outcome EXCEPT !.tainted = ~removed \/ outcome.unread]
     \/ ~outcome.tainted /\ ~FineRun /\ Fail /\ UNCHANGED outcome
     \/ ~outcome.tainted /\ FineRun /\ WorkloadGoto("revoke")

----------------------------------------------------------------------------
\* The mistake of running one group too many.
BugRunGroup ==
  /\ at = "operate" /\ command.op = "live"
  /\ \E bad \in BOOLEAN : outcome' = [outcome EXCEPT !.left = @ - 1, !.failed = @ \/ bad]
  /\ UNCHANGED commandVars

\* Every group runs, whatever became of those before it.
RunGroup ==
  /\ at = "operate" /\ command.op = "live" /\ outcome.left > 0
  /\ \E bad \in BOOLEAN : outcome' = [outcome EXCEPT !.left = @ - 1, !.failed = @ \/ bad]
  /\ UNCHANGED commandVars

CombineResults ==
  /\ at = "operate" /\ command.op = "live" /\ outcome.left = 0
  /\ \/ outcome.failed /\ Fail
     \/ ~outcome.failed /\ Goto("revoke")
  /\ UNCHANGED outcome

\* The fixture-direct group is a make target of the control plane's checkout, whose image it needs
\* the name of.
RunReference ==
  /\ at = "reference"
  /\ \E bad \in BOOLEAN :
       /\ outcome' = [outcome EXCEPT !.failed = bad]
       /\ IF bad THEN Fail ELSE Goto("ended")

WorkloadNext == SettleLoad \/ PrepareLocust \/ RunLocust \/ CollectReports \/ AuditReports
                  \/ RunGroup \/ CombineResults \/ RunReference
=============================================================================
