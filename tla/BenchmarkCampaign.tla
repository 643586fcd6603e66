-------------------------- MODULE BenchmarkCampaign --------------------------
(***************************************************************************)
(* One campaign command on a FYRE run's machines: the hosts are prepared,   *)
(* then the capacity search or the fixed comparison measures, and the       *)
(* exit status tells the run what to do.                                   *)
(***************************************************************************)
EXTENDS CapacitySearch, FixedComparison

VARIABLES
  campaign,    \* where the command is
  kind,        \* benchmark_kind
  exit         \* its exit status: "none", 0, 1 or the one for a saturated helper

vars == <<campaign, kind, exit, searchVars, comparisonVars, phaseVars>>

HelperSaturated == 42
Status(s) == [code |-> s]
NoStatus == Status(-1)

Init ==
  /\ PhaseInit /\ SearchInit /\ ComparisonInit
  /\ campaign = "bootstrap" /\ kind \in {"scaling", "comparison"} /\ exit = NoStatus

\* An exception while the hosts are prepared ends the command.
PreparationFails == campaign' = "ended" /\ exit' = Status(1)

\* Ansible on every host.
BootstrapHosts ==
  /\ campaign = "bootstrap"
  /\ (campaign' = "deploy" /\ UNCHANGED exit) \/ PreparationFails
  /\ UNCHANGED <<kind, searchVars, comparisonVars, phaseVars>>

\* A search deploys the targets itself, with one signing key, their configuration and the
\* token; a comparison does that lane by lane and starts with the backend only.
DeploySearch ==
  /\ campaign = "deploy" /\ kind = "scaling"
  /\ \/ campaign' = "measure" /\ search' = "double" /\ UNCHANGED exit
     \/ PreparationFails /\ UNCHANGED search
  /\ UNCHANGED <<users, flat, findings, bisection, candidacy, kind, comparisonVars, phaseVars>>

DeployComparison ==
  /\ campaign = "deploy" /\ kind = "comparison"
  /\ \/ campaign' = "measure" /\ comparison' = "prepare" /\ saved' = "running" /\ UNCHANGED exit
     \/ PreparationFails /\ UNCHANGED <<comparison, saved>>
  /\ UNCHANGED <<lane, level, runs, target, survived, verdict, kind, searchVars, phaseVars>>

Outcome == IF kind = "scaling" THEN search ELSE comparison

ExitFor(s) ==
  Status(CASE s = "confirmed" -> 0 [] s = "saturated" -> HelperSaturated [] OTHER -> 1)

\* A search saves its result only now, and none when it was ended by an exception.
CampaignEnds ==
  /\ campaign = "measure" /\ phase = "idle" /\ Outcome \in Decided
  /\ campaign' = "ended" /\ exit' = ExitFor(Outcome)
  /\ saved' = IF kind = "scaling" /\ search \notin {"raised", "saturated"} THEN search ELSE saved
  /\ UNCHANGED <<searchVars, comparison, lane, level, runs, target, survived, verdict, kind, phaseVars>>

\* Ctrl-C, or the time bound of the run, kills the command; the Locust host goes on.
Kill ==
  /\ campaign \in {"bootstrap", "deploy", "measure"}
  /\ campaign' = "ended" /\ exit' = Status(130)
  /\ leftover' = (leftover \/ \E n \in Node : container[n] # "none")
  /\ phase' = "idle" /\ label' = NoLabel /\ result' = NoResult
  /\ container' = Containers("none") /\ status' = 0 /\ blind' = FALSE /\ began' = FALSE
  /\ UNCHANGED <<reports, overlapped, kind, searchVars, comparisonVars>>

\* --collect-only, after a command that failed: what still loads is removed, if it works.
Recover ==
  /\ campaign = "ended" /\ exit # Status(0)
  /\ campaign' = "recovered"
  /\ leftover' \in {leftover, FALSE}
  /\ UNCHANGED <<phase, label, reports, began, container, status, blind, overlapped, result>>
  /\ UNCHANGED <<exit, kind, searchVars, comparisonVars>>

Next ==
  \/ BootstrapHosts \/ DeploySearch \/ DeployComparison \/ CampaignEnds \/ Kill \/ Recover
  \/ PhaseNext /\ UNCHANGED <<campaign, kind, exit, searchVars, comparisonVars>>
  \/ campaign = "measure" /\ SearchNext /\ UNCHANGED <<campaign, kind, exit, comparisonVars>>
  \/ campaign = "measure" /\ ComparisonNext /\ UNCHANGED <<campaign, kind, exit, searchVars>>

----------------------------------------------------------------------------
\* The values every variable takes.
TypeOK ==
  /\ phase \in {"idle", "smoke", "monitors", "master", "workers", "cluster", "settle", "report", "returned"}
  /\ container \in [Node -> {"none", "created", "running", "ok", "bad"}]
  /\ status \in {0, 1} /\ began \in BOOLEAN /\ blind \in BOOLEAN /\ leftover \in BOOLEAN /\ overlapped \in BOOLEAN
  /\ result.kind \in {"none", "passed", "failed", "raised"} /\ result.gain \in BOOLEAN
  /\ search \in Decided \cup {"idle", "double", "choose", "refine", "plateau", "confirm", "calibrate"}
  /\ users \in Nat /\ flat \in 0..2 /\ failing \in Nat /\ candidate \in Nat /\ low \in Nat /\ high \in Nat
  /\ passing \subseteq Nat /\ confirmed \in 0..Repetitions
  /\ comparison \in Decided \cup {"idle", "prepare", "deploy", "register", "measure", "reset", "finally"}
  /\ lane \in Lane /\ level \in DOMAIN Levels /\ runs \in [Lane -> 0..Len(Levels)]
  /\ target \subseteq Lane /\ survived \in BOOLEAN
  /\ saved \in Decided \cup {"none", "running"} /\ kind \in {"scaling", "comparison"}
  /\ campaign \in {"bootstrap", "deploy", "measure", "ended", "recovered"}
  /\ exit \in {NoStatus} \cup {Status(n) : n \in {0, 1, HelperSaturated, 130}}

\* A load that failed is never reached again: whatever is measured after a failure is
\* below the load that failed last (capacity_search, "never advances above").
NeverAboveFailure ==
  kind = "scaling" /\ phase # "idle" /\ failing # 0 => label.users < failing

\* A capacity that is reported passed every confirmation and, if any load failed, lies below
\* the last failure and within the boundary of it (capacity_search's bisections).
ConfirmedIsBracketed ==
  kind = "scaling" /\ saved = "confirmed" =>
    /\ candidate \in passing /\ confirmed = Repetitions
    /\ failing # 0 => candidate < failing /\ (failing - candidate) * 100 <= Boundary * failing

\* The comparison that is reported measured every level of both lanes, each lane alone on
\* the target unless a failed docker compose down was ignored, and never beside the load
\* of an earlier phase.
ComparisonIsFair ==
  kind = "comparison" =>
    /\ phase # "idle" /\ ~survived => target = {lane}
    /\ saved = "confirmed" => runs = [l \in Lane |-> Len(Levels)] /\ ~overlapped

\* A phase passes only if no container of it ended badly, as far as Docker could tell.
PassedMeansNoCrash ==
  [][ result'.kind = "passed" /\ result.kind # "passed" =>
        blind \/ \A n \in Node : container[n] # "bad" ]_vars

\* A phase that passes has begun its measurement itself, whatever earlier phases of the
\* command wrote: one_phase reads a marker in the directory of its label and cannot tell
\* whose it is.  Only the directory an earlier command left for the same label can take its
\* place (run_locust.py accepts one that exists).
PassedIsMeasured ==
  [][ result'.kind = "passed" /\ result.kind # "passed" => began \/ label \in OldReports ]_vars

\* Every campaign command ends.
CampaignEndsAtLast == <>(campaign \in {"ended", "recovered"})

\* Every command of a campaign ends, or its time does.
Spec == Init /\ [][Next]_vars /\ WF_vars(Next)

=============================================================================
