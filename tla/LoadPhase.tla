------------------------------ MODULE LoadPhase ------------------------------
(***************************************************************************)
(* One load phase of a FYRE campaign: the smoke calls, the monitors, the    *)
(* containers run_locust.py starts on the Locust host and watches, and the  *)
(* result that is made of what they leave.                                  *)
(*                                                                         *)
(* A phase is called with a label and returns a result; the caller takes it *)
(* with Returned.  A phase whose connection is lost goes on without its     *)
(* caller.  Of the throughput a result only says whether it is five percent *)
(* above the one its caller compares it with.                              *)
(*                                                                         *)
(* The Locust host outlives a campaign command, and the report directories *)
(* on it are named by the label alone: what earlier commands left there is *)
(* OldReports.  A load that an earlier command left running is not modelled *)
(* (leftover is about the phases of this command).                         *)
(***************************************************************************)
EXTENDS Naturals

CONSTANTS
  Worker,      \* the worker containers of a phase
  OldReports   \* labels whose directories earlier commands left with a marker in them

VARIABLES
  phase,       \* where the phase is
  label,       \* of the phase
  reports,     \* labels of the directories that hold a measurement-start.txt
  began,       \* has the phase begun its measurement?
  container,   \* state of the phase's containers
  status,      \* exit status of run_locust
  blind,       \* could a container not be inspected at the end?
  leftover,    \* is an earlier phase still loading the target?
  overlapped,  \* has a phase started beside such a one?
  result       \* what the phase returns

phaseVars == <<phase, label, reports, began, container, status, blind, leftover,
               overlapped, result>>

Node     == {"master"} \cup Worker
Helper   == {"locust", "fast-time"}
\* What the monitors may say: that a helper was saturated, or that none was.
HelperPressure == Helper \cup {"none"}
NoLabel  == [name |-> "none", round |-> 0, users |-> 0]
NoResult == [kind |-> "none", gain |-> FALSE, saturated |-> "none"]
Passed(g, s)  == [kind |-> "passed", gain |-> g, saturated |-> s]
FailedWith(s) == [kind |-> "failed", gain |-> FALSE, saturated |-> s]
Raised        == [kind |-> "raised", gain |-> FALSE, saturated |-> "none"]
Containers(s) == [n \in Node |-> s]

PhaseInit ==
  /\ phase = "idle" /\ label = NoLabel /\ reports = OldReports /\ began = FALSE
  /\ container = Containers("none") /\ status = 0 /\ blind = FALSE
  /\ leftover = FALSE /\ overlapped = FALSE /\ result = NoResult

\* What the caller does.
Call(name, round, users) ==
  /\ phase = "idle"
  /\ phase' = "smoke" /\ label' = [name |-> name, round |-> round, users |-> users]
  /\ UNCHANGED <<reports, began, container, status, blind, leftover, overlapped, result>>

Returned ==
  /\ phase = "returned"
  /\ phase' = "idle" /\ label' = NoLabel /\ result' = NoResult
  /\ UNCHANGED <<reports, began, container, status, blind, leftover, overlapped>>

Return(r) ==
  /\ phase' = "returned" /\ result' = r
  /\ container' = Containers("none") /\ status' = 0 /\ blind' = FALSE /\ began' = FALSE
  /\ UNCHANGED <<label, overlapped>>

----------------------------------------------------------------------------
\* The phase until its load is running.

\* Every tool is called through every replica; one wrong answer ends the campaign.
Smoke ==
  /\ phase = "smoke"
  /\ \/ phase' = "monitors"
        /\ UNCHANGED <<label, reports, began, container, status, blind, leftover, overlapped, result>>
     \/ Return(Raised) /\ UNCHANGED <<reports, leftover>>

StartMonitors ==
  /\ phase = "monitors"
  /\ \/ phase' = "master"
        /\ UNCHANGED <<label, reports, began, container, status, blind, leftover, overlapped, result>>
     \/ Return(Raised) /\ UNCHANGED <<reports, leftover>>

\* A master that cannot be started leaves the network behind, and nothing that loads.  An
\* earlier load may have ended by itself.
StartMaster ==
  /\ phase = "master"
  /\ overlapped' \in {overlapped, overlapped \/ leftover}
  /\ \/ container' = [container EXCEPT !["master"] = "created"]
        /\ phase' = "workers" /\ UNCHANGED status
     \/ status' = 1 /\ phase' = "report" /\ UNCHANGED container
  /\ UNCHANGED <<label, reports, began, blind, leftover, result>>

Unstarted == {w \in Worker : container[w] = "none"}

StartWorker(w) ==
  /\ phase = "workers" /\ w \in Unstarted
  /\ \/ container' = [container EXCEPT ![w] = "created"]
        /\ phase' = (IF Unstarted = {w} THEN "cluster" ELSE "workers") /\ UNCHANGED status
     \/ status' = 1 /\ phase' = "report" /\ container' = Containers("none")
  /\ UNCHANGED <<label, reports, began, blind, leftover, overlapped, result>>

----------------------------------------------------------------------------
\* The containers.

Ended == {"ok", "bad"}

\* A worker whose request failed tells the master and exits with 1 in its time; the
\* master ends when it hears of it, or when the measurement is over.
Starts(n) ==
  /\ container[n] = "created"
  /\ \E s \in {"running", "bad"} : container' = [container EXCEPT ![n] = s]

WorkerEnds(w) ==
  /\ container[w] = "running"
  /\ \/ container' = [container EXCEPT ![w] = "bad"]
     \/ container["master"] \in Ended /\ container' = [container EXCEPT ![w] = "ok"]

MasterEnds ==
  /\ container["master"] = "running"
  /\ \E s \in Ended : container' = [container EXCEPT !["master"] = s]

ContainersMove ==
  /\ phase \in {"workers", "cluster", "settle"}
  /\ (\E n \in Node : Starts(n)) \/ (\E w \in Worker : WorkerEnds(w)) \/ MasterEnds
  /\ UNCHANGED <<phase, label, reports, began, status, blind, leftover, overlapped, result>>

\* With every worker there and all users spawned, the master warms up, sets the statistics
\* back and writes the marker; its run time may be over before that.
BeginMeasurement ==
  /\ phase \in {"workers", "cluster", "settle"}
  /\ container["master"] = "running"
  /\ \A w \in Worker : container[w] \notin {"none", "created"}
  /\ ~began /\ began' = TRUE
  /\ reports' = reports \cup {label}
  /\ UNCHANGED <<phase, label, container, status, blind, leftover, overlapped, result>>

\* A container that cannot be inspected counts as missing.
Seen(n) == {container[n], "missing"}

\* One round of wait_for_cluster: an ended master ends it with its status, a worker that
\* is neither running nor through stops the master.  "created" is waited for for a while.
PollMaster(seen) ==
  /\ seen \in Ended \cup {"missing"}
  /\ status' = IF seen = "ok" THEN 0 ELSE 1
  /\ UNCHANGED container

PollWorker(seen) ==
  /\ seen \in {"created", "bad", "missing"}
  /\ status' = 1
  /\ container' = [container EXCEPT !["master"] = IF @ = "running" THEN "bad" ELSE @]

Poll ==
  /\ phase = "cluster" /\ phase' = "settle"
  /\ \/ \E seen \in Seen("master") : PollMaster(seen)
     \/ \E w \in Worker : \E seen \in Seen(w) : PollWorker(seen)
  /\ UNCHANGED <<label, reports, began, blind, leftover, overlapped, result>>

\* Then every container that has ended must have ended well, and all are removed.
FinalStatus(seen) == IF \E n \in Node : seen[n] = "bad" THEN 1 ELSE status

Settle ==
  /\ phase = "settle" /\ phase' = "report"
  /\ \E missed \in SUBSET Node :
       /\ status' = FinalStatus([n \in Node |-> IF n \in missed THEN "missing" ELSE container[n]])
       /\ blind' = (\E n \in missed : container[n] = "bad")
  /\ UNCHANGED <<label, reports, began, container, leftover, overlapped, result>>

\* The connection breaks or the time for the command is over; the load goes on,
\* and may begin its measurement then.
Disconnect ==
  /\ phase \in {"workers", "cluster", "settle"}
  /\ leftover' = TRUE
  /\ reports' \in {reports, reports \cup {label}}
  /\ \E r \in {Raised} \cup {FailedWith(s) : s \in HelperPressure} : Return(r)

----------------------------------------------------------------------------
\* The result: a phase passes when its directory has a marker, Locust ended well and no
\* request failed; whatever was seen of the helpers comes with it.  Who wrote the marker is
\* not asked.
Report ==
  /\ phase = "report"
  /\ \E s \in HelperPressure :
       \/ status = 0 /\ label \in reports /\ \E gain \in BOOLEAN : Return(Passed(gain, s))
       \/ Return(FailedWith(s))
       \/ Return(Raised)
  /\ UNCHANGED <<reports, leftover>>

PhaseNext ==
  \/ Smoke \/ StartMonitors \/ StartMaster
  \/ \E w \in Worker : StartWorker(w)
  \/ ContainersMove \/ BeginMeasurement \/ Poll \/ Settle \/ Disconnect
  \/ Report

=============================================================================
