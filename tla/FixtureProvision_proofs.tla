----------------------- MODULE FixtureProvision_proofs -----------------------
(* Safety of FixtureProvision for every size of catalog, number of attempts    *)
(* and interference by others; the promises about late creates where a create  *)
(* is late by at most one request.                                             *)
EXTENDS FixtureProvision, TLAPS

LateCreate == [op: {"gateway", "server"}, gateway: Gateway \cup {0}, left: 0..Late]

\* What a request does to the creates that are still undecided.
LEMMA AgedTyped ==
  ASSUME late \subseteq LateCreate, CanSend
  PROVE  Aged \subseteq LateCreate
<1> SUFFICES ASSUME NEW x \in late PROVE [x EXCEPT !.left = @ - 1] \in LateCreate
  BY DEF Aged
<1>1. x \in LateCreate /\ x.left > 0
  BY DEF CanSend
<1>2. x.left \in 0..Late /\ x.left - 1 \in 0..Late
  BY <1>1, FixtureAssumption DEF LateCreate
<1> QED
  BY <1>1, <1>2 DEF LateCreate

LEMMA SendTyped ==
  ASSUME late \subseteq LateCreate, Send
  PROVE  late' \subseteq LateCreate
  BY AgedTyped DEF Send

LEMMA SendLostTyped ==
  ASSUME late \subseteq LateCreate, NEW op \in {"gateway", "server"},
         NEW g \in Gateway \cup {0}, SendLost(op, g)
  PROVE  late' \subseteq LateCreate
<1>1. [op |-> op, gateway |-> g, left |-> Late] \in LateCreate
  BY FixtureAssumption DEF LateCreate
<1> QED
  BY <1>1, AgedTyped DEF SendLost

\* The conjuncts of TypeOK, by what changes them together.
CatalogTyped ==
  /\ gateway \in [Gateway -> GatewayState]
  /\ server \in [owner: {"none", "owned", "foreign"}, gateway: Gateway \cup {0}]
  /\ late \subseteq LateCreate
JobTyped ==
  /\ job \in Jobs
  /\ job.quiet < RequiredQuietAttempts
  /\ job.attempt < IF job.purpose = "reconcile" THEN Attempts ELSE CatalogAttempts
ClientTyped ==
  /\ pc \in Phases
  /\ mine \in Gateway \cup {0}
  /\ result \in {"none", "refused", "undone", "unclean", "ready", "cleaned", "killed"}
  /\ runs \in 0..MaxRuns
  /\ meddled \in 0..Meddling

LEMMA TypeParts == TypeOK <=> CatalogTyped /\ JobTyped /\ ClientTyped
  BY DEF TypeOK, CatalogTyped, JobTyped, ClientTyped, LateCreate

LEMMA ServerTyped ==
  /\ NoServer \in [owner: {"none", "owned", "foreign"}, gateway: Gateway \cup {0}]
  /\ \A o \in {"owned", "foreign"}, g \in Gateway \cup {0} :
       Server(o, g) \in [owner: {"none", "owned", "foreign"}, gateway: Gateway \cup {0}]
  BY DEF NoServer, Server

LEMMA NewJobTyped ==
  ASSUME NEW purpose \in {"start", "reconcile", "undo", "cleanup"}
  PROVE  /\ NewJob(purpose) \in Jobs
         /\ NewJob(purpose).quiet < RequiredQuietAttempts
         /\ NewJob(purpose).attempt <
              IF NewJob(purpose).purpose = "reconcile" THEN Attempts ELSE CatalogAttempts
  BY FixtureAssumption DEF NewJob, Jobs, RequiredQuietAttempts

LEMMA TroubleTyped ==
  ASSUME JobTyped, ClientTyped, NEW next \in Phases, Trouble(next)
  PROVE  JobTyped' /\ pc' \in Phases
         /\ result' \in {"none", "refused", "undone", "unclean", "ready", "cleaned", "killed"}
<1>1. CASE job' = job
  BY <1>1 DEF JobTyped, ClientTyped, Trouble, End, Phases
<1>2. CASE job' = [job EXCEPT !.trouble = TRUE] /\ pc' = next /\ result' = result
  <2>1. job' \in Jobs /\ job'.quiet = job.quiet /\ job'.attempt = job.attempt
          /\ job'.purpose = job.purpose
    BY <1>2 DEF JobTyped, Jobs
  <2> QED
    BY <1>2, <2>1 DEF JobTyped, ClientTyped
<1> QED
  BY <1>1, <1>2 DEF Trouble

LEMMA GatewayUpdate ==
  ASSUME CatalogTyped, NEW g \in Gateway, NEW s \in GatewayState
  PROVE  /\ [gateway EXCEPT ![g] = s] \in [Gateway -> GatewayState]
         /\ [gateway EXCEPT ![g] = s][g] = s
         /\ \A h \in Gateway : h # g => [gateway EXCEPT ![g] = s][h] = gateway[h]
  BY DEF CatalogTyped

\* What the client is in, by its next request.
JobPhases ==
  /\ pc \in {"create_gateway", "refresh", "poll", "create_server", "ready"} =>
       job.purpose = "start"
  /\ job.purpose = "reconcile" /\ pc # "idle" => pc \in {"list_gateways", "delete_gateways"}

LEMMA JobPhasesStep ==
  ASSUME TypeOK, JobPhases, [Next]_vars
  PROVE  JobPhases'
<1> USE DEF JobPhases
<1>0. job \in Jobs
  BY DEF TypeOK
<1>1. CASE ListServers
  BY <1>1, <1>0 DEF ListServers, Trouble, End, Jobs
<1>2. CASE DeleteServer
  BY <1>2, <1>0 DEF DeleteServer, Trouble, End, Jobs
<1>3. CASE ListGateways
  BY <1>3, <1>0 DEF ListGateways, Trouble, End, Jobs
<1>4. CASE DeleteGateway
  BY <1>4, <1>0 DEF DeleteGateway, Jobs
<1>5. CASE PassEnds
  BY <1>5, <1>0 DEF PassEnds, StartPassEnds, ReconcilePassEnds, CleanupEnds, End, Jobs
<1>6. CASE CreateGateway
  BY <1>6 DEF CreateGateway, NewJob
<1>7. CASE Refresh \/ StartProvision \/ StartCleanup \/ Crash
  BY <1>7 DEF Refresh, Undo, StartProvision, StartCleanup, Crash, End, NewJob
<1>8. CASE PollCatalogs
  BY <1>8, <1>0 DEF PollCatalogs, Undo, NewJob, Jobs
<1>9. CASE CreateServer
  BY <1>9 DEF CreateServer, Undo, NewJob
<1>10. CASE Settle \/ Meddle \/ UNCHANGED vars
  BY <1>10 DEF Settle, ApplyLate, Meddle, vars
<1> QED
  BY <1>1, <1>2, <1>3, <1>4, <1>5, <1>6, <1>7, <1>8, <1>9, <1>10 DEF Next, Client, Finished

LEMMA TypeStep ==
  ASSUME TypeOK, JobPhases, [Next]_vars
  PROVE  TypeOK'
<1> USE TypeParts
<1>0. TypeOK' <=> CatalogTyped' /\ JobTyped' /\ ClientTyped'
  BY DEF TypeOK, CatalogTyped, JobTyped, ClientTyped, LateCreate
<1>a. late' = late \/ Send => late' \subseteq LateCreate
  BY SendTyped DEF CatalogTyped
<1>b. (UNCHANGED job => JobTyped')
       /\ \A p \in {"start", "reconcile", "undo", "cleanup"} : job' = NewJob(p) => JobTyped'
  BY NewJobTyped DEF JobTyped
<1>c. \A g \in Gateway : g \in Gateway \cup {0}
  OBVIOUS
<1>1. CASE ListServers
  <2>1. CatalogTyped'
    BY <1>1, <1>a DEF ListServers, CatalogTyped
  <2>2. JobTyped' /\ ClientTyped'
    BY <1>1, <1>b, TroubleTyped DEF ListServers, ClientTyped, Phases
  <2> QED
    BY <2>1, <2>2, <1>0
<1>2. CASE DeleteServer
  <2>1. CatalogTyped'
    BY <1>2, <1>a, ServerTyped DEF DeleteServer, CatalogTyped
  <2>2. JobTyped' /\ ClientTyped'
    BY <1>2, <1>b, TroubleTyped DEF DeleteServer, ClientTyped, Phases
  <2> QED
    BY <2>1, <2>2, <1>0
<1>3. CASE ListGateways
  <2>1. CatalogTyped'
    BY <1>3, <1>a DEF ListGateways, CatalogTyped
  <2>2. CASE Trouble("delete_gateways")
    BY <1>3, <2>1, <2>2, <1>0, TroubleTyped DEF ListGateways, ClientTyped, Phases
  <2>3. CASE job' = [job EXCEPT !.todo = Wanted, !.found = (Wanted # {})]
    <3>1. Wanted \in SUBSET Gateway /\ (Wanted # {}) \in BOOLEAN
      BY DEF Wanted, Reserved
    <3>2. job' \in Jobs /\ job'.quiet = job.quiet /\ job'.attempt = job.attempt
            /\ job'.purpose = job.purpose
      BY <2>3, <3>1 DEF JobTyped, Jobs
    <3>3. JobTyped'
      BY <3>2 DEF JobTyped
    <3>4. ClientTyped' \/ Trouble("delete_gateways")
      BY <1>3 DEF ListGateways, ClientTyped, Phases
    <3> QED
      BY <2>1, <3>3, <3>4, <2>2, <1>0
  <2> QED
    BY <1>3, <2>2, <2>3 DEF ListGateways
<1>4. CASE DeleteGateway
  <2>1. PICK g \in job.todo, applied \in BOOLEAN, ok \in BOOLEAN :
          /\ gateway' = IF applied THEN [gateway EXCEPT ![g] = "deleted"] ELSE gateway
          /\ job' = [job EXCEPT !.todo = @ \ {g}, !.trouble = @ \/ ~ok]
    BY <1>4 DEF DeleteGateway
  <2>2. g \in Gateway
    BY <2>1 DEF JobTyped, Jobs
  <2>3. CatalogTyped'
    BY <1>4, <1>a, <2>1, <2>2, GatewayUpdate DEF DeleteGateway, CatalogTyped, GatewayState
  <2>4. job' \in Jobs /\ job'.quiet = job.quiet /\ job'.attempt = job.attempt
          /\ job'.purpose = job.purpose
    BY <2>1 DEF JobTyped, Jobs
  <2>5. JobTyped' /\ ClientTyped'
    BY <1>4, <2>4 DEF DeleteGateway, JobTyped, ClientTyped
  <2> QED
    BY <2>3, <2>5, <1>0
<1>5. CASE PassEnds
  <2>1. CatalogTyped'
    BY <1>5 DEF PassEnds, CatalogTyped
  <2>2. CASE StartPassEnds \/ CleanupEnds
    BY <1>5, <2>1, <2>2, <1>b, <1>0
    DEF PassEnds, StartPassEnds, CleanupEnds, End, ClientTyped, Phases
  <2>3. CASE ReconcilePassEnds
    <3>1. ClientTyped'
      BY <1>5, <2>3 DEF PassEnds, ReconcilePassEnds, End, ClientTyped, Phases
    <3>2. PICK quiet :
            /\ quiet = IF job.found THEN 0 ELSE job.quiet + 1
            /\ IF ~HadTrouble /\ quiet < RequiredQuietAttempts /\ MoreAttempts(job.attempt)
                 THEN job' = [job EXCEPT !.quiet = quiet, !.attempt = @ + 1]
                 ELSE UNCHANGED job
      BY <2>3 DEF ReconcilePassEnds
    <3>3. CASE /\ quiet < RequiredQuietAttempts /\ MoreAttempts(job.attempt)
               /\ job' = [job EXCEPT !.quiet = quiet, !.attempt = @ + 1]
      <4>1. job \in Jobs /\ job.attempt + 1 < Attempts /\ job.purpose = "reconcile"
        BY <3>3, <2>3 DEF JobTyped, MoreAttempts, ReconcilePassEnds
      <4>2. quiet \in Nat /\ job.attempt + 1 \in Nat
        BY <4>1, <3>2 DEF Jobs
      <4>3. job' \in Jobs /\ job'.quiet = quiet /\ job'.attempt = job.attempt + 1
              /\ job'.purpose = "reconcile"
        BY <4>1, <4>2, <3>3 DEF Jobs
      <4> QED
        BY <4>1, <4>3, <3>3, <3>1, <2>1, <1>0 DEF JobTyped
    <3> QED
      BY <3>1, <3>2, <3>3, <2>1, <1>b, <1>0
  <2> QED
    BY <1>5, <2>2, <2>3 DEF PassEnds
<1>6. CASE CreateGateway
  <2>1. late' \subseteq LateCreate
    BY <1>6, <1>a, SendLostTyped DEF CreateGateway, CatalogTyped
  <2>2. gateway' \in [Gateway -> GatewayState]
    BY <1>6, GatewayUpdate DEF CreateGateway, Fresh, GatewayState, CatalogTyped
  <2>3. mine' \in Gateway \cup {0}
    BY <1>6 DEF CreateGateway, Fresh, ClientTyped
  <2>4. CatalogTyped' /\ ClientTyped'
    BY <1>6, <2>1, <2>2, <2>3 DEF CreateGateway, CatalogTyped, ClientTyped, Phases
  <2>5. JobTyped'
    BY <1>6, <1>b DEF CreateGateway
  <2> QED
    BY <2>4, <2>5, <1>0
<1>7. CASE Refresh
  BY <1>7, <1>0, <1>a, <1>b DEF Refresh, Undo, CatalogTyped, ClientTyped, Phases
<1>8. CASE PollCatalogs
  <2>1. CatalogTyped' /\ ClientTyped'
    BY <1>8, <1>a DEF PollCatalogs, Undo, CatalogTyped, ClientTyped, Phases
  <2>2. CASE /\ Polled(job.attempt) < CatalogAttempts
             /\ job' = [job EXCEPT !.attempt = Polled(@)]
    <3>1. job \in Jobs /\ Polled(job.attempt) \in Nat
      BY DEF JobTyped, Jobs, Polled
    <3>2. job' \in Jobs /\ job'.quiet = job.quiet /\ job'.attempt = Polled(job.attempt)
            /\ job'.purpose = job.purpose
      BY <2>2, <3>1 DEF Jobs
    <3>3. JobTyped'
      BY <1>8, <2>2, <3>2 DEF JobTyped, JobPhases, PollCatalogs
    <3> QED
      BY <3>3, <2>1, <1>0
  <2> QED
    BY <1>8, <2>1, <2>2, <1>0, <1>b DEF PollCatalogs, Undo
<1>9. CASE CreateServer
  <2>1. late' \subseteq LateCreate
    BY <1>9, <1>a, SendLostTyped DEF CreateServer, CatalogTyped, ClientTyped
  <2>2. CatalogTyped' /\ ClientTyped'
    BY <1>9, <2>1, ServerTyped DEF CreateServer, Undo, CatalogTyped, ClientTyped, Phases
  <2>3. JobTyped'
    BY <1>9, <1>b DEF CreateServer, Undo
  <2> QED
    BY <2>2, <2>3, <1>0
<1>10. CASE StartProvision
  BY <1>10, <1>0, <1>b, FixtureAssumption
  DEF StartProvision, CatalogTyped, ClientTyped, Phases
<1>11. CASE StartCleanup
  BY <1>11, <1>0, <1>b DEF StartCleanup, CatalogTyped, ClientTyped, Phases
<1>12. CASE Crash
  BY <1>12, <1>0, <1>b DEF Crash, End, CatalogTyped, ClientTyped, Phases
<1>13. CASE Settle
  <2>1. PICK x \in late : ApplyLate(x)
    BY <1>13 DEF Settle
  <2>2. x.gateway \in Gateway \cup {0}
    BY DEF CatalogTyped, LateCreate
  <2>3. CatalogTyped'
    BY <2>1, <2>2, GatewayUpdate, ServerTyped DEF ApplyLate, Fresh, GatewayState, CatalogTyped
  <2> QED
    BY <2>1, <2>3, <1>0, <1>b DEF ApplyLate, ClientTyped
<1>14. CASE Meddle
  <2>1. CatalogTyped'
    BY <1>14, GatewayUpdate, ServerTyped DEF Meddle, Fresh, Owned, GatewayState, CatalogTyped
  <2> QED
    BY <1>14, <2>1, <1>0, <1>b, FixtureAssumption DEF Meddle, ClientTyped
<1>15. CASE UNCHANGED vars
  BY <1>15, <1>0, <1>b DEF vars, CatalogTyped, ClientTyped
<1> QED
  BY <1>1, <1>2, <1>3, <1>4, <1>5, <1>6, <1>7, <1>8, <1>9, <1>10, <1>11, <1>12, <1>13,
     <1>14, <1>15 DEF Next, Client, Finished

LEMMA TypeInit == Init => TypeOK
<1> SUFFICES ASSUME Init PROVE TypeOK
  OBVIOUS
<1>1. CatalogTyped
  BY ServerTyped DEF Init, CatalogTyped, GatewayState
<1>2. JobTyped /\ ClientTyped
  BY NewJobTyped, FixtureAssumption DEF Init, JobTyped, ClientTyped, Phases
<1> QED
  BY <1>1, <1>2, TypeParts

\* Every state of the client and of the catalog is of its type, for every number of
\* attempts and whatever others do.
THEOREM FixtureTypes == Spec => []TypeOK
<1>1. Init => JobPhases
  BY DEF Init, JobPhases, NewJob
<1> QED
  BY <1>1, TypeInit, TypeStep, JobPhasesStep, PTL DEF Spec

----------------------------------------------------------------------------
\* What the client never does, whatever is late and whoever interferes.

\* Only gateways that were once exactly the fixture's are ever deleted.
TodoOurs == \A g \in job.todo : gateway[g] \in {"owned", "edited", "deleted"}

LEMMA GatewaySteps ==
  ASSUME TypeOK, TodoOurs, [Next]_vars, NEW g \in Gateway
  PROVE  /\ gateway[g] = "foreign" => gateway'[g] = "foreign"
         /\ gateway[g] \in {"owned", "edited", "deleted"} =>
              gateway'[g] \in {"owned", "edited", "deleted"}
<1>0. gateway \in [Gateway -> GatewayState]
  BY DEF TypeOK
<1>1. CASE DeleteGateway
  <2>1. PICK h \in job.todo, applied \in BOOLEAN :
          gateway' = IF applied THEN [gateway EXCEPT ![h] = "deleted"] ELSE gateway
    BY <1>1 DEF DeleteGateway
  <2> QED
    BY <1>0, <2>1 DEF TodoOurs
<1>2. CASE CreateGateway
  BY <1>2, <1>0 DEF CreateGateway, Fresh
<1>3. CASE Settle
  BY <1>3, <1>0 DEF Settle, ApplyLate, Fresh
<1>4. CASE Meddle
  BY <1>4, <1>0 DEF Meddle, Fresh, Owned
<1>5. CASE UNCHANGED gateway
  BY <1>5
<1> QED
  BY <1>1, <1>2, <1>3, <1>4, <1>5
  DEF Next, Client, Finished, vars, ListServers, DeleteServer, ListGateways, PassEnds, Refresh,
      PollCatalogs, CreateServer, StartProvision, StartCleanup, Crash

LEMMA TodoStep ==
  ASSUME TypeOK, TodoOurs, [Next]_vars
  PROVE  TodoOurs'
<1>0. /\ job \in Jobs
      /\ \A g \in job.todo : g \in Gateway /\ gateway'[g] \in {"owned", "edited", "deleted"}
  BY GatewaySteps DEF TypeOK, Jobs, TodoOurs
<1>1. CASE job'.todo \subseteq job.todo
  BY <1>0, <1>1 DEF TodoOurs
<1>2. CASE ListGateways /\ job'.todo = Wanted /\ ~Collision(Wanted)
  BY <1>2, <1>0 DEF ListGateways, Wanted, Reserved, Collision, TodoOurs
<1>3. \A p \in {"start", "reconcile", "undo", "cleanup"} : NewJob(p).todo = {}
  BY DEF NewJob
<1>4. CASE ListGateways
  BY <1>0, <1>1, <1>2, <1>4 DEF ListGateways, Trouble, Jobs
<1>5. CASE ListServers \/ DeleteServer
  BY <1>0, <1>1, <1>5 DEF ListServers, DeleteServer, Trouble, Jobs
<1>9. CASE DeleteGateway
  BY <1>0, <1>1, <1>9 DEF DeleteGateway, Jobs
<1>8. CASE PassEnds
  BY <1>0, <1>1, <1>8 DEF PassEnds, StartPassEnds, ReconcilePassEnds, CleanupEnds, Jobs
<1>6. CASE CreateGateway \/ Refresh \/ PollCatalogs \/ CreateServer
  BY <1>0, <1>1, <1>3, <1>6 DEF CreateGateway, Refresh, PollCatalogs, CreateServer, Undo, Jobs
<1>7. CASE StartProvision \/ StartCleanup \/ Crash \/ Settle \/ Meddle \/ UNCHANGED vars
  BY <1>1, <1>3, <1>7 DEF StartProvision, StartCleanup, Crash, Settle, ApplyLate, Meddle, vars
<1> QED
  BY <1>4, <1>5, <1>6, <1>7, <1>8, <1>9 DEF Next, Client, Finished

\* A gateway that was never the fixture's survives every call of the client, killed
\* ones included, whenever it was made.
THEOREM ForeignSurvive == Spec => ForeignGatewaysSurvive
<1>1. Init => JobPhases /\ TodoOurs
  BY DEF Init, JobPhases, TodoOurs, NewJob
<1>2. TypeOK /\ TodoOurs /\ [Next]_vars =>
        [\A g \in Gateway : gateway[g] = "foreign" => gateway'[g] = "foreign"]_vars
  BY GatewaySteps
<1> QED
  BY <1>1, <1>2, TypeInit, TypeStep, JobPhasesStep, TodoStep, PTL
  DEF Spec, ForeignGatewaysSurvive

----------------------------------------------------------------------------
\* What holds where a create is late by at most one request.

\* Nothing undecided is more than one request old, and while a call runs, only its
\* first request can have something undecided before it that is fresh.
FirstRequest ==
  \/ pc \in {"idle", "list_servers"}
  \/ pc = "list_gateways" /\ job.purpose = "reconcile" /\ job.attempt = 0
Settled ==
  /\ \A x \in late : x.left \in {0, 1}
  /\ ~FirstRequest => \A x \in late : x.left = 0
NoLateGateway == \A x \in late : x.op # "gateway"

\* The way is clear: before the create nothing of the fixture's is left or to come,
\* and after it only what was created.
StartClears ==
  /\ job.purpose = "start" /\ pc = "delete_gateways" =>
       late = {} /\ (job.trouble \/ Owned \subseteq job.todo)
  /\ pc = "create_gateway" => late = {} /\ Owned = {}
  /\ pc \in {"refresh", "poll", "create_server", "ready"} => late = {} /\ Owned \subseteq {mine}

\* Undoing and cleanup only have to look for the gateway the client knows of.
UndoClears ==
  job.purpose \in {"undo", "cleanup"} /\ pc # "idle" =>
    /\ NoLateGateway
    /\ pc # "delete_gateways" => Owned \subseteq {mine}
    /\ pc = "delete_gateways" => job.trouble \/ Owned \subseteq job.todo
    /\ job.purpose = "cleanup" =>
         late = {} /\ (pc \in {"list_gateways", "delete_gateways"} =>
                         job.trouble \/ server.owner # "owned")

\* Two passes in a row that found nothing, and the creation can come no more.
QuietIsQuiet ==
  /\ job.quiet <= job.attempt
  /\ job.purpose = "reconcile" /\ pc = "delete_gateways" /\ ~job.found /\ job.quiet = 1 =>
       late = {} /\ Owned = {}

EndsClean ==
  result \in {"undone", "cleaned"} =>
    /\ pc = "idle" /\ Owned = {} /\ NoLateGateway
    /\ result = "cleaned" => late = {} /\ server.owner # "owned"

CleanInv ==
  /\ TypeOK /\ JobPhases /\ Settled /\ StartClears /\ UndoClears /\ QuietIsQuiet /\ EndsClean

\* One request later every create is decided that was late by one.
LEMMA SendEffect ==
  ASSUME TypeOK, \A x \in late : x.left \in {0, 1}, Send
  PROVE  /\ \A x \in late' : x.left = 0
         /\ (\A x \in late : x.left = 0) => late' = {}
         /\ NoLateGateway => NoLateGateway'
<1>1. late' = {[x EXCEPT !.left = @ - 1] : x \in late}
  BY DEF Send, Aged
<1>2. \A x \in late : x.left = 1 /\ x \in LateCreate
  BY DEF Send, CanSend, TypeOK, LateCreate
<1>3. ASSUME NEW y \in late'
      PROVE  \E x \in late : y.left = 0 /\ y.op = x.op
  <2>1. PICK x \in late : y = [x EXCEPT !.left = @ - 1]
    BY <1>1
  <2> QED
    BY <2>1, <1>2 DEF LateCreate
<1>4. (\A x \in late : x.left = 0) => late' = {}
  BY <1>1, <1>2
<1> QED
  BY <1>3, <1>4 DEF NoLateGateway

LEMMA SendLostEffect ==
  ASSUME Late <= 1, FixtureAssumption, late = {}, NEW op, NEW g, SendLost(op, g)
  PROVE  late' = {[op |-> op, gateway |-> g, left |-> Late]} /\ Late \in {0, 1}
  BY DEF SendLost, Aged, FixtureAssumption

LEMMA OwnedShrinks ==
  ASSUME TypeOK, [Next]_vars, ~CreateGateway, ~Settle
  PROVE  Owned' \subseteq Owned
<1> SUFFICES ASSUME NEW g \in Gateway, gateway[g] # "owned" PROVE gateway'[g] # "owned"
  BY DEF Owned
<1>0. gateway \in [Gateway -> GatewayState]
  BY DEF TypeOK
<1>1. CASE DeleteGateway
  BY <1>0, <1>1 DEF DeleteGateway
<1>2. CASE Meddle
  BY <1>0, <1>2 DEF Meddle
<1>3. CASE UNCHANGED gateway
  BY <1>3
<1> QED
  BY <1>1, <1>2, <1>3
  DEF Next, Client, Finished, vars, ListServers, DeleteServer, ListGateways, PassEnds, Refresh,
      PollCatalogs, CreateServer, StartProvision, StartCleanup, Crash

LEMMA CleanStep ==
  ASSUME Late <= 1, CleanInv, [Next]_vars
  PROVE  CleanInv'
<1> USE DEF CleanInv
<1>a. TypeOK' /\ JobPhases'
  BY TypeStep, JobPhasesStep
<1>b. /\ job \in Jobs /\ job.quiet \in Nat /\ job.attempt \in Nat
      /\ pc \in Phases /\ gateway \in [Gateway -> GatewayState]
      /\ job.quiet \in {0, 1}
  BY DEF TypeOK, Jobs, RequiredQuietAttempts
<1>c. \A p \in {"start", "reconcile", "undo", "cleanup"} :
        /\ NewJob(p).purpose = p /\ NewJob(p).todo = {} /\ NewJob(p).trouble = FALSE
        /\ NewJob(p).quiet = 0 /\ NewJob(p).attempt = 0
  BY DEF NewJob
<1>1. CASE ListServers
  <2>0. Owned' = Owned /\ gateway' = gateway /\ server' = server /\ mine' = mine
          /\ pc = "list_servers"
    BY <1>1 DEF ListServers, Owned
  <2>1. Settled'
    BY <1>1, <1>b, SendEffect DEF ListServers, Settled, FirstRequest
  <2> QED
    BY <1>1, <1>a, <1>b, <2>0, <2>1, SendEffect
    DEF ListServers, Trouble, End, Jobs, Settled, StartClears, UndoClears, QuietIsQuiet, EndsClean,
        NoLateGateway, JobPhases
<1>2. CASE DeleteServer
  <2>0. Owned' = Owned /\ mine' = mine /\ pc = "delete_server"
    BY <1>2 DEF DeleteServer, Owned
  <2>1. Settled' /\ late' = {}
    BY <1>2, <1>b, SendEffect DEF DeleteServer, Settled, FirstRequest
  <2>2. server'.owner = "owned" => server.owner = "owned" /\ (pc' = "list_gateways" => job'.trouble)
    BY <1>2, <1>b DEF DeleteServer, Trouble, NoServer, Jobs, End
  <2> QED
    BY <1>2, <1>a, <1>b, <2>0, <2>1, <2>2
    DEF DeleteServer, Trouble, End, Jobs, StartClears, UndoClears, QuietIsQuiet, EndsClean,
        NoLateGateway, JobPhases
<1>3. CASE ListGateways
  <2>0. Owned' = Owned /\ mine' = mine /\ server' = server /\ pc = "list_gateways"
    BY <1>3 DEF ListGateways, Owned
  <2>1. Settled' /\ (~FirstRequest => late' = {}) /\ (NoLateGateway => NoLateGateway')
    BY <1>3, <1>b, SendEffect DEF ListGateways, Settled
  <2>2. CASE Trouble("delete_gateways")
    BY <1>3, <1>a, <1>b, <2>0, <2>1, <2>2
    DEF ListGateways, Trouble, End, Jobs, StartClears, UndoClears, QuietIsQuiet, EndsClean,
        NoLateGateway, JobPhases, FirstRequest
  <2>3. CASE /\ job' = [job EXCEPT !.todo = Wanted, !.found = (Wanted # {})]
             /\ pc' = "delete_gateways" /\ result' = result
    <3>1. Owned \subseteq Reserved
      BY DEF Owned, Reserved
    <3>2. /\ job'.purpose = job.purpose /\ job'.quiet = job.quiet /\ job'.attempt = job.attempt
          /\ job'.trouble = job.trouble /\ job'.todo = Wanted /\ job'.found = (Wanted # {})
      BY <2>3, <1>b DEF Jobs
    <3>3. job.purpose \in {"start", "reconcile"} => Owned \subseteq Wanted
      BY <3>1 DEF Wanted
    <3>4. job.purpose \in {"undo", "cleanup"} => Owned \subseteq Wanted
      BY <3>1, <2>0 DEF Wanted, UndoClears
    <3>5. StartClears' /\ EndsClean'
      BY <1>b, <2>0, <2>1, <2>3, <3>2, <3>3 DEF StartClears, EndsClean, FirstRequest
    <3>6. UndoClears'
      BY <1>b, <2>0, <2>1, <2>3, <3>2, <3>4 DEF UndoClears, FirstRequest
    <3>7. QuietIsQuiet'
      <4>1. job'.quiet <= job'.attempt /\ (job.quiet = 1 => job.attempt # 0)
        BY <1>b, <3>2 DEF QuietIsQuiet
      <4>2. ~job'.found => Wanted = {}
        BY <3>2
      <4>3. job'.purpose = "reconcile" /\ job'.quiet = 1 => late' = {} /\ Owned' \subseteq Wanted
        BY <2>0, <2>1, <3>2, <3>3, <4>1 DEF FirstRequest
      <4> QED
        BY <4>1, <4>2, <4>3 DEF QuietIsQuiet
    <3> QED
      BY <1>a, <2>1, <3>5, <3>6, <3>7
  <2> QED
    BY <1>3, <2>2, <2>3 DEF ListGateways
<1>4. CASE DeleteGateway
  <2>1. PICK g \in job.todo, applied \in BOOLEAN, ok \in BOOLEAN :
          /\ ok => applied
          /\ gateway' = IF applied THEN [gateway EXCEPT ![g] = "deleted"] ELSE gateway
          /\ job' = [job EXCEPT !.todo = @ \ {g}, !.trouble = @ \/ ~ok]
    BY <1>4 DEF DeleteGateway
  <2>2. /\ job'.purpose = job.purpose /\ job'.quiet = job.quiet /\ job'.attempt = job.attempt
        /\ job'.found = job.found /\ job'.todo = job.todo \ {g}
        /\ job'.trouble = (job.trouble \/ ~ok)
    BY <2>1, <1>b DEF Jobs
  <2>3. Owned' \subseteq Owned /\ (ok => g \notin Owned')
    BY <2>1, <1>b DEF Owned, Jobs
  <2>4. Settled' /\ late' = {}
    BY <1>4, <1>b, SendEffect DEF DeleteGateway, Settled, FirstRequest
  <2>5. job'.trouble \/ Owned \subseteq job.todo => job'.trouble \/ Owned' \subseteq job'.todo
    BY <2>2, <2>3
  <2> QED
    BY <1>4, <1>a, <1>b, <2>2, <2>3, <2>4, <2>5
    DEF DeleteGateway, StartClears, UndoClears, QuietIsQuiet, EndsClean, NoLateGateway, JobPhases
<1>5. CASE PassEnds
  <2>0. Owned' = Owned /\ UNCHANGED <<server, late, mine, runs, meddled>> /\ job.todo = {}
          /\ pc = "delete_gateways"
    BY <1>5 DEF PassEnds, Owned
  <2>1. CASE StartPassEnds
    BY <1>a, <1>b, <2>0, <2>1
    DEF StartPassEnds, End, HadTrouble, Settled, FirstRequest, StartClears, UndoClears,
        QuietIsQuiet, EndsClean, NoLateGateway, JobPhases
  <2>2. CASE CleanupEnds
    BY <1>a, <1>b, <2>0, <2>2
    DEF CleanupEnds, End, HadTrouble, Settled, FirstRequest, StartClears, UndoClears,
        QuietIsQuiet, EndsClean, NoLateGateway, JobPhases
  <2>3. CASE ReconcilePassEnds
    <3> DEFINE quiet == IF job.found THEN 0 ELSE job.quiet + 1
    <3>1. /\ quiet = IF job.found THEN 0 ELSE job.quiet + 1
          /\ IF ~HadTrouble /\ quiet < RequiredQuietAttempts /\ MoreAttempts(job.attempt)
               THEN /\ job' = [job EXCEPT !.quiet = quiet, !.attempt = @ + 1]
                    /\ pc' = "list_gateways"
                    /\ UNCHANGED result
               ELSE /\ End(IF ~HadTrouble /\ quiet = RequiredQuietAttempts
                             THEN "undone" ELSE "unclean")
                    /\ UNCHANGED job
      BY <2>3 DEF ReconcilePassEnds
    <3> HIDE DEF quiet
    <3>2. quiet = RequiredQuietAttempts => late = {} /\ Owned = {}
      BY <3>1, <1>b, <2>0, <2>3 DEF QuietIsQuiet, RequiredQuietAttempts, ReconcilePassEnds
    <3>3. CASE /\ job' = [job EXCEPT !.quiet = quiet, !.attempt = @ + 1]
               /\ pc' = "list_gateways" /\ result' = result
      <4>1. /\ job'.purpose = "reconcile" /\ job'.quiet = quiet
            /\ job'.attempt = job.attempt + 1
        BY <3>3, <1>b, <2>3 DEF Jobs, ReconcilePassEnds
      <4>2. quiet <= job.attempt + 1
        BY <3>1, <1>b DEF QuietIsQuiet
      <4> QED
        BY <1>a, <1>b, <2>0, <3>3, <4>1, <4>2
        DEF Settled, FirstRequest, StartClears, UndoClears, QuietIsQuiet, EndsClean,
            NoLateGateway, JobPhases
    <3>4. CASE /\ End(IF ~HadTrouble /\ quiet = RequiredQuietAttempts
                        THEN "undone" ELSE "unclean")
               /\ UNCHANGED job
      BY <1>a, <1>b, <2>0, <2>3, <3>2, <3>4
      DEF End, ReconcilePassEnds, Settled, FirstRequest, StartClears, UndoClears, QuietIsQuiet,
          EndsClean, NoLateGateway, JobPhases
    <3> QED
      BY <3>1, <3>3, <3>4
  <2> QED
    BY <1>5, <2>1, <2>2, <2>3 DEF PassEnds
<1>6. CASE CreateGateway
  <2>0. pc = "create_gateway" /\ late = {} /\ Owned = {} /\ job.purpose = "start"
    BY <1>6 DEF CreateGateway, StartClears, JobPhases
  <2>1. CASE /\ Send
             /\ \E g \in Fresh : gateway' = [gateway EXCEPT ![g] = "owned"] /\ mine' = g
             /\ pc' = "refresh" /\ UNCHANGED job
    <3>1. Owned' \subseteq {mine'}
      BY <2>0, <2>1, <1>b DEF Owned, Fresh
    <3>2. late' = {}
      BY <2>0, <2>1, SendEffect
    <3> QED
      BY <1>6, <1>a, <1>b, <2>0, <2>1, <3>1, <3>2
      DEF CreateGateway, Settled, StartClears, UndoClears, QuietIsQuiet, EndsClean, NoLateGateway,
          JobPhases
  <2>2. CASE pc' = "list_gateways" /\ job' = NewJob("reconcile")
    <3>1. \A x \in late' : x.left \in {0, 1}
      BY <1>6, <2>0, SendEffect, SendLostEffect, FixtureAssumption DEF CreateGateway
    <3> QED
      BY <1>6, <1>a, <1>b, <1>c, <2>0, <2>2, <3>1
      DEF CreateGateway, Settled, FirstRequest, StartClears, UndoClears, QuietIsQuiet, EndsClean,
          JobPhases
  <2> QED
    BY <1>6, <2>1, <2>2 DEF CreateGateway
<1>7. CASE Refresh
  <2>1. /\ pc = "refresh" /\ late = {} /\ late' = {} /\ Owned' = Owned /\ Owned \subseteq {mine}
        /\ job.purpose = "start"
    BY <1>7, SendEffect DEF Refresh, StartClears, Owned, JobPhases
  <2> QED
    BY <1>7, <1>a, <1>b, <1>c, <2>1
    DEF Refresh, Undo, Settled, StartClears, UndoClears, QuietIsQuiet, EndsClean, NoLateGateway
<1>8. CASE PollCatalogs
  <2>1. /\ pc = "poll" /\ late = {} /\ late' = {} /\ Owned' = Owned /\ Owned \subseteq {mine}
        /\ job.purpose = "start"
    BY <1>8, SendEffect DEF PollCatalogs, StartClears, Owned, JobPhases
  <2>2. CASE job' = [job EXCEPT !.attempt = Polled(@)] /\ UNCHANGED pc
    <3>1. /\ job'.purpose = "start" /\ job'.quiet = job.quiet
          /\ job'.attempt = job.attempt + 1
      BY <1>b, <2>1, <2>2 DEF Jobs, Polled
    <3> QED
      BY <1>8, <1>a, <1>b, <2>1, <2>2, <3>1
      DEF PollCatalogs, Settled, StartClears, UndoClears, QuietIsQuiet, EndsClean
  <2>3. CASE Undo \/ (pc' = "create_server" /\ UNCHANGED job)
    BY <1>8, <1>a, <1>b, <1>c, <2>1, <2>3
    DEF PollCatalogs, Undo, Settled, StartClears, UndoClears, QuietIsQuiet, EndsClean,
        NoLateGateway
  <2> QED
    BY <1>8, <2>2, <2>3 DEF PollCatalogs
<1>9. CASE CreateServer
  <2>1. /\ pc = "create_server" /\ late = {} /\ Owned' = Owned /\ Owned \subseteq {mine}
        /\ job.purpose = "start" /\ mine' = mine /\ result # "cleaned" /\ result # "undone"
    BY <1>9 DEF CreateServer, StartClears, Owned, JobPhases, EndsClean
  <2>2. CASE Send /\ pc' = "ready" /\ result' = "ready" /\ UNCHANGED job
    <3>1. late' = {}
      BY <2>1, <2>2, SendEffect
    <3> QED
      BY <1>a, <1>b, <2>1, <2>2, <3>1
      DEF Settled, StartClears, UndoClears, QuietIsQuiet, EndsClean, NoLateGateway
  <2>3. CASE Undo /\ result' = result /\ (Send \/ SendLost("server", mine))
    <3>1. \A x \in late' : x.left \in {0, 1} /\ x.op = "server"
      BY <2>1, <2>3, SendEffect, SendLostEffect, FixtureAssumption
    <3> QED
      BY <1>a, <1>b, <1>c, <2>1, <2>3, <3>1
      DEF Undo, Settled, FirstRequest, StartClears, UndoClears, QuietIsQuiet, EndsClean,
          NoLateGateway
  <2> QED
    BY <1>9, <2>2, <2>3 DEF CreateServer
<1>10. CASE StartProvision
  BY <1>10, <1>a, <1>b, <1>c
  DEF StartProvision, Settled, FirstRequest, StartClears, UndoClears, QuietIsQuiet, EndsClean
<1>11. CASE StartCleanup
  <2>1. Owned' = Owned
    BY <1>11 DEF StartCleanup, Owned
  <2> QED
    BY <1>11, <1>a, <1>b, <1>c, <2>1
    DEF StartCleanup, Settled, FirstRequest, StartClears, UndoClears, QuietIsQuiet, EndsClean,
        NoLateGateway
<1>12. CASE Crash
  BY <1>12, <1>a, <1>b
  DEF Crash, End, Settled, FirstRequest, StartClears, UndoClears, QuietIsQuiet, EndsClean
<1>13. CASE Settle
  <2>1. PICK x \in late : ApplyLate(x)
    BY <1>13 DEF Settle
  <2>2. late' \subseteq late /\ UNCHANGED <<pc, job, mine, result>> /\ late # {}
    BY <2>1 DEF ApplyLate
  <2>3. NoLateGateway => Owned' = Owned
    BY <2>1 DEF ApplyLate, NoLateGateway, Owned
  <2>4. late = {} => server' = server
    BY <2>1
  <2> QED
    BY <1>a, <1>b, <2>2, <2>3, <2>4
    DEF Settled, FirstRequest, StartClears, UndoClears, QuietIsQuiet, EndsClean, NoLateGateway,
        JobPhases
<1>14. CASE Meddle
  <2>1. Owned' \subseteq Owned
    BY <1>14, <1>b DEF Meddle, Owned
  <2>2. server'.owner = "owned" => server.owner = "owned"
    BY <1>14 DEF Meddle, NoServer, Server
  <2> QED
    BY <1>14, <1>a, <1>b, <2>1, <2>2
    DEF Meddle, Settled, FirstRequest, StartClears, UndoClears, QuietIsQuiet, EndsClean,
        NoLateGateway
<1>15. CASE UNCHANGED vars
  BY <1>15, <1>a
  DEF vars, Settled, FirstRequest, StartClears, UndoClears, QuietIsQuiet, EndsClean,
      NoLateGateway, Owned
<1> QED
  BY <1>1, <1>2, <1>3, <1>4, <1>5, <1>6, <1>7, <1>8, <1>9, <1>10, <1>11, <1>12, <1>13,
     <1>14, <1>15 DEF Next, Client, Finished

LEMMA CleanInit == Init => CleanInv
<1> SUFFICES ASSUME Init PROVE CleanInv
  OBVIOUS
<1> QED
  BY TypeInit
  DEF CleanInv, Init, NewJob, JobPhases, Settled, FirstRequest, StartClears, UndoClears,
      QuietIsQuiet, EndsClean

\* What a failure without a cleanup error and a cleanup without error promise, for
\* every catalog and whatever is killed, refused or lost.
THEOREM CleanIsGone ==
  ASSUME Late <= 1
  PROVE  Spec => []CleanMeansGone
<1>1. CleanInv => CleanMeansGone
  BY DEF CleanInv, EndsClean, CleanMeansGone
<1> QED
  BY <1>1, CleanInit, CleanStep, PTL DEF Spec

\* A provision that succeeds is alone, whatever earlier runs left behind.
THEOREM SuccessExclusive ==
  ASSUME Late <= 1
  PROVE  Spec => SuccessIsExclusive
<1>1. ASSUME CleanInv, [Next]_vars, pc # "ready", pc' = "ready"
      PROVE  server' = Server("owned", mine) /\ Owned' \subseteq {mine}
  <2>1. CreateServer
    BY <1>1
    DEF Next, Client, Finished, vars, ListServers, DeleteServer, ListGateways, DeleteGateway,
        PassEnds, StartPassEnds, ReconcilePassEnds, CleanupEnds, CreateGateway, Refresh,
        PollCatalogs, Undo, StartProvision, StartCleanup, Crash, Settle, ApplyLate, Meddle, Trouble,
        End
  <2> QED
    BY <1>1, <2>1 DEF CreateServer, Undo, CleanInv, StartClears, Owned
<1>2. CleanInv /\ [Next]_vars =>
        [pc # "ready" /\ pc' = "ready" =>
           server' = Server("owned", mine) /\ Owned' \subseteq {mine}]_vars
  BY <1>1
<1> QED
  BY <1>2, CleanInit, CleanStep, PTL DEF Spec, SuccessIsExclusive
=============================================================================
