-------------------------- MODULE FixtureProvision --------------------------
(***************************************************************************)
(* The client that registers the official conformance fixture with a       *)
(* gateway's admin API: provision, its undoing, and cleanup, one HTTP      *)
(* request a step, against a catalog that other people use too.            *)
(*                                                                         *)
(* A request may be refused, or be applied and have its response lost (a   *)
(* timeout, a broken body); a create may even be applied later, while the  *)
(* client is already at most Late requests further.  The catalog holds the *)
(* gateways with the reserved name and the server with the fixed id, all   *)
(* that the client looks at.  The three reads of a catalog poll are one    *)
(* step.  Bug... operators are plausible mistakes in the definition that   *)
(* follows them; they are not part of the specification.                   *)
(***************************************************************************)
EXTENDS Naturals

CONSTANTS
  MaxGateways,      \* gateways ever created
  MaxRuns,          \* calls of provision
  Attempts,         \* reconciliation_attempts
  CatalogAttempts,  \* max_attempts
  Late,             \* requests a create whose response was lost may be late by
  Meddling          \* changes other people make to the catalog

ASSUME FixtureAssumption ==
  /\ MaxGateways \in Nat /\ MaxRuns \in Nat /\ Late \in Nat /\ Meddling \in Nat
  /\ Attempts \in Nat \ {0, 1}
  /\ CatalogAttempts \in Nat \ {0}

VARIABLES
  gateway,   \* the reserved-name gateways, by id
  server,    \* the server with the fixed id
  late,      \* creates that will still be applied, or never
  pc,        \* the client's next request
  job,       \* locals of the function it is in
  mine,      \* the id of the gateway it was told it created, or 0
  result,    \* how the last call ended
  runs,      \* calls of provision so far
  meddled    \* changes made by others so far

vars == <<gateway, server, late, pc, job, mine, result, runs, meddled>>

Gateway == 1..MaxGateways

\* "owned": exactly what the fixture creates; "edited": once created by it, but
\* different now; "foreign": somebody else's.
GatewayState == {"unused", "owned", "edited", "foreign", "deleted"}

NoServer == [owner |-> "none", gateway |-> 0]
Server(owner, g) == [owner |-> owner, gateway |-> g]

\* What the client does: clear the way ("start"), look for a gateway whose
\* creation it knows nothing about ("reconcile"), undo a failed provision, clean up.
NewJob(purpose) == [purpose |-> purpose, todo |-> {}, found |-> FALSE,
                    trouble |-> FALSE, quiet |-> 0, attempt |-> 0]

Init ==
  /\ gateway \in {[g \in Gateway |-> IF g \in old THEN "owned" ELSE "unused"] :
                    old \in {{}, Gateway \cap {1}}}
  /\ server \in {NoServer, Server("owned", 0), Server("foreign", 0)}
  /\ late = {}
  /\ pc = "idle"
  /\ job = NewJob("start")
  /\ mine = 0
  /\ result = "none"
  /\ runs = 0
  /\ meddled = 0

----------------------------------------------------------------------------
\* The admin API.

Reserved == {g \in Gateway : gateway[g] \in {"owned", "edited", "foreign"}}
Owned    == {g \in Gateway : gateway[g] = "owned"}

\* The id of the next gateway; none beyond the bound.
Fresh == {g \in Gateway : gateway[g] = "unused" /\ \A h \in 1..(g - 1) : gateway[h] # "unused"}

\* The client sends a request: late creates get closer to their deadline.
Aged    == {[x EXCEPT !.left = @ - 1] : x \in late}
CanSend == \A x \in late : x.left > 0
Send    == CanSend /\ late' = Aged

\* A create whose response was lost and which may still be applied.
SendLost(op, g) == CanSend /\ late' = Aged \cup {[op |-> op, gateway |-> g, left |-> Late]}

ApplyLate(x) ==
  /\ late' = late \ {x}
  /\ \/ UNCHANGED <<gateway, server>>
     \/ /\ x.op = "gateway"
        /\ \E g \in Fresh : gateway' = [gateway EXCEPT ![g] = "owned"]
        /\ UNCHANGED server
     \/ /\ x.op = "server" /\ server = NoServer
        /\ server' = Server("owned", x.gateway)
        /\ UNCHANGED gateway
  /\ UNCHANGED <<pc, job, mine, result, runs, meddled>>

Settle == \E x \in late : ApplyLate(x)

\* Other people: a gateway or server that only looks like the fixture's, a change
\* to one of the fixture's, a deletion.
Meddle ==
  /\ meddled < Meddling
  /\ meddled' = meddled + 1
  /\ \/ /\ \/ \E g \in Fresh : gateway' = [gateway EXCEPT ![g] = "foreign"]
           \/ \E g \in Owned, s \in {"edited", "deleted"} : gateway' = [gateway EXCEPT ![g] = s]
        /\ UNCHANGED server
     \/ /\ \/ server = NoServer /\ server' = Server("foreign", 0)
           \/ server.owner = "owned" /\ server' \in {NoServer, Server("foreign", 0)}
        /\ UNCHANGED gateway
  /\ UNCHANGED <<late, pc, job, mine, result, runs>>

----------------------------------------------------------------------------
\* The client.

End(how) == pc' = "idle" /\ result' = how

\* An error of a listing or of the server's deletion ends provision and
\* reconciliation; undoing and cleanup remember it and go on.
Trouble(next) ==
  CASE job.purpose = "start"     -> End("refused") /\ UNCHANGED job
    [] job.purpose = "reconcile" -> End("unclean") /\ UNCHANGED job
    [] OTHER -> pc' = next /\ job' = [job EXCEPT !.trouble = TRUE] /\ UNCHANGED result

StartProvision ==
  /\ pc = "idle" /\ runs < MaxRuns
  /\ runs' = runs + 1
  /\ pc' = "list_servers"
  /\ job' = NewJob("start")
  /\ mine' = 0
  /\ result' = "none"
  /\ UNCHANGED <<gateway, server, late, meddled>>

\* delete_owned_server: the listing, then the deletion by id.
ListServers ==
  /\ pc = "list_servers" /\ Send
  /\ \/ Trouble("list_gateways")
     \/ /\ server.owner # "foreign"
        /\ pc' = IF server.owner = "owned" THEN "delete_server" ELSE "list_gateways"
        /\ UNCHANGED <<job, result>>
  /\ UNCHANGED <<gateway, server, mine, runs, meddled>>

DeleteServer ==
  /\ pc = "delete_server" /\ Send
  /\ \E applied, ok \in BOOLEAN :
       /\ ok => applied
       /\ server' = IF applied THEN NoServer ELSE server
       /\ IF ok THEN pc' = "list_gateways" /\ UNCHANGED <<job, result>>
                ELSE Trouble("list_gateways")
  /\ UNCHANGED <<gateway, mine, runs, meddled>>

\* The gateways a pass deletes: every reserved one, or the client's own.  One that
\* is not the fixture's stops the pass before it deletes anything.
Wanted == IF job.purpose \in {"start", "reconcile"} THEN Reserved ELSE Reserved \cap {mine}

BugNoCollision(S) == FALSE
Collision(S) == \E g \in S : gateway[g] # "owned"

ListGateways ==
  /\ pc = "list_gateways" /\ Send
  /\ \/ Trouble("delete_gateways")
     \/ /\ ~Collision(Wanted)
        /\ job' = [job EXCEPT !.todo = Wanted, !.found = (Wanted # {})]
        /\ pc' = "delete_gateways"
        /\ UNCHANGED result
  /\ UNCHANGED <<gateway, server, mine, runs, meddled>>

\* Every deletion is attempted, whatever the others did.
DeleteGateway ==
  /\ pc = "delete_gateways" /\ Send
  /\ \E g \in job.todo, applied, ok \in BOOLEAN :
       /\ ok => applied
       /\ gateway' = IF applied THEN [gateway EXCEPT ![g] = "deleted"] ELSE gateway
       /\ job' = [job EXCEPT !.todo = @ \ {g}, !.trouble = @ \/ ~ok]
  /\ UNCHANGED <<server, pc, mine, result, runs, meddled>>

BugOneQuietAttempt == 1
RequiredQuietAttempts == 2

BugTroubleForgotten == FALSE
HadTrouble == job.trouble

\* The end of a pass over the gateways.
StartPassEnds ==
  /\ job.purpose = "start"
  /\ IF HadTrouble THEN End("refused") ELSE pc' = "create_gateway" /\ UNCHANGED result
  /\ UNCHANGED job

BugOneAttemptMore(attempt) == attempt < Attempts
MoreAttempts(attempt) == attempt + 1 < Attempts

\* reconcile_reserved_gateways: until two passes in a row found nothing.
ReconcilePassEnds ==
  /\ job.purpose = "reconcile"
  /\ LET quiet == IF job.found THEN 0 ELSE job.quiet + 1
     IN  IF ~HadTrouble /\ quiet < RequiredQuietAttempts /\ MoreAttempts(job.attempt)
           THEN /\ job' = [job EXCEPT !.quiet = quiet, !.attempt = @ + 1]
                /\ pc' = "list_gateways"
                /\ UNCHANGED result
           ELSE /\ End(IF ~HadTrouble /\ quiet = RequiredQuietAttempts
                         THEN "undone" ELSE "unclean")
                /\ UNCHANGED job

CleanupEnds ==
  /\ job.purpose \in {"undo", "cleanup"}
  /\ End(IF HadTrouble THEN "unclean" ELSE IF job.purpose = "undo" THEN "undone" ELSE "cleaned")
  /\ UNCHANGED job

PassEnds ==
  /\ pc = "delete_gateways" /\ job.todo = {}
  /\ StartPassEnds \/ ReconcilePassEnds \/ CleanupEnds
  /\ UNCHANGED <<gateway, server, late, mine, runs, meddled>>

\* A creation without a usable answer, or answered with a gateway that is not the
\* fixture's, is reconciled.
CreateGateway ==
  /\ pc = "create_gateway"
  /\ \/ /\ Send
        /\ \E g \in Fresh :
             /\ gateway' = [gateway EXCEPT ![g] = "owned"]
             /\ mine' = g
        /\ pc' = "refresh"
        /\ UNCHANGED job
     \/ /\ \/ Send /\ UNCHANGED gateway
           \/ Send /\ \E g \in Fresh, s \in {"owned", "edited"} :
                        gateway' = [gateway EXCEPT ![g] = s]
           \/ SendLost("gateway", 0) /\ UNCHANGED gateway
        /\ pc' = "list_gateways"
        /\ job' = NewJob("reconcile")
        /\ UNCHANGED mine
  /\ UNCHANGED <<server, result, runs, meddled>>

Undo == pc' = "list_servers" /\ job' = NewJob("undo")

\* finish_provision: refresh, poll the catalogs, create the server.
Refresh ==
  /\ pc = "refresh" /\ Send
  /\ \/ Undo
     \/ pc' = "poll" /\ UNCHANGED job
  /\ UNCHANGED <<gateway, server, mine, result, runs, meddled>>

BugPollsWrapAround(attempt) == (attempt + 1) % CatalogAttempts
Polled(attempt) == attempt + 1

PollCatalogs ==
  /\ pc = "poll" /\ Send
  /\ \/ Undo
     \/ mine \in Reserved /\ pc' = "create_server" /\ UNCHANGED job
     \/ /\ Polled(job.attempt) < CatalogAttempts
        /\ job' = [job EXCEPT !.attempt = Polled(@)]
        /\ UNCHANGED pc
  /\ UNCHANGED <<gateway, server, mine, result, runs, meddled>>

CreateServer ==
  /\ pc = "create_server"
  /\ \/ /\ Send /\ server = NoServer
        /\ server' = Server("owned", mine)
        /\ pc' = "ready" /\ result' = "ready"
        /\ UNCHANGED job
     \/ /\ \/ Send /\ server' \in {server} \cup IF server = NoServer THEN {Server("owned", mine)}
                                                                   ELSE {}
           \/ SendLost("server", mine) /\ UNCHANGED server
        /\ Undo
        /\ UNCHANGED result
  /\ UNCHANGED <<gateway, mine, runs, meddled>>

\* The run is over: cleanup with the fixture provision returned.
StartCleanup ==
  /\ pc = "ready"
  /\ pc' = "list_servers"
  /\ job' = NewJob("cleanup")
  /\ UNCHANGED <<gateway, server, late, mine, result, runs, meddled>>

\* The process is killed.
Crash ==
  /\ pc # "idle"
  /\ End("killed")
  /\ UNCHANGED <<gateway, server, late, job, mine, runs, meddled>>

Finished == pc = "idle" /\ runs = MaxRuns /\ UNCHANGED vars

Client ==
  \/ ListServers \/ DeleteServer \/ ListGateways \/ DeleteGateway \/ PassEnds
  \/ CreateGateway \/ Refresh \/ PollCatalogs \/ CreateServer

Next == Client \/ StartProvision \/ StartCleanup \/ Crash \/ Settle \/ Meddle \/ Finished

Spec == Init /\ [][Next]_vars

\* Every request is answered or times out, and a late create is applied or lost.
FairSpec == Spec /\ WF_vars(Client) /\ WF_vars(Settle)

----------------------------------------------------------------------------
\* Properties.

Phases == {"idle", "list_servers", "delete_server", "list_gateways", "delete_gateways",
           "create_gateway", "refresh", "poll", "create_server", "ready"}

Jobs == [purpose: {"start", "reconcile", "undo", "cleanup"}, todo: SUBSET Gateway,
         found: BOOLEAN, trouble: BOOLEAN, quiet: Nat, attempt: Nat]

TypeOK ==
  /\ gateway \in [Gateway -> GatewayState]
  /\ server \in [owner: {"none", "owned", "foreign"}, gateway: Gateway \cup {0}]
  /\ late \subseteq [op: {"gateway", "server"}, gateway: Gateway \cup {0}, left: 0..Late]
  /\ pc \in Phases
  /\ job \in Jobs
  /\ job.quiet < RequiredQuietAttempts
  /\ job.attempt < IF job.purpose = "reconcile" THEN Attempts ELSE CatalogAttempts
  /\ mine \in Gateway \cup {0}
  /\ result \in {"none", "refused", "undone", "unclean", "ready", "cleaned", "killed"}
  /\ runs \in 0..MaxRuns
  /\ meddled \in 0..Meddling

\* A failure that reports no cleanup error, and a cleanup that reports success,
\* leave no gateway of the fixture behind, be its creation late or its answer lost;
\* a cleanup leaves no server either.
CleanMeansGone ==
  /\ result \in {"undone", "cleaned"} => Owned = {}
  /\ result = "cleaned" => server.owner # "owned"

\* A provision that succeeds has made the only reserved-name gateway there is of
\* the fixture, whatever earlier and killed runs left: two of them would publish
\* every tool twice.
SuccessIsExclusive ==
  [][pc # "ready" /\ pc' = "ready" =>
       /\ server' = Server("owned", mine)
       /\ Owned' \subseteq {mine}]_vars

\* A gateway that was never the fixture's is never deleted, whenever it appears.
ForeignGatewaysSurvive ==
  [][\A g \in Gateway : gateway[g] = "foreign" => gateway'[g] = "foreign"]_vars

\* Every call ends, whatever the catalog answers.
CallsEnd == pc \notin {"idle", "ready"} ~> pc \in {"idle", "ready"}
=============================================================================
