------------------------------ MODULE ToolRun ------------------------------
(***************************************************************************)
(* The Inspector's run of the tool container: its image, the Docker client  *)
(* that has the daemon create and start it, and its removal by name.  The   *)
(* client can be killed; what it asked the daemon for happens all the same. *)
(***************************************************************************)
EXTENDS McpProbe

VARIABLES
  cancelled,   \* has the tool run been told to stop?
  late         \* is a request of the killed client still with the daemon?

toolVars == <<cancelled, late>>
ToolInit == cancelled = FALSE /\ late = FALSE

Tool      == stack[Lane].tool
ToolIs(s) == stack' = [stack EXCEPT ![Lane].tool = s]
KeepsTool == UNCHANGED stack
Elsewhere == UNCHANGED <<published, wanted, local, build, data, telemetry, sweeping, target>>

\* wait_for_cancellation: every process of the tool run waits for it beside its own end.
Uncancelled == ~cancelled

\* The image is pulled, or built when everything is built.
PrepareTool ==
  /\ at = "tool image"
  /\ \/ Uncancelled /\ Goto("tool client")
     \/ Fail
  /\ UNCHANGED toolVars /\ KeepsTool /\ Elsewhere

\* What the client has the daemon do.
ToolStarts ==
  /\ at = "tool client"
  /\ \/ Tool = "none" /\ ToolIs("created")
     \/ Tool = "created" /\ ToolIs("running")
  /\ UNCHANGED <<commandVars, toolVars>> /\ Elsewhere

\* The client returns the tool's status, or gives up by itself.
ToolClientReturns ==
  /\ at = "tool client"
  /\ \/ /\ Tool = "running" /\ ToolIs("created")
        /\ Goto("tool remove") \/ GotoWith("tool remove", {"primary"})
     \/ GotoWith("tool remove", {"primary"}) /\ KeepsTool
  /\ UNCHANGED toolVars /\ Elsewhere

\* run_async_process kills and reaps the client; a request may be left with the daemon.
ToolClientKilled ==
  /\ at = "tool client" /\ ~Uncancelled
  /\ GotoWith("tool remove", {"primary"})
  /\ late' = (Tool = "none")
  /\ UNCHANGED cancelled /\ KeepsTool /\ Elsewhere

\* The mistake of dropping the error of the removal.
BugRemoveTool ==
  /\ at = "tool remove"
  /\ \/ ToolIs("none") /\ Goto("revoke")
     \/ Goto("revoke") /\ KeepsTool
  /\ UNCHANGED toolVars /\ Elsewhere

\* Whatever became of the client, its container is removed by name.
RemoveTool ==
  /\ at = "tool remove"
  /\ \/ ToolIs("none") /\ Goto("revoke")
     \/ GotoWith("revoke", {"remove"}) /\ KeepsTool
  /\ UNCHANGED toolVars /\ Elsewhere

LateCreate ==
  /\ late /\ Tool = "none" /\ late' = FALSE
  /\ ToolIs("created")
  /\ UNCHANGED <<commandVars, cancelled>> /\ Elsewhere

ToolNext == \/ PrepareTool \/ ToolStarts \/ ToolClientReturns \/ ToolClientKilled
            \/ RemoveTool \/ LateCreate

\* Ctrl-C is heard only while the tool run is waited for.
Interrupt ==
  /\ command.op = "inspect" /\ at \in {"tool image", "tool client"} /\ Uncancelled
  /\ cancelled' = TRUE
  /\ UNCHANGED <<commandVars, stackVars, target, late>>
=============================================================================
