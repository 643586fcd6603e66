------------------------- MODULE ServedStack_proofs -------------------------
(***************************************************************************)
(* What a managed command meets is what was asked for: from the checkouts   *)
(* that are brought up to date, over the decision to build and the images,  *)
(* to the containers that run while it works.                               *)
(***************************************************************************)
EXTENDS ManagedSession_proofs, SequenceTheorems

\* Sources.

\* A source that is up to date.
Ready(s) == Whole(tree[s]) /\ (setting.generated => tree[s].head = tree[s].fetched)

Fetches == at \in Working \cup {"clone"}

\* Until it works on them, a command has all its sources before it; then those in the queue, and
\* those that are not are up to date.
Awaiting == at \in Loading \cup {"settings"} /\ command.op # "down" => queue = Needed(command)
Updating == Fetches =>
  \/ queue = Needed(command) /\ queue # <<>>
  \/ /\ Routed /\ External /\ setting.source
     /\ queue = <<"dataplane">> /\ Ready("controlplane")
AllReady == /\ Routed => Ready("controlplane")
            /\ External /\ setting.source => Ready("dataplane")
Brought  == Raising \/ Serving => AllReady

Sources  == Awaiting /\ Updating /\ Brought

LEMMA NeededSources ==
  Needed(command) = IF Routed
                      THEN IF External /\ setting.source THEN <<"controlplane", "dataplane">>
                                                         ELSE <<"controlplane">>
                      ELSE IF External /\ setting.source THEN <<"dataplane">> ELSE <<>>
<1> DEFINE S == {"controlplane", "dataplane"}
           c == <<"controlplane">>
           d == <<"dataplane">>
           both == <<"controlplane", "dataplane">>
<1>1. <<>> \in Seq(S) /\ c \in Seq(S) /\ d \in Seq(S) /\ both \in Seq(S)
  OBVIOUS
<1>2. Len(c) = 1 /\ c[1] = "controlplane" /\ Len(d) = 1 /\ d[1] = "dataplane"
  OBVIOUS
<1>3. Len(both) = 2 /\ both[1] = "controlplane" /\ both[2] = "dataplane"
  OBVIOUS
<1> HIDE DEF S, c, d, both
<1>4. c \o d = both
  <2>1. c \o d \in Seq(S) /\ Len(c \o d) = 2
    BY <1>1, <1>2, ConcatProperties
  <2>2. (c \o d)[1] = "controlplane" /\ (c \o d)[2] = "dataplane"
    <3>1. \A i \in 1..Len(c) + Len(d) : (c \o d)[i] = IF i <= Len(c) THEN c[i] ELSE d[i - Len(c)]
      BY <1>1, ConcatProperties, Zenon
    <3>2. \A i \in 1..2 : (c \o d)[i] = IF i <= 1 THEN c[i] ELSE d[i - 1]
      <4>1. Len(c) + Len(d) = 2
        BY <1>2
      <4> QED
        BY <1>2, <3>1, <4>1, Zenon
    <3>3. 1 \in 1..2 /\ 2 \in 1..2 /\ 1 <= 1 /\ ~(2 <= 1) /\ 2 - 1 = 1
      OBVIOUS
    <3>4. (c \o d)[1] = c[1] /\ (c \o d)[2] = d[1]
      <4>1. (c \o d)[1] = IF 1 <= 1 THEN c[1] ELSE d[1 - 1]
        BY <3>2, <3>3, Zenon
      <4>2. (c \o d)[2] = IF 2 <= 1 THEN c[2] ELSE d[2 - 1]
        BY <3>2, <3>3, Zenon
      <4>3. (c \o d)[2] = d[2 - 1]
        BY <3>3, <4>2, Zenon
      <4> QED
        BY <3>3, <4>1, <4>3, Zenon
    <3> QED
      BY <1>2, <3>4
  <2>3. \A i \in 1..Len(c \o d) : (c \o d)[i] = both[i]
    BY <1>3, <2>1, <2>2
  <2> QED
    BY <1>1, <1>3, <2>1, <2>3, SeqEqual
<1>5. c \o <<>> = c /\ <<>> \o d = d /\ <<>> \o <<>> = <<>>
  BY <1>1, ConcatEmptySeq
<1> QED
  BY <1>4, <1>5 DEF Needed, Routed, External, Lane, c, d, both

\* A standalone command works on the external lane, and no reference is one.
LEMMA StandaloneAsked ==
  TypeInv /\ ~Routed => External /\ command.op # "reference"
  BY RequestAssumption DEF TypeInv, CommandTypes, Askable, StandaloneLane, AskableOfStack,
     AskableOfLane, AskableOfLive, AskableOfInspect, Nothing, Routed, External, Lane

\* Where a command starts it has its sources before it, or needs none.
LEMMA StartsAwaiting ==
  ASSUME TypeInv, queue = Needed(command), command.op \notin {"none", "down"},
         UNCHANGED <<setting, command, queue, tree>>, at' \in {FirstStep, SourceStep}
  PROVE  Sources'
<1> USE DEF Sources, Awaiting, Updating, Brought
<1>1. CASE at' = "settings"
  BY <1>1 DEF Fetches, Working, Raising, Serving, Needed
<1>2. CASE at' = SourceStep /\ (Routed \/ setting.source)
  <2>1. at' = "clone"
    BY <1>2 DEF SourceStep
  <2>2. queue # <<>>
    BY <1>2, NeededSources, StandaloneAsked
  <2> QED
    BY <2>1, <2>2 DEF Loading, Raising, Serving, Needed
<1>3. CASE at' = SourceStep /\ ~Routed /\ ~setting.source
  <2>1. at' = "build"
    BY <1>3, StandaloneAsked DEF SourceStep, SourcesReady
  <2>2. AllReady'
    BY <1>3 DEF AllReady, Routed, External, Lane
  <2> QED
    BY <2>1, <2>2 DEF Fetches, Loading, Working
<1> QED
  BY <1>1, <1>2, <1>3 DEF FirstStep

\* A step that leaves the checkouts alone and leads neither to them nor, by itself, to a stack.
Onward == /\ UNCHANGED <<setting, command, tree, queue>>
          /\ at' \in Loading \cup Working \cup {"settings", "clone"} => UNCHANGED at
          /\ Raising' \/ Serving' => Raising \/ Serving

LEMMA OnwardKeeps == Sources /\ Onward => Sources'
  BY DEF Sources, Awaiting, Updating, Brought, AllReady, Onward, Fetches, Needed, Ready, Routed,
     External, Lane

\* Which source is worked on, and what comes after it.
LEMMA SourceAtWork ==
  ASSUME TypeInv, Updating, Fetches
  PROVE  \/ /\ src = "controlplane" /\ Routed /\ queue = Needed(command)
            /\ Tail(queue) = IF External /\ setting.source THEN <<"dataplane">> ELSE <<>>
         \/ /\ src = "dataplane" /\ External /\ setting.source /\ Tail(queue) = <<>>
            /\ (queue = Needed(command) /\ ~Routed) \/ (Routed /\ Ready("controlplane"))
<1>1. CASE queue = <<"controlplane", "dataplane">>
  <2>1. src = "controlplane" /\ Tail(queue) = <<"dataplane">>
    BY <1>1 DEF src
  <2> QED
    BY <1>1, <2>1, NeededSources DEF Updating
<1>2. CASE queue = <<"controlplane">>
  <2>1. src = "controlplane" /\ Tail(queue) = <<>>
    BY <1>2 DEF src
  <2> QED
    BY <1>2, <2>1, NeededSources DEF Updating
<1>3. CASE queue = <<"dataplane">>
  <2>1. src = "dataplane" /\ Tail(queue) = <<>>
    BY <1>3 DEF src
  <2>2. queue # <<"controlplane">> /\ queue # <<"controlplane", "dataplane">> /\ queue # <<>>
    BY <1>3
  <2>3. CASE queue = Needed(command)
    <3>1. ~Routed /\ External /\ setting.source
      BY <2>2, <2>3, NeededSources
    <3> QED
      BY <2>1, <2>3, <3>1
  <2>4. CASE queue # Needed(command)
    BY <2>1, <2>4 DEF Updating
  <2> QED
    BY <2>3, <2>4
<1> QED
  BY <1>1, <1>2, <1>3, NeededSources DEF Updating

\* What a step of the checkouts does to the queue.
LEMMA CheckoutMoves ==
  ASSUME CheckoutNext
  PROVE  /\ Fetches /\ UNCHANGED <<setting, command>>
         /\ \/ /\ at' \in Working /\ UNCHANGED queue
               /\ \E t : tree' = [tree EXCEPT ![src] = t] \/ UNCHANGED tree
            \/ at' \in {"revoke", "ended"} /\ "primary" \in failures'
            \/ /\ at = "switch" /\ NextSource
               /\ tree' = [tree EXCEPT ![src].head =
                             IF setting.generated \/ @ = 0 THEN tree[src].fetched ELSE @]
<1> USE DEF Fetches, Working, Goto, CheckoutFails, Fail, GotoWith
<1>1. CASE Clone
  BY <1>1 DEF Clone
<1>2. CASE CheckOrigin
  BY <1>2 DEF CheckOrigin
<1>3. CASE Stage
  BY <1>3 DEF Stage
<1>4. CASE MoveAway
  BY <1>4 DEF MoveAway
<1>5. CASE Install
  BY <1>5 DEF Install
<1>6. CASE DropOld
  BY <1>6 DEF DropOld
<1>7. CASE Fetch
  BY <1>7 DEF Fetch
<1>8. CASE Switch
  BY <1>8 DEF Switch, NextSource
<1> QED
  BY <1>1, <1>2, <1>3, <1>4, <1>5, <1>6, <1>7, <1>8 DEF CheckoutNext

\* A source that was switched is up to date.
LEMMA SwitchReadies ==
  ASSUME TypeInv, CheckoutInv, NEW s \in Source, s = src, at = "switch", UNCHANGED setting,
         tree' = [tree EXCEPT ![src].head =
                    IF setting.generated \/ @ = 0 THEN tree[src].fetched ELSE @]
  PROVE  Ready(s)' /\ \A o : o # s => tree'[o] = tree[o]
<1> DEFINE h == IF setting.generated \/ tree[s].head = 0 THEN tree[s].fetched ELSE tree[s].head
<1>1. tree \in [Source -> Directory] /\ tree[s] \in Directory
  BY DEF TypeInv, CheckoutTypes
<1>2. tree[s].origin = "configured" /\ tree[s].fetched > 0
  BY DEF CheckoutInv, Known
<1>3. tree' = [tree EXCEPT ![s] = [tree[s] EXCEPT !.head = h]]
  OBVIOUS
<1>4. h > 0 /\ (setting.generated => h = tree[s].fetched)
  BY <1>1, <1>2 DEF Directory, Revision
<1> HIDE DEF h
<1>5. tree'[s] = [tree[s] EXCEPT !.head = h]
  BY <1>1, <1>3
<1>6. tree'[s].origin = "configured" /\ tree'[s].head = h /\ tree'[s].fetched = tree[s].fetched
  BY <1>1, <1>2, <1>5 DEF Directory
<1> QED
  BY <1>3, <1>4, <1>6 DEF Ready, Whole

LEMMA CheckoutSources ==
  ASSUME TypeInv, CheckoutInv, Sources, CheckoutNext
  PROVE  Sources'
<1> USE DEF Sources, Awaiting, Updating, Brought
<1>a. Fetches /\ UNCHANGED <<setting, command>>
  BY CheckoutMoves
<1>b. UNCHANGED <<Routed, External, Needed(command)>>
  BY <1>a DEF Routed, External, Lane, Needed
<1>c. \/ /\ src = "controlplane" /\ Routed /\ queue = Needed(command)
         /\ Tail(queue) = IF External /\ setting.source THEN <<"dataplane">> ELSE <<>>
      \/ /\ src = "dataplane" /\ External /\ setting.source /\ Tail(queue) = <<>>
         /\ (queue = Needed(command) /\ ~Routed) \/ (Routed /\ Ready("controlplane"))
  BY <1>a, SourceAtWork
<1>1. CASE /\ at' \in Working /\ UNCHANGED queue
           /\ \E t : tree' = [tree EXCEPT ![src] = t] \/ UNCHANGED tree
  <2>1. ~Raising' /\ ~Serving' /\ at' \notin Loading \cup {"settings"}
    BY <1>1 DEF Working, Loading, Raising, Serving
  <2>2. CASE queue = Needed(command)
    BY <1>1, <1>a, <1>b, <2>1, <2>2
  <2>3. CASE queue # Needed(command)
    <3>1. Routed /\ External /\ setting.source /\ queue = <<"dataplane">> /\ Ready("controlplane")
          /\ src = "dataplane"
      BY <1>a, <1>c, <2>3
    <3>2. tree'["controlplane"] = tree["controlplane"]
      BY <1>1, <3>1, SourceAssumption DEF TypeInv, CheckoutTypes
    <3> QED
      BY <1>1, <1>a, <1>b, <2>1, <3>1, <3>2 DEF Ready
  <2> QED
    BY <2>2, <2>3
<1>2. CASE at' \in {"revoke", "ended"} /\ "primary" \in failures'
  BY <1>2 DEF Fetches, Working, Loading, Raising, Serving
<1>3. CASE /\ at = "switch" /\ NextSource
           /\ tree' = [tree EXCEPT ![src].head =
                         IF setting.generated \/ @ = 0 THEN tree[src].fetched ELSE @]
  <2>1. queue' = Tail(queue) /\ at' = IF Tail(queue) = <<>> THEN SourcesReady ELSE "clone"
    BY <1>3 DEF NextSource, Goto
  <2>2. src \in Source
    BY <1>c, SourceAssumption
  <2>3. SourcesReady \notin Loading \cup Working \cup {"settings", "clone"}
    BY DEF SourcesReady, Loading, Working
  <2>4. CASE src = "controlplane"
    <3>1. Ready("controlplane")'
      BY <1>3, <1>a, <2>2, <2>4, SwitchReadies
    <3>2. CASE External /\ setting.source
      <4>1. Routed /\ Tail(queue) = <<"dataplane">>
        BY <1>c, <2>4, <3>2
      <4>2. at' = "clone" /\ queue' = <<"dataplane">>
        BY <2>1, <4>1
      <4> QED
        BY <1>a, <1>b, <3>1, <3>2, <4>1, <4>2 DEF Loading, Raising, Serving
    <3>3. CASE ~(External /\ setting.source)
      <4>1. at' = SourcesReady
        BY <1>c, <2>1, <2>4, <3>3
      <4> QED
        BY <1>a, <1>b, <2>3, <3>1, <3>3, <4>1 DEF Fetches, AllReady
    <3> QED
      BY <3>2, <3>3
  <2>5. CASE src = "dataplane"
    <3>1. Ready("dataplane")' /\ tree'["controlplane"] = tree["controlplane"]
      BY <1>3, <1>a, <2>2, <2>5, SwitchReadies
    <3>2. at' = SourcesReady /\ (Routed => Ready("controlplane"))
      BY <1>c, <2>1, <2>5
    <3> QED
      BY <1>a, <1>b, <2>3, <3>1, <3>2 DEF Fetches, AllReady, Ready
  <2> QED
    BY <1>c, <2>4, <2>5
<1> QED
  BY <1>1, <1>2, <1>3, CheckoutMoves

LEMMA SourcesStep ==
  ASSUME TypeInv, CheckoutInv, Sources, [Next]_vars
  PROVE  Sources'
<1>a. OnTrack /\ Asked
  BY CommandAsked DEF TypeInv, CommandTypes
<1>b. ASSUME Quiet, UNCHANGED checkoutVars, Unserved, Unraised
      PROVE  Sources'
  <2>1. Onward
    BY <1>b DEF Quiet, Apart, Unserved, Unraised, Onward, checkoutVars
  <2> QED
    BY <2>1, OnwardKeeps
<1>c. ASSUME UNCHANGED <<commandVars, tree, queue>> PROVE Sources'
  <2>1. Onward
    BY <1>c DEF commandVars, Onward, Raising, Serving
  <2> QED
    BY <2>1, OnwardKeeps
<1>d. at \in Loading \cup {"settings"} => command.op # "none"
  BY <1>a DEF OnTrack, Track, Loading
<1>1. CASE \E r \in Request : Begin(r)
  BY <1>1 DEF Begin, Sources, Awaiting, Updating, Brought, Fetches, Raising, Serving, Working,
     Needed
<1>2. CASE WorkspaceNext /\ UNCHANGED <<checkoutVars, partVars, sessionVars, bounds>>
  <2>1. /\ UNCHANGED <<setting, command, tree, queue>> /\ at \in Loading
        /\ at' \in Loading \cup {FirstStep, "ended"}
    BY <1>2, WorkspaceLeads DEF checkoutVars
  <2>2. CASE at' = FirstStep /\ command.op # "down"
    BY <2>1, <2>2, <1>d, StartsAwaiting DEF Sources, Awaiting
  <2>3. CASE at' = FirstStep /\ command.op = "down"
    BY <2>1, <2>3 DEF FirstStep, Sources, Awaiting, Updating, Brought, Fetches, Raising, Serving,
       Working, Loading
  <2>4. CASE at' \in Loading \cup {"ended"} /\ ~Serving'
    BY <2>1, <2>4 DEF Sources, Awaiting, Updating, Brought, Fetches, Raising, Working, Loading,
       Needed
  <2>5. ~Serving
    BY <2>1 DEF Serving, Loading
  <2> QED
    BY <1>2, <1>a, <2>1, <2>2, <2>3, <2>4, <2>5, WorkspaceFlow DEF Unserved
<1>3. CASE CheckoutNext
  BY <1>3, CheckoutSources
<1>4. CASE StackNext /\ UNCHANGED checkoutVars
  <2>1. Onward
    BY <1>4, <1>a, StackQuiet, StackFlow DEF Quiet, Apart, Unraised, Onward, checkoutVars
  <2> QED
    BY <2>1, OnwardKeeps
<1>5. CASE (ProbeNext \/ BecomesReady) /\ UNCHANGED checkoutVars
  <2>1. CASE ProbeNext
    BY <1>5, <2>1, <1>a, <1>b, ProbeQuiet, ProbeFlow
  <2>2. CASE BecomesReady
    BY <1>5, <2>2, <1>c DEF BecomesReady, checkoutVars
  <2> QED
    BY <1>5, <2>1, <2>2
<1>6. CASE ToolNext /\ UNCHANGED checkoutVars
  BY <1>6, <1>a, <1>b, ToolQuiet, ToolFlow
<1>7. CASE WorkloadNext /\ UNCHANGED checkoutVars
  <2>1. CASE SettleLoad
    <3>1. at = "settings" /\ UNCHANGED <<setting, command, tree, queue>>
      BY <1>7, <2>1, WorkloadQuiet DEF SettleLoad, Quiet, checkoutVars
    <3>2. command.op = "load"
      BY <1>a, <3>1 DEF OnTrack, Track, Of, Loading, Working, Rising, Probing, Leaving
    <3>3. CASE at' = SourceStep
      BY <3>1, <3>2, <3>3, StartsAwaiting DEF Sources, Awaiting
    <3>4. CASE at' # SourceStep
      BY <2>1, <3>2, <3>4 DEF SettleLoad, Goto, LoadFails, GotoWith, Sources, Awaiting, Updating,
         Brought, Fetches, Raising, Serving, Working, Loading
    <3> QED
      BY <3>3, <3>4
  <2>2. CASE ~SettleLoad
    BY <1>7, <2>2, <1>a, <1>b, WorkloadQuiet, WorkloadFlow
  <2> QED
    BY <2>1, <2>2
<1>8. CASE SessionNext /\ UNCHANGED checkoutVars
  <2>1. CASE Revoke
    <3>1. at = "revoke" /\ at' = "compose down" /\ UNCHANGED command
      BY <2>1 DEF Revoke, Goto, GotoWith
    <3>2. command.op # "up"
      BY <1>a, <3>1 DEF OnTrack, Track, Loading, Working, Rising, Leaving
    <3> QED
      BY <3>1, <3>2 DEF Sources, Awaiting, Updating, Brought, Fetches, Raising, Serving, Working,
         Loading
  <2>2. CASE ~Revoke
    BY <1>8, <2>2, <1>a, <1>b, SessionQuiet, SessionFlow
  <2> QED
    BY <2>1, <2>2
<1>9. CASE Surprise
  <2>1. CASE Kill
    BY <2>1 DEF Kill, Sources, Awaiting, Updating, Brought, Fetches, Raising, Serving, Working,
       Loading
  <2>2. CASE ~Kill
    BY <1>9, <2>2, <1>c DEF Surprise, Pushed, Push, OtherTerminal, Interrupt, checkoutVars
  <2> QED
    BY <2>1, <2>2
<1>10. CASE UNCHANGED vars
  BY <1>10, <1>c DEF vars, checkoutVars
<1> QED
  BY <1>1, <1>2, <1>3, <1>4, <1>5, <1>6, <1>7, <1>8, <1>9, <1>10 DEF Next

----------------------------------------------------------------------------
\* Images, and the volumes of a fresh start.

\* A dataplane image that is not to be built is of the revision that is checked out.
Matching == Resolving /\ External /\ setting.source /\ setting.build # "never" /\ ~build =>
              local.dp = tree["dataplane"].head

\* stack up takes down its own lane, and goes on with new volumes when they were asked for.
Emptied == command.op = "up" =>
  /\ at \in {"compose down", "label"} => sweeping = <<Lane>>
  /\ command.fresh /\ at \in {"other", "telemetry", "up"} /\ ~disturbed => data[Lane] = "none"

Prepares == Matching /\ Emptied

\* A step that is none of the stack's leads nowhere in it.
Beside == /\ UNCHANGED <<setting, command, build, data, sweeping>>
          /\ ~disturbed' => ~disturbed
          /\ local'.dp = local.dp
          /\ UNCHANGED <<at, tree>> \/ ~Resolving'

LEMMA BesideKeeps == Prepares /\ Beside => Prepares'
<1> SUFFICES ASSUME Prepares, Beside PROVE Prepares'
  OBVIOUS
<1> USE DEF Prepares, Beside, Lane
<1>1. Matching'
  BY DEF Matching, Resolving, External
<1>2. Emptied'
  <2>1. CASE UNCHANGED at
    BY <2>1 DEF Emptied
  <2>2. CASE ~Resolving'
    BY <2>2 DEF Emptied, Resolving
  <2> QED
    BY <2>1, <2>2
<1> QED
  BY <1>1, <1>2

\* The steps of the stack.
LEMMA StackMatches ==
  ASSUME TypeInv, Matching, StackNext, UNCHANGED tree
  PROVE  Matching'
<1>a. OnTrack /\ Asked
  BY CommandAsked DEF TypeInv, CommandTypes
<1>b. UNCHANGED <<setting, command>>
  BY StackQuiet DEF Quiet
<1>c. ASSUME UNCHANGED build, local'.dp = local.dp, Resolving' => Resolving PROVE Matching'
  BY <1>b, <1>c DEF Matching, External, Lane
<1>d. ASSUME ~Resolving' PROVE Matching'
  BY <1>d DEF Matching
<1>e. ASSUME build' = ResolveBuild, UNCHANGED local PROVE Matching'
  <2>1. External /\ setting.source /\ setting.build # "never" /\ ~build' => MatchingRevision
    BY <1>e, SettingAssumption DEF ResolveBuild, AutoBuild, TypeInv, CommandTypes, Configured
  <2> QED
    BY <1>b, <1>e, <2>1 DEF Matching, MatchingRevision, ImageRevision, SourceRevision, External, Lane
<1> USE DEF Goto, GotoWith, Fail, StackFails, Proceed, KeepsStack, stackVars, IsSession
<1>1. CASE ValidateContract
  BY <1>1, <1>d DEF ValidateContract, Resolving
<1>2. CASE DecideBuild
  BY <1>2, <1>d, <1>e DEF DecideBuild, Resolving
<1>3. CASE DecideStandaloneBuild
  BY <1>3, <1>d, <1>e DEF DecideStandaloneBuild, Resolving
<1>4. CASE PullControlplane
  <2>1. local'.dp = local.dp
    BY <1>4 DEF PullControlplane, PullIfChanged, TypeInv, StackTypes, Images
  <2> QED
    BY <1>4, <2>1, <1>c DEF PullControlplane, PullIfChanged, Resolving
<1>5. CASE PullDataplane
  <2>1. CASE setting.source
    BY <1>5, <2>1, <1>c DEF PullDataplane, Resolving
  <2>2. CASE ~setting.source
    BY <1>b, <2>2 DEF Matching
  <2> QED
    BY <2>1, <2>2
<1>6. CASE Decide
  BY <1>6, <1>c DEF Decide, Resolving
<1>7. CASE CheckOther
  BY <1>7, <1>c DEF CheckOther, EnsureOtherStopped, Resolving
<1>8. CASE StartTelemetry
  BY <1>8, <1>c DEF StartTelemetry, Resolving
<1>9. CASE Up
  BY <1>9, <1>d DEF Up, Resolving
<1>10. CASE WaitForEndpoint
  BY <1>10, <1>d DEF WaitForEndpoint, AfterUp, Resolving
<1>11. CASE StartFixture
  BY <1>11, <1>d DEF StartFixture, AfterFixture, Resolving
<1>12. CASE StartFastTime
  BY <1>12, <1>d DEF StartFastTime, AfterFixture, Resolving
<1>13. CASE ComposeDown
  BY <1>13, <1>b, <1>c DEF ComposeDown, Resolving
<1>14. CASE StandaloneDown
  BY <1>14, <1>b, <1>c DEF StandaloneDown, AfterSweep, Resolving
<1>15. CASE RemoveByLabel
  BY <1>15, <1>b, <1>c DEF RemoveByLabel, AfterSweep, Resolving
<1> QED
  BY <1>1, <1>2, <1>3, <1>4, <1>5, <1>6, <1>7, <1>8, <1>9, <1>10, <1>11, <1>12, <1>13, <1>14,
     <1>15
  DEF StackNext

LEMMA StackEmpties ==
  ASSUME TypeInv, Emptied, StackNext, UNCHANGED disturbed
  PROVE  Emptied'
<1>b. UNCHANGED <<setting, command>>
  BY StackQuiet DEF Quiet
<1> SUFFICES ASSUME command.op = "up" PROVE Emptied'
  BY <1>b DEF Emptied
<1> DEFINE Early == {"compose down", "label", "other", "telemetry", "up"}
<1>a. /\ Lane \in LaneName /\ data \in [LaneName -> {"none", "old", "new"}]
      /\ at \in {"compose down", "label"} => Head(sweeping) = Lane /\ Tail(sweeping) = <<>>
  <2>1. sweeping = <<Lane>> => Head(sweeping) = Lane /\ Tail(sweeping) = <<>>
    OBVIOUS
  <2>2. Lane \in LaneName
    BY RequestAssumption
    DEF TypeInv, CommandTypes, Lane, LaneName, Askable, AskableOfStack, AskableOfLane,
        AskableOfLive, AskableOfInspect, Nothing
  <2> QED
    BY <2>1, <2>2 DEF Emptied, TypeInv, StackTypes
<1>c. ASSUME at' \notin Early PROVE Emptied'
  BY <1>c DEF Emptied
<1>d. ASSUME at \in {"other", "telemetry"}, at' \in {"telemetry", "up"}, UNCHANGED data
      PROVE  Emptied'
  BY <1>b, <1>d DEF Emptied, Lane
<1>e. \A failed \in BOOLEAN : at \in {"compose down", "label"} =>
        AfterSweep(failed) = IF ~failed /\ failures = {} THEN "other" ELSE "ended"
  BY <1>a DEF AfterSweep
<1> USE DEF Goto, GotoWith, Fail, StackFails, Proceed, KeepsStack, stackVars, IsSession
<1>1. CASE ValidateContract
  BY <1>1, <1>c DEF ValidateContract
<1>2. CASE DecideBuild
  BY <1>2, <1>c DEF DecideBuild
<1>3. CASE DecideStandaloneBuild
  BY <1>3, <1>c DEF DecideStandaloneBuild
<1>4. CASE PullControlplane
  BY <1>4, <1>c DEF PullControlplane, PullIfChanged
<1>5. CASE PullDataplane
  BY <1>5, <1>c DEF PullDataplane, PullIfChanged
<1>6. CASE Decide
  BY <1>6, <1>b DEF Decide, Emptied, Lane
<1>7. CASE CheckOther
  BY <1>7, <1>c, <1>d DEF CheckOther, EnsureOtherStopped
<1>8. CASE StartTelemetry
  BY <1>8, <1>c, <1>d DEF StartTelemetry
<1>9. CASE Up
  BY <1>9, <1>c DEF Up
<1>10. CASE WaitForEndpoint
  BY <1>10, <1>c DEF WaitForEndpoint, AfterUp
<1>11. CASE StartFixture
  BY <1>11, <1>c DEF StartFixture, AfterFixture
<1>12. CASE StartFastTime
  BY <1>12, <1>c DEF StartFastTime, AfterFixture
<1>13. CASE ComposeDown
  BY <1>13, <1>b DEF ComposeDown, Emptied, Lane
<1>14. CASE StandaloneDown
  <2>1. CASE at' = "label" /\ UNCHANGED sweeping
    BY <1>14, <1>b, <2>1 DEF StandaloneDown, Emptied, Lane
  <2>2. CASE at' = AfterSweep(TRUE)
    BY <1>14, <1>c, <1>e, <2>2 DEF StandaloneDown
  <2> QED
    BY <1>14, <2>1, <2>2 DEF StandaloneDown
<1>15. CASE RemoveByLabel
  <2>1. CASE at' = "ended"
    BY <2>1, <1>c
  <2>2. CASE at' # "ended"
    <3>1. at = "label" /\ Swept(Lane) /\ at' = "other"
      BY <1>15, <1>a, <1>e, <2>2 DEF RemoveByLabel
    <3>2. command.fresh => data'[Lane] = "none"
      BY <1>a, <3>1 DEF Swept
    <3> QED
      BY <1>b, <3>1, <3>2 DEF Emptied, Lane
  <2> QED
    BY <2>1, <2>2
<1> QED
  BY <1>1, <1>2, <1>3, <1>4, <1>5, <1>6, <1>7, <1>8, <1>9, <1>10, <1>11, <1>12, <1>13, <1>14,
     <1>15
  DEF StackNext

LEMMA PreparesStep ==
  ASSUME TypeInv, Prepares, [Next]_vars
  PROVE  Prepares'
<1>a. OnTrack /\ Asked
  BY CommandAsked DEF TypeInv, CommandTypes
<1>b. ASSUME Quiet, UNCHANGED <<tree, build, data, sweeping, disturbed, local>>, Aside
      PROVE  Prepares'
  BY <1>b, BesideKeeps DEF Quiet, Aside, Beside
<1>c. ASSUME UNCHANGED <<commandVars, tree, build, data, sweeping, disturbed, local>>
      PROVE  Prepares'
  BY <1>c, BesideKeeps DEF commandVars, Beside
<1>d. ASSUME ~Resolving' PROVE Prepares'
  BY <1>d DEF Prepares, Matching, Emptied, Resolving
<1>1. CASE \E r \in Request : Begin(r)
  BY <1>1, <1>d DEF Begin, Resolving
<1>2. CASE WorkspaceNext /\ UNCHANGED <<checkoutVars, partVars, sessionVars, bounds>>
  <2>1. Beside
    BY <1>2, <1>a, WorkspaceLeads, WorkspaceFlow
    DEF Beside, Aside, checkoutVars, partVars, stackVars, sessionVars
  <2> QED
    BY <2>1, BesideKeeps
<1>3. CASE CheckoutNext
  <2>1. ~Resolving
    BY <1>3, CheckoutMoves DEF Fetches, Working, Resolving
  <2>2. UNCHANGED command /\ Aside
    BY <1>3, <1>a, CheckoutMoves, CheckoutFlow
  <2> QED
    BY <1>d, <2>1, <2>2 DEF Aside, Resolving
<1>4. CASE StackNext /\ UNCHANGED <<checkoutVars, sessionVars>>
  BY <1>4, StackMatches, StackEmpties DEF Prepares, checkoutVars, sessionVars
<1>5. CASE (ProbeNext \/ BecomesReady) /\ UNCHANGED <<checkoutVars, sessionVars>>
  <2>1. CASE ProbeNext
    BY <1>5, <2>1, <1>a, <1>b, ProbeQuiet, ProbeFlow, ProbeTypesStep
    DEF TypeInv, WorkTypes, checkoutVars, stackVars, sessionVars
  <2>2. CASE BecomesReady
    BY <1>5, <2>2, <1>c DEF BecomesReady, checkoutVars, stackVars, sessionVars
  <2> QED
    BY <1>5, <2>1, <2>2
<1>6. CASE ToolNext /\ UNCHANGED <<checkoutVars, sessionVars>>
  <2>1. UNCHANGED <<tree, build, data, sweeping, disturbed, local>>
    BY <1>6 DEF ToolNext, PrepareTool, ToolStarts, ToolClientReturns, ToolClientKilled, RemoveTool,
       LateCreate, Elsewhere, checkoutVars, sessionVars
  <2> QED
    BY <1>6, <1>a, <1>b, <2>1, ToolQuiet, ToolFlow
<1>7. CASE WorkloadNext /\ UNCHANGED <<checkoutVars, stackVars, sessionVars>>
  BY <1>7, <1>a, <1>b, WorkloadQuiet, WorkloadFlow DEF checkoutVars, stackVars, sessionVars
<1>8. CASE SessionNext /\ UNCHANGED checkoutVars
  <2>1. CASE Revoke
    <3>1. at = "revoke" /\ at' = "compose down" /\ UNCHANGED command
      BY <2>1 DEF Revoke, Goto, GotoWith
    <3>2. command.op # "up"
      BY <1>a, <3>1 DEF OnTrack, Track, Loading, Working, Rising, Leaving
    <3> QED
      BY <1>d, <3>1, <3>2 DEF Resolving
  <2>2. CASE ~Revoke
    <3>1. UNCHANGED <<tree, build, data, sweeping, disturbed, local>>
      BY <1>8, <2>2 DEF SessionNext, Prepare, AdminLogin, IssueToken, StandaloneToken,
         PublishFixture, PublishFastTime, StackStays, stackVars, checkoutVars, sessionVars
    <3> QED
      BY <1>8, <2>2, <3>1, <1>a, <1>b, SessionQuiet, SessionFlow
  <2> QED
    BY <2>1, <2>2
<1>9. CASE Surprise
  <2>1. CASE Kill
    BY <2>1, <1>d DEF Kill, Resolving
  <2>2. CASE Pushed
    BY <2>2, <1>c DEF Pushed, Push, checkoutVars, sessionVars
  <2>3. CASE OtherTerminal
    <3>1. local'.dp = local.dp
      BY <2>3 DEF OtherTerminal, TypeInv, StackTypes, Images
    <3>2. Matching'
      BY <2>3, <3>1 DEF OtherTerminal, commandVars, checkoutVars, Prepares, Matching, Resolving,
         External, Lane
    <3>3. Emptied'
      BY <2>3 DEF OtherTerminal, commandVars, Prepares, Emptied, Lane
    <3> QED
      BY <3>2, <3>3 DEF Prepares
  <2>4. CASE ~Kill /\ ~Pushed /\ ~OtherTerminal
    BY <1>9, <2>4, <1>c DEF Surprise, Interrupt, commandVars, checkoutVars, partVars, stackVars,
       sessionVars
  <2> QED
    BY <2>1, <2>2, <2>3, <2>4
<1>10. CASE UNCHANGED vars
  BY <1>10, <1>c DEF vars, checkoutVars, partVars, stackVars, sessionVars
<1> QED
  BY <1>1, <1>2, <1>3, <1>4, <1>5, <1>6, <1>7, <1>8, <1>9, <1>10 DEF Next

----------------------------------------------------------------------------
\* Containers.

\* The files of the dataplane come together.
Grouped == "dataplane" \in stack["external"].files => DataplaneFiles \subseteq stack["external"].files

\* What was asked for runs.
Meets == /\ stack[Lane].up = "full"
         /\ \/ stack[Lane].files = ProjectFiles
            \/ MayReuse /\ DataplaneFiles \subseteq stack[Lane].files
         /\ Routed => stack[Lane].cp = wanted
         /\ External => stack[Lane].dp = local.dp
         /\ External /\ setting.source /\ setting.build # "never" =>
              stack[Lane].dp = tree["dataplane"].head
         /\ command.fresh => data[Lane] = "new"

Served == Serving /\ ~disturbed => Meets
Serves == Grouped /\ Served

LEMMA ServesCurrentFollows == Brought /\ Served => ServesCurrent
  BY DEF Brought, Served, Meets, ServesCurrent, Operating, Serving, AllReady, Ready

LEMMA ServedLane == TypeInv /\ (Serving \/ Raising) => Lane \in LaneName
<1> SUFFICES ASSUME TypeInv, Serving \/ Raising PROVE Lane \in LaneName
  OBVIOUS
<1>1. OnTrack /\ Asked
  BY CommandAsked DEF TypeInv, CommandTypes
<1>2. command.op \notin {"none", "down"}
  BY <1>1 DEF OnTrack, Track, Loading, Leaving, Serving, Raising
<1> QED
  BY <1>2, RequestAssumption
  DEF TypeInv, CommandTypes, Lane, LaneName, Askable, AskableOfStack, AskableOfLane,
      AskableOfLive, AskableOfInspect, Nothing

\* A step that changes no container but that of the tool.
Alike == \A l \in LaneName :
  /\ stack'[l].up = stack[l].up /\ stack'[l].files = stack[l].files
  /\ stack'[l].cp = stack[l].cp /\ stack'[l].dp = stack[l].dp

LEMMA ToolAlike == ASSUME TypeInv, NEW t, ToolIs(t) PROVE Alike
<1> SUFFICES ASSUME NEW l \in LaneName
             PROVE  /\ stack'[l].up = stack[l].up /\ stack'[l].files = stack[l].files
                    /\ stack'[l].cp = stack[l].cp /\ stack'[l].dp = stack[l].dp
  BY DEF Alike
<1>1. stack \in [LaneName -> Containers] /\ stack[l] \in Containers
  BY DEF TypeInv, StackTypes
<1>2. stack'[l] = stack[l] \/ stack'[l] = [stack[l] EXCEPT !.tool = t]
  BY <1>1 DEF ToolIs
<1> QED
  BY <1>1, <1>2 DEF Containers

\* A step that keeps what a stack serves.
Steadfast == /\ UNCHANGED <<setting, command, wanted, tree, data>>
             /\ local'.dp = local.dp /\ (~disturbed' => ~disturbed)
             /\ Alike

LEMMA MeetsKeeps ==
  ASSUME Meets, Steadfast, Lane \in LaneName
  PROVE  Meets'
<1>1. UNCHANGED <<Lane, Routed, External, ProjectFiles, MayReuse, DataplaneFiles>>
  BY DEF Steadfast, Lane, Routed, External, ProjectFiles, MayReuse, DataplaneFiles, SourceFiles,
     RuntimeProject, Observed, RoutedProject, PerformanceProject, StandaloneProject,
     StandaloneFiles, ControlplaneFiles
<1> QED
  BY <1>1 DEF Meets, Steadfast, Alike

LEMMA SteadfastKeeps ==
  ASSUME TypeInv, Serves, Steadfast, Unserved
  PROVE  Serves'
<1>1. Grouped'
  BY DEF Serves, Grouped, Steadfast, Alike, LaneName, DataplaneFiles, SourceFiles
<1>2. Served'
  BY ServedLane, MeetsKeeps DEF Serves, Served, Unserved, Steadfast
<1> QED
  BY <1>1, <1>2 DEF Serves

LEMMA GroupedKeeps ==
  ASSUME Grouped, UNCHANGED setting,
         stack'["external"].files \in {stack["external"].files, {}}
  PROVE  Grouped'
  BY DEF Grouped, DataplaneFiles, SourceFiles

LEMMA ProjectGrouped ==
  /\ Lane = "external" /\ "dataplane" \in ProjectFiles => DataplaneFiles \subseteq ProjectFiles
  /\ "dataplane" \in RuntimeProject("external") => DataplaneFiles \subseteq RuntimeProject("external")
  BY DEF ProjectFiles, RuntimeProject, Observed, RoutedProject, PerformanceProject, External, Lane,
     StandaloneProject, StandaloneFiles, DataplaneFiles, SourceFiles

\* Compose brings up what was asked for.
LEMMA UpServes ==
  ASSUME TypeInv, Prepares, Grouped, Up, UNCHANGED <<tree, disturbed>>
  PROVE  Serves'
<1>a. /\ Lane \in LaneName /\ stack \in [LaneName -> Containers] /\ stack[Lane] \in Containers
      /\ data \in [LaneName -> {"none", "old", "new"}]
  BY ServedLane DEF TypeInv, StackTypes, Raising, Up
<1>b. at = "up" /\ UNCHANGED <<setting, command, wanted>>
  BY StackQuiet DEF StackNext, Quiet, Up
<1>c. UNCHANGED <<Lane, Routed, External, ProjectFiles, MayReuse, DataplaneFiles>>
  BY <1>b DEF Lane, Routed, External, ProjectFiles, MayReuse, DataplaneFiles, SourceFiles,
     RuntimeProject, Observed, RoutedProject, PerformanceProject, StandaloneProject,
     StandaloneFiles, ControlplaneFiles
<1> DEFINE whole == [stack[Lane] EXCEPT !.up = "full", !.files = ProjectFiles, !.cp = wanted,
                                        !.dp = IF External THEN Prepared.dp ELSE 0]
<1>d. /\ whole.up = "full" /\ whole.files = ProjectFiles /\ whole.cp = wanted
      /\ External => whole.dp = Prepared.dp
  BY <1>a DEF Containers
<1>1. CASE local' = Prepared /\ stack' = [stack EXCEPT ![Lane] = whole] /\ data' = NewData
  <2> HIDE DEF whole
  <2>1. stack'[Lane] = whole /\ \A l \in LaneName : l # Lane => stack'[l] = stack[l]
    BY <1>1, <1>a
  <2>2. Grouped'
    <3>1. CASE Lane = "external"
      BY <1>c, <1>d, <2>1, <3>1, ProjectGrouped DEF Grouped
    <3>2. CASE Lane # "external"
      BY <1>b, <2>1, <3>2, GroupedKeeps DEF LaneName
    <3> QED
      BY <3>1, <3>2
  <2>3. External /\ setting.source /\ setting.build # "never" =>
          Prepared.dp = tree["dataplane"].head
    BY <1>b DEF Prepares, Matching, Resolving, Prepared, SourceRevision
  <2>4. command.fresh /\ ~disturbed => data'[Lane] = "new"
    <3>1. command.fresh => command.op = "up"
      <4>1. OnTrack /\ Asked
        BY CommandAsked DEF TypeInv, CommandTypes
      <4>2. command.op \notin {"none", "down", "reference"}
        BY <1>b, <4>1 DEF OnTrack, Track, Loading, Working, Leaving
      <4> QED
        BY <4>1, <4>2 DEF Asked, IsSession
    <3>2. command.fresh /\ ~disturbed => data[Lane] = "none"
      BY <1>b, <3>1 DEF Prepares, Emptied
    <3> QED
      BY <1>1, <1>a, <3>2 DEF NewData
  <2>5. ~disturbed => Meets'
    BY <1>1, <1>b, <1>c, <1>d, <2>1, <2>3, <2>4 DEF Meets
  <2> QED
    BY <2>2, <2>5 DEF Serves, Served
<1>2. CASE Fail
  <2>1. ~Serving'
    BY <1>2 DEF Fail, GotoWith, IsSession, Serving
  <2>2. CASE UNCHANGED stack
    BY <1>b, <2>1, <2>2, GroupedKeeps DEF Serves, Served
  <2>3. CASE stack' = [stack EXCEPT ![Lane].up = "some"]
    <3>1. stack'["external"] = stack["external"]
            \/ stack'["external"] = [stack["external"] EXCEPT !.up = "some"]
      BY <1>a, <2>3 DEF LaneName
    <3>2. stack["external"] \in Containers
      BY <1>a DEF LaneName
    <3>3. stack'["external"].files = stack["external"].files
      BY <3>1, <3>2 DEF Containers
    <3> QED
      BY <1>b, <2>1, <3>3, GroupedKeeps DEF Serves, Served
  <2>4. UNCHANGED stack \/ stack' = [stack EXCEPT ![Lane].up = "some"] \/ Goto("wait")
    BY DEF Up
  <2>5. ~Goto("wait")
    BY <1>2 DEF Fail, Goto, GotoWith, IsSession
  <2> QED
    BY <2>2, <2>3, <2>4, <2>5
<1> QED
  BY <1>1, <1>2 DEF Up

\* A stack that is found current serves what was asked for.
LEMMA CurrentServes ==
  ASSUME TypeInv, Grouped, Decide, UNCHANGED <<tree, disturbed>>
  PROVE  Serves'
<1>1. UNCHANGED <<setting, command, wanted, local, stack, data>>
  BY StackQuiet DEF StackNext, Quiet, Decide, Proceed, StackFails, stackVars
<1>2. Grouped'
  BY <1>1, GroupedKeeps
<1>3. CASE Reusable
  <2>1. Meets
    BY <1>3 DEF Grouped, Reusable, MayReuse, Current, Snapshot, MatchingRevision, ImageRevision,
       SourceRevision, External, Meets
  <2>2. Lane \in LaneName
    BY ServedLane DEF Decide, Raising
  <2>3. Steadfast
    BY <1>1 DEF Steadfast, Alike
  <2> QED
    BY <1>2, <2>1, <2>2, <2>3, MeetsKeeps DEF Serves, Served
<1>4. CASE ~Reusable
  <2>1. ~Serving'
    BY <1>4 DEF Decide, Proceed, StackFails, Goto, Fail, GotoWith, IsSession, Serving
  <2> QED
    BY <1>2, <2>1 DEF Serves, Served
<1> QED
  BY <1>3, <1>4

\* The fixture starts beside a stack that serves.
LEMMA FixtureServes ==
  ASSUME TypeInv, Serves, StartFixture \/ StartFastTime, UNCHANGED <<tree, disturbed>>
  PROVE  Serves'
<1>a. stack \in [LaneName -> Containers]
  BY DEF TypeInv, StackTypes
<1>1. /\ at = "fixture" /\ UNCHANGED <<setting, command, wanted, local, data>>
      /\ UNCHANGED stack \/ Started
  BY StackQuiet DEF StackNext, Quiet, StartFixture, StartFastTime, Fail, GotoWith
<1>2. Serving /\ Lane \in LaneName
  BY <1>1, ServedLane DEF Serving
<1>3. CASE UNCHANGED stack
  <2>1. Steadfast /\ Unserved
    BY <1>1, <1>2, <1>3 DEF Steadfast, Alike, Unserved
  <2> QED
    BY <2>1, SteadfastKeeps
<1>4. CASE Started
  <2> DEFINE up == IF stack[Lane].up = "none" THEN "some" ELSE stack[Lane].up
  <2>1. \A l \in LaneName : stack'[l] = IF l = Lane THEN [stack[l] EXCEPT !.up = up] ELSE stack[l]
    BY <1>a, <1>4 DEF Started
  <2>2. stack["external"] \in Containers
    BY <1>a DEF LaneName
  <2>3. stack'["external"].files = stack["external"].files
    <3> HIDE DEF up
    <3>1. stack'["external"] \in {stack["external"], [stack["external"] EXCEPT !.up = up]}
      BY <2>1 DEF LaneName
    <3> QED
      BY <2>2, <3>1 DEF Containers
  <2>4. Grouped'
    BY <1>1, <2>3, GroupedKeeps DEF Serves
  <2>5. ~disturbed => Meets'
    <3> SUFFICES ASSUME ~disturbed PROVE Meets'
      OBVIOUS
    <3>1. Meets
      BY <1>2 DEF Serves, Served
    <3>2. up = stack[Lane].up
      BY <3>1 DEF Meets
    <3> HIDE DEF up
    <3>3. Alike
      <4> SUFFICES ASSUME NEW l \in LaneName
                   PROVE  /\ stack'[l].up = stack[l].up /\ stack'[l].files = stack[l].files
                          /\ stack'[l].cp = stack[l].cp /\ stack'[l].dp = stack[l].dp
        BY DEF Alike
      <4>1. stack[l] \in Containers
        BY <1>a
      <4>2. CASE l = Lane
        <5>1. stack'[l] = [stack[l] EXCEPT !.up = up] /\ up = stack[l].up
          BY <2>1, <3>2, <4>2
        <5> QED
          BY <4>1, <5>1 DEF Containers
      <4>3. CASE l # Lane
        BY <2>1, <4>3
      <4> QED
        BY <4>2, <4>3
    <3> QED
      BY <1>1, <1>2, <3>1, <3>3, MeetsKeeps DEF Steadfast
  <2> QED
    BY <2>4, <2>5 DEF Serves, Served
<1> QED
  BY <1>1, <1>3, <1>4

\* A stack that is taken down serves nothing, and stack up does not end with one.
LEMMA SweepServes ==
  ASSUME TypeInv, Prepares, Serves, ComposeDown \/ StandaloneDown \/ RemoveByLabel
  PROVE  Serves'
<1>a. stack \in [LaneName -> Containers]
  BY DEF TypeInv, StackTypes
<1>b. /\ UNCHANGED <<setting, command>> /\ at \in {"compose down", "label"}
      /\ \/ UNCHANGED stack
         \/ \E l : Swept(l) \/ Partly(l)
  BY StackQuiet DEF StackNext, Quiet, ComposeDown, StandaloneDown, RemoveByLabel
<1>1. stack'["external"].files \in {stack["external"].files, {}}
  <2>1. stack["external"] \in Containers
    BY <1>a DEF LaneName
  <2>2. ASSUME NEW l, Swept(l) PROVE stack'["external"].files \in {stack["external"].files, {}}
    <3>1. stack'["external"] = stack["external"] \/ stack'["external"] = Down
      BY <1>a, <2>2 DEF Swept, LaneName
    <3> QED
      BY <3>1 DEF Down
  <2>3. ASSUME NEW l, Partly(l) PROVE stack'["external"].files \in {stack["external"].files, {}}
    <3>1. stack'["external"] = stack["external"]
            \/ stack'["external"] = [stack["external"] EXCEPT !.up = "some"]
      BY <1>a, <2>3 DEF Partly, LaneName
    <3> QED
      BY <2>1, <3>1 DEF Containers
  <2> QED
    BY <1>b, <2>2, <2>3
<1>2. Grouped'
  BY <1>1, <1>b, GroupedKeeps DEF Serves
<1>3. ~Serving'
  <2>1. CASE command.op # "up"
    BY <1>b, <2>1 DEF ComposeDown, StandaloneDown, RemoveByLabel, AfterSweep, Goto, GotoWith,
       Serving
  <2>2. CASE command.op = "up"
    <3>1. sweeping = <<Lane>>
      BY <1>b, <2>2 DEF Prepares, Emptied
    <3>2. Tail(sweeping) = <<>>
      BY <3>1
    <3> QED
      BY <1>b, <2>2, <3>2 DEF ComposeDown, StandaloneDown, RemoveByLabel, AfterSweep, Goto,
         GotoWith, Serving
  <2> QED
    BY <2>1, <2>2
<1> QED
  BY <1>2, <1>3 DEF Serves, Served

LEMMA StackServes ==
  ASSUME TypeInv, Prepares, Serves, StackNext, UNCHANGED <<tree, disturbed>>
  PROVE  Serves'
<1>a. ASSUME ~Serving', UNCHANGED stack PROVE Serves'
  <2>1. Grouped'
    BY <1>a, StackQuiet, GroupedKeeps DEF Serves, Quiet
  <2> QED
    BY <1>a, <2>1 DEF Serves, Served
<1> USE DEF Goto, GotoWith, Fail, StackFails, Proceed, KeepsStack, stackVars, IsSession, Serving
<1>1. CASE ValidateContract
  BY <1>1, <1>a DEF ValidateContract
<1>2. CASE DecideBuild
  BY <1>2, <1>a DEF DecideBuild
<1>3. CASE DecideStandaloneBuild
  BY <1>3, <1>a DEF DecideStandaloneBuild
<1>4. CASE PullControlplane
  BY <1>4, <1>a DEF PullControlplane, PullIfChanged
<1>5. CASE PullDataplane
  BY <1>5, <1>a DEF PullDataplane, PullIfChanged
<1>6. CASE CheckOther
  BY <1>6, <1>a DEF CheckOther, EnsureOtherStopped
<1>7. CASE StartTelemetry
  BY <1>7, <1>a DEF StartTelemetry
<1>8. CASE WaitForEndpoint
  <2>1. Serving /\ UNCHANGED <<stack, wanted, local, data>>
    BY <1>8 DEF WaitForEndpoint
  <2>2. Steadfast /\ Unserved
    BY <2>1, StackQuiet DEF Quiet, Steadfast, Alike, Unserved
  <2> QED
    BY <2>2, SteadfastKeeps
<1>9. CASE Decide
  BY <1>9, CurrentServes DEF Serves
<1>10. CASE Up
  BY <1>10, UpServes DEF Serves
<1>11. CASE StartFixture \/ StartFastTime
  BY <1>11, FixtureServes
<1>12. CASE ComposeDown \/ StandaloneDown \/ RemoveByLabel
  BY <1>12, SweepServes
<1> QED
  BY <1>1, <1>2, <1>3, <1>4, <1>5, <1>6, <1>7, <1>8, <1>9, <1>10, <1>11, <1>12 DEF StackNext

LEMMA ServesStep ==
  ASSUME TypeInv, Prepares, Serves, [Next]_vars
  PROVE  Serves'
<1>a. OnTrack /\ Asked /\ stack \in [LaneName -> Containers]
  BY CommandAsked DEF TypeInv, CommandTypes, StackTypes
<1>b. ASSUME UNCHANGED <<setting, command, tree, stackVars, disturbed>>, Unserved
      PROVE  Serves'
  BY <1>b, SteadfastKeeps DEF stackVars, Steadfast, Alike
<1>c. ASSUME UNCHANGED <<commandVars, tree, stackVars, disturbed>> PROVE Serves'
  BY <1>b, <1>c DEF commandVars, Unserved, Serving
<1>1. CASE \E r \in Request : Begin(r)
  <2>1. stack'["external"].files = stack["external"].files
    <3>1. PICK up : stack'["external"] = [stack["external"] EXCEPT !.up = up, !.tool = "none"]
      BY <1>1 DEF Begin, LaneName
    <3>2. stack["external"] \in Containers
      BY <1>a DEF LaneName
    <3> QED
      BY <3>1, <3>2 DEF Containers
  <2>2. Grouped'
    BY <1>1, <2>1, GroupedKeeps DEF Begin, Serves
  <2> QED
    BY <1>1, <2>2 DEF Begin, Serves, Served, Serving
<1>2. CASE WorkspaceNext /\ UNCHANGED <<checkoutVars, partVars, sessionVars, bounds>>
  BY <1>2, <1>a, <1>b, WorkspaceLeads, WorkspaceFlow DEF checkoutVars, partVars, sessionVars
<1>3. CASE CheckoutNext /\ UNCHANGED <<workspaceVars, partVars, sessionVars, bounds>>
  <2>1. ~Serving' /\ UNCHANGED <<setting, stack>>
    BY <1>3, <1>a, CheckoutMoves, CheckoutFlow
    DEF Fetches, Working, Serving, Unserved, partVars, stackVars
  <2>2. Grouped'
    BY <2>1, GroupedKeeps DEF Serves
  <2> QED
    BY <2>1, <2>2 DEF Serves, Served
<1>4. CASE StackNext /\ UNCHANGED <<checkoutVars, sessionVars>>
  BY <1>4, StackServes DEF checkoutVars, sessionVars
<1>5. CASE (ProbeNext \/ BecomesReady) /\ UNCHANGED <<checkoutVars, sessionVars>>
  <2>1. UNCHANGED stackVars
    BY <1>5, ProbeTypesStep DEF TypeInv, WorkTypes
  <2>2. CASE ProbeNext
    BY <1>5, <2>1, <2>2, <1>a, <1>b, ProbeQuiet, ProbeFlow DEF Quiet, checkoutVars, sessionVars
  <2>3. CASE BecomesReady
    BY <1>5, <2>1, <2>3, <1>c DEF BecomesReady, checkoutVars, sessionVars
  <2> QED
    BY <1>5, <2>2, <2>3
<1>6. CASE ToolNext /\ UNCHANGED <<checkoutVars, sessionVars>>
  <2>1. /\ UNCHANGED <<tree, wanted, data, disturbed, local>>
        /\ UNCHANGED stack \/ \E t : ToolIs(t)
    BY <1>6 DEF ToolNext, PrepareTool, ToolStarts, ToolClientReturns, ToolClientKilled, RemoveTool,
       LateCreate, Elsewhere, KeepsTool, checkoutVars, sessionVars
  <2>2. Alike
    BY <2>1, ToolAlike DEF Alike
  <2>3. Steadfast /\ Unserved
    BY <1>6, <1>a, <2>1, <2>2, ToolQuiet, ToolFlow DEF Quiet, Steadfast
  <2> QED
    BY <2>3, SteadfastKeeps
<1>7. CASE WorkloadNext /\ UNCHANGED <<checkoutVars, stackVars, sessionVars>>
  BY <1>7, <1>a, <1>b, WorkloadQuiet, WorkloadFlow DEF Quiet, checkoutVars, sessionVars
<1>8. CASE SessionNext /\ UNCHANGED checkoutVars
  <2>1. CASE Revoke
    <3>1. at' = "compose down" /\ UNCHANGED <<setting, stack>>
      BY <2>1 DEF Revoke, Goto, GotoWith
    <3>2. Grouped'
      BY <3>1, GroupedKeeps DEF Serves
    <3> QED
      BY <3>1, <3>2 DEF Serves, Served, Serving
  <2>2. CASE ~Revoke
    <3>1. UNCHANGED <<tree, stackVars, disturbed>>
      BY <1>8, <2>2 DEF SessionNext, Prepare, AdminLogin, IssueToken, StandaloneToken,
         PublishFixture, PublishFastTime, StackStays, checkoutVars, sessionVars
    <3> QED
      BY <1>8, <2>2, <3>1, <1>a, <1>b, SessionQuiet, SessionFlow DEF Quiet
  <2> QED
    BY <2>1, <2>2
<1>9. CASE Surprise
  <2>1. CASE Kill
    <3>1. at' = "killed" /\ UNCHANGED <<setting, stack>>
      BY <2>1 DEF Kill
    <3>2. Grouped'
      BY <3>1, GroupedKeeps DEF Serves
    <3> QED
      BY <3>1, <3>2 DEF Serves, Served, Serving
  <2>2. CASE Pushed
    <3>1. Steadfast /\ Unserved
      BY <2>2 DEF Pushed, Push, checkoutVars, commandVars, sessionVars, Steadfast, Alike, Unserved,
         Serving
    <3> QED
      BY <3>1, SteadfastKeeps
  <2>3. CASE OtherTerminal
    <3>1. UNCHANGED setting /\ disturbed'
      BY <2>3 DEF OtherTerminal, commandVars
    <3>2. Grouped'
      <4>1. ASSUME NEW l \in LaneName, stack' = [stack EXCEPT ![l] = Down] PROVE Grouped'
        <5>1. stack'["external"] = stack["external"] \/ stack'["external"] = Down
          BY <1>a, <4>1 DEF LaneName
        <5> QED
          BY <3>1, <5>1, GroupedKeeps DEF Down, Serves
      <4>2. ASSUME NEW l \in LaneName,
                   stack' = [stack EXCEPT ![l] = [@ EXCEPT !.up = "full", !.files = RuntimeProject(l), !.cp = published,
                                                   !.dp = IF l = "external" THEN local.dp ELSE 0]]
            PROVE  Grouped'
        <5> DEFINE whole == [stack[l] EXCEPT !.up = "full", !.files = RuntimeProject(l), !.cp = published,
                                             !.dp = IF l = "external" THEN local.dp ELSE 0]
        <5>1. whole.files = RuntimeProject(l) /\ stack' = [stack EXCEPT ![l] = whole]
          BY <1>a, <4>2 DEF Containers
        <5> HIDE DEF whole
        <5>2. stack'["external"] = IF l = "external" THEN whole ELSE stack["external"]
          BY <1>a, <5>1 DEF LaneName
        <5>3. UNCHANGED DataplaneFiles
          BY <3>1 DEF DataplaneFiles, SourceFiles
        <5> QED
          BY <3>1, <5>1, <5>2, <5>3, ProjectGrouped DEF Serves, Grouped
      <4> QED
        BY <2>3, <4>1, <4>2 DEF OtherTerminal
    <3> QED
      BY <3>1, <3>2 DEF Serves, Served
  <2>4. CASE ~Kill /\ ~Pushed /\ ~OtherTerminal
    BY <1>9, <2>4, <1>c DEF Surprise, Interrupt, commandVars, checkoutVars, partVars, stackVars,
       sessionVars
  <2> QED
    BY <2>1, <2>2, <2>3, <2>4
<1>10. CASE UNCHANGED vars
  BY <1>10, <1>c DEF vars, checkoutVars, partVars, sessionVars
<1> QED
  BY <1>1, <1>2, <1>3, <1>4, <1>5, <1>6, <1>7, <1>8, <1>9, <1>10 DEF Next

\* While a command works on its stack, and when stack up has ended well, the stack is the one that was
\* asked for, unless another terminal has changed it; for any requests, configurations and bounds
\* (resolve_build, integration_freshness, stack_up_with_project).
THEOREM SessionsServeCurrent == Spec => []ServesCurrent
<1> DEFINE Inv == TypeInv /\ CheckoutInv /\ Sources /\ Prepares /\ Serves
<1>1. Init => Inv
  <2> SUFFICES ASSUME Init PROVE Inv
    OBVIOUS
  <2>1. TypeInv /\ CheckoutInv
    BY TypeInvInit, CheckoutInvInit
  <2>2. at = "ended" /\ command.op = "none" /\ stack["external"].files = {}
    BY DEF Init, CommandInit, Nothing, StackInit, Down, LaneName
  <2>3. Sources
    BY <2>2 DEF Sources, Awaiting, Updating, Brought, Fetches, Raising, Serving, Loading, Working
  <2>4. Prepares
    BY <2>2 DEF Prepares, Matching, Emptied, Resolving
  <2>5. Serves
    BY <2>2 DEF Serves, Grouped, Served, Serving
  <2> QED
    BY <2>1, <2>3, <2>4, <2>5
<1>2. Inv /\ [Next]_vars => Inv'
  BY TypeInvStep, CheckoutInvStep, SourcesStep, PreparesStep, ServesStep
<1>3. Inv => ServesCurrent
  BY ServesCurrentFollows DEF Sources, Serves
<1> QED
  BY <1>1, <1>2, <1>3, PTL DEF Spec
=============================================================================
