------------------------------ MODULE Checkout ------------------------------
(***************************************************************************)
(* The source checkouts: what CheckoutManager::ensure does to each source a *)
(* command needs, one Git command or rename a step.  A checkout inside the  *)
(* integration directory is generated and may be replaced; any other is the *)
(* user's worktree.                                                         *)
(***************************************************************************)
EXTENDS Workspace

CONSTANTS Source, MaxRevision
ASSUME RevisionAssumption == MaxRevision \in Nat \ {0}
\* The two repositories a command builds from.
ASSUME SourceAssumption == {"controlplane", "dataplane"} \subseteq Source

VARIABLES
  upstream,   \* newest revision of each repository
  tree,       \* the checkout directory
  beside,     \* next to it while it is replaced: is there a fresh clone, and the old checkout
  queue       \* sources this command still has to bring up to date

checkoutVars == <<upstream, tree, beside, queue>>

\* A directory without a ".git" is absent; one whose clone was killed has no commit yet.
Absent    == [origin |-> "absent", fetched |-> 0, head |-> 0]
Cloned(s) == [origin |-> "configured", fetched |-> upstream[s], head |-> upstream[s]]
Killed    == {[origin |-> o, fetched |-> 0, head |-> 0] : o \in {"none", "configured"}}
Whole(t)  == t.origin = "configured" /\ t.head > 0
Alone     == [fresh |-> FALSE, old |-> Absent]

\* Main of the control plane is ahead of its published images and of the checkout.
CheckoutInit ==
  /\ upstream = [s \in Source |-> IF s = "controlplane" THEN MaxRevision ELSE 1]
  /\ \E t \in {Absent} \cup [origin : {"configured", "other"}, fetched : {1}, head : {1}] :
       tree = [s \in Source |-> t]
  /\ beside = [s \in Source |-> Alone]
  /\ queue = <<>>

\* An empty dataplane ref disables the dataplane checkout.
Needed(r) ==
  (IF r.standalone THEN <<>> ELSE <<"controlplane">>)
    \o (IF r.lane = "external" /\ setting.source THEN <<"dataplane">> ELSE <<>>)

src == Head(queue)

\* The step after s is up to date.
NextSource == /\ queue' = Tail(queue)
              /\ Goto(IF Tail(queue) = <<>> THEN SourcesReady ELSE "clone")

\* ensure returns its error; the sources after it are not looked at.
CheckoutFails == Fail /\ queue' = <<>>

Clone ==
  /\ at = "clone"
  /\ \/ tree[src].origin # "absent" /\ Goto("origin") /\ UNCHANGED <<tree, queue>>
     \/ /\ tree[src].origin = "absent"
        /\ \/ tree' = [tree EXCEPT ![src] = Cloned(src)] /\ Goto("origin") /\ UNCHANGED queue
           \/ CheckoutFails /\ UNCHANGED tree
  /\ UNCHANGED <<upstream, beside>>

\* A foreign origin replaces a generated checkout and is an error for any other.
CheckOrigin ==
  /\ at = "origin"
  /\ \/ tree[src].origin = "configured" /\ Goto("fetch") /\ UNCHANGED queue
     \/ tree[src].origin # "configured" /\ setting.generated /\ Goto("stage") /\ UNCHANGED queue
     \/ tree[src].origin # "configured" /\ ~setting.generated /\ CheckoutFails
  /\ UNCHANGED <<upstream, tree, beside>>

\* A failed clone is removed.
Stage ==
  /\ at = "stage"
  /\ \/ Goto("away") /\ beside' = [beside EXCEPT ![src].fresh = TRUE] /\ UNCHANGED queue
     \/ CheckoutFails /\ UNCHANGED beside
  /\ UNCHANGED <<upstream, tree>>

MoveAway ==
  /\ at = "away"
  /\ \/ /\ Goto("install")
        /\ tree' = [tree EXCEPT ![src] = Absent]
        /\ beside' = [beside EXCEPT ![src].old = tree[src]]
        /\ UNCHANGED queue
     \/ /\ CheckoutFails
        /\ beside' = [beside EXCEPT ![src].fresh = FALSE]
        /\ UNCHANGED tree
  /\ UNCHANGED upstream

\* The mistake of cleaning up both when the new checkout cannot take its place.
BugInstall ==
  /\ at = "install"
  /\ \/ /\ Goto("drop")
        /\ tree' = [tree EXCEPT ![src] = Cloned(src)]
        /\ beside' = [beside EXCEPT ![src].fresh = FALSE]
        /\ UNCHANGED queue
     \/ CheckoutFails /\ beside' = [beside EXCEPT ![src] = Alone] /\ UNCHANGED tree
  /\ UNCHANGED upstream

\* The old checkout comes back when the new one cannot take its place; when it cannot come
\* back either, both stay beside it.
Install ==
  /\ at = "install"
  /\ \/ /\ Goto("drop")
        /\ tree' = [tree EXCEPT ![src] = Cloned(src)]
        /\ beside' = [beside EXCEPT ![src].fresh = FALSE]
        /\ UNCHANGED queue
     \/ /\ CheckoutFails
        /\ tree' = [tree EXCEPT ![src] = beside[src].old]
        /\ beside' = [beside EXCEPT ![src] = Alone]
     \/ CheckoutFails /\ UNCHANGED <<tree, beside>>
  /\ UNCHANGED upstream

\* An old checkout that cannot be removed entirely is an error all the same.
DropOld ==
  /\ at = "drop"
  /\ beside' = [beside EXCEPT ![src].old = Absent]
  /\ \/ Goto("fetch") /\ UNCHANGED queue
     \/ CheckoutFails
  /\ UNCHANGED <<upstream, tree>>

Fetch ==
  /\ at = "fetch"
  /\ \/ /\ Goto("switch") /\ tree' = [tree EXCEPT ![src].fetched = upstream[src]]
        /\ UNCHANGED queue
     \/ CheckoutFails /\ UNCHANGED tree
  /\ UNCHANGED <<upstream, beside>>

\* A generated checkout is reset, which needs a commit, and moved to what was fetched.  In the
\* user's worktree the branch is only checked out: one that exists stays where it is.
Switch ==
  /\ at = "switch"
  /\ \/ /\ setting.generated => tree[src].head > 0
        /\ tree' = [tree EXCEPT ![src].head =
                      IF setting.generated \/ @ = 0 THEN tree[src].fetched ELSE @]
        /\ NextSource
     \/ CheckoutFails /\ UNCHANGED tree
  /\ UNCHANGED <<upstream, beside>>

CheckoutNext == \/ Clone \/ CheckOrigin \/ Stage \/ MoveAway \/ Install
                \/ DropOld \/ Fetch \/ Switch

\* A kill in the middle of a clone leaves an unfinished directory; one during a replacement
\* leaves what lies beside the checkout, under names no later command looks at.
CheckoutKilled ==
  /\ \/ /\ at = "clone" /\ tree[src].origin = "absent"
        /\ \E t \in Killed : tree' = [tree EXCEPT ![src] = t]
     \/ UNCHANGED tree
  /\ beside' = [s \in Source |-> [beside[s] EXCEPT !.fresh = FALSE]]
  /\ queue' = <<>>
  /\ UNCHANGED upstream

Push(s) ==
  /\ upstream[s] < MaxRevision
  /\ upstream' = [upstream EXCEPT ![s] = @ + 1]
  /\ UNCHANGED <<tree, beside, queue>>
=============================================================================
