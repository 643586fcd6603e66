--------------------------- MODULE BaselineStore ---------------------------
(***************************************************************************)
(* What replacing the baselines promises: the tree is replaced as a whole  *)
(* or not at all.  The tree may be withdrawn on the way; a withdrawn tree  *)
(* is put back whole, is replaced whole by one with the selection          *)
(* rewritten, or, once its command has ended, is abandoned.                *)
(***************************************************************************)
EXTENDS Naturals, Sequences

CONSTANTS Path, Selections, MaxRuns

VARIABLES
  tree,       \* the baseline files
  present,    \* whether they can be found at the baseline root
  command,    \* the number of the command
  selection   \* the set of paths it rewrites

vars == <<tree, present, command, selection>>

Rewritten == {f \in tree : f[1] \notin selection} \cup (selection \X {command})

Init ==
  /\ present \in BOOLEAN
  /\ \E checkedIn \in SUBSET Path : tree = checkedIn \X {0}
  /\ ~present => tree = {}
  /\ command = 0
  /\ selection = {}

\* The next command starts; a tree that was left withdrawn is not found again.
Start ==
  /\ command' = command + 1
  /\ \E list \in Selections : selection' = {list[i] : i \in 1..Len(list)}
  /\ tree' = IF present THEN tree ELSE {}
  /\ UNCHANGED present

Withdraw == present /\ present' = FALSE /\ UNCHANGED <<tree, command, selection>>
PutBack  == ~present /\ present' = TRUE /\ UNCHANGED <<tree, command, selection>>
Replace  == ~present /\ present' = TRUE /\ tree' = Rewritten /\ UNCHANGED <<command, selection>>

Next == Start \/ Withdraw \/ PutBack \/ Replace

Spec == Init /\ [][Next]_vars
=============================================================================
