----------------------------- MODULE MCFyreRun -----------------------------
(* Small instances of FyreRun for TLC. *)
EXTENDS FyreRun
=============================================================================
