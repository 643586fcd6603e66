------------------------ MODULE MCFixtureProvision ------------------------
(* Small instances of FixtureProvision for TLC. *)
EXTENDS FixtureProvision
=============================================================================
