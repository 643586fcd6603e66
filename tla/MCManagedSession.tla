-------------------------- MODULE MCManagedSession --------------------------
(* Every kind of command on the lanes it knows, under four configurations.      *)
EXTENDS ManagedSession

MCSource == {"controlplane", "dataplane"}

Ask(op, lane, standalone, withTelemetry, fresh) ==
  [op |-> op, lane |-> lane, standalone |-> standalone, telemetry |-> withTelemetry, fresh |-> fresh]

MCRequest ==
  {Ask("up", "external", FALSE, TRUE, FALSE), Ask("up", "external", FALSE, TRUE, TRUE),
   Ask("up", "builtin", FALSE, TRUE, FALSE), Ask("up", "external", TRUE, TRUE, TRUE),
   Ask("down", "all", FALSE, FALSE, TRUE), Ask("down", "external", TRUE, FALSE, FALSE),
   Ask("probe", "external", FALSE, TRUE, FALSE), Ask("probe", "external", TRUE, TRUE, FALSE),
   Ask("inspect", "external", FALSE, TRUE, FALSE),
   Ask("load", "builtin", FALSE, FALSE, FALSE), Ask("load", "external", FALSE, FALSE, FALSE),
   Ask("load", "external", TRUE, TRUE, FALSE), Ask("reference", "builtin", FALSE, TRUE, FALSE),
   Ask("live", "external", FALSE, TRUE, FALSE)}

With(generated, source, repository, given, path, building, pull) ==
  [generated |-> generated, source |-> source, repository |-> repository, given |-> given,
   path |-> path, build |-> building, pull |-> pull]

MCSetting == {With(TRUE, TRUE, FALSE, FALSE, FALSE, "auto", "always"),
              With(FALSE, FALSE, TRUE, TRUE, FALSE, "never", "never"),
              With(FALSE, FALSE, TRUE, FALSE, FALSE, "always", "always"),
              With(TRUE, FALSE, TRUE, TRUE, TRUE, "auto", "always")}
=============================================================================
