-------------------------- MODULE MCConformanceRun --------------------------
(* Small instances of ConformanceRun for TLC. *)
EXTENDS ConformanceRun

Req(lanes, standalone, bless) == [lanes |-> lanes, standalone |-> standalone, bless |-> bless]

\* The default selection and the standalone one, blessing; one routed lane, comparing; no routed lane.
MatrixSelections ==
  {Req(Lane, FALSE, TRUE), Req({"external"}, TRUE, TRUE), Req({"builtin"}, FALSE, FALSE),
   Req({"direct"}, FALSE, TRUE)}

\* One routed lane, blessing.
BlessBuiltin == {Req({"builtin"}, FALSE, TRUE)}

\* What a failed cleanup may leave.
ExternalRegistration == {Registration("external")}
=============================================================================
