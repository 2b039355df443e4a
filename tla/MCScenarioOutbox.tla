-------------------------- MODULE MCScenarioOutbox --------------------------
(* Small instances of ScenarioOutbox for TLC. *)
EXTENDS ScenarioOutbox

AllFaults == FaultKinds
=============================================================================
