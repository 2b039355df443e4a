--------------------------- MODULE MCBrokerUsers ---------------------------
(* Small instances of BrokerUsers for TLC. *)
EXTENDS BrokerUsers

AllFaults == FaultKinds
=============================================================================
