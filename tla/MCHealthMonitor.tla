--------------------------- MODULE MCHealthMonitor ---------------------------
(* Small instances of HealthMonitor for TLC. *)
EXTENDS HealthMonitor, TLC

OneEndpoint == <<"172.28.0.22">>
TwoEndpoints == <<"172.28.0.22", "172.28.0.23">>
FirstEndpoint == {"172.28.0.22"}
=============================================================================
