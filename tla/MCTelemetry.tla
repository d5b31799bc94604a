---------------------------- MODULE MCTelemetry ----------------------------
(* Small instances of the telemetry collector.                             *)
EXTENDS Telemetry

\* An event of the target with a recovery tail, and one of another service.
MCLogEvents ==
    {[start |-> 1, end |-> 2, tail |-> 1, label |-> "burst", target |-> "svc"],
     [start |-> 0, end |-> 3, tail |-> 0, label |-> "churn", target |-> "other"]}

=============================================================================
