---------------------------- MODULE MCConnection ----------------------------
(***************************************************************************)
(* Connection with two targets on different hosts.                         *)
(***************************************************************************)
EXTENDS Connection

MCTargets == {"dev", "prod"}
MCHosts == {"a.databricks.com", "b.databricks.com"}
MCHostOf == [t \in MCTargets |-> IF t = "dev" THEN "a.databricks.com" ELSE "b.databricks.com"]

=============================================================================
