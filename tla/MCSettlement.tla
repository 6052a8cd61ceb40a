---------------------------- MODULE MCSettlement ----------------------------
(* TLC instances of Settlement: which configurations a run explores.             *)
EXTENDS Settlement

(* Configurations that exist: Redis carries no schema-version header.            *)
Real(c) == c.transport = "redis" => \A m \in Messages : c.class[m] # "gated"
AllConfigs == {c \in Config : Real(c)}
=============================================================================
