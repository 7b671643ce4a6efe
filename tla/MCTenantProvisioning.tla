------------------------ MODULE MCTenantProvisioning ------------------------
(* The database each tenant code names: acme and ACME name the same. *)
EXTENDS TenantProvisioning, TLC

CONSTANTS acme, ACME, beta, db_acme, db_beta

MCDbName == [c \in Codes |-> IF c = beta THEN db_beta ELSE db_acme]

=============================================================================
