-------------------------- MODULE MCRepoEntitlement --------------------------
(* RepoEntitlement with two repository urls and every kind of service.     *)
EXTENDS RepoEntitlement, FiniteSets

CONSTANTS u1, u2

MCUrls == {u1, u2}
MCPins == {"none", "never", "priority"}
MCFaults == {"crash", "apt", "server"}

(* A history is not followed beyond its second breach.                     *)
MCBreachBound == Cardinality(breach) <= 1

=============================================================================
