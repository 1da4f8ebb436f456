-------------------------- MODULE MCServiceConflicts --------------------------
(* ServiceConflicts with every kind of fault.                              *)
EXTENDS ServiceConflicts, FiniteSets

MCFaults == {"crash", "apt", "livepatch"}

(* A history is not followed beyond its second breach.                     *)
MCBreachBound == Cardinality(breach) <= 1

=============================================================================
