----------------------------- MODULE MCLockFile -----------------------------
(* LockFile with two or three processes for TLC: the pids are              *)
(* interchangeable, so the safety runs use their symmetry.                 *)
EXTENDS LockFile, FiniteSets, Naturals, TLC

CONSTANTS p1, p2, p3

MCPids == {p1, p2, p3}
MCTwoPids == {p1, p2}
MCSymmetry == Permutations(MCPids)

MCBothFaults == {"crash", "interrupt"}
MCCrash == {"crash"}

MCLocking == Locking
MCDrop == {"detach", "auto-attach"}
MCAll == Locking \union Reporting

(* Once the lock is breached only the types are still spoken of: such a    *)
(* history is not followed beyond its third breach.                        *)
MCBreachBound == breach \intersect LockBreaches = {} \/ Cardinality(breach) <= 2

=============================================================================
