------------------------- MODULE MCTransactionLocks -------------------------
(* Three transactions and two resources: an open table, one that admits no  *)
(* new wait and one with a single lock and a single wait.                   *)
EXTENDS TransactionLocks, TLC

CONSTANTS t1, t2, t3, r1, r2

MCTxns == {t1, t2, t3}
MCResources == {r1, r2}

Open == [accepting |-> TRUE, maxHeldLocks |-> 0, maxWaiters |-> 0]
Closed == [Open EXCEPT !.accepting = FALSE]
Tight == [Open EXCEPT !.maxHeldLocks = 1, !.maxWaiters = 1]

MCPolicies == {Open, Closed, Tight}

LockSymmetry == Permutations(MCTxns) \cup Permutations(MCResources)
=============================================================================
