----------------------------- MODULE MCCowBatch -----------------------------
(* Two transactions with two batches each, and batches of two row pages.    *)
EXTENDS CowBatch, TLC

CONSTANTS t1, t2

MCTxns == {t1, t2}
TxnSymmetry == Permutations(MCTxns)
=============================================================================
