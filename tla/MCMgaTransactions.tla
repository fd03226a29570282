------------------------- MODULE MCMgaTransactions -------------------------
(* Three numbers and two commits.                                          *)
EXTENDS MgaTransactions
=============================================================================
