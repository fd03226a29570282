----------------------- MODULE MCInventoryPublication -----------------------
(* Two callers that race load against publish, two inventory pages.         *)
EXTENDS InventoryPublication, TLC

CONSTANTS c1, c2

MCCallers == {c1, c2}
MCSyncPolicies == {"batched", "per_page"}
MCBatched == {"batched"}
CallerSymmetry == Permutations(MCCallers)
=============================================================================
