--------------------------- MODULE MCRecoverySweep ---------------------------
(* Every loadable inventory of three entries and two commit sequence numbers. *)
EXTENDS RecoverySweep
=============================================================================
