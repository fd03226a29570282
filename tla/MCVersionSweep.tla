---------------------------- MODULE MCVersionSweep ----------------------------
(* One row; three transactions are enough for a deleting transaction with a  *)
(* lower number than the inserting one beside a reader, and four versions    *)
(* for an undone one above, and one below, what a reader needs.              *)
EXTENDS VersionSweep
=============================================================================
