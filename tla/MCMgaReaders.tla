---------------------------- MODULE MCMgaReaders ----------------------------
(* Three numbers: an older writer, a reader and a newer writer.             *)
EXTENDS MgaReaders
=============================================================================
