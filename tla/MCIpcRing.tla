------------------------------ MODULE MCIpcRing ------------------------------
(* Two slots, so that they are used again, and an arena for three payloads, *)
(* in which a larger one may find room only in the sum of the holes.        *)
EXTENDS IpcRing
=============================================================================
